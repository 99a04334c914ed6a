-------------------------- MODULE MCSchemaMigration --------------------------
(* Small instances of SchemaMigration for TLC. *)
EXTENDS SchemaMigration

CONSTANTS new, bare, old

(* Two installations of the last release, one of them on a Python whose    *)
(* SQLite lacks FTS5, and one of an earlier release.                       *)
Mixed == [o \in Openers |-> IF o = old THEN 48 ELSE Last]

===============================================================================
