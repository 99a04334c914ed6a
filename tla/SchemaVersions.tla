---------------------------- MODULE SchemaVersions ----------------------------
(***************************************************************************)
(* What the migration ledger promises every process that opens the         *)
(* database: at any moment the committed schema is exactly that of the     *)
(* recorded version, and it changes only by moving, whole, to the latest   *)
(* version of some release that is above it.                               *)
(***************************************************************************)
EXTENDS Naturals

CONSTANTS
  Releases,          \* the latest versions of the releases in use
  Last,              \* the length of the ledger
  SearchVersions,    \* the versions whose effect depends on the build
  Replay(_, _)       \* the schema of a version, by the builds that applied it

VARIABLES
  version,    \* MAX(version) of schema_version
  plain,      \* the recorded versions that a build without FTS5 applied
  schema      \* the committed schema

versionVars == <<version, plain, schema>>

ToDo(from, to) == (from + 1)..to

VersionsInit ==
  /\ version \in 0..Last
  /\ plain \in SUBSET (SearchVersions \cap 1..version)
  /\ schema = Replay(version, plain)

Upgrade(to, fts5) ==
  /\ to > version
  /\ version' = to
  /\ plain' = plain \cup (IF fts5 THEN {} ELSE SearchVersions \cap ToDo(version, to))
  /\ schema' = Replay(to, plain')

VersionsNext == \E to \in Releases, fts5 \in BOOLEAN : Upgrade(to, fts5)

VersionsSpec == VersionsInit /\ [][VersionsNext]_versionVars

===============================================================================
