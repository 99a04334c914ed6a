------------------------------ MODULE MCTaskIds ------------------------------
(* Small instances of TaskIds for TLC. *)
EXTENDS TaskIds, TLC

CONSTANTS c1, c2, p1, sa, sb, old

(* The two creators were given different titles. *)
OwnSlugs == [c \in Creators |-> IF c = c1 THEN sa ELSE sb]

===============================================================================
