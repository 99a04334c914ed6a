---------------------------- MODULE MCBoardReclaim ----------------------------
(* Small instances of BoardReclaim for TLC. *)
EXTENDS BoardReclaim, TLC

CONSTANTS t1, t2, s1, sys, r1

FocusCap == [c \in WipColumns |-> 1]
NoDeps == [t \in Tasks |-> {}]
SameWeight == [t \in Tasks |-> 50]

===============================================================================
