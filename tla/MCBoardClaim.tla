----------------------------- MODULE MCBoardClaim -----------------------------
(* Small instances of BoardClaim for TLC. *)
EXTENDS BoardClaim, TLC

CONSTANTS t1, t2, t3, t4, s1, s2

FocusCap == [c \in WipColumns |-> IF c = "in_progress" THEN 1 ELSE 2]

(* t3 waits for t1; it is the most urgent task, the others tie. *)
OneDep == [t \in Tasks |-> IF t = t3 THEN {t1} ELSE {}]
Weights == [t \in Tasks |-> IF t = t3 THEN 100 ELSE 50]

===============================================================================
