--------------------------- MODULE MCBoardWorkflow ---------------------------
(* Small instances of BoardWorkflow for TLC. *)
EXTENDS BoardWorkflow, TLC

CONSTANTS t1, t2, s1, s2, d1, d2

(* Caps of one: the second task of a column already meets its limit. *)
TightCap == [c \in WipColumns |-> 1]

NoDeps == [t \in Tasks |-> {}]

(* t2 waits for t1, which is never complete here: pulling t2 takes bypass_gates. *)
OneDep == [t \in Tasks |-> IF t = t2 THEN {t1} ELSE {}]

AllSymmetry == Permutations(Doors) \cup Permutations(Sessions)

===============================================================================
