---------------------------- MODULE MCBoardCascade ----------------------------
(* Small instances of BoardCascade for TLC. *)
EXTENDS BoardCascade, TLC

CONSTANTS t1, t2, t3, t4, c1, c2

WideCap == [c \in WipColumns |-> 2]

(* t3 waits for both prerequisites, t4 for one; callers move t4 too. *)
TwoDeps == [t \in Tasks |-> CASE t = t3 -> {t1, t2} [] t = t4 -> {t1} [] OTHER -> {}]

===============================================================================
