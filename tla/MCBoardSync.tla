----------------------------- MODULE MCBoardSync -----------------------------
(* Small instances of BoardSync for TLC. *)
EXTENDS BoardSync, TLC

CONSTANTS a1, a2, y1

AnyPair == [Agents -> Jobs]

===============================================================================
