--------------------------- MODULE MCCapacityBreaker ---------------------------
(* Small instances of CapacityBreaker for TLC. *)
EXTENDS CapacityBreaker
===============================================================================
