---------------------------- MODULE MCGraphReindex ----------------------------
(* Small instances of GraphReindex for TLC. *)
EXTENDS GraphReindex

CONSTANTS caller, callee, base, m, n

(* Each of two files calls the other, and renames what the other calls. *)
Mutual ==
  [f \in Files |->
     IF f = caller THEN {[defs |-> {m}, calls |-> {<<callee, m>>}],
                         [defs |-> {n}, calls |-> {<<callee, m>>}]}
     ELSE {[defs |-> {m}, calls |-> {<<caller, m>>}], [defs |-> {n}, calls |-> {}], Gone}]

(* rm, and a checkout of both. *)
MutualCommands ==
  {callee :> Gone, [f \in Files |-> CHOOSE c \in Mutual[f] : c # Gone /\ m \in c.defs]}

(* A file calls one that calls a third, and the last two rename together. *)
Chain ==
  [f \in Files |->
     CASE f = caller -> {[defs |-> {}, calls |-> {<<callee, m>>}]}
       [] f = callee -> {[defs |-> {x}, calls |-> {<<base, x>>}] : x \in Names}
       [] f = base -> {[defs |-> {x}, calls |-> {}] : x \in Names}]

===============================================================================
