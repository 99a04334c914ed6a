------------------------------ MODULE BoardRules ------------------------------
(***************************************************************************)
(* The static rules of the Scrumban board: its statuses, the edges a move  *)
(* may take without force, the columns with a cap, and what each way of    *)
(* calling a move is exempt from.                                          *)
(***************************************************************************)

Status == {"icebox", "emergency", "in_progress", "testing",
           "complete", "blocked", "archive"}

Edges == {<<"icebox", "in_progress">>,   <<"icebox", "emergency">>,
          <<"icebox", "archive">>,       <<"emergency", "in_progress">>,
          <<"emergency", "icebox">>,     <<"in_progress", "testing">>,
          <<"in_progress", "blocked">>,  <<"in_progress", "icebox">>,
          <<"in_progress", "emergency">>,<<"in_progress", "complete">>,
          <<"testing", "complete">>,     <<"testing", "in_progress">>,
          <<"testing", "blocked">>,      <<"complete", "archive">>,
          <<"blocked", "in_progress">>,  <<"blocked", "emergency">>,
          <<"blocked", "icebox">>,       <<"archive", "icebox">>,
          <<"archive", "complete">>}

WipColumns == {"in_progress", "testing", "emergency"}

(* The only edge the ready-label gate and the dependency gate guard. *)
IsPull(from, to) == from = "icebox" /\ to = "in_progress"

(* Moves into these statuses also have the task's body checked (DoR, DoD). *)
BodyGated == {"in_progress", "complete"}

(* How a move is asked for; force turns both bypass flags on. *)
Modes == {"plain", "bypass_wip", "bypass_gates", "force"}

SkipsWip(mode)   == mode \in {"bypass_wip", "force"}
SkipsGates(mode) == mode \in {"bypass_gates", "force"}
SkipsEdges(mode) == mode = "force"

===============================================================================
