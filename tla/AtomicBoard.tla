----------------------------- MODULE AtomicBoard -----------------------------
(***************************************************************************)
(* What the board promises its callers: every move happens in one step,    *)
(* on the status the task has at that step, along a legal edge unless it   *)
(* is forced, into a column that still has room unless the caller bypassed *)
(* the cap, and it leaves exactly one row in the audit trail.              *)
(*                                                                         *)
(* BoardWorkflow, which models the code step by step, implements this      *)
(* specification; the modules about the callers use its Move as a step.    *)
(***************************************************************************)
EXTENDS BoardRules, Naturals, FiniteSets

CONSTANTS
  Tasks,          \* the tasks of the board
  Sessions,       \* agent sessions that may own a task
  NoSession,      \* the SQL NULL of tasks.agent_session
  Cap,            \* WIP cap of each capped column
  PerSessionWip,  \* workflow_policy.per_session_wip
  CallModes,      \* the ways callers of this instance ask for a move
  Targets         \* the statuses they ask for

ASSUME BoardAssumption ==
  /\ IsFiniteSet(Tasks)
  /\ NoSession \notin Sessions
  /\ Cap \in [WipColumns -> Nat]
  /\ PerSessionWip \in BOOLEAN
  /\ CallModes \subseteq Modes
  /\ Targets \subseteq Status

VARIABLES
  rows,   \* the committed rows of the tasks table
  hist    \* the last committed row of task_status_history, per task

boardVars == <<rows, hist>>

Owner == Sessions \cup {NoSession}

Row == [status : Status, owner : Owner, ready : BOOLEAN]

(* The row "created" has no old status. *)
HistRow == [old : Status \cup {""}, new : Status]

BoardTypeOK ==
  /\ rows \in [Tasks -> Row]
  /\ hist \in [Tasks -> HistRow]

-------------------------------------------------------------------------------

(* The tasks check_wip counts for a move of session s into column c. *)
Counted(c, s) ==
  IF c = "in_progress" /\ PerSessionWip /\ s # NoSession
    THEN {t \in Tasks : rows[t].status = c /\ rows[t].owner = s}
    ELSE {t \in Tasks : rows[t].status = c}

HasRoomOffByOne(c, s) ==
  c \in WipColumns => Cardinality(Counted(c, s)) <= Cap[c]

HasRoom(c, s) ==
  c \in WipColumns => Cardinality(Counted(c, s)) < Cap[c]

RecordUnaudited(t, from, to, s) ==
  /\ rows' = [rows EXCEPT ![t] = [@ EXCEPT !.status = to, !.owner = s]]
  /\ hist' = hist

(* The UPDATE of tasks and the INSERT into task_status_history that one    *)
(* committed transition performs.                                          *)
Record(t, from, to, s) ==
  /\ rows' = [rows EXCEPT ![t] = [@ EXCEPT !.status = to, !.owner = s]]
  /\ hist' = [hist EXCEPT ![t] = [old |-> from, new |-> to]]

Allowed(t, to, s, mode) ==
  /\ to # rows[t].status
  /\ SkipsEdges(mode) \/ <<rows[t].status, to>> \in Edges
  /\ (IsPull(rows[t].status, to) /\ ~SkipsGates(mode)) => rows[t].ready
  /\ SkipsWip(mode) \/ HasRoom(to, s)

Move(t, to, s, mode) ==
  Allowed(t, to, s, mode) /\ Record(t, rows[t].status, to, s)

(* cos_task_create leaves a task in the backlog, labelled or not. *)
BoardInit ==
  /\ rows \in [Tasks -> [status : {"icebox"}, owner : {NoSession}, ready : BOOLEAN]]
  /\ hist = [t \in Tasks |-> [old |-> "", new |-> "icebox"]]

BoardNext ==
  \E t \in Tasks, to \in Targets, s \in Owner, mode \in CallModes : Move(t, to, s, mode)

BoardSpec == BoardInit /\ [][BoardNext]_boardVars

-------------------------------------------------------------------------------

(* The tasks a cap of column c counts for owner s, as the board promises   *)
(* it: a session's own focus cap, or the board-wide cap of the column.     *)
CapOK(c, s) == Cardinality(Counted(c, s)) <= Cap[c]

(* No capped column ever holds more than its cap when no caller bypasses   *)
(* it: per session for in_progress when the policy says so, board-wide for *)
(* testing and emergency (the count and the UPDATE of transition() share   *)
(* the write lock).                                                        *)
WipRespected ==
  \A c \in WipColumns :
    IF c = "in_progress" /\ PerSessionWip
      THEN \A s \in Sessions : CapOK(c, s)
      ELSE CapOK(c, NoSession)

(* The audit trail tells the task's story without a gap: its last row ends *)
(* at the status the task has, and each new row starts where the previous  *)
(* one ended. A lost update between two callers would break the chain that *)
(* the compare-and-swap of transition() protects.                          *)
AuditEndsAtStatus == \A t \in Tasks : hist[t].new = rows[t].status

AuditChain == [][\A t \in Tasks : hist'[t] # hist[t] => hist'[t].old = hist[t].new]_hist

===============================================================================
