----------------------------- MODULE BoardCascade -----------------------------
(***************************************************************************)
(* The completion cascade: after a move to complete has committed,         *)
(* cos_task_move walks the dependents of the completed task and labels     *)
(* ready those whose prerequisites are now all complete, taking a blocked  *)
(* one back to icebox first. The walk is not part of the transaction of    *)
(* the move, and each dependent is looked at, judged, unblocked and        *)
(* labelled in separate steps while other callers move tasks.              *)
(*                                                                         *)
(* cos_task_reposition (the Hub's drag and drop) moves a task with         *)
(* transition() too, and walks nothing.                                    *)
(***************************************************************************)
EXTENDS AtomicBoard

CONSTANTS
  NoTask,      \* no dependent at hand
  Deps,        \* depends_on of each task
  Authored,    \* tasks whose body passes the Definition of Ready
  Callers,     \* concurrent sessions
  Movable,     \* the tasks callers move
  MayFail      \* whether steps of a cascade may fail or raise, and callers die

ASSUME CascadeAssumption ==
  /\ NoTask \notin Tasks
  /\ Deps \in [Tasks -> SUBSET Tasks]
  /\ Authored \subseteq Tasks
  /\ Callers \subseteq Sessions
  /\ Movable \subseteq Tasks
  /\ MayFail \in BOOLEAN

VARIABLES
  walk,   \* each caller's cascade: its phase, dependents left, current one
  lost    \* dependents nobody has judged again since a drag completed their
          \* prerequisite, a walk was cut short before them, or their unblocking
          \* or labelling failed (a ghost, no code keeps it)

cascadeVars == <<rows, hist, walk, lost>>

BacklogAnyOpen == Status \ {"complete", "archive"}

(* Only backlog cards are cascade targets. *)
Backlog == {"icebox", "blocked"}

Idle == [phase |-> "idle", left |-> {}, task |-> NoTask, seen |-> "icebox"]

CascadeTypeOK ==
  /\ BoardTypeOK
  /\ walk \in [Callers -> [phase : {"idle", "next", "judge", "unblock", "label"},
                           left : SUBSET Tasks, task : Tasks \cup {NoTask},
                           seen : {"icebox", "blocked"}]]
  /\ lost \subseteq Tasks

DepsComplete(t) == \A u \in Deps[t] : rows[u].status = "complete"

(* A task that waits for another was filed in icebox, or blocked since. *)
CascadeInit ==
  /\ rows \in [Tasks -> [status : {"icebox", "blocked"}, owner : {NoSession},
                         ready : BOOLEAN]]
  /\ \A t \in Tasks : Deps[t] = {} => rows[t].status = "icebox"
  /\ hist = [t \in Tasks |-> [old |-> "", new |-> rows[t].status]]
  /\ walk = [c \in Callers |-> Idle]
  /\ lost = {}

-------------------------------------------------------------------------------

(* A task changes status by one transition (BoardWorkflow shows it to be   *)
(* one step); a pull also needs its prerequisites complete.                *)
Moved(c, t, to) ==
  /\ IsPull(rows[t].status, to) => DepsComplete(t)
  /\ Move(t, to, c, "plain")

DependentsNotBlocked(t) == {u \in Tasks : t \in Deps[u] /\ rows[u].status = "icebox"}

(* dependents_of *)
Dependents(t) == {u \in Tasks : t \in Deps[u]}

(* cos_task_move *)
CallMove(c) ==
  /\ walk[c].phase = "idle"
  /\ \E t \in Movable, to \in Targets :
       /\ Moved(c, t, to)
       /\ walk' = IF to = "complete"
                    THEN [walk EXCEPT ![c].phase = "next", ![c].left = Dependents(t)]
                    ELSE walk
  /\ UNCHANGED lost

(* cos_task_reposition *)
Drag(c) ==
  /\ walk[c].phase = "idle"
  /\ \E t \in Movable, to \in Targets :
       /\ Moved(c, t, to)
       /\ lost' = IF to = "complete" THEN lost \cup Dependents(t) ELSE lost
  /\ UNCHANGED walk

(* On to the next dependent. *)
NextOne(c) == [Idle EXCEPT !.phase = "next", !.left = walk[c].left \ {walk[c].task}]

(* The dependent's row: an active card, or a ready one, is passed over. *)
Look(c) ==
  /\ walk[c].phase = "next"
  /\ \E u \in walk[c].left :
       walk' = [walk EXCEPT ![c] =
         IF rows[u].status \in Backlog /\ ~rows[u].ready
           THEN [@ EXCEPT !.phase = "judge", !.task = u, !.seen = rows[u].status]
           ELSE [@ EXCEPT !.left = walk[c].left \ {u}]]
  /\ UNCHANGED <<rows, hist, lost>>

RunnableStub(u) == DepsComplete(u)

(* No prerequisite open, and a body without a Definition-of-Ready gap. *)
Runnable(u) == DepsComplete(u) /\ u \in Authored

Judge(c) ==
  LET u == walk[c].task IN
  /\ walk[c].phase = "judge"
  /\ walk' = [walk EXCEPT ![c] =
       IF ~Runnable(u)                 THEN NextOne(c)
       ELSE IF walk[c].seen = "blocked" THEN [@ EXCEPT !.phase = "unblock"]
       ELSE [@ EXCEPT !.phase = "label"]]
  /\ lost' = lost \ {u}
  /\ UNCHANGED boardVars

(* A step that fails is reported and passed over: the walk goes on with    *)
(* the next dependent.                                                     *)
PassOver(c) ==
  /\ MayFail
  /\ walk' = [walk EXCEPT ![c] = NextOne(c)]
  /\ lost' = lost \cup {walk[c].task}
  /\ UNCHANGED boardVars

(* cos_task_move(to="icebox"), on the status the dependent has by now: a   *)
(* no-op succeeds, a missing edge leaves the dependent out, and so does a  *)
(* busy lock, a peer that won or a file that cannot be written.            *)
Unblock(c) ==
  LET u == walk[c].task IN
  /\ walk[c].phase = "unblock"
  /\ \/ /\ Move(u, "icebox", c, "plain")
        /\ walk' = [walk EXCEPT ![c].phase = "label"]
        /\ UNCHANGED lost
     \/ /\ rows[u].status = "icebox"
        /\ walk' = [walk EXCEPT ![c].phase = "label"]
        /\ UNCHANGED <<rows, hist, lost>>
     \/ /\ rows[u].status # "icebox" /\ <<rows[u].status, "icebox">> \notin Edges
        /\ walk' = [walk EXCEPT ![c] = NextOne(c)]
        /\ UNCHANGED <<rows, hist, lost>>
     \/ PassOver(c)

(* cos_task_ready, whatever the dependent's status is by now; the file may *)
(* refuse the patch, or strict mode the label.                             *)
Label(c) ==
  /\ walk[c].phase = "label"
  /\ \/ /\ rows' = [rows EXCEPT ![walk[c].task].ready = TRUE]
        /\ walk' = [walk EXCEPT ![c] = NextOne(c)]
        /\ UNCHANGED <<hist, lost>>
     \/ PassOver(c)

WalkEnds(c) ==
  /\ walk[c].phase = "next" /\ walk[c].left = {}
  /\ walk' = [walk EXCEPT ![c] = Idle]
  /\ UNCHANGED <<rows, hist, lost>>

(* The walk is cut short: a step raises, which the caller swallows, or its *)
(* process dies between two steps; nothing remembers what was owed.        *)
CutShort(c) ==
  /\ MayFail
  /\ walk[c].phase # "idle"
  /\ walk' = [walk EXCEPT ![c] = Idle]
  /\ lost' = lost \cup walk[c].left
  /\ UNCHANGED boardVars

WalkStep(c) == Look(c) \/ Judge(c) \/ Unblock(c) \/ Label(c) \/ WalkEnds(c)

CascadeNext == \E c \in Callers : CallMove(c) \/ Drag(c) \/ WalkStep(c) \/ CutShort(c)

CascadeSpec == CascadeInit /\ [][CascadeNext]_cascadeVars

-------------------------------------------------------------------------------

(* "every dependent it unblocks is reconsidered automatically", as far as  *)
(* it goes: an authored backlog task whose prerequisites are all complete  *)
(* is ready, or some caller still owes it a look, or the debt was lost to  *)
(* one of the causes the code has (a drag, a step that failed, a walk that *)
(* was cut short), never to two callers that complete one prerequisite     *)
(* each and leave the dependent to each other, nor to a stale read of one  *)
(* walk. A task that callers move themselves may have been active when its *)
(* turn came, and is left out.                                             *)
Owed(u) == \E c \in Callers : u \in walk[c].left

NoneForgotten ==
  \A u \in Authored \ Movable :
    Deps[u] # {} /\ DepsComplete(u) /\ rows[u].status \in Backlog
      => rows[u].ready \/ Owed(u) \/ u \in lost

(* The cascade of one caller never makes a stub pullable: a label it adds  *)
(* goes to an authored task only, whoever moves tasks meanwhile.           *)
OnlyAuthoredLabelled ==
  [][\A u \in Tasks : rows'[u].ready # rows[u].ready => u \in Authored]_rows

===============================================================================
