------------------------------ MODULE BoardClaim ------------------------------
(***************************************************************************)
(* cos_task_claim_next: several sessions each ask for the best runnable    *)
(* task. A claim lists the candidates once, then walks them, best score    *)
(* first, attempting transition(t, "in_progress", expected_from = the      *)
(* status in the list). A transition is its lock-free read and gates in    *)
(* one step and its transaction in another (BoardWorkflow shows the        *)
(* transaction to be one step of AtomicBoard).                             *)
(*                                                                         *)
(* A session that holds a task works on it and moves it on; sessions leave *)
(* the tasks of others alone. Meanwhile cards of the backlog may lose      *)
(* their label, or their file and with the next sync their row.            *)
(***************************************************************************)
EXTENDS AtomicBoard, FiniteSetsExt

CONSTANTS
  NoTask,     \* no current candidate
  Deps,       \* depends_on of each task
  Weight,     \* priority weight of each task (P0 100, P1 50, P2 20)
  Authored,   \* tasks whose body passes the Definition of Ready
  Unlabelled, \* tasks whose ready label somebody may remove
  Prunable,   \* tasks whose file may go while they are in the backlog
  TxnFails    \* whether a transaction may meet a busy lock or fail to write

ASSUME ClaimAssumption ==
  /\ NoTask \notin Tasks
  /\ Deps \in [Tasks -> SUBSET Tasks]
  /\ Weight \in [Tasks -> Nat]
  /\ Authored \cup Unlabelled \cup Prunable \subseteq Tasks
  /\ TxnFails \in BOOLEAN

VARIABLES
  gone,   \* tasks whose row a sync has pruned
  walk,   \* each session's claim: its phase, candidate list and current one
  mine    \* the tasks claims returned to each session and it still works on

claimVars == <<rows, hist, gone, walk, mine>>

Candidate == [task : Tasks, from : {"icebox", "emergency"}, score : Nat]

NoWalk == [phase |-> "idle", list |-> {}, task |-> NoTask]

ClaimTypeOK ==
  /\ BoardTypeOK
  /\ gone \subseteq Tasks
  /\ walk \in [Sessions -> [phase : {"idle", "walking", "gated"},
                            list : SUBSET Candidate, task : Tasks \cup {NoTask}]]
  /\ mine \in [Sessions -> SUBSET Tasks]

ClaimInit ==
  /\ BoardInit
  /\ gone = {}
  /\ walk = [s \in Sessions |-> NoWalk]
  /\ mine = [s \in Sessions |-> {}]

-------------------------------------------------------------------------------

DepsComplete(t) == \A u \in Deps[t] : rows[u].status = "complete"

RunnableAnywhere(t) == rows[t].status = "emergency" \/ rows[t].ready

(* cos_task_pick: the fast lane, and ready backlog cards without an open   *)
(* prerequisite; an emergency scores 30 more than its priority.            *)
Runnable(t) ==
  \/ rows[t].status = "emergency"
  \/ rows[t].status = "icebox" /\ rows[t].ready /\ DepsComplete(t)

Candidates ==
  {[task |-> t, from |-> rows[t].status,
    score |-> Weight[t] + IF rows[t].status = "emergency" THEN 30 ELSE 0]
     : t \in {u \in Tasks \ gone : Runnable(u)}}

(* A session asks for a task whether or not it already holds one: the cap  *)
(* is the claim's business.                                                *)
Pick(s) ==
  /\ walk[s].phase = "idle"
  /\ walk' = [walk EXCEPT ![s] = [phase |-> "walking", list |-> Candidates, task |-> NoTask]]
  /\ UNCHANGED <<rows, hist, gone, mine>>

Best(list) == {c \in list : \A e \in list : e.score <= c.score}

DropNothing(s, c) == [phase |-> "walking", list |-> walk[s].list, task |-> NoTask]

Drop(s, c) == [phase |-> "walking", list |-> walk[s].list \ {c}, task |-> NoTask]

(* transition() up to its gates, with expected_from: a changed status and  *)
(* an open prerequisite are transient, so the walk goes on; a row that was *)
(* pruned, a label that was removed and a body that fails the Definition   *)
(* of Ready end it.                                                        *)
Attempt(s) ==
  /\ walk[s].phase = "walking"
  /\ \E c \in Best(walk[s].list) :
       LET t == c.task IN
       walk' = [walk EXCEPT ![s] =
         IF t \in gone                                         THEN NoWalk
         ELSE IF rows[t].status # c.from                       THEN Drop(s, c)
         ELSE IF c.from = "icebox" /\ ~rows[t].ready           THEN NoWalk
         ELSE IF c.from = "icebox" /\ ~DepsComplete(t)         THEN Drop(s, c)
         ELSE IF t \notin Authored                             THEN NoWalk
         ELSE [@ EXCEPT !.phase = "gated", !.task = t]]
  /\ UNCHANGED <<rows, hist, gone, mine>>

Current(s) == CHOOSE c \in walk[s].list : c.task = walk[s].task

AlwaysUnclaimed(c) == TRUE

(* The compare of the CAS, on the status the candidate list was made with; *)
(* a pruned row has none.                                                  *)
Unclaimed(c) == rows[c.task].status = c.from /\ c.task \notin gone

(* The transaction of transition(): won, ...                               *)
Win(s) ==
  LET c == Current(s) IN
  /\ walk[s].phase = "gated"
  /\ Unclaimed(c) /\ HasRoom("in_progress", s)
  /\ Record(c.task, c.from, "in_progress", s)
  /\ mine' = [mine EXCEPT ![s] = @ \cup {c.task}]
  /\ walk' = [walk EXCEPT ![s] = NoWalk]
  /\ UNCHANGED gone

GiveUp(s) ==
  /\ walk' = [walk EXCEPT ![s] = NoWalk]
  /\ UNCHANGED <<rows, hist, gone, mine>>

(* ... refused by the cap, ...                                             *)
Full(s) ==
  /\ walk[s].phase = "gated"
  /\ Unclaimed(Current(s)) /\ ~HasRoom("in_progress", s)
  /\ GiveUp(s)

(* ... rolled back since the file could not be written ("unavailable"), or *)
(* the audit row or the commit raised, ...                                 *)
Fail(s) ==
  /\ TxnFails
  /\ walk[s].phase = "gated"
  /\ Unclaimed(Current(s)) /\ HasRoom("in_progress", s)
  /\ GiveUp(s)

LoseAll(s) ==
  /\ walk[s].phase = "gated"
  /\ ~Unclaimed(Current(s))
  /\ GiveUp(s)

(* ... or transient: lost to a peer, or no write lock within the timeout.  *)
Lose(s) ==
  /\ walk[s].phase = "gated"
  /\ TxnFails \/ ~Unclaimed(Current(s))
  /\ walk' = [walk EXCEPT ![s] = Drop(s, Current(s))]
  /\ UNCHANGED <<rows, hist, gone, mine>>

(* No candidate left: the claim returns null. *)
Exhausted(s) ==
  /\ walk[s].phase = "walking" /\ walk[s].list = {}
  /\ GiveUp(s)

(* The session moves a task of its own on (cos_task_move); it is done with *)
(* it once the task has left the working columns.                          *)
Working == {"in_progress", "testing"}

Advance(s) ==
  /\ walk[s].phase = "idle"
  /\ \E t \in mine[s], to \in Targets :
       /\ rows[t].owner = s
       /\ Move(t, to, s, "plain")
       /\ mine' = [mine EXCEPT ![s] = IF to \in Working THEN @ ELSE @ \ {t}]
  /\ UNCHANGED <<gone, walk>>

(* Somebody takes the label off a card of the backlog (an edit of its file *)
(* and a sync), or deletes its file, whose row the next sync prunes.       *)
InBacklog(t) == t \notin gone /\ rows[t].status = "icebox"

Unlabel(t) ==
  /\ t \in Unlabelled /\ InBacklog(t)
  /\ rows' = [rows EXCEPT ![t].ready = FALSE]
  /\ UNCHANGED <<hist, gone, walk, mine>>

Prune(t) ==
  /\ t \in Prunable /\ InBacklog(t)
  /\ gone' = gone \cup {t}
  /\ UNCHANGED <<rows, hist, walk, mine>>

Proceed(s) == Attempt(s) \/ Win(s) \/ Full(s) \/ Fail(s) \/ Lose(s) \/ Exhausted(s)

ClaimStep(s) == Pick(s) \/ Proceed(s)

ClaimNext ==
  \/ \E s \in Sessions : ClaimStep(s) \/ Advance(s)
  \/ \E t \in Tasks : Unlabel(t) \/ Prune(t)

ClaimSpec == ClaimInit /\ [][ClaimNext]_claimVars

(* A claim is synchronous code: once picked it walks to its end. *)
ClaimFair == ClaimSpec /\ \A s \in Sessions : WF_claimVars(Proceed(s))

-------------------------------------------------------------------------------

(* Every claim and every move of a held task is one plain move of the      *)
(* board, however stale the list was that led to it: the compare with the  *)
(* listed status and the label the gates saw hold at the transaction. (A   *)
(* label that somebody removes after the gates have seen it is not looked  *)
(* at again: this holds where Unlabelled is empty.)                        *)
Board == INSTANCE AtomicBoard WITH CallModes <- {"plain"}, Targets <- Targets \cup {"in_progress"}

ImplementsBoard == Board!BoardSpec

(* "N racing sessions each get a DISTINCT task ... never the same task     *)
(* twice": no task is held by two sessions, and the holder of a task in a  *)
(* working column is the owner the board shows.                            *)
DistinctClaims ==
  \A s \in Sessions, t \in Tasks : t \in mine[s] =>
    /\ rows[t].owner = s
    /\ rows[t].status \in Working
    /\ \A u \in Sessions : t \in mine[u] => u = s

(* A session that claims while it works never takes a second task: the cap *)
(* is one per session, and Full answers null.                              *)
OneFocus ==
  \A s \in Sessions : Cardinality(Counted("in_progress", s)) <= Cap["in_progress"]

(* Every claim returns: the walk never goes round. *)
ClaimsReturn == \A s \in Sessions : walk[s].phase # "idle" ~> walk[s].phase = "idle"

(* A walk ends without a task and with candidates left only where the code *)
(* says it does ("WIP cap or a hard gate: this session can't take on more  *)
(* work now"): its candidate was still there to be claimed and was refused *)
(* by the cap, the label, the Definition of Ready or a failing write, or   *)
(* its row was pruned. A candidate lost to a peer, or to a prerequisite    *)
(* that is open again, never ends a walk.                                  *)
Refused(s, c) ==
  \/ c.task \in gone /\ walk[s].phase = "walking"
  \/ /\ Unclaimed(c)
     /\ \/ c.from = "icebox" /\ ~rows[c.task].ready
        \/ c.task \notin Authored
        \/ walk[s].phase = "gated" /\ (TxnFails \/ ~HasRoom("in_progress", s))

NullMeansRefused ==
  [][\A s \in Sessions :
       walk[s].list # {} /\ walk'[s].phase = "idle" /\ mine'[s] = mine[s]
         => \E c \in walk[s].list :
              Refused(s, c) /\ (walk[s].phase = "gated" => c.task = walk[s].task)]_claimVars

===============================================================================
