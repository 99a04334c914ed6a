----------------------------- MODULE BoardReclaim -----------------------------
(***************************************************************************)
(* cos_task_reclaim, run before every pull, by the nightly job and, as cos *)
(* task-reclaim, by the hook of every session start, beside the claiming   *)
(* sessions of BoardClaim: it lists the rows of the working columns and    *)
(* the sessions present, once, then walks the rows and forces the ones     *)
(* that look abandoned back, as the session it was called for or as the    *)
(* system session. No label and no row goes away here.                     *)
(***************************************************************************)
EXTENDS BoardClaim

CONSTANTS
  System,          \* the session "ses-system-reclaim"
  Reclaimers,      \* concurrent runs of cos_task_reclaim
  Evident,         \* tasks with a work log or commits
  SessionsReturn   \* whether a session that went quiet may act again

ASSUME ReclaimAssumption ==
  /\ System \in Sessions
  /\ Evident \subseteq Tasks
  /\ SessionsReturn \in BOOLEAN

Agents == Sessions \ {System}

VARIABLES
  idle,     \* tasks without a transition for longer than the idle threshold
  present,  \* sessions whose presence file is younger than the window
  sweep     \* each reclaimer's run

reclaimVars == <<rows, hist, gone, walk, mine, idle, present, sweep>>

Zombie == [task : Tasks, owner : Owner, status : Working \cup {"emergency"}]

NoSweep == [phase |-> "off", seen |-> {}, list |-> {}, task |-> NoTask, dest |-> "icebox",
            from |-> "icebox", actor |-> System]

ReclaimTypeOK ==
  /\ ClaimTypeOK
  /\ idle \subseteq Tasks
  /\ present \subseteq Agents
  /\ sweep \in [Reclaimers ->
       [phase : {"off", "walking", "marked", "gated"}, seen : SUBSET Agents,
        list : SUBSET Zombie, task : Tasks \cup {NoTask},
        dest : {"icebox", "in_progress"}, from : Status, actor : Sessions]]

ReclaimInit ==
  /\ ClaimInit
  /\ idle = {}
  /\ present = Agents
  /\ sweep = [r \in Reclaimers |-> NoSweep]

-------------------------------------------------------------------------------

(* A task is fresh again once it has a new row in task_status_history. *)
Touched == {t \in Tasks : hist'[t] # hist[t]}

(* A call or a move of a session refreshes its presence file. *)
AgentStep(s) ==
  /\ SessionsReturn \/ s \in present
  /\ ClaimStep(s) \/ Advance(s)
  /\ idle' = idle \ Touched
  /\ present' = present \cup {s}
  /\ UNCHANGED sweep

(* Hours pass: no call spans them. *)
NothingRuns ==
  /\ \A s \in Sessions : walk[s].phase = "idle"
  /\ \A r \in Reclaimers : sweep[r].phase = "off"

Age(t) ==
  /\ NothingRuns
  /\ t \notin idle
  /\ idle' = idle \cup {t}
  /\ UNCHANGED <<rows, hist, gone, walk, mine, present, sweep>>

GoQuiet(s) ==
  /\ NothingRuns
  /\ s \in present
  /\ present' = present \ {s}
  /\ UNCHANGED <<rows, hist, gone, walk, mine, idle, sweep>>

ListedAnywhere ==
  {[task |-> t, owner |-> rows[t].owner, status |-> rows[t].status] : t \in Tasks}

Listed ==
  {[task |-> t, owner |-> rows[t].owner, status |-> rows[t].status] :
     t \in {u \in Tasks : rows[u].status \in Working \cup {"emergency"}}}

(* The sessions a sweep may be called for; a pull names none. *)
Actors == {System} \cup (IF SessionsReturn THEN Agents ELSE present)

(* _active_session_ids and the SELECT over the working columns. *)
Scan(r) ==
  /\ sweep[r].phase = "off"
  /\ \E a \in Actors : sweep' = [sweep EXCEPT ![r] = [NoSweep EXCEPT
       !.phase = "walking", !.seen = present, !.list = Listed, !.actor = a]]
  /\ UNCHANGED <<rows, hist, gone, walk, mine, idle, present>>

AbandonedUnproven(r, z) ==
  /\ z.task \in idle
  /\ z.owner \notin sweep[r].seen
  /\ z.task \notin Evident

(* The idle time is read now; owner, status and presence are those of the  *)
(* scan. A testing task with evidence stays for review.                    *)
Abandoned(r, z) ==
  /\ z.task \in idle
  /\ z.owner \notin sweep[r].seen
  /\ ~(z.status = "testing" /\ z.task \in Evident)

Rest(r, t) == {z \in sweep[r].list : z.task # t}

Consider(r) ==
  /\ sweep[r].phase = "walking"
  /\ \E z \in sweep[r].list :
       sweep' = [sweep EXCEPT ![r] =
         IF Abandoned(r, z)
           THEN [@ EXCEPT !.phase = "marked", !.task = z.task,
                          !.dest = IF z.status = "testing" THEN "in_progress" ELSE "icebox"]
           ELSE [@ EXCEPT !.list = Rest(r, z.task)]]
  /\ UNCHANGED <<rows, hist, gone, walk, mine, idle, present>>

SkipRest(r) == [NoSweep EXCEPT !.phase = "walking", !.seen = sweep[r].seen,
                               !.list = Rest(r, sweep[r].task), !.actor = sweep[r].actor]

(* The ready label for a task bound for the backlog, then the lock-free    *)
(* part of transition(force=True), called without expected_from: the       *)
(* status it will compare with is the one it reads here.                   *)
ForceRead(r) ==
  LET t == sweep[r].task IN
  /\ sweep[r].phase = "marked"
  /\ rows' = IF sweep[r].dest = "icebox" THEN [rows EXCEPT ![t].ready = TRUE] ELSE rows
  /\ sweep' = [sweep EXCEPT ![r] =
       IF rows[t].status = sweep[r].dest
         THEN SkipRest(r)
         ELSE [@ EXCEPT !.phase = "gated", !.from = rows[t].status]]
  /\ UNCHANGED <<hist, gone, walk, mine, idle, present>>

ForcedAnyway(r) == TRUE

(* The compare of the forced transition, on the status it has read.        *)
StillSo(r) == rows[sweep[r].task].status = sweep[r].from

(* No cap is looked at: the UPDATE may leave the session a sweep acts for  *)
(* with a task in_progress more than it may claim.                         *)
ForceCommit(r) ==
  LET t == sweep[r].task IN
  /\ sweep[r].phase = "gated"
  /\ IF StillSo(r)
       THEN Record(t, sweep[r].from, sweep[r].dest, sweep[r].actor)
       ELSE UNCHANGED <<rows, hist>>
  /\ sweep' = [sweep EXCEPT ![r] = SkipRest(r)]
  /\ idle' = idle \ Touched
  /\ UNCHANGED <<gone, walk, mine, present>>

Swept(r) ==
  /\ sweep[r].phase = "walking" /\ sweep[r].list = {}
  /\ sweep' = [sweep EXCEPT ![r] = NoSweep]
  /\ UNCHANGED <<rows, hist, gone, walk, mine, idle, present>>

SweepStep(r) == Consider(r) \/ ForceRead(r) \/ ForceCommit(r) \/ Swept(r)

ReclaimNext ==
  \/ \E s \in Agents : AgentStep(s) \/ GoQuiet(s)
  \/ \E t \in Tasks : Age(t)
  \/ \E r \in Reclaimers : Scan(r) \/ SweepStep(r)

ReclaimSpec == ReclaimInit /\ [][ReclaimNext]_reclaimVars

(* Reclaim runs keep coming (each pull, each night) and run to their end;  *)
(* a claim that was started ends too, and time passes.                     *)
ReclaimFair ==
  /\ ReclaimSpec
  /\ \A r \in Reclaimers : WF_reclaimVars(SweepStep(r)) /\ WF_reclaimVars(Scan(r))

-------------------------------------------------------------------------------

(* Whoever sweeps, returns or claims meanwhile, what a sweep takes back it *)
(* takes from the status the task has at that moment, and the audit trail  *)
(* says so: the forced move, which is told no status to expect, compares   *)
(* with the one it has read itself.                                        *)
SweepsAudited == [][\A t \in Tasks : hist'[t] # hist[t] =>
                      hist'[t].old = rows[t].status /\ hist'[t].new = rows'[t].status]_reclaimVars

(* The board heals ("the board self-heals without a manual cos             *)
(* task-reclaim"): a card of the fast lane or in progress, or in testing   *)
(* without evidence, does not stay there once it is idle and its owner is  *)
(* gone, unless that owner comes back.                                     *)
Stranded(t) ==
  /\ t \in idle /\ rows[t].owner \notin present
  /\ \/ rows[t].status \in {"emergency", "in_progress"}
     \/ rows[t].status = "testing" /\ t \notin Evident

ZombiesHeal == \A t \in Tasks : Stranded(t) ~> ~Stranded(t)

===============================================================================
