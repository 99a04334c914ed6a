---------------------------- MODULE BoardWorkflow ----------------------------
(***************************************************************************)
(* transition() step by step, as the entry doors of the board (the MCP     *)
(* tools, the CLI, the Hub) call it concurrently: a lock-free read of the  *)
(* row, lock-free gates, then one BEGIN IMMEDIATE transaction that checks  *)
(* again, updates the row, rewrites the task file and appends to the audit *)
(* trail, with its rollbacks and the restore of the file.                  *)
(*                                                                         *)
(* A door handles one call at a time. Two doors may act for one session.   *)
(***************************************************************************)
EXTENDS AtomicBoard

CONSTANTS
  Doors,          \* concurrent callers of transition()
  NoCall,         \* an idle door
  NoFile,         \* a task whose markdown file is gone
  Deps,           \* depends_on of each task
  BlockShortcut,  \* workflow_policy.block_in_progress_to_complete
  Faults          \* what may go wrong, a subset of FaultKinds

FaultKinds == {"write", "commit", "crash", "vanish"}

ASSUME WorkflowAssumption ==
  /\ NoFile \notin Row
  /\ Deps \in [Tasks -> SUBSET Tasks]
  /\ BlockShortcut \in BOOLEAN
  /\ Faults \subseteq FaultKinds

VARIABLES
  files,   \* the frontmatter of each task's markdown file
  pc,      \* where each door's call stands
  call     \* the locals of each door's call

vars == <<rows, hist, files, pc, call>>

File == Row \cup {NoFile}

(* The arguments of a call, the status its lock-free read returned, and the *)
(* copy of the file taken before rewriting it.                              *)
Call == [task : Tasks, to : Targets, session : Owner, mode : CallModes,
         from : Status, backup : File]

Phases == {"idle", "read", "gated", "locked", "written", "undo"}

CallsTyped ==
  /\ pc \in [Doors -> Phases]
  /\ DOMAIN call = Doors
  /\ \A d \in Doors : IF pc[d] = "idle" THEN call[d] = NoCall ELSE call[d] \in Call

TypeOK ==
  /\ BoardTypeOK
  /\ files \in [Tasks -> File]
  /\ CallsTyped

Init ==
  /\ BoardInit
  /\ files = rows
  /\ pc = [d \in Doors |-> "idle"]
  /\ call = [d \in Doors |-> NoCall]

-------------------------------------------------------------------------------

(* Doors inside the BEGIN IMMEDIATE transaction: at most one, by SQLite.   *)
InTransaction == {d \in Doors : pc[d] \in {"locked", "written"}}

Goto(d, phase) == pc' = [pc EXCEPT ![d] = phase]

Return(d) == Goto(d, "idle") /\ call' = [call EXCEPT ![d] = NoCall]

(* The call ends having changed nothing. *)
Refuse(d) == Return(d) /\ UNCHANGED <<rows, hist, files>>

(* cos_task_move up to the lock-free SELECT of transition(): the move to   *)
(* complete of a task without a file is refused, so are a no-op, an edge   *)
(* the state machine has not, and a pull of a task that is not ready. A    *)
(* refused call returns at once and is no step.                            *)
Start(d) ==
  /\ pc[d] = "idle"
  /\ \E t \in Tasks, to \in Targets, s \in Owner, mode \in CallModes :
       LET from == rows[t].status IN
       /\ ~(files[t] = NoFile /\ to = "complete" /\ ~SkipsGates(mode))
       /\ to # from
       /\ SkipsEdges(mode) \/ <<from, to>> \in Edges
       /\ (IsPull(from, to) /\ ~SkipsGates(mode)) => rows[t].ready
       /\ call' = [call EXCEPT ![d] =
            [task |-> t, to |-> to, session |-> s, mode |-> mode,
             from |-> from, backup |-> NoFile]]
  /\ Goto(d, "read")
  /\ UNCHANGED <<rows, hist, files>>

DepsComplete(t) == \A u \in Deps[t] : rows[u].status = "complete"

(* evaluate_policy_gates and evaluate_transition_gates let the move pass.  *)
(* The body gate runs only when the file is there; its verdict on the      *)
(* body is not modelled, so a gated call may also take GatesRefuse.        *)
GatesPass(d) ==
  LET k == call[d]
      checked == ~SkipsGates(k.mode) IN
  /\ pc[d] = "read"
  /\ (checked /\ IsPull(k.from, k.to)) => DepsComplete(k.task)
  /\ ~(checked /\ BlockShortcut /\ k.from = "in_progress" /\ k.to = "complete")
  /\ Goto(d, "gated")
  /\ UNCHANGED <<rows, hist, files, call>>

GatesRefuse(d) ==
  LET k == call[d] IN
  /\ pc[d] = "read"
  /\ ~SkipsGates(k.mode)
  /\ \/ IsPull(k.from, k.to) /\ ~DepsComplete(k.task)
     \/ BlockShortcut /\ k.from = "in_progress" /\ k.to = "complete"
     \/ k.to \in BodyGated /\ files[k.task] # NoFile
  /\ Refuse(d)

StatusUnchecked(k) == TRUE

(* The status re-read under the lock, and with it the CAS of the UPDATE.   *)
StillThere(k) == rows[k.task].status = k.from

WipAllows(k) == SkipsWip(k.mode) \/ HasRoom(k.to, k.session)

(* BEGIN IMMEDIATE, the re-read of the status, the WIP count, the UPDATE.  *)
Enter(d) ==
  /\ pc[d] = "gated"
  /\ InTransaction = {}
  /\ StillThere(call[d])
  /\ WipAllows(call[d])
  /\ Goto(d, "locked")
  /\ UNCHANGED <<rows, hist, files, call>>

(* The lock was taken, a check failed and the transaction rolled back. *)
EnterRefused(d) ==
  /\ pc[d] = "gated"
  /\ InTransaction = {}
  /\ ~StillThere(call[d]) \/ ~WipAllows(call[d])
  /\ Refuse(d)

WaitForever(d) == FALSE

(* The busy timeout expired before the write lock was free. *)
EnterBusy(d) ==
  /\ pc[d] = "gated"
  /\ InTransaction # {}
  /\ Refuse(d)

RewrittenSwapped(f, k) == [f EXCEPT !.status = k.session, !.owner = k.to]
RewrittenNot(f, k) == f

(* _write_status_to_frontmatter: the owner line is only written when the   *)
(* call has a session.                                                     *)
Rewritten(f, k) ==
  [f EXCEPT !.status = k.to, !.owner = IF k.session = NoSession THEN @ ELSE k.session]

(* The file is copied, then replaced; one that is gone makes the move      *)
(* DB-only.                                                                *)
WriteFile(d) ==
  LET k == call[d] IN
  /\ pc[d] = "locked"
  /\ files' = IF files[k.task] = NoFile THEN files
              ELSE [files EXCEPT ![k.task] = Rewritten(@, k)]
  /\ call' = [call EXCEPT ![d].backup = files[k.task]]
  /\ Goto(d, "written")
  /\ UNCHANGED <<rows, hist>>

(* The write of the file failed: rollback, the file is as it was. *)
WriteFails(d) ==
  /\ "write" \in Faults
  /\ pc[d] = "locked"
  /\ files[call[d].task] # NoFile
  /\ Refuse(d)

Commit(d) ==
  LET k == call[d] IN
  /\ pc[d] = "written"
  /\ Record(k.task, k.from, k.to, k.session)
  /\ Return(d)
  /\ UNCHANGED files

(* The history INSERT or the commit raised: rollback, which frees the      *)
(* write lock, and only then the restore of the file.                      *)
CommitFails(d) ==
  /\ "commit" \in Faults
  /\ pc[d] = "written"
  /\ IF call[d].backup = NoFile
       THEN Return(d)
       ELSE Goto(d, "undo") /\ UNCHANGED call
  /\ UNCHANGED <<rows, hist, files>>

RestoreFile(d) ==
  /\ pc[d] = "undo"
  /\ files' = [files EXCEPT ![call[d].task] = call[d].backup]
  /\ Return(d)
  /\ UNCHANGED <<rows, hist>>

(* The process dies. SQLite rolls an open transaction back; a file that    *)
(* was already replaced stays replaced.                                    *)
Crash(d) ==
  /\ "crash" \in Faults
  /\ pc[d] # "idle"
  /\ Refuse(d)

(* A checkout or a user removes the file of a task. *)
Vanish(t) ==
  /\ "vanish" \in Faults
  /\ files[t] # NoFile
  /\ files' = [files EXCEPT ![t] = NoFile]
  /\ UNCHANGED <<rows, hist, pc, call>>

(* What a call does once started, whatever it meets. *)
Proceed(d) ==
  \/ GatesPass(d) \/ GatesRefuse(d)
  \/ Enter(d) \/ EnterRefused(d) \/ EnterBusy(d)
  \/ WriteFile(d) \/ WriteFails(d)
  \/ Commit(d) \/ CommitFails(d) \/ RestoreFile(d)

Next ==
  \/ \E d \in Doors : Start(d) \/ Proceed(d) \/ Crash(d)
  \/ \E t \in Tasks : Vanish(t)

Spec == Init /\ [][Next]_vars

(* A started call runs to its return: it is synchronous code, and the wait *)
(* for the write lock is bounded by the busy timeout.                      *)
FairSpec == Spec /\ \A d \in Doors : WF_vars(Proceed(d))

-------------------------------------------------------------------------------

(* No two writers are inside the transaction, and what the one inside has  *)
(* checked under the lock still holds when it commits: the status it read  *)
(* before the lock and the room it counted, edge and ready label included. *)
LockInv ==
  /\ \A d, e \in InTransaction : d = e
  /\ \A d \in InTransaction :
       /\ rows[call[d].task].status = call[d].from
       /\ Allowed(call[d].task, call[d].to, call[d].session, call[d].mode)

(* Outside a transaction on the task, and a restore still owed to it, the  *)
(* file and the row agree: holds as long as nobody crashes or fails to     *)
(* commit, and no file vanishes.                                           *)
Touching(t) == \E d \in Doors : pc[d] \in {"written", "undo"} /\ call[d].task = t

FileAgrees ==
  \A t \in Tasks :
    files[t] # NoFile /\ ~Touching(t) => files[t].status = rows[t].status

(* After any number of crashes an unforced board still differs from its    *)
(* files by one legal move: a torn transition leaves the file one edge     *)
(* ahead of the row, so adopting the file (sync) is a move a caller could  *)
(* have made.                                                              *)
FileOneEdgeAhead ==
  \A t \in Tasks :
    files[t] # NoFile /\ files[t].status # rows[t].status
      => <<rows[t].status, files[t].status>> \in Edges

(* Every call that started returns, whoever holds the lock. *)
CallsReturn == \A d \in Doors : pc[d] # "idle" ~> pc[d] = "idle"

(* The step-by-step transition implements the one-step board: whatever the *)
(* doors interleave, fail or lose, the rows and the audit trail only ever  *)
(* change as AtomicBoard allows.                                           *)
ImplementsBoard == BoardSpec

===============================================================================
