------------------------- MODULE BoardWorkflow_proofs -------------------------
(***************************************************************************)
(* The step-by-step transition() keeps its types, implements the one-step  *)
(* board for every number of doors, tasks and sessions and every mix of    *)
(* faults, and so inherits what is proved of AtomicBoard.                  *)
(***************************************************************************)
EXTENDS BoardWorkflow, AtomicBoard_proofs

(* What the lock-free part of a call checked stays true until it returns:  *)
(* its arguments do not change and a label is never taken away by a move.  *)
CallInv ==
  \A d \in Doors : pc[d] # "idle" =>
    /\ call[d].to # call[d].from
    /\ SkipsEdges(call[d].mode) \/ <<call[d].from, call[d].to>> \in Edges
    /\ (IsPull(call[d].from, call[d].to) /\ ~SkipsGates(call[d].mode))
         => rows[call[d].task].ready

(* The inductive invariant. *)
IInv == TypeOK /\ CallInv /\ LockInv

-------------------------------------------------------------------------------
(* Bookkeeping of the doors. *)

(* A door that returns leaves every other call alone. *)
LEMMA ReturnTyped ==
  ASSUME CallsTyped, NEW d \in Doors, Return(d)
  PROVE  /\ CallsTyped'
         /\ pc'[d] = "idle"
         /\ \A e \in Doors \ {d} : pc'[e] = pc[e] /\ call'[e] = call[e]
BY DEF CallsTyped, Return, Goto, Phases

(* A door that goes on with its call keeps the call's type. *)
LEMMA GotoTyped ==
  ASSUME CallsTyped, NEW d \in Doors, NEW phase \in Phases \ {"idle"}, Goto(d, phase),
         NEW k \in Call, call' = [call EXCEPT ![d] = k]
  PROVE  /\ CallsTyped'
         /\ pc'[d] = phase /\ call'[d] = k
         /\ \A e \in Doors \ {d} : pc'[e] = pc[e] /\ call'[e] = call[e]
BY DEF CallsTyped, Goto

(* ... or goes on with the locals it has.                                 *)
LEMMA GotoSame ==
  ASSUME CallsTyped, NEW d \in Doors, pc[d] # "idle",
         NEW phase \in Phases \ {"idle"}, Goto(d, phase), UNCHANGED call
  PROVE  /\ CallsTyped'
         /\ pc'[d] = phase
         /\ \A e \in Doors \ {d} : pc'[e] = pc[e]
BY DEF CallsTyped, Goto

(* A call that is under way has arguments. *)
LEMMA CallTyped ==
  ASSUME CallsTyped, NEW d \in Doors, pc[d] # "idle"
  PROVE  call[d] \in Call
BY DEF CallsTyped

(* What a refused call, a crash or a no-show leaves behind: everything but *)
(* the door's own call.                                                    *)
LEMMA RefuseTyped ==
  ASSUME TypeOK, NEW d \in Doors, Refuse(d)
  PROVE  TypeOK'
BY ReturnTyped DEF TypeOK, BoardTypeOK, Refuse

(* The committed rows stay typed. *)
LEMMA RecordTyped ==
  ASSUME BoardTypeOK, NEW k \in Call, Record(k.task, k.from, k.to, k.session)
  PROVE  BoardTypeOK'
<1>1. k.task \in Tasks /\ k.from \in Status /\ k.to \in Status /\ k.session \in Owner
  BY BoardAssumption DEF Call
<1>2. rows' \in [Tasks -> Row]
  BY <1>1 DEF Record, BoardTypeOK, Row
<1>3. hist' \in [Tasks -> HistRow]
  BY <1>1 DEF Record, BoardTypeOK, HistRow
<1> QED
  BY <1>2, <1>3 DEF BoardTypeOK

(* No door has a call at first, and every file says what its row says. *)
LEMMA InitTyped == Init => TypeOK
<1> SUFFICES ASSUME Init PROVE TypeOK
  OBVIOUS
<1>1. BoardTypeOK
  BY BoardInitTyped DEF Init
<1>2. CallsTyped
  BY DEF Init, CallsTyped, Phases
<1>3. files \in [Tasks -> File]
  BY <1>1 DEF Init, BoardTypeOK, File
<1> QED
  BY <1>1, <1>2, <1>3 DEF TypeOK

(* Every door's call, every file and every row keeps its type, whatever    *)
(* interleaves or fails: a call's locals exist exactly while it runs.      *)
THEOREM TypeCorrect == Spec => []TypeOK
<1>1. Init => TypeOK
  BY InitTyped
<1>2. TypeOK /\ [Next]_vars => TypeOK'
  <2> SUFFICES ASSUME TypeOK, [Next]_vars PROVE TypeOK'
    OBVIOUS
  <2> USE DEF TypeOK
  <2>1. ASSUME NEW d \in Doors, Start(d) PROVE TypeOK'
    <3>1. PICK t \in Tasks, to \in Targets, s \in Owner, mode \in CallModes :
            call' = [call EXCEPT ![d] =
              [task |-> t, to |-> to, session |-> s, mode |-> mode,
               from |-> rows[t].status, backup |-> NoFile]]
      BY <2>1 DEF Start
    <3>2. [task |-> t, to |-> to, session |-> s, mode |-> mode,
           from |-> rows[t].status, backup |-> NoFile] \in Call
      BY DEF Call, File, BoardTypeOK, Row
    <3>3. Goto(d, "read")
      BY <2>1 DEF Start
    <3>4. CallsTyped'
      BY <3>1, <3>2, <3>3, GotoTyped DEF Phases
    <3> QED
      BY <2>1, <3>4 DEF Start, BoardTypeOK
  <2>2. ASSUME NEW d \in Doors, GatesPass(d) PROVE TypeOK'
    BY <2>2, GotoSame DEF GatesPass, BoardTypeOK, Phases
  <2>3. ASSUME NEW d \in Doors,
               GatesRefuse(d) \/ EnterRefused(d) \/ EnterBusy(d) \/ WriteFails(d) \/ Crash(d)
        PROVE  TypeOK'
    BY <2>3, RefuseTyped DEF GatesRefuse, EnterRefused, EnterBusy, WriteFails, Crash
  <2>4. ASSUME NEW d \in Doors, Enter(d) PROVE TypeOK'
    BY <2>4, GotoSame DEF Enter, BoardTypeOK, Phases
  <2>5. ASSUME NEW d \in Doors, WriteFile(d) PROVE TypeOK'
    <3>1. call[d] \in Call
      BY <2>5, CallTyped DEF WriteFile
    <3>2. files[call[d].task] \in File
      BY <3>1 DEF Call
    <3>3. files' \in [Tasks -> File]
      <4>1. CASE files[call[d].task] = NoFile
        BY <2>5, <4>1 DEF WriteFile
      <4>2. CASE files[call[d].task] # NoFile
        <5>1. files[call[d].task] \in Row
          BY <3>2, <4>2 DEF File
        <5>2. Rewritten(files[call[d].task], call[d]) \in Row
          BY <3>1, <5>1, BoardAssumption DEF Rewritten, Row, Call
        <5> QED
          BY <2>5, <4>2, <5>2 DEF WriteFile, File
      <4> QED
        BY <4>1, <4>2
    <3>4. [call[d] EXCEPT !.backup = files[call[d].task]] \in Call
      BY <3>1, <3>2 DEF Call
    <3>5. CallsTyped'
      BY <2>5, <3>4, GotoTyped DEF WriteFile, Phases
    <3> QED
      BY <2>5, <3>3, <3>5 DEF WriteFile, BoardTypeOK
  <2>6. ASSUME NEW d \in Doors, Commit(d) PROVE TypeOK'
    <3>1. call[d] \in Call
      BY <2>6, CallTyped DEF Commit
    <3> QED
      BY <2>6, <3>1, RecordTyped, ReturnTyped DEF Commit
  <2>7. ASSUME NEW d \in Doors, CommitFails(d) PROVE TypeOK'
    BY <2>7, ReturnTyped, GotoSame DEF CommitFails, BoardTypeOK, Phases
  <2>8. ASSUME NEW d \in Doors, RestoreFile(d) PROVE TypeOK'
    <3>1. call[d] \in Call
      BY <2>8, CallTyped DEF RestoreFile
    <3>2. files' \in [Tasks -> File]
      BY <2>8, <3>1 DEF RestoreFile, Call
    <3> QED
      BY <2>8, <3>2, ReturnTyped DEF RestoreFile, BoardTypeOK
  <2>9. ASSUME NEW t \in Tasks, Vanish(t) PROVE TypeOK'
    BY <2>9 DEF Vanish, BoardTypeOK, CallsTyped, File
  <2>10. CASE UNCHANGED vars
    BY <2>10 DEF vars, BoardTypeOK, CallsTyped
  <2> QED
    BY <2>1, <2>2, <2>3, <2>4, <2>5, <2>6, <2>7, <2>8, <2>9, <2>10 DEF Next, Proceed
<1> QED
  BY <1>1, <1>2, PTL DEF Spec

-------------------------------------------------------------------------------
(* The write lock. *)

(* A step that writes no row and lets nobody in keeps what was checked     *)
(* under the lock.                                                         *)
LEMMA LockKept ==
  ASSUME LockInv, UNCHANGED rows, InTransaction' \subseteq InTransaction,
         \A e \in InTransaction' :
           /\ call'[e].task = call[e].task /\ call'[e].to = call[e].to
           /\ call'[e].session = call[e].session /\ call'[e].mode = call[e].mode
           /\ call'[e].from = call[e].from
  PROVE  LockInv'
<1>1. \A d, e \in InTransaction' : d = e
  BY DEF LockInv
<1>2. ASSUME NEW d \in InTransaction'
      PROVE  /\ rows'[call'[d].task].status = call'[d].from
             /\ Allowed(call[d].task, call[d].to, call[d].session, call[d].mode)'
  <2>1. Counted(call[d].to, call[d].session)' = Counted(call[d].to, call[d].session)
    BY <1>2 DEF Counted
  <2>2. HasRoom(call[d].to, call[d].session)' <=> HasRoom(call[d].to, call[d].session)
    BY <1>2, <2>1 DEF HasRoom
  <2>3. Allowed(call[d].task, call[d].to, call[d].session, call[d].mode)
    BY <1>2 DEF LockInv
  <2>4. Allowed(call[d].task, call[d].to, call[d].session, call[d].mode)'
    BY <1>2, <2>2, <2>3 DEF Allowed
  <2> QED
    BY <1>2, <2>4 DEF LockInv
<1> QED
  BY <1>1, <1>2 DEF LockInv

(* Returning from a call that wrote nothing keeps the invariant. *)
LEMMA RefuseKeeps ==
  ASSUME IInv, NEW d \in Doors, Return(d), UNCHANGED rows
  PROVE  CallInv' /\ LockInv'
<1>1. /\ pc'[d] = "idle"
      /\ \A e \in Doors \ {d} : pc'[e] = pc[e] /\ call'[e] = call[e]
  BY ReturnTyped DEF IInv, TypeOK
<1>2. CallInv'
  BY <1>1 DEF IInv, CallInv
<1>3. InTransaction' = InTransaction \ {d}
  BY <1>1 DEF InTransaction
<1>4. \A e \in InTransaction' : call'[e] = call[e]
  BY <1>1, <1>3 DEF InTransaction
<1>5. LockInv'
  BY <1>3, <1>4, LockKept DEF IInv
<1> QED
  BY <1>2, <1>5

(* A door that goes on with the same arguments, without entering or        *)
(* leaving the transaction, keeps the invariant.                           *)
LEMMA ContinueKeeps ==
  ASSUME IInv, NEW d \in Doors, pc[d] # "idle", UNCHANGED rows,
         InTransaction' \subseteq InTransaction,
         \A e \in Doors \ {d} : pc'[e] = pc[e] /\ call'[e] = call[e],
         call'[d].task = call[d].task, call'[d].to = call[d].to,
         call'[d].session = call[d].session, call'[d].mode = call[d].mode,
         call'[d].from = call[d].from
  PROVE  CallInv' /\ LockInv'
<1>1. CallInv'
  BY DEF IInv, CallInv
<1>2. InTransaction' \subseteq Doors
  BY DEF InTransaction
<1>3. LockInv'
  BY <1>2, LockKept DEF IInv
<1> QED
  BY <1>1, <1>3

(* The lock-free checks and the checks under the lock together hold, for   *)
(* every call, until it has committed.                                     *)
LEMMA Inductive ==
  /\ Init => IInv
  /\ IInv /\ [Next]_vars => CallInv' /\ LockInv'
<1>1. Init => IInv
  BY InitTyped DEF Init, IInv, CallInv, LockInv, InTransaction
<1>2. IInv /\ [Next]_vars => CallInv' /\ LockInv'
  <2> SUFFICES ASSUME IInv, [Next]_vars PROVE CallInv' /\ LockInv'
    OBVIOUS
  <2> USE DEF IInv
  <2>1. ASSUME NEW d \in Doors, Start(d) PROVE CallInv' /\ LockInv'
    <3>1. PICK t \in Tasks, to \in Targets, s \in Owner, mode \in CallModes :
            /\ to # rows[t].status
            /\ SkipsEdges(mode) \/ <<rows[t].status, to>> \in Edges
            /\ (IsPull(rows[t].status, to) /\ ~SkipsGates(mode)) => rows[t].ready
            /\ call' = [call EXCEPT ![d] =
                 [task |-> t, to |-> to, session |-> s, mode |-> mode,
                  from |-> rows[t].status, backup |-> NoFile]]
      BY <2>1 DEF Start
    <3>2. /\ call'[d].to = to /\ call'[d].from = rows[t].status
          /\ call'[d].task = t /\ call'[d].mode = mode
          /\ pc'[d] = "read" /\ UNCHANGED rows
          /\ \A e \in Doors \ {d} : pc'[e] = pc[e] /\ call'[e] = call[e]
      BY <2>1, <3>1 DEF Start, Goto, TypeOK, CallsTyped
    <3>3. CallInv'
      BY <3>1, <3>2 DEF CallInv
    <3>4. InTransaction' = InTransaction /\ d \notin InTransaction
      BY <2>1, <3>2 DEF InTransaction, Start
    <3>5. \A e \in InTransaction : call'[e] = call[e]
      BY <3>2, <3>4 DEF InTransaction
    <3>6. LockInv'
      BY <3>2, <3>4, <3>5, LockKept
    <3> QED
      BY <3>3, <3>6
  <2>2. ASSUME NEW d \in Doors, GatesPass(d) PROVE CallInv' /\ LockInv'
    <3>1. call[d] \in Call
      BY <2>2, CallTyped DEF GatesPass, TypeOK
    <3>2. /\ pc'[d] = "gated" /\ UNCHANGED <<rows, call>>
          /\ \A e \in Doors \ {d} : pc'[e] = pc[e]
      BY <2>2 DEF GatesPass, Goto, TypeOK, CallsTyped
    <3>3. InTransaction' = InTransaction
      BY <2>2, <3>2 DEF InTransaction, GatesPass
    <3> QED
      BY <2>2, <3>2, <3>3, ContinueKeeps DEF GatesPass
  <2>3. ASSUME NEW d \in Doors,
               GatesRefuse(d) \/ EnterRefused(d) \/ EnterBusy(d) \/ WriteFails(d) \/ Crash(d)
        PROVE  CallInv' /\ LockInv'
    BY <2>3, RefuseKeeps
    DEF GatesRefuse, EnterRefused, EnterBusy, WriteFails, Crash, Refuse
  <2>4. ASSUME NEW d \in Doors, Enter(d) PROVE CallInv' /\ LockInv'
    <3>1. /\ pc'[d] = "locked" /\ UNCHANGED <<rows, call>>
          /\ \A e \in Doors \ {d} : pc'[e] = pc[e]
      BY <2>4 DEF Enter, Goto, TypeOK, CallsTyped
    <3>2. CallInv'
      BY <2>4, <3>1 DEF CallInv, Enter
    <3>3. InTransaction' = {d}
      BY <2>4, <3>1 DEF InTransaction, Enter
    <3>4. rows[call[d].task].status = call[d].from
      BY <2>4 DEF Enter, StillThere
    <3>5. Allowed(call[d].task, call[d].to, call[d].session, call[d].mode)
      BY <2>4, <3>4 DEF Enter, WipAllows, Allowed, CallInv
    <3> QED
      BY <3>1, <3>2, <3>3, <3>4, <3>5 DEF LockInv, Allowed, HasRoom, Counted
  <2>5. ASSUME NEW d \in Doors, WriteFile(d) PROVE CallInv' /\ LockInv'
    <3>1. call[d] \in Call
      BY <2>5, CallTyped DEF WriteFile, TypeOK
    <3>2. /\ call'[d].task = call[d].task /\ call'[d].to = call[d].to
          /\ call'[d].session = call[d].session /\ call'[d].mode = call[d].mode
          /\ call'[d].from = call[d].from
          /\ pc'[d] = "written" /\ UNCHANGED rows
          /\ \A e \in Doors \ {d} : pc'[e] = pc[e] /\ call'[e] = call[e]
      BY <2>5, <3>1 DEF WriteFile, Goto, TypeOK, CallsTyped, Call
    <3>3. InTransaction' = InTransaction
      BY <2>5, <3>2 DEF InTransaction, WriteFile
    <3> QED
      BY <2>5, <3>2, <3>3, ContinueKeeps DEF WriteFile
  <2>6. ASSUME NEW d \in Doors, Commit(d) PROVE CallInv' /\ LockInv'
    <3>1. /\ pc'[d] = "idle"
          /\ \A e \in Doors \ {d} : pc'[e] = pc[e] /\ call'[e] = call[e]
      BY <2>6, ReturnTyped DEF Commit, TypeOK
    <3>2. \A t \in Tasks : rows'[t].ready = rows[t].ready
      BY <2>6 DEF Commit, Record, TypeOK, BoardTypeOK, Row
    <3>3. \A e \in Doors : pc[e] # "idle" => call[e].task \in Tasks
      BY CallTyped DEF TypeOK, Call
    <3>4. CallInv'
      BY <3>1, <3>2, <3>3 DEF CallInv
    <3>5. InTransaction' = {}
      BY <2>6, <3>1 DEF InTransaction, LockInv, Commit
    <3> QED
      BY <3>4, <3>5 DEF LockInv
  <2>7. ASSUME NEW d \in Doors, CommitFails(d) PROVE CallInv' /\ LockInv'
    <3>1. CASE Return(d)
      BY <2>7, <3>1, RefuseKeeps DEF CommitFails
    <3>2. CASE Goto(d, "undo") /\ UNCHANGED call
      <4>1. pc'[d] = "undo" /\ \A e \in Doors \ {d} : pc'[e] = pc[e] /\ call'[e] = call[e]
        BY <3>2 DEF Goto, TypeOK, CallsTyped
      <4>2. InTransaction' = InTransaction \ {d}
        BY <4>1 DEF InTransaction
      <4> QED
        BY <2>7, <3>2, <4>1, <4>2, ContinueKeeps DEF CommitFails
    <3> QED
      BY <2>7, <3>1, <3>2 DEF CommitFails
  <2>8. ASSUME NEW d \in Doors, RestoreFile(d) PROVE CallInv' /\ LockInv'
    BY <2>8, RefuseKeeps DEF RestoreFile
  <2>9. CASE UNCHANGED <<rows, pc, call>>
    BY <2>9 DEF CallInv, LockInv, InTransaction, Allowed, HasRoom, Counted
  <2> QED
    BY <2>1, <2>2, <2>3, <2>4, <2>5, <2>6, <2>7, <2>8, <2>9
    DEF Next, Proceed, Vanish, vars
<1> QED
  BY <1>1, <1>2

(* The invariant holds in every state: types, lock-free checks, lock. *)
LEMMA Invariant == Spec => []IInv
<1>1. IInv /\ TypeOK' /\ [Next]_vars => IInv'
  BY Inductive DEF IInv
<1> QED
  BY <1>1, Inductive, TypeCorrect, PTL DEF Spec

(* No two doors are ever inside the transaction, and everything the one    *)
(* inside checked, before or under the lock, still holds.                  *)
THEOREM LockCorrect == Spec => []LockInv
<1>1. IInv => LockInv
  BY DEF IInv
<1> QED
  BY <1>1, Invariant, PTL

-------------------------------------------------------------------------------
(* The refinement. *)

(* A commit is a move of the board; no other step writes a row.            *)
LEMMA StepImplements == IInv /\ [Next]_vars => [BoardNext]_boardVars
<1> SUFFICES ASSUME IInv, [Next]_vars PROVE [BoardNext]_boardVars
  OBVIOUS
<1>1. ASSUME NEW d \in Doors, Commit(d) PROVE BoardNext
  <2>1. call[d] \in Call
    BY <1>1, CallTyped DEF Commit, IInv, TypeOK
  <2>2. /\ rows[call[d].task].status = call[d].from
        /\ Allowed(call[d].task, call[d].to, call[d].session, call[d].mode)
    BY <1>1 DEF Commit, IInv, LockInv, InTransaction
  <2>3. Move(call[d].task, call[d].to, call[d].session, call[d].mode)
    BY <1>1, <2>2 DEF Commit, Move
  <2> QED
    BY <2>1, <2>3 DEF BoardNext, Call
<1>2. CASE UNCHANGED boardVars
  BY <1>2
<1> QED
  BY <1>1, <1>2
  DEF Next, Proceed, Start, GatesPass, GatesRefuse, Enter, EnterRefused, EnterBusy,
      WriteFile, WriteFails, CommitFails, RestoreFile, Crash, Vanish, Refuse,
      vars, boardVars

(* The step-by-step transition implements the one-step board, whatever     *)
(* interleaves, fails, crashes or disappears.                              *)
THEOREM Refinement == Spec => ImplementsBoard
<1>1. Init => BoardInit
  BY DEF Init
<1> QED
  BY <1>1, StepImplements, Invariant, PTL DEF Spec, BoardSpec, ImplementsBoard

(* The caps hold of the concurrent code when nobody bypasses them.         *)
THEOREM WipHolds ==
  ASSUME \A mode \in CallModes : ~SkipsWip(mode)
  PROVE  Spec => []WipRespected
BY Refinement, WipNeverExceeded, PTL DEF ImplementsBoard

(* The audit trail of the concurrent code ends at the status of each task  *)
(* and has no gap, under every fault.                                      *)
THEOREM AuditHolds == Spec => []AuditEndsAtStatus /\ AuditChain
BY Refinement, AuditComplete, AuditUnbroken, PTL DEF ImplementsBoard

-------------------------------------------------------------------------------
(* The task files. *)

(* What FileAgrees needs to be inductive: a file that a door has just      *)
(* replaced says what the door is about to commit.                         *)
FileInv ==
  /\ FileAgrees
  /\ \A d \in Doors : pc[d] # "undo"
  /\ \A d \in Doors : pc[d] = "written" /\ files[call[d].task] # NoFile
       => files[call[d].task].status = call[d].to

(* A step that writes neither rows nor files, and after which the same     *)
(* doors are between their write and their commit, keeps the files right.  *)
LEMMA FilesKept ==
  ASSUME FileInv, UNCHANGED <<rows, files>>,
         \A d \in Doors : pc'[d] # "undo",
         \A d \in Doors : (pc[d] = "written" <=> pc'[d] = "written"),
         \A d \in Doors : pc[d] = "written" =>
            call'[d].task = call[d].task /\ call'[d].to = call[d].to
  PROVE  FileInv'
BY DEF FileInv, FileAgrees, Touching

(* While no process dies, no commit fails and no file disappears, a task's *)
(* file agrees with its row except while a door is between the two writes. *)
THEOREM FilesAgree ==
  ASSUME Faults \subseteq {"write"}
  PROVE  Spec => []FileAgrees
<1>1. Init => FileInv
  BY DEF Init, BoardInit, FileInv, FileAgrees
<1>2. IInv /\ FileInv /\ [Next]_vars => FileInv'
  <2> SUFFICES ASSUME IInv, FileInv, [Next]_vars PROVE FileInv'
    OBVIOUS
  <2>1. ASSUME NEW d \in Doors, Return(d), pc[d] # "written", UNCHANGED <<rows, files>>
        PROVE  FileInv'
    <3>1. /\ pc'[d] = "idle"
          /\ \A e \in Doors \ {d} : pc'[e] = pc[e] /\ call'[e] = call[e]
      BY <2>1, ReturnTyped DEF IInv, TypeOK
    <3> QED
      BY <2>1, <3>1, FilesKept DEF FileInv
  <2>2. ASSUME NEW d \in Doors, NEW phase \in {"read", "gated", "locked"},
               Goto(d, phase), pc[d] # "written", UNCHANGED <<rows, files>>,
               \A e \in Doors \ {d} : call'[e] = call[e]
        PROVE  FileInv'
    <3>1. /\ pc'[d] = phase
          /\ \A e \in Doors \ {d} : pc'[e] = pc[e]
      BY <2>2 DEF Goto, IInv, TypeOK, CallsTyped
    <3> QED
      BY <2>2, <3>1, FilesKept DEF FileInv
  <2>3. ASSUME NEW d \in Doors, Start(d) \/ GatesPass(d) \/ Enter(d) PROVE FileInv'
    <3>1. /\ pc[d] # "written" /\ UNCHANGED <<rows, files>>
          /\ \A e \in Doors \ {d} : call'[e] = call[e]
      BY <2>3 DEF Start, GatesPass, Enter, IInv, TypeOK, CallsTyped
    <3>2. Goto(d, "read") \/ Goto(d, "gated") \/ Goto(d, "locked")
      BY <2>3 DEF Start, GatesPass, Enter
    <3> QED
      BY <3>1, <3>2, <2>2
  <2>4. ASSUME NEW d \in Doors,
               GatesRefuse(d) \/ EnterRefused(d) \/ EnterBusy(d) \/ WriteFails(d)
        PROVE  FileInv'
    BY <2>4, <2>1 DEF GatesRefuse, EnterRefused, EnterBusy, WriteFails, Refuse
  <2>5. ASSUME NEW d \in Doors, WriteFile(d) PROVE FileInv'
    <3>1. call[d] \in Call
      BY <2>5, CallTyped DEF WriteFile, IInv, TypeOK
    <3>2. /\ pc'[d] = "written" /\ UNCHANGED rows
          /\ call'[d].task = call[d].task /\ call'[d].to = call[d].to
          /\ \A e \in Doors \ {d} : pc'[e] = pc[e] /\ call'[e] = call[e]
      BY <2>5, <3>1 DEF WriteFile, Goto, IInv, TypeOK, CallsTyped, Call
    <3>3. \A e \in Doors \ {d} : pc[e] # "written"
      BY <2>5 DEF WriteFile, IInv, LockInv, InTransaction
    <3>4. \A t \in Tasks : t # call[d].task => files'[t] = files[t]
      BY <2>5 DEF WriteFile, IInv, TypeOK
    <3>5. files'[call[d].task] # NoFile => files'[call[d].task].status = call[d].to
      <4>1. CASE files[call[d].task] = NoFile
        BY <2>5, <4>1 DEF WriteFile
      <4>2. CASE files[call[d].task] # NoFile
        <5>1. files[call[d].task] \in Row /\ call[d].task \in Tasks
          BY <3>1, <4>2 DEF IInv, TypeOK, File, Call
        <5>2. files' = [files EXCEPT ![call[d].task] = Rewritten(files[call[d].task], call[d])]
          BY <2>5, <4>2 DEF WriteFile
        <5> QED
          BY <5>1, <5>2 DEF Rewritten, Row, IInv, TypeOK
      <4> QED
        BY <4>1, <4>2
    <3> QED
      BY <3>1, <3>2, <3>3, <3>4, <3>5 DEF FileInv, FileAgrees, Touching
  <2>6. ASSUME NEW d \in Doors, Commit(d) PROVE FileInv'
    <3>1. call[d] \in Call
      BY <2>6, CallTyped DEF Commit, IInv, TypeOK
    <3>2. /\ pc'[d] = "idle" /\ pc[d] = "written" /\ UNCHANGED files
          /\ \A e \in Doors \ {d} : pc'[e] = pc[e] /\ call'[e] = call[e]
      BY <2>6, ReturnTyped DEF Commit, IInv, TypeOK
    <3>3. \A e \in Doors \ {d} : pc[e] # "written"
      BY <3>2 DEF IInv, LockInv, InTransaction
    <3>4. /\ rows'[call[d].task].status = call[d].to
          /\ \A t \in Tasks : t # call[d].task => rows'[t] = rows[t]
      BY <2>6, <3>1 DEF Commit, Record, IInv, TypeOK, BoardTypeOK, Row, Call
    <3> QED
      BY <3>1, <3>2, <3>3, <3>4 DEF FileInv, FileAgrees, Touching
  <2>7. CASE UNCHANGED vars
    BY <2>7, FilesKept DEF vars, FileInv
  <2> QED
    BY <2>3, <2>4, <2>5, <2>6, <2>7
    DEF Next, Proceed, CommitFails, RestoreFile, Crash, Vanish, FileInv
<1>3. FileInv => FileAgrees
  BY DEF FileInv
<1> QED
  BY <1>1, <1>2, <1>3, Invariant, PTL DEF Spec

-------------------------------------------------------------------------------
(* After crashes. *)

(* What FileOneEdgeAhead needs to be inductive: a file that a door has     *)
(* just replaced says what the door is about to commit, and no door is     *)
(* left with a file to restore.                                            *)
TornInv ==
  /\ FileOneEdgeAhead
  /\ \A d \in Doors : pc[d] # "undo"
  /\ \A d \in Doors : pc[d] = "written" /\ files[call[d].task] # NoFile
       => files[call[d].task].status = call[d].to

(* A step that writes neither rows nor files, and after which no further   *)
(* door is between its write and its commit, keeps the files right.        *)
LEMMA TornKept ==
  ASSUME TornInv, UNCHANGED <<rows, files>>,
         \A d \in Doors : pc'[d] # "undo",
         \A d \in Doors : pc'[d] = "written" =>
            pc[d] = "written" /\ call'[d].task = call[d].task /\ call'[d].to = call[d].to
  PROVE  TornInv'
BY DEF TornInv, FileOneEdgeAhead

(* Whatever dies, fails to write or vanishes, as long as no call is forced *)
(* and no commit fails, a task's file is at most one legal move ahead of   *)
(* its row: what the next sync adopts is a move a caller could have made.  *)
THEOREM FileAhead ==
  ASSUME Faults \subseteq {"write", "crash", "vanish"},
         \A mode \in CallModes : ~SkipsEdges(mode)
  PROVE  Spec => []FileOneEdgeAhead
<1>1. Init => TornInv
  BY DEF Init, BoardInit, TornInv, FileOneEdgeAhead
<1>2. IInv /\ TornInv /\ [Next]_vars => TornInv'
  <2> SUFFICES ASSUME IInv, TornInv, [Next]_vars PROVE TornInv'
    OBVIOUS
  <2>1. ASSUME NEW d \in Doors, Return(d), UNCHANGED <<rows, files>>
        PROVE  TornInv'
    <3>1. /\ pc'[d] = "idle"
          /\ \A e \in Doors \ {d} : pc'[e] = pc[e] /\ call'[e] = call[e]
      BY <2>1, ReturnTyped DEF IInv, TypeOK
    <3> QED
      BY <2>1, <3>1, TornKept DEF TornInv
  <2>2. ASSUME NEW d \in Doors, Start(d) \/ GatesPass(d) \/ Enter(d) PROVE TornInv'
    <3>1. /\ UNCHANGED <<rows, files>>
          /\ \A e \in Doors \ {d} : pc'[e] = pc[e] /\ call'[e] = call[e]
          /\ pc'[d] \in {"read", "gated", "locked"}
      BY <2>2 DEF Start, GatesPass, Enter, Goto, IInv, TypeOK, CallsTyped
    <3> QED
      BY <3>1, TornKept DEF TornInv
  <2>3. ASSUME NEW d \in Doors,
               GatesRefuse(d) \/ EnterRefused(d) \/ EnterBusy(d) \/ WriteFails(d) \/ Crash(d)
        PROVE  TornInv'
    BY <2>3, <2>1 DEF GatesRefuse, EnterRefused, EnterBusy, WriteFails, Crash, Refuse
  <2>4. ASSUME NEW d \in Doors, WriteFile(d) PROVE TornInv'
    <3>1. call[d] \in Call
      BY <2>4, CallTyped DEF WriteFile, IInv, TypeOK
    <3>2. /\ pc'[d] = "written" /\ UNCHANGED rows
          /\ call'[d].task = call[d].task /\ call'[d].to = call[d].to
          /\ \A e \in Doors \ {d} : pc'[e] = pc[e] /\ call'[e] = call[e]
      BY <2>4, <3>1 DEF WriteFile, Goto, IInv, TypeOK, CallsTyped, Call
    <3>3. \A e \in Doors \ {d} : pc[e] # "written"
      BY <2>4 DEF WriteFile, IInv, LockInv, InTransaction
    <3>4. \A t \in Tasks : t # call[d].task => files'[t] = files[t]
      BY <2>4 DEF WriteFile, IInv, TypeOK
    <3>5. files'[call[d].task] # NoFile => files'[call[d].task].status = call[d].to
      <4>1. CASE files[call[d].task] = NoFile
        BY <2>4, <4>1 DEF WriteFile
      <4>2. CASE files[call[d].task] # NoFile
        <5>1. files[call[d].task] \in Row /\ call[d].task \in Tasks
          BY <3>1, <4>2 DEF IInv, TypeOK, File, Call
        <5>2. files' = [files EXCEPT ![call[d].task] = Rewritten(files[call[d].task], call[d])]
          BY <2>4, <4>2 DEF WriteFile
        <5> QED
          BY <5>1, <5>2 DEF Rewritten, Row, IInv, TypeOK
      <4> QED
        BY <4>1, <4>2
    <3>6. <<rows[call[d].task].status, call[d].to>> \in Edges
      <4>1. d \in InTransaction /\ call[d].mode \in CallModes
        BY <2>4, <3>1 DEF WriteFile, InTransaction, Call
      <4> QED
        BY <4>1 DEF IInv, LockInv, Allowed
    <3> QED
      BY <3>1, <3>2, <3>3, <3>4, <3>5, <3>6 DEF TornInv, FileOneEdgeAhead
  <2>5. ASSUME NEW d \in Doors, Commit(d) PROVE TornInv'
    <3>1. call[d] \in Call
      BY <2>5, CallTyped DEF Commit, IInv, TypeOK
    <3>2. /\ pc'[d] = "idle" /\ pc[d] = "written" /\ UNCHANGED files
          /\ \A e \in Doors \ {d} : pc'[e] = pc[e] /\ call'[e] = call[e]
      BY <2>5, ReturnTyped DEF Commit, IInv, TypeOK
    <3>3. \A e \in Doors \ {d} : pc[e] # "written"
      BY <3>2 DEF IInv, LockInv, InTransaction
    <3>4. /\ rows'[call[d].task].status = call[d].to
          /\ \A t \in Tasks : t # call[d].task => rows'[t] = rows[t]
      BY <2>5, <3>1 DEF Commit, Record, IInv, TypeOK, BoardTypeOK, Row, Call
    <3> QED
      BY <3>1, <3>2, <3>3, <3>4 DEF TornInv, FileOneEdgeAhead
  <2>6. ASSUME NEW t \in Tasks, Vanish(t) PROVE TornInv'
    <3>1. /\ UNCHANGED <<rows, pc, call>> /\ files'[t] = NoFile
          /\ \A u \in Tasks : u # t => files'[u] = files[u]
      BY <2>6 DEF Vanish, IInv, TypeOK
    <3>2. \A d \in Doors : pc[d] = "written" => call[d].task \in Tasks
      BY CallTyped DEF IInv, TypeOK, Call
    <3> QED
      BY <3>1, <3>2 DEF TornInv, FileOneEdgeAhead
  <2>7. CASE UNCHANGED vars
    BY <2>7, TornKept DEF vars, TornInv
  <2> QED
    BY <2>2, <2>3, <2>4, <2>5, <2>6, <2>7 DEF Next, Proceed, CommitFails, RestoreFile, TornInv
<1>3. TornInv => FileOneEdgeAhead
  BY DEF TornInv
<1> QED
  BY <1>1, <1>2, <1>3, Invariant, PTL DEF Spec

===============================================================================
