-------------------------- MODULE AtomicBoard_proofs --------------------------
(***************************************************************************)
(* Proofs about AtomicBoard: its types, its caps and its audit trail, for  *)
(* every board.                                                            *)
(***************************************************************************)
EXTENDS AtomicBoard, FiniteSetTheorems, TLAPS

(* The cap of a column is a number, whatever the column. *)
LEMMA CapNat == ASSUME NEW c \in WipColumns PROVE Cap[c] \in Nat
BY BoardAssumption

(* What check_wip counts is a finite set of tasks. *)
LEMMA CountedFinite ==
  ASSUME NEW c, NEW s
  PROVE  /\ IsFiniteSet(Counted(c, s))
         /\ Cardinality(Counted(c, s)) \in Nat
<1>1. Counted(c, s) \subseteq Tasks
  BY DEF Counted
<1>2. IsFiniteSet(Counted(c, s))
  BY <1>1, BoardAssumption, FS_Subset
<1> QED
  BY <1>2, FS_CardinalityType

(* Adding one task to a set of tasks that has room keeps it within a cap. *)
LEMMA OneMore ==
  ASSUME NEW A, NEW B, NEW t, NEW n \in Nat,
         IsFiniteSet(A), B \subseteq A \cup {t}, Cardinality(A) < n
  PROVE  Cardinality(B) <= n
<1>1. /\ IsFiniteSet(A \cup {t})
      /\ Cardinality(A \cup {t}) = IF t \in A THEN Cardinality(A) ELSE Cardinality(A) + 1
  BY FS_AddElement
<1>3. Cardinality(A) \in Nat
  BY FS_CardinalityType
<1>2. IsFiniteSet(B) /\ Cardinality(B) <= Cardinality(A \cup {t})
  BY <1>1, FS_Subset
<1> QED
  <2>1. Cardinality(A \cup {t}) <= n /\ Cardinality(A \cup {t}) \in Nat
    BY <1>1, <1>3
  <2>2. Cardinality(B) \in Nat
    BY <1>2, FS_CardinalityType
  <2> QED
    BY <1>2, <2>1, <2>2

(* A set that shrinks stays within its cap. *)
LEMMA NoMore ==
  ASSUME NEW A, NEW B, NEW n \in Nat,
         IsFiniteSet(A), B \subseteq A, Cardinality(A) <= n
  PROVE  Cardinality(B) <= n
BY FS_Subset, FS_CardinalityType

-------------------------------------------------------------------------------

(* What cos_task_create leaves is a typed row and a typed audit trail. *)
LEMMA BoardInitTyped == BoardInit => BoardTypeOK
<1> SUFFICES ASSUME BoardInit PROVE BoardTypeOK
  OBVIOUS
<1>1. rows \in [Tasks -> Row]
  <2>1. [status : {"icebox"}, owner : {NoSession}, ready : BOOLEAN] \subseteq Row
    BY DEF Row, Owner, Status
  <2> QED
    BY <2>1 DEF BoardInit
<1>2. hist \in [Tasks -> HistRow]
  BY DEF BoardInit, HistRow, Status
<1> QED
  BY <1>1, <1>2 DEF BoardTypeOK

(* The rows and the audit trail keep their types: every move of            *)
(* transition() writes a status of the board and a known owner.            *)
THEOREM BoardTypeCorrect == BoardSpec => []BoardTypeOK
<1>1. BoardInit => BoardTypeOK
  BY BoardInitTyped
<1>2. BoardTypeOK /\ [BoardNext]_boardVars => BoardTypeOK'
  <2> SUFFICES ASSUME BoardTypeOK, [BoardNext]_boardVars PROVE BoardTypeOK'
    OBVIOUS
  <2>1. CASE UNCHANGED boardVars
    BY <2>1 DEF BoardTypeOK, boardVars
  <2>2. CASE BoardNext
    <3> PICK t \in Tasks, to \in Targets, s \in Owner, mode \in CallModes :
               Move(t, to, s, mode)
      BY <2>2 DEF BoardNext
    <3>1. to \in Status /\ rows[t] \in Row
      BY BoardAssumption DEF BoardTypeOK
    <3>2. rows' \in [Tasks -> Row]
      BY <3>1 DEF BoardTypeOK, Move, Record, Row
    <3>3. hist' \in [Tasks -> HistRow]
      BY <3>1 DEF BoardTypeOK, Move, Record, Row, HistRow
    <3> QED
      BY <3>2, <3>3 DEF BoardTypeOK
  <2> QED
    BY <2>1, <2>2
<1> QED
  BY <1>1, <1>2, PTL DEF BoardSpec

-------------------------------------------------------------------------------

(* The sets check_wip counts after a move grow by the moved task at most,  *)
(* and only in the column and for the owner of the move.                   *)
LEMMA MoveCounts ==
  ASSUME BoardTypeOK, NEW t \in Tasks, NEW from, NEW to \in Status, NEW s \in Owner,
         Record(t, from, to, s), NEW c, NEW x \in Owner
  PROVE  /\ Counted(c, x)' \subseteq Counted(c, x) \cup {t}
         /\ to # c => Counted(c, x)' \subseteq Counted(c, x)
         /\ c = "in_progress" /\ PerSessionWip /\ x # NoSession /\ x # s
              => Counted(c, x)' \subseteq Counted(c, x)
<1>1. /\ rows'[t].status = to /\ rows'[t].owner = s
      /\ \A u \in Tasks \ {t} : rows'[u] = rows[u]
  BY DEF Record, BoardTypeOK, Row
<1> QED
  BY <1>1 DEF Counted

(* A recorded move that found room leaves every cap kept: the count and    *)
(* the UPDATE of transition() are one step of the board.                   *)
LEMMA MoveKeepsCaps ==
  ASSUME BoardTypeOK, WipRespected, NEW t \in Tasks, NEW from, NEW to \in Status,
         NEW s \in Owner, HasRoom(to, s), Record(t, from, to, s)
  PROVE  WipRespected'
<1>1. to \in WipColumns => Cardinality(Counted(to, s)) < Cap[to]
  BY DEF HasRoom
<1>2. ASSUME NEW c \in WipColumns, NEW x \in Owner, CapOK(c, x),
             to = c => Counted(c, x) = Counted(c, s)
                    \/ Counted(c, x)' \subseteq Counted(c, x)
      PROVE  CapOK(c, x)'
  <2>1. Cardinality(Counted(c, x)') <= Cap[c]
    <3>1. CASE Counted(c, x)' \subseteq Counted(c, x)
      BY <3>1, <1>2, NoMore, CountedFinite, CapNat DEF CapOK
    <3>2. CASE to = c /\ Counted(c, x) = Counted(c, s)
      <4>1. Counted(c, x)' \subseteq Counted(c, x) \cup {t}
        BY MoveCounts
      <4>2. Cardinality(Counted(c, x)) < Cap[c]
        BY <3>2, <1>1
      <4> QED
        BY <4>1, <4>2, OneMore, CountedFinite, CapNat
    <3> QED
      BY <3>1, <3>2, <1>2, MoveCounts
  <2> QED
    BY <2>1 DEF CapOK
<1>3. ASSUME PerSessionWip, NEW x \in Sessions PROVE CapOK("in_progress", x)'
  <2>1. CapOK("in_progress", x) /\ x \in Owner /\ x # NoSession
    BY <1>3, BoardAssumption DEF WipRespected, WipColumns, Owner
  <2>2. x # s => Counted("in_progress", x)' \subseteq Counted("in_progress", x)
    BY <1>3, <2>1, MoveCounts
  <2> QED
    BY <1>2, <2>1, <2>2 DEF WipColumns
<1>4. ASSUME NEW c \in WipColumns, ~(c = "in_progress" /\ PerSessionWip)
      PROVE  CapOK(c, NoSession)'
  <2>1. Counted(c, NoSession) = Counted(c, s)
    BY <1>4 DEF Counted
  <2>2. CapOK(c, NoSession) /\ NoSession \in Owner
    BY <1>4 DEF WipRespected, Owner
  <2> QED
    BY <1>2, <2>1, <2>2
<1> QED
  BY <1>3, <1>4 DEF WipRespected

(* An empty board exceeds no cap.                                          *)
LEMMA CapsAtStart == BoardInit => WipRespected
<1> SUFFICES ASSUME BoardInit, NEW c \in WipColumns, NEW s \in Owner PROVE CapOK(c, s)
  BY DEF WipRespected, Owner
<1>1. \A t \in Tasks : rows[t].status = "icebox"
  BY DEF BoardInit
<1>2. Counted(c, s) = {}
  BY <1>1 DEF Counted, WipColumns
<1> QED
  BY <1>2, FS_EmptySet, CapNat DEF CapOK

(* When no caller bypasses the cap, no capped column ever holds more than  *)
(* its cap, and no session more in_progress tasks than its focus.          *)
THEOREM WipNeverExceeded ==
  ASSUME \A mode \in CallModes : ~SkipsWip(mode)
  PROVE  BoardSpec => []WipRespected
<1>1. BoardTypeOK /\ WipRespected /\ [BoardNext]_boardVars => WipRespected'
  <2> SUFFICES ASSUME BoardTypeOK, WipRespected, [BoardNext]_boardVars
               PROVE  WipRespected'
    OBVIOUS
  <2>1. CASE UNCHANGED boardVars
    BY <2>1 DEF WipRespected, CapOK, Counted, boardVars
  <2>2. CASE BoardNext
    <3> PICK t \in Tasks, to \in Targets, s \in Owner, mode \in CallModes :
               Move(t, to, s, mode)
      BY <2>2 DEF BoardNext
    <3>1. to \in Status /\ HasRoom(to, s) /\ Record(t, rows[t].status, to, s)
      BY BoardAssumption DEF Move, Allowed
    <3> QED
      BY <3>1, MoveKeepsCaps
  <2> QED
    BY <2>1, <2>2
<1> QED
  BY <1>1, CapsAtStart, BoardTypeCorrect, PTL DEF BoardSpec

-------------------------------------------------------------------------------

(* A recorded move of a task from the status it has leaves the audit trail *)
(* whole.                                                                  *)
LEMMA MoveAudited ==
  ASSUME BoardTypeOK, AuditEndsAtStatus, NEW t \in Tasks, NEW to \in Status, NEW s \in Owner,
         Record(t, rows[t].status, to, s)
  PROVE  /\ AuditEndsAtStatus'
         /\ \A u \in Tasks : hist'[u] # hist[u] => hist'[u].old = hist[u].new
<1>1. /\ rows'[t].status = to
      /\ hist'[t].new = to /\ hist'[t].old = rows[t].status
      /\ \A u \in Tasks \ {t} : rows'[u] = rows[u] /\ hist'[u] = hist[u]
  BY DEF Record, BoardTypeOK, Row, HistRow
<1> QED
  BY <1>1 DEF AuditEndsAtStatus

(* A step of the board changes one task at most, and adds to its audit     *)
(* trail the row that links its old status to its new one.                 *)
LEMMA BoardStep ==
  ASSUME BoardTypeOK, [BoardNext]_boardVars, NEW u \in Tasks
  PROVE  \/ rows'[u] = rows[u] /\ hist'[u] = hist[u]
         \/ hist'[u].old = rows[u].status /\ hist'[u].new = rows'[u].status
<1>1. CASE UNCHANGED boardVars
  BY <1>1 DEF boardVars
<1>2. CASE BoardNext
  <2> PICK t \in Tasks, to \in Targets, s \in Owner, mode \in CallModes :
             Move(t, to, s, mode)
    BY <1>2 DEF BoardNext
  <2>1. CASE u = t
    BY <2>1 DEF Move, Record, BoardTypeOK, Row
  <2>2. CASE u # t
    BY <2>2 DEF Move, Record, BoardTypeOK
  <2> QED
    BY <2>1, <2>2
<1> QED
  BY <1>1, <1>2

(* The last row of the audit trail of every task ends at its status.       *)
THEOREM AuditComplete == BoardSpec => []AuditEndsAtStatus
<1>1. BoardInit => AuditEndsAtStatus
  <2> SUFFICES ASSUME BoardInit, NEW t \in Tasks PROVE hist[t].new = rows[t].status
    BY DEF AuditEndsAtStatus
  <2>1. hist[t].new = "icebox"
    BY DEF BoardInit
  <2>2. rows[t] \in [status : {"icebox"}, owner : {NoSession}, ready : BOOLEAN]
    BY DEF BoardInit
  <2> QED
    BY <2>1, <2>2
<1>2. BoardTypeOK /\ AuditEndsAtStatus /\ [BoardNext]_boardVars => AuditEndsAtStatus'
  <2> SUFFICES ASSUME BoardTypeOK, AuditEndsAtStatus, [BoardNext]_boardVars,
                      NEW t \in Tasks
               PROVE  hist'[t].new = rows'[t].status
    BY DEF AuditEndsAtStatus
  <2> QED
    BY BoardStep DEF AuditEndsAtStatus
<1> QED
  BY <1>1, <1>2, BoardTypeCorrect, PTL DEF BoardSpec

(* Each row of the audit trail starts at the status the one before it      *)
(* ended at: no move is lost between two callers.                          *)
THEOREM AuditUnbroken == BoardSpec => AuditChain
<1>1. /\ BoardTypeOK /\ AuditEndsAtStatus /\ [BoardNext]_boardVars
      => [\A t \in Tasks : hist'[t] # hist[t] => hist'[t].old = hist[t].new]_hist
  <2> SUFFICES ASSUME BoardTypeOK, AuditEndsAtStatus, [BoardNext]_boardVars,
                      NEW t \in Tasks, hist'[t] # hist[t]
               PROVE  hist'[t].old = hist[t].new
    OBVIOUS
  <2> QED
    BY BoardStep DEF AuditEndsAtStatus
<1> QED
  BY <1>1, BoardTypeCorrect, AuditComplete, PTL DEF BoardSpec, AuditChain

===============================================================================
