------------------------- MODULE BoardReclaim_proofs -------------------------
(***************************************************************************)
(* Proofs about BoardClaim and BoardReclaim, for any sessions, reclaimers, *)
(* tasks, weights and dependencies: their types, that no task is claimed   *)
(* twice, that no session exceeds its focus cap by claiming, what a null   *)
(* means, and that forced moves are audited as the ones they are.          *)
(***************************************************************************)
EXTENDS BoardReclaim, AtomicBoard_proofs

(* Between its gates and its transaction a claim knows which entry of its  *)
(* list it is about.                                                       *)
GatedInv ==
  \A s \in Sessions :
    walk[s].phase = "gated" => \E c \in walk[s].list : c.task = walk[s].task

WalkInv == ClaimTypeOK /\ GatedInv

Focused(x) == Cardinality(Counted("in_progress", x)) <= Cap["in_progress"]

CInv == WalkInv /\ DistinctClaims /\ OneFocus

-------------------------------------------------------------------------------

(* Statuses and owners a recorded transition writes are typed.             *)
LEMMA RecordTyped ==
  ASSUME BoardTypeOK, NEW t \in Tasks, NEW from \in Status, NEW to \in Status,
         NEW s \in Sessions, Record(t, from, to, s)
  PROVE  /\ BoardTypeOK'
         /\ rows'[t].status = to /\ rows'[t].owner = s
         /\ \A u \in Tasks \ {t} : rows'[u] = rows[u]
<1>1. rows' \in [Tasks -> Row]
  BY DEF BoardTypeOK, Record, Row, Owner
<1>2. hist' \in [Tasks -> HistRow]
  BY DEF BoardTypeOK, Record, HistRow
<1>3. rows'[t].status = to /\ rows'[t].owner = s
  BY DEF BoardTypeOK, Record, Row
<1>4. \A u \in Tasks \ {t} : rows'[u] = rows[u]
  BY DEF BoardTypeOK, Record
<1> QED
  BY <1>1, <1>2, <1>3, <1>4 DEF BoardTypeOK

(* A transition that found room for its session leaves every session       *)
(* within the focus cap: it adds one task, to that session's count only.   *)
LEMMA FocusKept ==
  ASSUME BoardTypeOK, NEW t \in Tasks, NEW from \in Status, NEW to \in Status,
         NEW s \in Sessions, Record(t, from, to, s), HasRoom(to, s),
         NEW x \in Sessions, Focused(x)
  PROVE  Focused(x)'
<1> DEFINE Focus(y) == Counted("in_progress", y)
<1>1. /\ rows'[t].status = to /\ rows'[t].owner = s
      /\ \A u \in Tasks \ {t} : rows'[u] = rows[u]
  BY RecordTyped
<1>2. Cap["in_progress"] \in Nat /\ IsFiniteSet(Focus(x))
  BY CapNat, CountedFinite DEF WipColumns
<1>3. Cardinality(Focus(x)) <= Cap["in_progress"]
  BY DEF Focused
<1>4. CASE Focus(x)' \subseteq Focus(x)
  BY <1>2, <1>3, <1>4, NoMore DEF Focused
<1>5. CASE ~(Focus(x)' \subseteq Focus(x))
  <2>1. to = "in_progress" /\ Focus(x)' \subseteq Focus(x) \cup {t}
    BY <1>1, <1>5 DEF Counted
  <2>2. Focus(x) = Focus(s)
    BY <1>1, <1>5, BoardAssumption DEF Counted
  <2>3. Cardinality(Focus(x)) < Cap["in_progress"]
    BY <2>1, <2>2 DEF HasRoom, WipColumns
  <2> QED
    BY <1>2, <2>1, <2>3, OneMore DEF Focused
<1> QED
  BY <1>4, <1>5

(* The entry a gated claim is about. *)
LEMMA CurrentEntry ==
  ASSUME WalkInv, NEW s \in Sessions, walk[s].phase = "gated"
  PROVE  /\ Current(s) \in walk[s].list /\ Current(s) \in Candidate
         /\ Current(s).task = walk[s].task
<1>1. PICK c \in walk[s].list : c.task = walk[s].task
  BY DEF WalkInv, GatedInv
<1>2. Current(s) \in walk[s].list /\ Current(s).task = walk[s].task
  BY <1>1 DEF Current
<1> QED
  BY <1>2 DEF WalkInv, ClaimTypeOK

-------------------------------------------------------------------------------

(* Before anyone claims, nothing is claimed and nothing is in progress. *)
LEMMA ClaimInitInv == ClaimInit => CInv
<1> SUFFICES ASSUME ClaimInit PROVE CInv
  OBVIOUS
<1>1. ClaimTypeOK
  BY BoardInitTyped DEF ClaimInit, ClaimTypeOK, NoWalk
<1>2. GatedInv
  BY DEF ClaimInit, GatedInv, NoWalk
<1>3. DistinctClaims
  BY DEF ClaimInit, DistinctClaims
<1>4. OneFocus
  <2> SUFFICES ASSUME NEW s \in Sessions
               PROVE  Cardinality(Counted("in_progress", s)) <= Cap["in_progress"]
    BY DEF OneFocus
  <2>1. \A t \in Tasks : rows[t].status = "icebox"
    BY DEF ClaimInit, BoardInit
  <2>2. Counted("in_progress", s) = {}
    BY <2>1 DEF Counted
  <2> QED
    BY <2>2, FS_EmptySet, CapNat DEF WipColumns
<1> QED
  BY <1>1, <1>2, <1>3, <1>4 DEF CInv, WalkInv

(* A step that only moves a session's walk on, to one that is typed and    *)
(* knows its entry.                                                        *)
LEMMA WalkOn ==
  ASSUME WalkInv, NEW s \in Sessions, UNCHANGED <<rows, hist, gone, mine>>,
         NEW w \in [phase : {"idle", "walking", "gated"}, list : SUBSET Candidate,
                    task : Tasks \cup {NoTask}],
         w.phase = "gated" => \E c \in w.list : c.task = w.task,
         walk' = [walk EXCEPT ![s] = w]
  PROVE  WalkInv'
<1>1. ClaimTypeOK'
  BY DEF WalkInv, ClaimTypeOK, BoardTypeOK
<1>2. GatedInv'
  BY DEF WalkInv, ClaimTypeOK, GatedInv
<1> QED
  BY <1>1, <1>2 DEF WalkInv

(* The candidates cos_task_pick returns. *)
LEMMA CandidatesTyped == ASSUME ClaimTypeOK PROVE Candidates \subseteq Candidate
<1> SUFFICES ASSUME NEW t \in Tasks, Runnable(t)
             PROVE  [task |-> t, from |-> rows[t].status,
                     score |-> Weight[t] + IF rows[t].status = "emergency" THEN 30 ELSE 0]
                      \in Candidate
  BY DEF Candidates
<1>1. rows[t].status \in {"icebox", "emergency"}
  BY DEF Runnable
<1>2. Weight[t] + (IF rows[t].status = "emergency" THEN 30 ELSE 0) \in Nat
  BY ClaimAssumption
<1> QED
  BY <1>1, <1>2 DEF Candidate

(* Listing candidates. *)
LEMMA PickTyped == ASSUME WalkInv, NEW s \in Sessions, Pick(s) PROVE WalkInv'
<1>1. Candidates \subseteq Candidate
  BY CandidatesTyped DEF WalkInv
<1> QED
  BY <1>1, WalkOn DEF Pick

(* An entry dropped from the list, and a claim that ends. *)
LEMMA DropTyped ==
  ASSUME ClaimTypeOK, NEW s \in Sessions, NEW c
  PROVE  /\ Drop(s, c) \in [phase : {"walking"}, list : SUBSET Candidate, task : {NoTask}]
         /\ NoWalk \in [phase : {"idle"}, list : SUBSET Candidate, task : {NoTask}]
BY DEF ClaimTypeOK, Drop, NoWalk

(* The lock-free part of a transition: dropped, given up, or gated. *)
LEMMA AttemptTyped == ASSUME WalkInv, NEW s \in Sessions, Attempt(s) PROVE WalkInv'
<1>0. ClaimTypeOK
  BY DEF WalkInv
<1>1. PICK c \in Best(walk[s].list) :
        LET gated == [walk[s] EXCEPT !.phase = "gated", !.task = c.task] IN
        \E w \in {Drop(s, c), NoWalk, gated} : walk' = [walk EXCEPT ![s] = w]
  BY DEF Attempt
<1>2. c \in walk[s].list /\ c.task \in Tasks
  BY <1>0 DEF Best, ClaimTypeOK, Candidate
<1> DEFINE gated == [walk[s] EXCEPT !.phase = "gated", !.task = c.task]
<1>3. /\ gated \in [phase : {"gated"}, list : SUBSET Candidate, task : Tasks]
      /\ gated.list = walk[s].list /\ gated.task = c.task
  BY <1>0, <1>2 DEF ClaimTypeOK
<1>4. UNCHANGED <<rows, hist, gone, mine>>
  BY DEF Attempt
<1> HIDE DEF gated
<1>5. CASE walk' = [walk EXCEPT ![s] = gated]
  BY <1>2, <1>3, <1>4, <1>5, WalkOn
<1>6. CASE walk' = [walk EXCEPT ![s] = Drop(s, c)]
  BY <1>0, <1>4, <1>6, DropTyped, WalkOn
<1>7. CASE walk' = [walk EXCEPT ![s] = NoWalk]
  BY <1>0, <1>4, <1>7, DropTyped, WalkOn
<1> QED
  BY <1>1, <1>5, <1>6, <1>7 DEF gated

(* A claim that is refused, failed, lost to a peer, or out of list. *)
LEMMA EndTyped ==
  ASSUME WalkInv, NEW s \in Sessions, Full(s) \/ Fail(s) \/ Lose(s) \/ Exhausted(s)
  PROVE  WalkInv'
<1>1. /\ UNCHANGED <<rows, hist, gone, mine>>
      /\ \E w \in {Drop(s, Current(s)), NoWalk} : walk' = [walk EXCEPT ![s] = w]
  BY DEF Full, Fail, Lose, Exhausted, GiveUp
<1>2. ClaimTypeOK
  BY DEF WalkInv
<1>3. CASE walk' = [walk EXCEPT ![s] = Drop(s, Current(s))]
  <2>1. Drop(s, Current(s)) \in [phase : {"walking"}, list : SUBSET Candidate, task : {NoTask}]
    BY <1>2, DropTyped
  <2> QED
    BY <1>1, <1>3, <2>1, WalkOn
<1>4. CASE walk' = [walk EXCEPT ![s] = NoWalk]
  BY <1>1, <1>2, <1>4, DropTyped, WalkOn
<1> QED
  BY <1>1, <1>3, <1>4

(* The transaction that wins, on a task with the status of the list.       *)
LEMMA WinIs ==
  ASSUME WalkInv, NEW s \in Sessions, Win(s)
  PROVE  \E t \in Tasks, from \in {"icebox", "emergency"} :
           /\ rows[t].status = from /\ HasRoom("in_progress", s)
           /\ Record(t, from, "in_progress", s)
           /\ mine' = [mine EXCEPT ![s] = @ \cup {t}]
           /\ walk' = [walk EXCEPT ![s] = NoWalk]
           /\ gone' = gone
<1>1. Current(s) \in Candidate
  BY CurrentEntry DEF Win
<1>2. Current(s).task \in Tasks /\ Current(s).from \in {"icebox", "emergency"}
  BY <1>1 DEF Candidate
<1> QED
  BY <1>2 DEF Win, Unclaimed

(* A session that moves its own task on. *)
LEMMA AdvanceIs ==
  ASSUME WalkInv, NEW s \in Sessions, Advance(s)
  PROVE  \E t \in Tasks, to \in Status :
           /\ t \in mine[s] /\ rows[t].owner = s
           /\ rows[t].status \in Status /\ HasRoom(to, s)
           /\ Record(t, rows[t].status, to, s)
           /\ mine' = [mine EXCEPT ![s] = IF to \in Working THEN @ ELSE @ \ {t}]
           /\ walk' = walk /\ gone' = gone
<1>1. PICK t \in mine[s], to \in Targets :
        /\ rows[t].owner = s
        /\ Move(t, to, s, "plain")
        /\ mine' = [mine EXCEPT ![s] = IF to \in Working THEN @ ELSE @ \ {t}]
  BY DEF Advance
<1>2. t \in Tasks /\ to \in Status /\ walk' = walk /\ gone' = gone
  BY BoardAssumption DEF WalkInv, ClaimTypeOK, Advance
<1>3. rows[t].status \in Status /\ HasRoom(to, s) /\ Record(t, rows[t].status, to, s)
  BY <1>1, <1>2 DEF WalkInv, ClaimTypeOK, Move, Allowed, SkipsWip, BoardTypeOK, Row
<1> QED
  BY <1>1, <1>2, <1>3

(* Every step of a session keeps the types. *)
LEMMA SessionTyped ==
  ASSUME WalkInv, NEW s \in Sessions, ClaimStep(s) \/ Advance(s)
  PROVE  WalkInv'
<1>0. ClaimTypeOK /\ GatedInv /\ BoardTypeOK
  BY DEF WalkInv, ClaimTypeOK
<1>1. CASE Win(s)
  <2>1. PICK t \in Tasks, from \in {"icebox", "emergency"} :
          /\ Record(t, from, "in_progress", s)
          /\ mine' = [mine EXCEPT ![s] = @ \cup {t}]
          /\ walk' = [walk EXCEPT ![s] = NoWalk]
          /\ gone' = gone
    BY <1>1, WinIs
  <2>2. from \in Status /\ "in_progress" \in Status
    BY DEF Status
  <2>3. BoardTypeOK'
    BY <1>0, <2>1, <2>2, RecordTyped
  <2>4. ClaimTypeOK'
    BY <1>0, <2>1, <2>3, DropTyped DEF ClaimTypeOK
  <2>5. GatedInv'
    BY <1>0, <2>1, DropTyped DEF GatedInv, ClaimTypeOK, NoWalk
  <2> QED
    BY <2>4, <2>5 DEF WalkInv
<1>2. CASE Advance(s)
  <2>1. PICK t \in Tasks, to \in Status :
          /\ t \in mine[s] /\ rows[t].status \in Status
          /\ Record(t, rows[t].status, to, s)
          /\ mine' = [mine EXCEPT ![s] = IF to \in Working THEN @ ELSE @ \ {t}]
          /\ walk' = walk /\ gone' = gone
    BY <1>2, AdvanceIs
  <2>2. BoardTypeOK'
    BY <1>0, <2>1, RecordTyped
  <2>3. ClaimTypeOK'
    BY <1>0, <2>1, <2>2 DEF ClaimTypeOK
  <2>4. GatedInv'
    BY <1>0, <2>1 DEF GatedInv
  <2> QED
    BY <2>3, <2>4 DEF WalkInv
<1> QED
  BY <1>1, <1>2, PickTyped, AttemptTyped, EndTyped DEF ClaimStep, Proceed

(* Every step of a session keeps everyone's focus cap. *)
LEMMA SessionFocused ==
  ASSUME WalkInv, NEW s \in Sessions, ClaimStep(s) \/ Advance(s),
         NEW x \in Sessions, Focused(x)
  PROVE  Focused(x)'
<1>0. BoardTypeOK
  BY DEF WalkInv, ClaimTypeOK
<1>1. CASE Win(s)
  <2>1. PICK t \in Tasks, from \in {"icebox", "emergency"} :
          HasRoom("in_progress", s) /\ Record(t, from, "in_progress", s)
    BY <1>1, WinIs
  <2>2. from \in Status /\ "in_progress" \in Status
    BY DEF Status
  <2> QED
    BY <1>0, <2>1, <2>2, FocusKept
<1>2. CASE Advance(s)
  <2>1. PICK t \in Tasks, to \in Status :
          /\ rows[t].status \in Status /\ HasRoom(to, s)
          /\ Record(t, rows[t].status, to, s)
    BY <1>2, AdvanceIs
  <2> QED
    BY <1>0, <2>1, FocusKept
<1>3. CASE ~Win(s) /\ ~Advance(s)
  <2>1. UNCHANGED rows
    BY <1>3 DEF ClaimStep, Proceed, Pick, Attempt, Full, Fail, Lose, Exhausted, GiveUp
  <2> QED
    BY <2>1 DEF Focused, Counted
<1> QED
  BY <1>1, <1>2, <1>3

(* Every step of a session keeps claims apart: a task with the status of   *)
(* the list is in nobody's hands, and sessions move only their own.        *)
LEMMA SessionDistinct ==
  ASSUME WalkInv, DistinctClaims, NEW s \in Sessions, ClaimStep(s) \/ Advance(s)
  PROVE  DistinctClaims'
<1>0. ClaimTypeOK /\ BoardTypeOK
  BY DEF WalkInv, ClaimTypeOK
<1>1. CASE Win(s)
  <2>1. PICK c \in Tasks, from \in {"icebox", "emergency"} :
          /\ rows[c].status = from
          /\ Record(c, from, "in_progress", s)
          /\ mine' = [mine EXCEPT ![s] = @ \cup {c}]
    BY <1>1, WinIs
  <2>2. from \in Status /\ "in_progress" \in Status
    BY DEF Status
  <2>3. /\ rows'[c].status = "in_progress" /\ rows'[c].owner = s
        /\ \A u \in Tasks \ {c} : rows'[u] = rows[u]
    BY <1>0, <2>1, <2>2, RecordTyped
  <2>4. \A u \in Sessions : c \notin mine[u]
    BY <2>1 DEF DistinctClaims, Working
  <2> SUFFICES ASSUME NEW u \in Sessions, NEW t \in Tasks, t \in mine'[u]
               PROVE  /\ rows'[t].owner = u /\ rows'[t].status \in Working
                      /\ \A x \in Sessions : t \in mine'[x] => x = u
    BY DEF DistinctClaims
  <2>5. \A x \in Sessions : mine'[x] = IF x = s THEN mine[x] \cup {c} ELSE mine[x]
    BY <1>0, <2>1 DEF ClaimTypeOK
  <2>6. CASE t = c
    BY <2>3, <2>4, <2>5, <2>6 DEF Working
  <2>7. CASE t # c
    <3>1. \A x \in Sessions : t \in mine'[x] <=> t \in mine[x]
      BY <2>5, <2>7
    <3>2. rows'[t] = rows[t]
      BY <2>3, <2>7
    <3> QED
      BY <3>1, <3>2 DEF DistinctClaims
  <2> QED
    BY <2>6, <2>7
<1>2. CASE Advance(s)
  <2>1. PICK t \in Tasks, to \in Status :
          /\ t \in mine[s] /\ rows[t].status \in Status
          /\ Record(t, rows[t].status, to, s)
          /\ mine' = [mine EXCEPT ![s] = IF to \in Working THEN @ ELSE @ \ {t}]
    BY <1>2, AdvanceIs
  <2>2. /\ rows'[t].status = to /\ rows'[t].owner = s
        /\ \A u \in Tasks \ {t} : rows'[u] = rows[u]
    BY <1>0, <2>1, RecordTyped
  <2> SUFFICES ASSUME NEW u \in Sessions, NEW v \in Tasks, v \in mine'[u]
               PROVE  /\ rows'[v].owner = u /\ rows'[v].status \in Working
                      /\ \A x \in Sessions : v \in mine'[x] => x = u
    BY DEF DistinctClaims
  <2>3. \A x \in Sessions : mine'[x] \subseteq mine[x]
    BY <1>0, <2>1 DEF ClaimTypeOK
  <2>4. /\ rows[v].owner = u /\ rows[v].status \in Working
        /\ \A x \in Sessions : v \in mine[x] => x = u
    BY <2>3 DEF DistinctClaims
  <2>5. CASE v = t
    <3>1. u = s /\ mine'[s] = IF to \in Working THEN mine[s] ELSE mine[s] \ {t}
      BY <1>0, <2>1, <2>4, <2>5 DEF ClaimTypeOK
    <3> QED
      BY <2>2, <2>3, <2>4, <2>5, <3>1
  <2>6. CASE v # t
    BY <2>2, <2>3, <2>4, <2>6
  <2> QED
    BY <2>5, <2>6
<1>3. CASE ~Win(s) /\ ~Advance(s)
  <2>1. UNCHANGED <<rows, mine>>
    BY <1>3 DEF ClaimStep, Proceed, Pick, Attempt, Full, Fail, Lose, Exhausted, GiveUp
  <2> QED
    BY <2>1 DEF DistinctClaims
<1> QED
  BY <1>1, <1>2, <1>3

(* What happens to the backlog meanwhile touches no status, owner or walk. *)
LEMMA BacklogTyped ==
  ASSUME WalkInv, NEW t \in Tasks, Unlabel(t) \/ Prune(t)
  PROVE  /\ WalkInv' /\ UNCHANGED <<hist, walk, mine>>
         /\ \A u \in Tasks : rows'[u].status = rows[u].status /\ rows'[u].owner = rows[u].owner
         /\ t \notin Unlabelled => UNCHANGED rows
<1>1. /\ rows' \in [Tasks -> Row]
      /\ \A u \in Tasks : rows'[u].status = rows[u].status /\ rows'[u].owner = rows[u].owner
  <2>0. rows \in [Tasks -> Row]
    BY DEF WalkInv, ClaimTypeOK, BoardTypeOK
  <2>1. CASE Unlabel(t)
    <3>1. rows' = [rows EXCEPT ![t] = [rows[t] EXCEPT !.ready = FALSE]]
      BY <2>1 DEF Unlabel
    <3>2. /\ [rows[t] EXCEPT !.ready = FALSE] \in Row
          /\ [rows[t] EXCEPT !.ready = FALSE].status = rows[t].status
          /\ [rows[t] EXCEPT !.ready = FALSE].owner = rows[t].owner
      BY <2>0 DEF Row
    <3> QED
      BY <2>0, <3>1, <3>2
  <2>2. CASE Prune(t)
    BY <2>0, <2>2 DEF Prune
  <2> QED
    BY <2>1, <2>2
<1>2. UNCHANGED <<hist, walk, mine>> /\ gone' \subseteq Tasks
  BY DEF WalkInv, ClaimTypeOK, Unlabel, Prune
<1>3. t \notin Unlabelled => UNCHANGED rows
  BY DEF Unlabel, Prune
<1>4. WalkInv'
  BY <1>1, <1>2 DEF WalkInv, ClaimTypeOK, BoardTypeOK, GatedInv
<1> QED
  BY <1>1, <1>2, <1>3, <1>4

(* ... and so leaves claims apart and caps kept.                           *)
LEMMA BacklogKeeps ==
  ASSUME CInv, NEW t \in Tasks, Unlabel(t) \/ Prune(t)
  PROVE  CInv'
<1>1. /\ WalkInv' /\ UNCHANGED mine
      /\ \A u \in Tasks : rows'[u].status = rows[u].status /\ rows'[u].owner = rows[u].owner
  BY BacklogTyped DEF CInv
<1>2. DistinctClaims'
  BY <1>1 DEF CInv, DistinctClaims
<1>3. ASSUME NEW x \in Sessions PROVE Counted("in_progress", x)' = Counted("in_progress", x)
  BY <1>1 DEF Counted
<1>4. OneFocus'
  BY <1>3 DEF CInv, OneFocus
<1> QED
  BY <1>1, <1>2, <1>4 DEF CInv

-------------------------------------------------------------------------------

(* The invariant of claiming: types, distinct claims, and the focus cap,   *)
(* for what cos_task_claim_next and cos_task_move do between them.         *)
THEOREM ClaimInvariant == ClaimSpec => []CInv
<1>1. CInv /\ [ClaimNext]_claimVars => CInv'
  <2> SUFFICES ASSUME CInv, [ClaimNext]_claimVars PROVE CInv'
    OBVIOUS
  <2>1. CASE UNCHANGED claimVars
    BY <2>1 DEF claimVars, CInv, WalkInv, ClaimTypeOK, BoardTypeOK, GatedInv, DistinctClaims,
                OneFocus, Counted
  <2>2. ASSUME NEW s \in Sessions, ClaimStep(s) \/ Advance(s) PROVE CInv'
    <3>1. WalkInv' /\ DistinctClaims'
      BY <2>2, SessionTyped, SessionDistinct DEF CInv
    <3>2. \A x \in Sessions : Focused(x)'
      BY <2>2, SessionFocused DEF CInv, OneFocus, Focused
    <3> QED
      BY <3>1, <3>2 DEF CInv, OneFocus, Focused
  <2> QED
    BY <2>1, <2>2, BacklogKeeps DEF ClaimNext
<1> QED
  BY <1>1, ClaimInitInv, PTL DEF ClaimSpec

(* Lists, attempts and holdings keep their types. *)
THEOREM ClaimTypeCorrect == ClaimSpec => []ClaimTypeOK
BY ClaimInvariant, PTL DEF CInv, WalkInv

(* N racing sessions each get a distinct task, and the board shows its     *)
(* holder: the compare-and-set on the status in the list decides the race. *)
THEOREM ClaimsAreDistinct == ClaimSpec => []DistinctClaims
BY ClaimInvariant, PTL DEF CInv

(* No session exceeds its focus cap by claiming or by moving its tasks.    *)
THEOREM FocusHolds == ClaimSpec => []OneFocus
BY ClaimInvariant, PTL DEF CInv

(* A claim has candidates only while it walks them.                        *)
IdleLists == \A s \in Sessions : walk[s].phase = "idle" => walk[s].list = {}

(* Candidates from the backlog keep the label they were listed for.        *)
LabelInv ==
  \A s \in Sessions : \A c \in walk[s].list : c.from = "icebox" => rows[c.task].ready

(* No step of a session changes a label.                                   *)
LEMMA LabelsStay ==
  ASSUME WalkInv, NEW s \in Sessions, ClaimStep(s) \/ Advance(s), NEW t \in Tasks
  PROVE  rows'[t].ready = rows[t].ready
<1>1. CASE Win(s)
  <2>1. PICK c \in Tasks, from \in {"icebox", "emergency"} : Record(c, from, "in_progress", s)
    BY <1>1, WinIs
  <2> QED
    BY <2>1 DEF Record, WalkInv, ClaimTypeOK, BoardTypeOK, Row
<1>2. CASE Advance(s)
  <2>1. PICK c \in Tasks, to \in Status : Record(c, rows[c].status, to, s)
    BY <1>2, AdvanceIs
  <2> QED
    BY <2>1 DEF Record, WalkInv, ClaimTypeOK, BoardTypeOK, Row
<1>3. CASE ~Win(s) /\ ~Advance(s)
  BY <1>3 DEF ClaimStep, Proceed, Pick, Attempt, Full, Fail, Lose, Exhausted, GiveUp
<1> QED
  BY <1>1, <1>2, <1>3

(* What a step makes of the walk of its session, and of no other.          *)
LEMMA WalkAfter ==
  ASSUME WalkInv, NEW s \in Sessions, ClaimStep(s) \/ Advance(s)
  PROVE  /\ \A u \in Sessions \ {s} : walk'[u] = walk[u]
         /\ \/ walk'[s] = NoWalk
            \/ Pick(s) /\ walk'[s].phase = "walking" /\ walk'[s].list = Candidates
            \/ /\ walk'[s].phase # "idle" \/ walk'[s] = walk[s]
               /\ walk'[s].list \subseteq walk[s].list
<1> USE DEF WalkInv, ClaimTypeOK
<1>1. CASE Pick(s)
  BY <1>1 DEF Pick
<1>2. CASE Attempt(s)
  <2>1. PICK c \in Best(walk[s].list) :
          LET gated == [walk[s] EXCEPT !.phase = "gated", !.task = c.task] IN
          \E w \in {Drop(s, c), NoWalk, gated} : walk' = [walk EXCEPT ![s] = w]
    BY <1>2 DEF Attempt
  <2> DEFINE gated == [walk[s] EXCEPT !.phase = "gated", !.task = c.task]
  <2>2. gated.phase = "gated" /\ gated.list = walk[s].list
    OBVIOUS
  <2>3. PICK w \in {Drop(s, c), NoWalk, gated} : walk' = [walk EXCEPT ![s] = w]
    BY <2>1
  <2> HIDE DEF gated
  <2>4. w = NoWalk \/ (w.phase # "idle" /\ w.list \subseteq walk[s].list)
    BY <2>2, <2>3 DEF Drop
  <2>5. walk'[s] = w /\ \A u \in Sessions \ {s} : walk'[u] = walk[u]
    BY <2>3
  <2> QED
    BY <2>4, <2>5
<1>3. CASE Win(s) \/ Full(s) \/ Fail(s) \/ Exhausted(s)
  BY <1>3 DEF Win, Full, Fail, Exhausted, GiveUp
<1>4. CASE Lose(s)
  BY <1>4 DEF Lose, Drop
<1>5. CASE Advance(s)
  BY <1>5 DEF Advance
<1> QED
  BY <1>1, <1>2, <1>3, <1>4, <1>5 DEF ClaimStep, Proceed

(* An attempt that ends the walk has met a candidate that is refused.      *)
LEMMA GivenUp ==
  ASSUME WalkInv, NEW s \in Sessions, Attempt(s), walk'[s].phase = "idle"
  PROVE  \E c \in walk[s].list : Refused(s, c)
<1>1. ClaimTypeOK /\ walk[s].phase = "walking"
  BY DEF WalkInv, Attempt
<1>2. PICK c \in Best(walk[s].list) :
        LET t == c.task IN
        walk' = [walk EXCEPT ![s] =
          IF t \in gone                                         THEN NoWalk
          ELSE IF rows[t].status # c.from                       THEN Drop(s, c)
          ELSE IF c.from = "icebox" /\ ~rows[t].ready           THEN NoWalk
          ELSE IF c.from = "icebox" /\ ~DepsComplete(t)         THEN Drop(s, c)
          ELSE IF t \notin Authored                             THEN NoWalk
          ELSE [@ EXCEPT !.phase = "gated", !.task = t]]
  BY DEF Attempt
<1>3. c \in walk[s].list
  BY DEF Best
<1>4. Drop(s, c).phase = "walking"
  BY DEF Drop
<1> QED
  BY <1>1, <1>2, <1>3, <1>4 DEF ClaimTypeOK, Refused, Unclaimed

(* Who does not claim has no list, whoever lists, claims and moves.        *)
LEMMA ListsEnd ==
  /\ ClaimInit => IdleLists
  /\ CInv /\ IdleLists /\ [ClaimNext]_claimVars => IdleLists'
<1>1. ClaimInit => IdleLists
  BY DEF ClaimInit, IdleLists, NoWalk
<1>2. CInv /\ IdleLists /\ [ClaimNext]_claimVars => IdleLists'
  <2> SUFFICES ASSUME CInv, IdleLists, [ClaimNext]_claimVars PROVE IdleLists'
    OBVIOUS
  <2>1. CASE UNCHANGED walk
    BY <2>1 DEF IdleLists
  <2>2. ASSUME NEW s \in Sessions, ClaimStep(s) \/ Advance(s) PROVE IdleLists'
    BY <2>2, WalkAfter DEF CInv, IdleLists, NoWalk
  <2> QED
    BY <2>1, <2>2 DEF ClaimNext, Unlabel, Prune, claimVars
<1> QED
  BY <1>1, <1>2

(* Where nobody takes labels off, lists stay labelled.                     *)
LEMMA ListsKept ==
  ASSUME Unlabelled = {}
  PROVE  /\ ClaimInit => LabelInv
         /\ CInv /\ LabelInv /\ [ClaimNext]_claimVars => LabelInv'
<1>1. ClaimInit => LabelInv
  BY DEF ClaimInit, LabelInv, NoWalk
<1>2. CInv /\ LabelInv /\ [ClaimNext]_claimVars => LabelInv'
  <2> SUFFICES ASSUME CInv, LabelInv, [ClaimNext]_claimVars PROVE LabelInv'
    OBVIOUS
  <2>0. WalkInv /\ \A u \in Sessions : walk[u].list \subseteq Candidate
    BY DEF CInv, WalkInv, ClaimTypeOK
  <2>1. CASE UNCHANGED <<rows, walk>>
    BY <2>1 DEF LabelInv
  <2>2. ASSUME NEW s \in Sessions, ClaimStep(s) \/ Advance(s) PROVE LabelInv'
    <3>1. \A t \in Tasks : rows'[t].ready = rows[t].ready
      BY <2>0, <2>2, LabelsStay
    <3> SUFFICES ASSUME NEW u \in Sessions, NEW c \in walk'[u].list, c.from = "icebox"
                 PROVE  rows'[c.task].ready
      BY DEF LabelInv
    <3>2. CASE c \in walk[u].list
      <4>1. c.task \in Tasks
        BY <2>0, <3>2 DEF Candidate
      <4> QED
        BY <3>1, <3>2, <4>1 DEF LabelInv
    <3>3. CASE c \in Candidates
      <4>1. PICK t \in Tasks : Runnable(t) /\ c.task = t /\ c.from = rows[t].status
        BY <3>3 DEF Candidates
      <4> QED
        BY <3>1, <4>1 DEF Runnable
    <3>4. c \in walk[u].list \/ c \in Candidates
      BY <2>0, <2>2, WalkAfter DEF NoWalk
    <3> QED
      BY <3>2, <3>3, <3>4
  <2>3. ASSUME NEW t \in Tasks, Unlabel(t) \/ Prune(t) PROVE LabelInv'
    BY <2>0, <2>1, <2>3, BacklogTyped
  <2> QED
    BY <2>1, <2>2, <2>3 DEF ClaimNext, claimVars
<1> QED
  BY <1>1, <1>2

(* A walk that ends without a task and with candidates left was refused:   *)
(* by the cap, the label, the Definition of Ready or a failing write, or   *)
(* its candidate was pruned. One lost to a peer is never the reason.       *)
THEOREM NullIsRefused == ClaimSpec => NullMeansRefused
<1>1. CInv /\ IdleLists /\ [ClaimNext]_claimVars =>
        [\A s \in Sessions :
           walk[s].list # {} /\ walk'[s].phase = "idle" /\ mine'[s] = mine[s]
             => \E c \in walk[s].list :
                  Refused(s, c) /\ (walk[s].phase = "gated" => c.task = walk[s].task)]_claimVars
  <2> SUFFICES ASSUME CInv, IdleLists, ClaimNext, NEW s \in Sessions,
                      walk[s].list # {}, walk'[s].phase = "idle", mine'[s] = mine[s]
               PROVE  \E c \in walk[s].list :
                        Refused(s, c) /\ (walk[s].phase = "gated" => c.task = walk[s].task)
    BY DEF claimVars
  <2>0. WalkInv /\ ClaimTypeOK /\ DistinctClaims /\ walk[s].phase # "idle"
    BY DEF CInv, WalkInv, IdleLists
  <2>1. PICK u \in Sessions : ClaimStep(u) \/ Advance(u)
    BY <2>0 DEF ClaimNext, Unlabel, Prune
  <2>2. u = s
    BY <2>0, <2>1, WalkAfter
  <2>3. CASE Attempt(s)
    BY <2>0, <2>3, GivenUp DEF Attempt
  <2>4. CASE Full(s) \/ Fail(s)
    <3>1. walk[s].phase = "gated" /\ Unclaimed(Current(s))
          /\ (TxnFails \/ ~HasRoom("in_progress", s))
      BY <2>4 DEF Full, Fail
    <3>2. Current(s) \in walk[s].list /\ Current(s).task = walk[s].task
      BY <2>0, <3>1, CurrentEntry
    <3> QED
      BY <3>1, <3>2 DEF Refused
  <2>5. CASE Lose(s)
    BY <2>0, <2>5 DEF Lose, Drop, ClaimTypeOK
  <2>6. CASE Win(s)
    <3>1. PICK t \in Tasks, from \in {"icebox", "emergency"} :
            rows[t].status = from /\ mine' = [mine EXCEPT ![s] = @ \cup {t}]
      BY <2>0, <2>6, WinIs
    <3>2. t \notin mine[s] /\ mine'[s] = mine[s] \cup {t}
      BY <2>0, <3>1 DEF DistinctClaims, Working, ClaimTypeOK
    <3> QED
      BY <3>2
  <2>7. CASE Pick(s) \/ Exhausted(s) \/ Advance(s)
    BY <2>0, <2>7 DEF Pick, Exhausted, Advance
  <2> QED
    BY <2>1, <2>2, <2>3, <2>4, <2>5, <2>6, <2>7 DEF ClaimStep, Proceed
<1> QED
  BY <1>1, ListsEnd, ClaimInvariant, PTL DEF ClaimSpec, NullMeansRefused

(* The board a claim promises counts as the board it extends does.         *)
LEMMA SameCount == ASSUME NEW S PROVE Board!Cardinality(S) = Cardinality(S)
BY Zenon DEF Board!Cardinality, Cardinality

(* The entry a gated claim is about keeps the label the gates saw: with    *)
(* that, the winning transaction and the move of a held task are moves of  *)
(* the board.                                                              *)
LEMMA ClaimStepImplements ==
  ASSUME CInv, LabelInv, NEW s \in Sessions, ClaimStep(s) \/ Advance(s)
  PROVE  [Board!BoardNext]_boardVars
<1>0. WalkInv /\ ClaimTypeOK /\ s \in Board!Owner
  BY DEF CInv, WalkInv, Board!Owner
<1>1. CASE Win(s)
  <2> DEFINE c == Current(s)
  <2>1. c \in walk[s].list /\ c \in Candidate
    BY <1>0, <1>1, CurrentEntry DEF Win
  <2>2. /\ rows[c.task].status = c.from /\ HasRoom("in_progress", s)
        /\ Record(c.task, c.from, "in_progress", s)
    BY <1>1 DEF Win, Unclaimed
  <2>3. c.task \in Tasks /\ c.from \in {"icebox", "emergency"}
    BY <2>1 DEF Candidate
  <2>4. c.from = "icebox" => rows[c.task].ready
    BY <2>1 DEF LabelInv
  <2> HIDE DEF c
  <2>5. Board!Allowed(c.task, "in_progress", s, "plain")
    BY <2>2, <2>3, <2>4, SameCount
    DEF Board!Allowed, Board!HasRoom, Board!Counted, HasRoom, Counted, Board!Edges, Board!IsPull,
        Board!SkipsWip, Board!SkipsEdges, Board!WipColumns, WipColumns
  <2>6. Board!Move(c.task, "in_progress", s, "plain")
    BY <2>2, <2>5 DEF Board!Move, Board!Record, Record
  <2> QED
    BY <1>0, <2>3, <2>6 DEF Board!BoardNext
<1>2. CASE Advance(s)
  <2>1. PICK t \in mine[s], to \in Targets : Move(t, to, s, "plain")
    BY <1>2 DEF Advance
  <2>2. t \in Tasks
    BY <1>0 DEF ClaimTypeOK
  <2>3. Board!Move(t, to, s, "plain")
    BY <2>1, SameCount
    DEF Move, Board!Move, Allowed, Board!Allowed, HasRoom, Board!HasRoom, Counted, Board!Counted,
        Record, Board!Record, Edges, Board!Edges, IsPull, Board!IsPull, SkipsWip, Board!SkipsWip,
        SkipsGates, Board!SkipsGates, SkipsEdges, Board!SkipsEdges, WipColumns, Board!WipColumns
  <2> QED
    BY <1>0, <2>2, <2>3 DEF Board!BoardNext
<1>3. CASE ~Win(s) /\ ~Advance(s)
  BY <1>3 DEF ClaimStep, Proceed, Pick, Attempt, Full, Fail, Lose, Exhausted, GiveUp, boardVars
<1> QED
  BY <1>1, <1>2, <1>3

(* Claiming is a use of the board like any other: racing claims on stale   *)
(* lists implement the one-step board with plain moves, where nobody takes *)
(* a label off between the gates of a claim and its commit.                *)
THEOREM ClaimsImplementBoard == Unlabelled = {} => (ClaimSpec => ImplementsBoard)
<1> SUFFICES ASSUME Unlabelled = {} PROVE ClaimSpec => ImplementsBoard
  OBVIOUS
<1>1. ClaimInit => Board!BoardInit
  BY DEF ClaimInit, BoardInit, Board!BoardInit
<1>2. CInv /\ LabelInv /\ [ClaimNext]_claimVars => [Board!BoardNext]_(Board!boardVars)
  <2> SUFFICES ASSUME CInv, LabelInv, [ClaimNext]_claimVars
               PROVE  [Board!BoardNext]_(Board!boardVars)
    OBVIOUS
  <2>1. CASE UNCHANGED <<rows, hist>>
    BY <2>1 DEF Board!boardVars
  <2>2. CASE \E t \in Tasks : Unlabel(t) \/ Prune(t)
    BY <2>1, <2>2 DEF Unlabel, Prune
  <2> QED
    BY <2>1, <2>2, ClaimStepImplements DEF ClaimNext, claimVars, boardVars, Board!boardVars
<1>3. /\ ClaimInit => LabelInv
      /\ CInv /\ LabelInv /\ [ClaimNext]_claimVars => LabelInv'
  BY ListsKept
<1> QED
  BY <1>1, <1>2, <1>3, ClaimInvariant, PTL DEF ClaimSpec, ImplementsBoard, Board!BoardSpec

(* Racing claims, and sessions that move what they hold, keep every cap:   *)
(* per session in in_progress when the policy says so, board-wide          *)
(* elsewhere.                                                              *)
THEOREM ClaimsKeepCaps == ClaimSpec => []WipRespected
<1>1. CInv /\ WipRespected /\ [ClaimNext]_claimVars => WipRespected'
  <2> SUFFICES ASSUME CInv, WipRespected, [ClaimNext]_claimVars PROVE WipRespected'
    OBVIOUS
  <2>0. WalkInv /\ BoardTypeOK
    BY DEF CInv, WalkInv, ClaimTypeOK
  <2>1. CASE UNCHANGED rows
    BY <2>1 DEF WipRespected, CapOK, Counted
  <2>2. ASSUME NEW s \in Sessions, Win(s) \/ Advance(s) PROVE WipRespected'
    <3>1. \E t \in Tasks, from \in Status, to \in Status :
            HasRoom(to, s) /\ Record(t, from, to, s)
      BY <2>0, <2>2, WinIs, AdvanceIs DEF Status
    <3> QED
      BY <2>0, <3>1, MoveKeepsCaps DEF Owner
  <2>3. ASSUME NEW s \in Sessions, ClaimStep(s) \/ Advance(s), ~Win(s), ~Advance(s)
        PROVE  UNCHANGED rows
    BY <2>3 DEF ClaimStep, Proceed, Pick, Attempt, Full, Fail, Lose, Exhausted, GiveUp
  <2>4. ASSUME NEW t \in Tasks, Unlabel(t) \/ Prune(t) PROVE WipRespected'
    <3>1. \A u \in Tasks : rows'[u].status = rows[u].status /\ rows'[u].owner = rows[u].owner
      BY <2>0, <2>4, BacklogTyped
    <3>2. ASSUME NEW c, NEW x PROVE Counted(c, x)' = Counted(c, x)
      BY <3>1 DEF Counted
    <3> QED
      BY <3>2 DEF WipRespected, CapOK
  <2> QED
    BY <2>1, <2>2, <2>3, <2>4 DEF ClaimNext, claimVars
<1>2. ClaimInit => WipRespected
  BY CapsAtStart DEF ClaimInit
<1> QED
  BY <1>1, <1>2, ClaimInvariant, PTL DEF ClaimSpec

-------------------------------------------------------------------------------

(* A sweep that has found a row abandoned knows which.                     *)
MarkedInv ==
  \A r \in Reclaimers : sweep[r].phase \in {"marked", "gated"} => sweep[r].task \in Tasks

SweepInv == ReclaimTypeOK /\ WalkInv /\ MarkedInv

SweepState ==
  [phase : {"off", "walking", "marked", "gated"}, seen : SUBSET Agents,
   list : SUBSET Zombie, task : Tasks \cup {NoTask},
   dest : {"icebox", "in_progress"}, from : Status, actor : Sessions]

(* A step that moves one sweep on and leaves the walks alone.              *)
LEMMA SweepOn ==
  ASSUME SweepInv, BoardTypeOK', idle' \subseteq Tasks, UNCHANGED <<gone, walk, mine, present>>,
         NEW r \in Reclaimers, NEW w \in SweepState,
         w.phase \in {"marked", "gated"} => w.task \in Tasks,
         sweep' = [sweep EXCEPT ![r] = w]
  PROVE  SweepInv'
<1>1. ClaimTypeOK' /\ GatedInv'
  BY DEF SweepInv, WalkInv, ClaimTypeOK, GatedInv
<1>2. ReclaimTypeOK'
  BY <1>1 DEF SweepInv, ReclaimTypeOK, SweepState
<1>3. MarkedInv'
  BY DEF SweepInv, ReclaimTypeOK, MarkedInv
<1> QED
  BY <1>1, <1>2, <1>3 DEF SweepInv, WalkInv

(* A sweep that skips to the rest of its rows, and one that is off.        *)
LEMMA SweepsTyped ==
  ASSUME ReclaimTypeOK, NEW r \in Reclaimers
  PROVE  /\ SkipRest(r) \in SweepState /\ SkipRest(r).phase = "walking"
         /\ NoSweep \in SweepState /\ NoSweep.phase = "off"
BY ReclaimAssumption DEF ReclaimTypeOK, SweepState, SkipRest, Rest, NoSweep, Status

(* _active_session_ids and the SELECT, for the session the sweep acts for. *)
LEMMA ScanTyped == ASSUME SweepInv, NEW r \in Reclaimers, Scan(r) PROVE SweepInv'
<1>1. BoardTypeOK /\ idle \subseteq Tasks /\ present \subseteq Agents
  BY DEF SweepInv, ReclaimTypeOK, ClaimTypeOK
<1>2. PICK a \in Actors : sweep' = [sweep EXCEPT ![r] =
        [NoSweep EXCEPT !.phase = "walking", !.seen = present, !.list = Listed, !.actor = a]]
  BY DEF Scan
<1>3. a \in Sessions
  BY <1>1, ReclaimAssumption DEF Actors, Agents
<1> DEFINE w == [NoSweep EXCEPT !.phase = "walking", !.seen = present, !.list = Listed,
                                !.actor = a]
<1>4. Listed \subseteq Zombie
  BY <1>1 DEF Listed, Zombie, BoardTypeOK, Row
<1>5. w \in SweepState /\ w.phase = "walking"
  BY <1>1, <1>3, <1>4 DEF SweepState, NoSweep, Status
<1>6. BoardTypeOK' /\ idle' \subseteq Tasks /\ UNCHANGED <<gone, walk, mine, present>>
  BY <1>1 DEF Scan, BoardTypeOK
<1>7. sweep' = [sweep EXCEPT ![r] = w]
  BY <1>2
<1> HIDE DEF w
<1> QED
  BY <1>5, <1>6, <1>7, SweepOn

(* One row of the list is judged.                                          *)
LEMMA ConsiderTyped == ASSUME SweepInv, NEW r \in Reclaimers, Consider(r) PROVE SweepInv'
<1>1. BoardTypeOK /\ idle \subseteq Tasks /\ sweep[r] \in SweepState
  BY DEF SweepInv, ReclaimTypeOK, ClaimTypeOK, SweepState
<1>2. PICK z \in sweep[r].list :
        sweep' = [sweep EXCEPT ![r] =
          IF Abandoned(r, z)
            THEN [@ EXCEPT !.phase = "marked", !.task = z.task,
                           !.dest = IF z.status = "testing" THEN "in_progress" ELSE "icebox"]
            ELSE [@ EXCEPT !.list = Rest(r, z.task)]]
  BY DEF Consider
<1> DEFINE marked == [sweep[r] EXCEPT !.phase = "marked", !.task = z.task,
                           !.dest = IF z.status = "testing" THEN "in_progress" ELSE "icebox"]
           passed == [sweep[r] EXCEPT !.list = Rest(r, z.task)]
<1>3. sweep[r].phase = "walking" /\ z.task \in Tasks
  BY <1>1, <1>2 DEF Consider, SweepState, Zombie
<1>4. marked \in SweepState /\ marked.task = z.task
  BY <1>1, <1>3 DEF SweepState
<1>5. passed \in SweepState /\ passed.phase = "walking"
  BY <1>1, <1>3 DEF SweepState, Rest
<1>6. BoardTypeOK' /\ idle' \subseteq Tasks /\ UNCHANGED <<gone, walk, mine, present>>
  BY <1>1 DEF Consider, BoardTypeOK
<1>7. sweep' = [sweep EXCEPT ![r] = marked] \/ sweep' = [sweep EXCEPT ![r] = passed]
  BY <1>1, <1>2 DEF SweepInv, ReclaimTypeOK
<1> HIDE DEF marked, passed
<1> QED
  BY <1>3, <1>4, <1>5, <1>6, <1>7, SweepOn

(* The label patch, and the read of a forced transition.                   *)
LEMMA ForceReadTyped ==
  ASSUME SweepInv, NEW r \in Reclaimers, ForceRead(r)
  PROVE  /\ SweepInv'
         /\ \A u \in Tasks : rows'[u].status = rows[u].status /\ rows'[u].owner = rows[u].owner
<1> DEFINE t == sweep[r].task
           gated == [sweep[r] EXCEPT !.phase = "gated", !.from = rows[t].status]
<1>1. /\ BoardTypeOK /\ idle \subseteq Tasks /\ sweep[r] \in SweepState
      /\ t \in Tasks
  BY DEF SweepInv, ReclaimTypeOK, ClaimTypeOK, SweepState, MarkedInv, ForceRead
<1>2. rows' \in [Tasks -> Row]
  BY <1>1 DEF ForceRead, BoardTypeOK, Row
<1>3. \A u \in Tasks : rows'[u].status = rows[u].status /\ rows'[u].owner = rows[u].owner
  BY <1>1 DEF ForceRead, BoardTypeOK, Row
<1>4. BoardTypeOK' /\ idle' \subseteq Tasks /\ UNCHANGED <<gone, walk, mine, present>>
  BY <1>1, <1>2 DEF ForceRead, BoardTypeOK
<1>5. gated \in SweepState /\ gated.task = t
  BY <1>1 DEF SweepState, BoardTypeOK, Row
<1>6. sweep' = [sweep EXCEPT ![r] = SkipRest(r)] \/ sweep' = [sweep EXCEPT ![r] = gated]
  BY DEF ForceRead
<1>7. SkipRest(r) \in SweepState /\ SkipRest(r).phase = "walking"
  BY SweepsTyped DEF SweepInv
<1> HIDE DEF t, gated
<1>8. SweepInv'
  BY <1>1, <1>4, <1>5, <1>6, <1>7, SweepOn
<1> QED
  BY <1>3, <1>8

(* The forced transition commits, as the session the sweep acts for, or    *)
(* finds another status.                                                   *)
LEMMA ForceCommitTyped ==
  ASSUME SweepInv, NEW r \in Reclaimers, ForceCommit(r)
  PROVE  /\ SweepInv'
         /\ \/ UNCHANGED rows
            \/ \E t \in Tasks, from, to \in Status : Record(t, from, to, sweep[r].actor)
<1> DEFINE t == sweep[r].task
<1>1. /\ BoardTypeOK /\ idle \subseteq Tasks /\ sweep[r] \in SweepState
      /\ t \in Tasks
  BY DEF SweepInv, ReclaimTypeOK, ClaimTypeOK, SweepState, MarkedInv, ForceCommit
<1>2. sweep[r].from \in Status /\ sweep[r].dest \in Status /\ sweep[r].actor \in Sessions
  BY <1>1 DEF SweepState, Status
<1>3. \/ UNCHANGED <<rows, hist>>
      \/ Record(t, sweep[r].from, sweep[r].dest, sweep[r].actor)
  BY DEF ForceCommit
<1>4. BoardTypeOK'
  <2>1. CASE UNCHANGED <<rows, hist>>
    BY <1>1, <2>1 DEF BoardTypeOK
  <2>2. CASE Record(t, sweep[r].from, sweep[r].dest, sweep[r].actor)
    BY <1>1, <1>2, <2>2, RecordTyped
  <2> QED
    BY <1>3, <2>1, <2>2
<1>5. idle' \subseteq Tasks /\ UNCHANGED <<gone, walk, mine, present>>
  BY <1>1 DEF ForceCommit
<1>6. SkipRest(r) \in SweepState /\ SkipRest(r).phase = "walking"
  BY SweepsTyped DEF SweepInv
<1>7. SweepInv'
  BY <1>4, <1>5, <1>6, SweepOn DEF ForceCommit
<1> QED
  BY <1>1, <1>2, <1>3, <1>7

(* A sweep that is through.                                                *)
LEMMA SweptTyped == ASSUME SweepInv, NEW r \in Reclaimers, Swept(r) PROVE SweepInv'
<1>1. BoardTypeOK' /\ idle' \subseteq Tasks /\ UNCHANGED <<gone, walk, mine, present>>
  BY DEF SweepInv, ReclaimTypeOK, ClaimTypeOK, BoardTypeOK, Swept
<1>2. NoSweep \in SweepState /\ NoSweep.phase = "off"
  BY SweepsTyped DEF SweepInv
<1> QED
  BY <1>1, <1>2, SweepOn DEF Swept

(* A session's step, as seen by the sweeps.                                *)
LEMMA AgentTyped == ASSUME SweepInv, NEW s \in Agents, AgentStep(s) PROVE SweepInv'
<1>1. WalkInv'
  BY SessionTyped DEF SweepInv, AgentStep, Agents
<1>2. ReclaimTypeOK' /\ MarkedInv'
  BY <1>1 DEF SweepInv, WalkInv, ReclaimTypeOK, MarkedInv, AgentStep
<1> QED
  BY <1>1, <1>2 DEF SweepInv

(* Hours pass.                                                             *)
LEMMA TimeTyped ==
  ASSUME SweepInv, (\E s \in Agents : GoQuiet(s)) \/ (\E t \in Tasks : Age(t))
  PROVE  SweepInv' /\ UNCHANGED rows
<1>1. UNCHANGED <<rows, hist, gone, walk, mine, sweep>>
  BY DEF GoQuiet, Age
<1>2. idle' \subseteq Tasks /\ present' \subseteq Agents
  BY DEF SweepInv, ReclaimTypeOK, GoQuiet, Age
<1>3. WalkInv'
  BY <1>1 DEF SweepInv, WalkInv, ClaimTypeOK, BoardTypeOK, GatedInv
<1> QED
  BY <1>1, <1>2, <1>3 DEF SweepInv, WalkInv, ReclaimTypeOK, MarkedInv

-------------------------------------------------------------------------------

(* The types hold of every board that sessions and sweeps share.           *)
THEOREM SweepInvariant == ReclaimSpec => []SweepInv
<1>1. ReclaimInit => SweepInv
  <2> SUFFICES ASSUME ReclaimInit PROVE SweepInv
    OBVIOUS
  <2>1. WalkInv
    BY ClaimInitInv DEF ReclaimInit, CInv
  <2>2. NoSweep \in SweepState /\ NoSweep.phase = "off"
    BY ReclaimAssumption DEF SweepState, NoSweep, Status
  <2>3. ReclaimTypeOK
    BY <2>1, <2>2 DEF ReclaimInit, ReclaimTypeOK, WalkInv, SweepState
  <2>4. MarkedInv
    BY <2>2 DEF ReclaimInit, MarkedInv
  <2> QED
    BY <2>1, <2>3, <2>4 DEF SweepInv
<1>2. SweepInv /\ [ReclaimNext]_reclaimVars => SweepInv'
  <2> SUFFICES ASSUME SweepInv, [ReclaimNext]_reclaimVars PROVE SweepInv'
    OBVIOUS
  <2>1. CASE UNCHANGED reclaimVars
    BY <2>1 DEF reclaimVars, SweepInv, WalkInv, ReclaimTypeOK, ClaimTypeOK, BoardTypeOK,
                GatedInv, MarkedInv
  <2>2. ASSUME NEW r \in Reclaimers, Scan(r) \/ SweepStep(r) PROVE SweepInv'
    BY <2>2, ScanTyped, ConsiderTyped, ForceReadTyped, ForceCommitTyped, SweptTyped
       DEF SweepStep
  <2>3. CASE \E s \in Agents : AgentStep(s)
    BY <2>3, AgentTyped
  <2>4. CASE (\E s \in Agents : GoQuiet(s)) \/ (\E t \in Tasks : Age(t))
    BY <2>4, TimeTyped
  <2> QED
    BY <2>1, <2>2, <2>3, <2>4 DEF ReclaimNext
<1> QED
  BY <1>1, <1>2, PTL DEF ReclaimSpec

(* Sweeps, idle times and presence keep their types: what a sweep forces   *)
(* is a task that its scan has listed.                                     *)
THEOREM ReclaimTypeCorrect == ReclaimSpec => []ReclaimTypeOK
BY SweepInvariant, PTL DEF SweepInv

(* Every row the board shows was told to the audit trail, forced moves of  *)
(* overlapping sweeps included, whichever session they act for: each one   *)
(* is recorded from the status the task has at its commit, however old the *)
(* scan that led to it, and the chain of the trail has no gap.             *)
THEOREM ReclaimAudited == ReclaimSpec => []AuditEndsAtStatus /\ AuditChain /\ SweepsAudited
<1> DEFINE Linked == \A t \in Tasks : hist'[t] # hist[t] => hist'[t].old = hist[t].new
<1>1. ReclaimInit => AuditEndsAtStatus
  <2> SUFFICES ASSUME ReclaimInit, NEW t \in Tasks PROVE hist[t].new = rows[t].status
    BY DEF AuditEndsAtStatus
  <2>1. hist = [u \in Tasks |-> [old |-> "", new |-> "icebox"]]
    BY DEF ReclaimInit, ClaimInit, BoardInit
  <2>2. rows[t] \in [status : {"icebox"}, owner : {NoSession}, ready : BOOLEAN]
    BY DEF ReclaimInit, ClaimInit, BoardInit
  <2> QED
    BY <2>1, <2>2
<1>2. SweepInv /\ AuditEndsAtStatus /\ [ReclaimNext]_reclaimVars
      => AuditEndsAtStatus' /\ [Linked]_hist
  <2> SUFFICES ASSUME SweepInv, AuditEndsAtStatus, [ReclaimNext]_reclaimVars
               PROVE  AuditEndsAtStatus' /\ Linked
    OBVIOUS
  <2>0. WalkInv /\ BoardTypeOK
    BY DEF SweepInv, WalkInv, ClaimTypeOK
  <2>1. ASSUME hist' = hist, \A u \in Tasks : rows'[u].status = rows[u].status
        PROVE  AuditEndsAtStatus' /\ Linked
    BY <2>1 DEF AuditEndsAtStatus
  <2>2. ASSUME NEW t \in Tasks, NEW to \in Status, NEW s \in Sessions,
               Record(t, rows[t].status, to, s)
        PROVE  AuditEndsAtStatus' /\ Linked
    BY <2>0, <2>2, MoveAudited DEF Owner
  <2>3. ASSUME NEW r \in Reclaimers, ForceCommit(r) PROVE AuditEndsAtStatus' /\ Linked
    <3>1. /\ sweep[r].task \in Tasks /\ sweep[r].dest \in Status
          /\ sweep[r].actor \in Sessions
      BY <2>3 DEF SweepInv, ReclaimTypeOK, MarkedInv, ForceCommit, Status
    <3>2. CASE rows[sweep[r].task].status = sweep[r].from
      BY <2>2, <2>3, <3>1, <3>2 DEF ForceCommit, StillSo
    <3>3. CASE rows[sweep[r].task].status # sweep[r].from
      BY <2>1, <2>3, <3>3 DEF ForceCommit, StillSo
    <3> QED
      BY <3>2, <3>3
  <2>4. ASSUME NEW r \in Reclaimers, ForceRead(r) PROVE AuditEndsAtStatus' /\ Linked
    BY <2>1, <2>4, ForceReadTyped DEF ForceRead
  <2>5. ASSUME NEW r \in Reclaimers, Scan(r) \/ Consider(r) \/ Swept(r)
        PROVE  AuditEndsAtStatus' /\ Linked
    BY <2>1, <2>5 DEF Scan, Consider, Swept
  <2>6. ASSUME NEW s \in Agents, AgentStep(s) PROVE AuditEndsAtStatus' /\ Linked
    <3>1. s \in Sessions /\ (ClaimStep(s) \/ Advance(s))
      BY <2>6 DEF AgentStep, Agents
    <3>2. CASE Win(s)
      BY <2>0, <2>2, <3>1, <3>2, WinIs DEF Status
    <3>3. CASE Advance(s)
      BY <2>0, <2>2, <3>1, <3>3, AdvanceIs
    <3>4. CASE ~Win(s) /\ ~Advance(s)
      BY <2>1, <3>1, <3>4 DEF ClaimStep, Proceed, Pick, Attempt, Full, Fail, Lose, Exhausted, GiveUp
    <3> QED
      BY <3>2, <3>3, <3>4
  <2>7. CASE (\E s \in Agents : GoQuiet(s)) \/ (\E t \in Tasks : Age(t))
    BY <2>1, <2>7 DEF GoQuiet, Age
  <2>8. CASE UNCHANGED reclaimVars
    BY <2>1, <2>8 DEF reclaimVars, claimVars
  <2> HIDE DEF Linked
  <2> QED
    BY <2>3, <2>4, <2>5, <2>6, <2>7, <2>8 DEF ReclaimNext, SweepStep
<1>3. SweepInv /\ AuditEndsAtStatus /\ [ReclaimNext]_reclaimVars => AuditEndsAtStatus'
  BY <1>2
<1>4. SweepInv /\ AuditEndsAtStatus /\ [ReclaimNext]_reclaimVars => [Linked]_hist
  BY <1>2
<1>5. SweepInv /\ AuditEndsAtStatus /\ [ReclaimNext]_reclaimVars =>
        [\A t \in Tasks : hist'[t] # hist[t] =>
           hist'[t].old = rows[t].status /\ hist'[t].new = rows'[t].status]_reclaimVars
  BY <1>2 DEF AuditEndsAtStatus
<1> QED
  BY <1>1, <1>3, <1>4, <1>5, SweepInvariant, PTL DEF ReclaimSpec, AuditChain, SweepsAudited

===============================================================================
