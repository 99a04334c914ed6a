-------------------------- MODULE BoardCascade_proofs --------------------------
(***************************************************************************)
(* Proofs about BoardCascade: its types, that no dependent is forgotten    *)
(* between two walks, and that a cascade labels no stub, for any tasks,    *)
(* prerequisites and callers, failing and dying ones included.             *)
(***************************************************************************)
EXTENDS BoardCascade, AtomicBoard_proofs

Walk == [phase : {"idle", "next", "judge", "unblock", "label"},
         left : SUBSET Tasks, task : Tasks \cup {NoTask},
         seen : {"icebox", "blocked"}]

(* A caller at rest owes nothing, and the dependent at hand is still owed. *)
WalkInv ==
  \A c \in Callers :
    /\ walk[c].phase = "idle" => walk[c].left = {}
    /\ walk[c].phase \in {"judge", "unblock", "label"} => walk[c].task \in walk[c].left
    /\ walk[c].phase \in {"unblock", "label"} => walk[c].task \in Authored

(* What only cascades move stays in the backlog.                           *)
BacklogInv == \A u \in Tasks \ Movable : rows[u].status \in Backlog

CascInv == CascadeTypeOK /\ WalkInv /\ BacklogInv /\ NoneForgotten

-------------------------------------------------------------------------------

(* A move changes one task's status and owner, and no label.               *)
LEMMA MoveChanges ==
  ASSUME BoardTypeOK, NEW t \in Tasks, NEW to \in Status, NEW c \in Callers,
         Move(t, to, c, "plain")
  PROVE  /\ BoardTypeOK' /\ to # rows[t].status
         /\ rows'[t].status = to
         /\ \A u \in Tasks \ {t} : rows'[u] = rows[u]
         /\ \A u \in Tasks : rows'[u].ready = rows[u].ready
<1>1. c \in Owner
  BY CascadeAssumption DEF Owner
<1>2. rows' = [rows EXCEPT ![t] = [@ EXCEPT !.status = to, !.owner = c]]
  BY DEF Move, Record
<1>3. rows' \in [Tasks -> Row]
  BY <1>1, <1>2 DEF BoardTypeOK, Row
<1>4. hist' \in [Tasks -> HistRow]
  BY DEF Move, Record, BoardTypeOK, HistRow, Row
<1>5. /\ rows'[t].status = to
      /\ \A u \in Tasks \ {t} : rows'[u] = rows[u]
      /\ \A u \in Tasks : rows'[u].ready = rows[u].ready
  BY <1>2 DEF BoardTypeOK, Row
<1> QED
  BY <1>3, <1>4, <1>5 DEF BoardTypeOK, Move, Allowed

(* The walk of one caller goes on, and pays a debt only when its dependent *)
(* is labelled, waits, or is out of the backlog.                           *)
LEMMA DebtKept ==
  ASSUME CascInv, NEW c \in Callers, NEW w \in Walk, walk' = [walk EXCEPT ![c] = w],
         \A u \in Tasks : rows'[u].status = rows[u].status \/ rows'[u].status = "icebox",
         \A u \in Tasks : rows[u].ready => rows'[u].ready,
         lost \subseteq lost' \cup {u \in Tasks : u \notin Authored \/ ~DepsComplete(u)} \cup w.left,
         \A u \in (walk[c].left \ w.left) \cap (Authored \ Movable) :
           rows'[u].ready \/ ~DepsComplete(u) \/ u \in lost'
  PROVE  NoneForgotten'
<1> SUFFICES ASSUME NEW u \in Authored \ Movable, Deps[u] # {}, DepsComplete(u)', 
                    rows'[u].status \in Backlog, ~rows'[u].ready
             PROVE  Owed(u)' \/ u \in lost'
  BY DEF NoneForgotten
<1>1. u \in Tasks /\ Deps[u] \subseteq Tasks
  BY CascadeAssumption
<1>2. DepsComplete(u)
  BY <1>1 DEF DepsComplete
<1>3. rows[u].status \in Backlog /\ ~rows[u].ready
  BY <1>1 DEF CascInv, BacklogInv
<1>4. Owed(u) \/ u \in lost
  BY <1>2, <1>3 DEF CascInv, NoneForgotten
<1>5. walk'[c] = w /\ \A d \in Callers \ {c} : walk'[d] = walk[d]
  BY DEF CascInv, CascadeTypeOK
<1>6. u \in w.left => Owed(u)'
  BY <1>5 DEF Owed
<1>7. CASE Owed(u)
  <2>1. PICK d \in Callers : u \in walk[d].left
    BY <1>7 DEF Owed
  <2>2. CASE d # c
    BY <1>5, <2>1, <2>2 DEF Owed
  <2>3. CASE d = c
    BY <1>2, <1>6, <2>1, <2>3
  <2> QED
    BY <2>2, <2>3
<1>8. CASE u \in lost
  BY <1>1, <1>2, <1>6, <1>8
<1> QED
  BY <1>4, <1>7, <1>8

(* A step of one walk that is typed and keeps its dependent in hand owed   *)
(* keeps the rest of the invariant.                                        *)
LEMMA WalkStepKeeps ==
  ASSUME CascInv, BoardTypeOK', NEW c \in Callers, NEW w \in Walk,
         walk' = [walk EXCEPT ![c] = w], lost' \subseteq Tasks,
         w.phase = "idle" => w.left = {},
         w.phase \in {"judge", "unblock", "label"} => w.task \in w.left,
         w.phase \in {"unblock", "label"} => w.task \in Authored,
         \A u \in Tasks \ Movable : rows'[u].status \in Backlog,
         NoneForgotten'
  PROVE  CascInv'
<1>1. walk' \in [Callers -> Walk]
  BY DEF CascInv, CascadeTypeOK, Walk
<1>2. CascadeTypeOK'
  BY <1>1 DEF CascadeTypeOK, Walk
<1>3. walk'[c] = w /\ \A d \in Callers \ {c} : walk'[d] = walk[d]
  BY DEF CascInv, CascadeTypeOK
<1>4. WalkInv'
  BY <1>3 DEF CascInv, WalkInv
<1>5. BacklogInv'
  BY DEF BacklogInv
<1> QED
  BY <1>2, <1>4, <1>5 DEF CascInv

(* The walk after a dependent is a walk that owes the others. *)
LEMMA NextOneTyped ==
  ASSUME CascInv, NEW c \in Callers
  PROVE  /\ NextOne(c) \in Walk /\ NextOne(c).phase = "next"
         /\ NextOne(c).left = walk[c].left \ {walk[c].task}
         /\ Idle \in Walk /\ Idle.phase = "idle" /\ Idle.left = {}
<1>1. walk[c].left \in SUBSET Tasks
  BY DEF CascInv, CascadeTypeOK
<1>2. Idle = [phase |-> "idle", left |-> {}, task |-> NoTask, seen |-> "icebox"]
  BY DEF Idle
<1>3. NextOne(c) = [phase |-> "next", left |-> walk[c].left \ {walk[c].task},
                    task |-> NoTask, seen |-> "icebox"]
  <2>1. NextOne(c) = [Idle EXCEPT !.phase = "next", !.left = walk[c].left \ {walk[c].task}]
    BY DEF NextOne
  <2> QED
    BY <1>2, <2>1
<1> QED
  BY <1>1, <1>2, <1>3 DEF Walk

(* Looking at a dependent. *)
LEMMA LookKeeps == ASSUME CascInv, NEW c \in Callers, Look(c) PROVE CascInv'
<1>1. PICK u \in walk[c].left :
        walk' = [walk EXCEPT ![c] =
          IF rows[u].status \in Backlog /\ ~rows[u].ready
            THEN [walk[c] EXCEPT !.phase = "judge", !.task = u, !.seen = rows[u].status]
            ELSE [walk[c] EXCEPT !.left = walk[c].left \ {u}]]
  BY DEF Look
<1>2. walk[c] \in Walk /\ walk[c].phase = "next" /\ u \in Tasks /\ UNCHANGED <<rows, hist, lost>>
  BY DEF CascInv, CascadeTypeOK, Walk, Look
<1>3. CASE rows[u].status \in Backlog /\ ~rows[u].ready
  <2> DEFINE w == [walk[c] EXCEPT !.phase = "judge", !.task = u, !.seen = rows[u].status]
  <2>1. /\ w \in Walk /\ w.phase = "judge" /\ w.task = u /\ w.left = walk[c].left
        /\ walk' = [walk EXCEPT ![c] = w]
    BY <1>1, <1>2, <1>3 DEF Walk, Backlog
  <2> HIDE DEF w
  <2>2. NoneForgotten'
    BY <1>2, <2>1, DebtKept
  <2>3. BoardTypeOK' /\ lost' \subseteq Tasks /\ \A x \in Tasks \ Movable : rows'[x].status \in Backlog
    BY <1>2 DEF CascInv, CascadeTypeOK, BoardTypeOK, BacklogInv
  <2> QED
    BY <2>1, <2>2, <2>3, WalkStepKeeps
<1>4. CASE ~(rows[u].status \in Backlog /\ ~rows[u].ready)
  <2> DEFINE w == [walk[c] EXCEPT !.left = walk[c].left \ {u}]
  <2>1. /\ w \in Walk /\ w.phase = "next" /\ w.left = walk[c].left \ {u}
        /\ walk' = [walk EXCEPT ![c] = w]
    <3>1. walk[c].left \ {u} \in SUBSET Tasks
      BY <1>2 DEF Walk
    <3>2. w \in Walk /\ w.phase = "next" /\ w.left = walk[c].left \ {u}
      BY <1>2, <3>1 DEF Walk
    <3>3. walk' = [walk EXCEPT ![c] = w]
      BY <1>1, <1>4
    <3> QED
      BY <3>2, <3>3
  <2> HIDE DEF w
  <2>2. \A x \in (walk[c].left \ w.left) \cap (Authored \ Movable) : rows'[x].ready
    <3> SUFFICES ASSUME u \in Authored \ Movable
                 PROVE  rows'[u].ready
      BY <2>1
    <3>1. rows[u].status \in Backlog
      BY <1>2 DEF CascInv, BacklogInv
    <3> QED
      BY <1>2, <1>4, <3>1
  <2>3. NoneForgotten'
    BY <1>2, <2>1, <2>2, DebtKept
  <2>4. BoardTypeOK' /\ lost' \subseteq Tasks /\ \A x \in Tasks \ Movable : rows'[x].status \in Backlog
    BY <1>2 DEF CascInv, CascadeTypeOK, BoardTypeOK, BacklogInv
  <2> QED
    BY <2>1, <2>3, <2>4, WalkStepKeeps
<1> QED
  BY <1>3, <1>4

(* Judging it: a task that is passed over waits for another, or is a stub. *)
LEMMA JudgeKeeps == ASSUME CascInv, NEW c \in Callers, Judge(c) PROVE CascInv'
<1> DEFINE u == walk[c].task
<1>1. PICK v : v = u
  OBVIOUS
<1>2. /\ walk[c] \in Walk /\ walk[c].phase = "judge" /\ v \in walk[c].left /\ v \in Tasks
      /\ UNCHANGED boardVars /\ lost' = lost \ {v}
  BY <1>1 DEF CascInv, CascadeTypeOK, Walk, WalkInv, Judge
<1>3. /\ rows' = rows /\ BoardTypeOK' /\ lost' \subseteq Tasks
      /\ \A x \in Tasks \ Movable : rows'[x].status \in Backlog
  BY <1>2 DEF boardVars, CascInv, CascadeTypeOK, BoardTypeOK, BacklogInv
<1>4. CASE ~Runnable(v)
  <2>1. walk' = [walk EXCEPT ![c] = NextOne(c)]
    BY <1>1, <1>4 DEF Judge
  <2>2. /\ NextOne(c) \in Walk /\ NextOne(c).phase = "next"
        /\ NextOne(c).left = walk[c].left \ {v}
    BY <1>1, NextOneTyped
  <2>3. v \notin Authored \/ ~DepsComplete(v)
    BY <1>4 DEF Runnable
  <2>4. NoneForgotten'
    <3>1. /\ lost \subseteq lost' \cup {x \in Tasks : x \notin Authored \/ ~DepsComplete(x)}
          /\ \A x \in (walk[c].left \ NextOne(c).left) \cap (Authored \ Movable) : ~DepsComplete(x)
      BY <1>2, <2>2, <2>3
    <3> QED
      BY <1>3, <2>1, <2>2, <3>1, DebtKept
  <2> QED
    BY <1>3, <2>1, <2>2, <2>4, WalkStepKeeps
<1>5. CASE Runnable(v)
  <2>1. PICK ph \in {"unblock", "label"} : walk' = [walk EXCEPT ![c] = [walk[c] EXCEPT !.phase = ph]]
    BY <1>1, <1>5 DEF Judge
  <2> DEFINE w == [walk[c] EXCEPT !.phase = ph]
  <2>2. w \in Walk /\ w.phase = ph /\ w.task = v /\ w.left = walk[c].left
    BY <1>1, <1>2 DEF Walk
  <2>3. walk' = [walk EXCEPT ![c] = w]
    BY <2>1
  <2> HIDE DEF w
  <2>4. NoneForgotten'
    <3>1. lost \subseteq lost' \cup w.left
      BY <1>2, <2>2
    <3> QED
      BY <1>3, <2>2, <2>3, <3>1, DebtKept
  <2> QED
    BY <1>2, <1>3, <1>5, <2>2, <2>3, <2>4, WalkStepKeeps DEF Runnable
<1> QED
  BY <1>4, <1>5

(* A dependent that is passed over since its step failed is on record.     *)
LEMMA PassOverKeeps ==
  ASSUME CascInv, NEW c \in Callers, PassOver(c),
         walk[c].phase \in {"unblock", "label"}
  PROVE  CascInv' /\ UNCHANGED boardVars
<1>1. PICK v : v = walk[c].task
  OBVIOUS
<1>2. /\ v \in Tasks /\ lost \subseteq Tasks /\ lost' = lost \cup {v}
      /\ walk' = [walk EXCEPT ![c] = NextOne(c)] /\ rows' = rows /\ hist' = hist
  BY <1>1 DEF CascInv, CascadeTypeOK, WalkInv, PassOver, boardVars
<1>3. /\ BoardTypeOK' /\ lost' \subseteq Tasks
      /\ \A x \in Tasks \ Movable : rows'[x].status \in Backlog
  BY <1>2 DEF CascInv, CascadeTypeOK, BoardTypeOK, BacklogInv
<1>4. /\ NextOne(c) \in Walk /\ NextOne(c).phase = "next"
      /\ NextOne(c).left = walk[c].left \ {v}
  BY <1>1, NextOneTyped
<1>5. NoneForgotten'
  BY <1>2, <1>4, DebtKept
<1> QED
  BY <1>2, <1>3, <1>4, <1>5, WalkStepKeeps DEF boardVars

(* Unblocking it: what only cascades move is blocked or in icebox, and may *)
(* go back to icebox.                                                      *)
LEMMA UnblockKeeps ==
  ASSUME CascInv, NEW c \in Callers, Unblock(c), ~PassOver(c) PROVE CascInv'
<1>1. PICK v : v = walk[c].task
  OBVIOUS
<1>2. /\ walk[c] \in Walk /\ walk[c].phase = "unblock" /\ v \in walk[c].left /\ v \in Tasks
      /\ v \in Authored /\ lost' = lost /\ lost \subseteq Tasks /\ BoardTypeOK
  BY <1>1 DEF CascInv, CascadeTypeOK, Walk, WalkInv, Unblock
<1>3. \/ walk' = [walk EXCEPT ![c] = [walk[c] EXCEPT !.phase = "label"]]
         /\ (Move(v, "icebox", c, "plain") \/ UNCHANGED boardVars)
      \/ /\ walk' = [walk EXCEPT ![c] = NextOne(c)] /\ UNCHANGED boardVars
         /\ rows[v].status # "icebox" /\ <<rows[v].status, "icebox">> \notin Edges
  BY <1>1 DEF Unblock, boardVars
<1>4. /\ BoardTypeOK'
      /\ \A x \in Tasks : rows'[x].status = rows[x].status \/ rows'[x].status = "icebox"
      /\ \A x \in Tasks : rows'[x].ready = rows[x].ready
  <2>1. CASE Move(v, "icebox", c, "plain")
    <3>1. /\ BoardTypeOK' /\ rows'[v].status = "icebox"
          /\ \A x \in Tasks \ {v} : rows'[x] = rows[x]
          /\ \A x \in Tasks : rows'[x].ready = rows[x].ready
      BY <1>2, <2>1, MoveChanges DEF Status
    <3> QED
      BY <3>1
  <2>2. CASE UNCHANGED boardVars
    BY <1>2, <2>2 DEF boardVars, BoardTypeOK
  <2> QED
    BY <1>3, <2>1, <2>2
<1>5. \A x \in Tasks \ Movable : rows'[x].status \in Backlog
  BY <1>4 DEF CascInv, BacklogInv, Backlog
<1>6. CASE walk' = [walk EXCEPT ![c] = [walk[c] EXCEPT !.phase = "label"]]
  <2> DEFINE w == [walk[c] EXCEPT !.phase = "label"]
  <2>1. w \in Walk /\ w.phase = "label" /\ w.task = v /\ w.left = walk[c].left
    BY <1>1, <1>2 DEF Walk
  <2>2. walk' = [walk EXCEPT ![c] = w]
    BY <1>6
  <2> HIDE DEF w
  <2>3. NoneForgotten'
    BY <1>2, <1>4, <2>1, <2>2, DebtKept
  <2> QED
    BY <1>2, <1>4, <1>5, <2>1, <2>2, <2>3, WalkStepKeeps
<1>7. CASE /\ walk' = [walk EXCEPT ![c] = NextOne(c)] /\ UNCHANGED boardVars
           /\ rows[v].status # "icebox" /\ <<rows[v].status, "icebox">> \notin Edges
  <2>1. v \in Movable
    BY <1>2, <1>7 DEF CascInv, BacklogInv, Backlog, Edges
  <2>2. /\ NextOne(c) \in Walk /\ NextOne(c).phase = "next"
        /\ NextOne(c).left = walk[c].left \ {v}
    BY <1>1, NextOneTyped
  <2>3. (walk[c].left \ NextOne(c).left) \cap (Authored \ Movable) = {}
    BY <2>1, <2>2
  <2>4. NoneForgotten'
    BY <1>2, <1>4, <1>7, <2>2, <2>3, DebtKept
  <2> QED
    BY <1>2, <1>4, <1>5, <1>7, <2>2, <2>4, WalkStepKeeps
<1> QED
  BY <1>3, <1>6, <1>7

(* Labelling it pays the debt. *)
LEMMA LabelKeeps ==
  ASSUME CascInv, NEW c \in Callers, Label(c), ~PassOver(c)
  PROVE  /\ CascInv'
         /\ \A x \in Tasks : rows'[x].ready # rows[x].ready => x \in Authored
<1>1. PICK v : v = walk[c].task
  OBVIOUS
<1>2. /\ walk[c] \in Walk /\ v \in Tasks /\ v \in Authored /\ lost' = lost /\ lost \subseteq Tasks
      /\ BoardTypeOK /\ rows' = [rows EXCEPT ![v].ready = TRUE] /\ hist' = hist
      /\ walk' = [walk EXCEPT ![c] = NextOne(c)]
  BY <1>1 DEF CascInv, CascadeTypeOK, Walk, WalkInv, Label
<1>3. BoardTypeOK'
  BY <1>2 DEF BoardTypeOK, Row
<1>4. /\ \A x \in Tasks : rows'[x].status = rows[x].status
      /\ rows'[v].ready /\ \A x \in Tasks \ {v} : rows'[x] = rows[x]
  BY <1>2 DEF BoardTypeOK, Row
<1>5. \A x \in Tasks \ Movable : rows'[x].status \in Backlog
  BY <1>4 DEF CascInv, BacklogInv
<1>6. /\ NextOne(c) \in Walk /\ NextOne(c).phase = "next"
      /\ NextOne(c).left = walk[c].left \ {v}
  BY <1>1, NextOneTyped
<1>7. \A x \in (walk[c].left \ NextOne(c).left) \cap (Authored \ Movable) : rows'[x].ready
  BY <1>4, <1>6
<1>8. \A x \in Tasks : rows[x].ready => rows'[x].ready
  BY <1>4
<1>9. NoneForgotten'
  BY <1>2, <1>4, <1>6, <1>7, <1>8, DebtKept
<1>10. CascInv'
  BY <1>2, <1>3, <1>5, <1>6, <1>9, WalkStepKeeps
<1> QED
  BY <1>2, <1>4, <1>10

(* The end of a walk, and one that is cut short: its debt is on record. *)
LEMMA EndsKeep ==
  ASSUME CascInv, NEW c \in Callers, WalkEnds(c) \/ CutShort(c)
  PROVE  CascInv'
<1>1. /\ walk' = [walk EXCEPT ![c] = Idle] /\ rows' = rows /\ hist' = hist
      /\ \/ lost' = lost /\ walk[c].left = {}
         \/ lost' = lost \cup walk[c].left
  BY DEF WalkEnds, CutShort, boardVars
<1>2. /\ walk[c] \in Walk /\ lost \subseteq Tasks /\ BoardTypeOK
      /\ \A x \in Tasks \ Movable : rows[x].status \in Backlog
  BY DEF CascInv, CascadeTypeOK, Walk, BacklogInv
<1>3. BoardTypeOK' /\ lost' \subseteq Tasks /\ \A x \in Tasks \ Movable : rows'[x].status \in Backlog
  BY <1>1, <1>2 DEF BoardTypeOK, Walk
<1>4. Idle \in Walk /\ Idle.phase = "idle" /\ Idle.left = {}
  BY NextOneTyped
<1>5. \A x \in walk[c].left \ Idle.left : x \in lost'
  BY <1>1
<1>6. NoneForgotten'
  BY <1>1, <1>4, <1>5, DebtKept
<1> QED
  BY <1>1, <1>3, <1>4, <1>6, WalkStepKeeps

(* A completion owes its dependents a walk, or leaves them on record when  *)
(* it was a drag; no other move makes prerequisites complete.              *)
LEMMA MoveOwes ==
  ASSUME CascInv, NEW c \in Callers, NEW t \in Movable, NEW to \in Targets,
         Moved(c, t, to), lost \subseteq lost',
         \A d \in Callers : walk[d].left \subseteq walk'[d].left,
         to = "complete" => Dependents(t) \subseteq lost' \cup walk'[c].left
  PROVE  NoneForgotten'
<1>1. t \in Tasks /\ to \in Status
  BY CascadeAssumption, BoardAssumption
<1>2. /\ rows'[t].status = to /\ \A x \in Tasks \ {t} : rows'[x] = rows[x]
      /\ \A x \in Tasks : rows'[x].ready = rows[x].ready
  BY <1>1, MoveChanges DEF Moved, CascInv, CascadeTypeOK
<1> SUFFICES ASSUME NEW u \in Authored \ Movable, Deps[u] # {}, DepsComplete(u)',
                    rows'[u].status \in Backlog, ~rows'[u].ready
             PROVE  Owed(u)' \/ u \in lost'
  BY DEF NoneForgotten
<1>3. u \in Tasks /\ u # t /\ Deps[u] \subseteq Tasks
  BY CascadeAssumption
<1>4. CASE DepsComplete(u)
  <2>1. Owed(u) \/ u \in lost
    BY <1>2, <1>3, <1>4 DEF CascInv, NoneForgotten
  <2> QED
    BY <2>1 DEF Owed
<1>5. CASE ~DepsComplete(u)
  <2>1. t \in Deps[u] /\ to = "complete"
    BY <1>2, <1>3, <1>5 DEF DepsComplete
  <2>2. u \in Dependents(t)
    BY <1>3, <2>1 DEF Dependents
  <2> QED
    BY <2>1, <2>2 DEF Owed
<1> QED
  BY <1>4, <1>5

(* What else a move of a task that callers move leaves as it was.          *)
LEMMA MoveKeepsBoard ==
  ASSUME CascInv, NEW c \in Callers, NEW t \in Movable, NEW to \in Targets, Moved(c, t, to)
  PROVE  /\ BoardTypeOK' /\ BacklogInv'
         /\ \A x \in Tasks : rows'[x].ready = rows[x].ready
<1>1. t \in Tasks /\ to \in Status
  BY CascadeAssumption, BoardAssumption
<1>2. /\ BoardTypeOK' /\ \A x \in Tasks \ {t} : rows'[x] = rows[x]
      /\ \A x \in Tasks : rows'[x].ready = rows[x].ready
  BY <1>1, MoveChanges DEF Moved, CascInv, CascadeTypeOK
<1> QED
  BY <1>2 DEF CascInv, BacklogInv

(* cos_task_move. *)
LEMMA CallKeeps == ASSUME CascInv, NEW c \in Callers, CallMove(c) PROVE CascInv'
<1>1. PICK t \in Movable, to \in Targets :
        /\ Moved(c, t, to)
        /\ walk' = IF to = "complete"
                     THEN [walk EXCEPT ![c].phase = "next", ![c].left = Dependents(t)]
                     ELSE walk
  BY DEF CallMove
<1>2. /\ walk[c] \in Walk /\ walk[c].phase = "idle" /\ walk[c].left = {} /\ lost' = lost
      /\ lost \subseteq Tasks /\ walk \in [Callers -> Walk]
  BY DEF CallMove, CascInv, CascadeTypeOK, Walk, WalkInv
<1>3. BoardTypeOK' /\ BacklogInv'
  BY <1>1, MoveKeepsBoard
<1>4. CASE to = "complete"
  <2> DEFINE w == [walk[c] EXCEPT !.phase = "next", !.left = Dependents(t)]
  <2>1. Dependents(t) \in SUBSET Tasks
    BY DEF Dependents
  <2>2. w \in Walk /\ w.phase = "next" /\ w.left = Dependents(t)
    BY <1>2, <2>1 DEF Walk
  <2>3. walk' = [walk EXCEPT ![c] = w]
    BY <1>1, <1>4
  <2> HIDE DEF w
  <2>4. walk'[c] = w /\ \A d \in Callers \ {c} : walk'[d] = walk[d]
    BY <1>2, <2>3
  <2>5. NoneForgotten'
    BY <1>1, <1>2, <2>2, <2>4, MoveOwes
  <2> QED
    BY <1>2, <1>3, <2>2, <2>3, <2>5, WalkStepKeeps DEF BacklogInv
<1>5. CASE to # "complete"
  <2>1. walk' = walk
    BY <1>1, <1>5
  <2>2. NoneForgotten'
    BY <1>1, <1>2, <1>5, <2>1, MoveOwes
  <2> QED
    BY <1>2, <1>3, <2>1, <2>2 DEF CascInv, CascadeTypeOK, WalkInv
<1> QED
  BY <1>4, <1>5

(* cos_task_reposition. *)
LEMMA DragKeeps == ASSUME CascInv, NEW c \in Callers, Drag(c) PROVE CascInv'
<1>1. PICK t \in Movable, to \in Targets :
        /\ Moved(c, t, to)
        /\ lost' = IF to = "complete" THEN lost \cup Dependents(t) ELSE lost
  BY DEF Drag
<1>2. walk' = walk /\ lost \subseteq Tasks /\ Dependents(t) \subseteq Tasks
  BY DEF Drag, CascInv, CascadeTypeOK, Dependents
<1>3. BoardTypeOK' /\ BacklogInv'
  BY <1>1, MoveKeepsBoard
<1>4. NoneForgotten'
  BY <1>1, <1>2, MoveOwes
<1>5. lost' \subseteq Tasks
  BY <1>1, <1>2
<1> QED
  BY <1>2, <1>3, <1>4, <1>5 DEF CascInv, CascadeTypeOK, WalkInv

-------------------------------------------------------------------------------

(* At first nothing is complete, so nothing is owed. *)
LEMMA InitCascade == CascadeInit => CascInv
<1> SUFFICES ASSUME CascadeInit PROVE CascInv
  OBVIOUS
<1>1. /\ \A t \in Tasks : rows[t].status \in Backlog
      /\ BoardTypeOK
  <2>1. [status : {"icebox", "blocked"}, owner : {NoSession}, ready : BOOLEAN] \subseteq Row
    BY DEF Row, Owner, Status
  <2>2. rows \in [Tasks -> Row]
    BY <2>1 DEF CascadeInit
  <2>3. hist \in [Tasks -> HistRow]
    BY <2>2 DEF CascadeInit, HistRow, Row
  <2> QED
    BY <2>2, <2>3 DEF BoardTypeOK, CascadeInit, Backlog
<1>2. walk \in [Callers -> Walk] /\ lost = {}
  BY DEF CascadeInit, Idle, Walk
<1>3. WalkInv
  BY DEF CascadeInit, Idle, WalkInv
<1>4. NoneForgotten
  <2> SUFFICES ASSUME NEW u \in Authored, Deps[u] # {}, DepsComplete(u) PROVE FALSE
    BY DEF NoneForgotten
  <2> QED
    BY <1>1, CascadeAssumption DEF DepsComplete, Backlog
<1> QED
  BY <1>1, <1>2, <1>3, <1>4 DEF CascInv, CascadeTypeOK, BacklogInv, Walk

(* Every step keeps the invariant, and labels authored tasks only. *)
LEMMA StepCascade ==
  ASSUME CascInv, [CascadeNext]_cascadeVars
  PROVE  CascInv' /\ \A u \in Tasks : rows'[u].ready # rows[u].ready => u \in Authored
<1>1. ASSUME UNCHANGED cascadeVars
      PROVE  CascInv' /\ rows' = rows
  BY <1>1 DEF cascadeVars, CascInv, CascadeTypeOK, BoardTypeOK, WalkInv, BacklogInv,
              NoneForgotten, Owed, DepsComplete
<1>2. ASSUME NEW c \in Callers, CallMove(c) \/ Drag(c)
      PROVE  CascInv' /\ \A u \in Tasks : rows'[u].ready = rows[u].ready
  BY <1>2, CallKeeps, DragKeeps, MoveKeepsBoard DEF CallMove, Drag
<1>3. ASSUME NEW c \in Callers, Look(c) \/ Judge(c) \/ WalkEnds(c) \/ CutShort(c)
      PROVE  CascInv' /\ rows' = rows
  BY <1>3, LookKeeps, JudgeKeeps, EndsKeep DEF Look, Judge, WalkEnds, CutShort, boardVars
<1>4. ASSUME NEW c \in Callers, Unblock(c)
      PROVE  CascInv' /\ \A u \in Tasks : rows'[u].ready = rows[u].ready
  <2>0. CASE PassOver(c)
    BY <1>4, <2>0, PassOverKeeps DEF Unblock, boardVars
  <2>1. \A u \in Tasks : rows'[u].ready = rows[u].ready
    <3>1. walk[c].task \in Tasks /\ BoardTypeOK
      BY <1>4 DEF CascInv, CascadeTypeOK, WalkInv, Unblock
    <3>2. CASE Move(walk[c].task, "icebox", c, "plain")
      BY <3>1, <3>2, MoveChanges DEF Status
    <3>3. CASE UNCHANGED boardVars
      BY <3>3 DEF boardVars
    <3> QED
      BY <1>4, <3>2, <3>3 DEF Unblock, PassOver, boardVars
  <2> QED
    BY <1>4, <2>0, <2>1, UnblockKeeps
<1>5. ASSUME NEW c \in Callers, Label(c)
      PROVE  CascInv' /\ \A u \in Tasks : rows'[u].ready # rows[u].ready => u \in Authored
  <2>1. CASE PassOver(c)
    BY <1>5, <2>1, PassOverKeeps DEF Label, boardVars
  <2>2. CASE ~PassOver(c)
    BY <1>5, <2>2, LabelKeeps
  <2> QED
    BY <2>1, <2>2
<1> QED
  BY <1>1, <1>2, <1>3, <1>4, <1>5 DEF CascadeNext, WalkStep

(* Every dependent whose prerequisites are complete is ready, owed a look, *)
(* or on record as lost.                                                   *)
THEOREM CascadeCorrect == CascadeSpec => []CascInv
BY InitCascade, StepCascade, PTL DEF CascadeSpec

(* Rows, audit rows and walks are typed.                                   *)
THEOREM CascadeTypeCorrect == CascadeSpec => []CascadeTypeOK
<1>1. CascInv => CascadeTypeOK
  BY DEF CascInv
<1> QED
  BY <1>1, CascadeCorrect, PTL

(* Two completions cannot both leave a dependent to the other: what is     *)
(* forgotten was lost to a drag, a failed step or a walk cut short.        *)
THEOREM NobodyForgotten == CascadeSpec => []NoneForgotten
<1>1. CascInv => NoneForgotten
  BY DEF CascInv
<1> QED
  BY <1>1, CascadeCorrect, PTL

(* A cascade makes no stub pullable.                                       *)
THEOREM StubsUnlabelled == CascadeSpec => OnlyAuthoredLabelled
<1>1. CascInv /\ [CascadeNext]_cascadeVars
      => [\A u \in Tasks : rows'[u].ready # rows[u].ready => u \in Authored]_rows
  BY StepCascade
<1> QED
  BY <1>1, CascadeCorrect, PTL DEF CascadeSpec, OnlyAuthoredLabelled

-------------------------------------------------------------------------------

(* A step of a cascade or a caller writes no row but by a move, and else   *)
(* labels at most.                                                         *)
LEMMA StepMoves ==
  ASSUME CascInv, CascadeNext
  PROVE  \/ /\ hist' = hist
            /\ \A u \in Tasks : rows'[u].status = rows[u].status /\ rows'[u].owner = rows[u].owner
         \/ \E t \in Tasks, to \in Status, c \in Owner : Move(t, to, c, "plain")
<1>1. PICK c \in Callers : CallMove(c) \/ Drag(c) \/ WalkStep(c) \/ CutShort(c)
  BY DEF CascadeNext
<1>2. BoardTypeOK /\ c \in Owner
  BY CascadeAssumption DEF CascInv, CascadeTypeOK, Owner
<1>3. CASE CallMove(c) \/ Drag(c)
  <2>1. PICK t \in Movable, to \in Targets : Move(t, to, c, "plain")
    BY <1>3 DEF CallMove, Drag, Moved
  <2> QED
    BY <1>2, <2>1, CascadeAssumption, BoardAssumption
<1>4. CASE Unblock(c)
  <2>1. walk[c].task \in Tasks /\ "icebox" \in Status
    BY <1>4 DEF CascInv, CascadeTypeOK, WalkInv, Unblock, Status
  <2> QED
    BY <1>2, <1>4, <2>1 DEF Unblock, PassOver, boardVars
<1>5. CASE Label(c)
  BY <1>2, <1>5 DEF Label, PassOver, boardVars, BoardTypeOK, Row
<1>6. CASE Look(c) \/ Judge(c) \/ WalkEnds(c) \/ CutShort(c)
  BY <1>6 DEF Look, Judge, WalkEnds, CutShort, boardVars
<1> QED
  BY <1>1, <1>3, <1>4, <1>5, <1>6 DEF WalkStep

(* However callers, drags and cascades interleave, no capped column holds  *)
(* more than its cap: the unblocking moves and the labels of a cascade     *)
(* cannot push one over.                                                   *)
THEOREM CascadesKeepCaps == CascadeSpec => []WipRespected
<1>1. CascInv /\ WipRespected /\ [CascadeNext]_cascadeVars => WipRespected'
  <2> SUFFICES ASSUME CascInv, WipRespected, [CascadeNext]_cascadeVars PROVE WipRespected'
    OBVIOUS
  <2>1. CASE \A u \in Tasks : rows'[u].status = rows[u].status /\ rows'[u].owner = rows[u].owner
    BY <2>1 DEF WipRespected, CapOK, Counted
  <2>2. ASSUME NEW t \in Tasks, NEW to \in Status, NEW c \in Owner, Move(t, to, c, "plain")
        PROVE  WipRespected'
    <3>1. HasRoom(to, c) /\ Record(t, rows[t].status, to, c)
      BY <2>2 DEF Move, Allowed, SkipsWip
    <3>2. BoardTypeOK
      BY DEF CascInv, CascadeTypeOK
    <3> QED
      BY <3>1, <3>2, MoveKeepsCaps
  <2>3. UNCHANGED cascadeVars
        => \A u \in Tasks : rows'[u].status = rows[u].status /\ rows'[u].owner = rows[u].owner
    BY DEF cascadeVars
  <2> QED
    BY <2>1, <2>2, <2>3, StepMoves
<1>2. CascadeInit => WipRespected
  <2> SUFFICES ASSUME CascadeInit, NEW c \in WipColumns, NEW s \in Owner PROVE CapOK(c, s)
    BY DEF WipRespected, Owner
  <2>1. \A t \in Tasks : rows[t].status \in {"icebox", "blocked"}
    BY DEF CascadeInit
  <2>2. Counted(c, s) = {}
    BY <2>1 DEF Counted, WipColumns
  <2> QED
    BY <2>2, FS_EmptySet, CapNat DEF CapOK
<1> QED
  BY <1>1, <1>2, CascadeCorrect, PTL DEF CascadeSpec

(* The audit trail tells every move of a caller, a drag or a cascade:      *)
(* nothing changes a status past it.                                       *)
THEOREM CascadesAudited == CascadeSpec => []AuditEndsAtStatus /\ AuditChain
<1>1. CascadeInit => AuditEndsAtStatus
  <2> SUFFICES ASSUME CascadeInit, NEW t \in Tasks PROVE hist[t].new = rows[t].status
    BY DEF AuditEndsAtStatus
  <2>1. hist = [u \in Tasks |-> [old |-> "", new |-> rows[u].status]]
    BY DEF CascadeInit
  <2> QED
    BY <2>1
<1>2. CascInv /\ AuditEndsAtStatus /\ [CascadeNext]_cascadeVars
      => /\ AuditEndsAtStatus'
         /\ [\A t \in Tasks : hist'[t] # hist[t] => hist'[t].old = hist[t].new]_hist
  <2> SUFFICES ASSUME CascInv, AuditEndsAtStatus, [CascadeNext]_cascadeVars
               PROVE  /\ AuditEndsAtStatus'
                      /\ \A t \in Tasks : hist'[t] # hist[t] => hist'[t].old = hist[t].new
    OBVIOUS
  <2>1. CASE /\ hist' = hist
             /\ \A u \in Tasks : rows'[u].status = rows[u].status
    BY <2>1 DEF AuditEndsAtStatus
  <2>2. ASSUME NEW t \in Tasks, NEW to \in Status, NEW c \in Owner, Move(t, to, c, "plain")
        PROVE  /\ AuditEndsAtStatus'
               /\ \A u \in Tasks : hist'[u] # hist[u] => hist'[u].old = hist[u].new
    BY <2>2, MoveAudited DEF Move, CascInv, CascadeTypeOK
  <2>3. UNCHANGED cascadeVars => /\ hist' = hist
                                 /\ \A u \in Tasks : rows'[u].status = rows[u].status
    BY DEF cascadeVars
  <2> QED
    BY <2>1, <2>2, <2>3, StepMoves
<1>3. CascInv /\ AuditEndsAtStatus /\ [CascadeNext]_cascadeVars => AuditEndsAtStatus'
  BY <1>2
<1>4. CascInv /\ AuditEndsAtStatus /\ [CascadeNext]_cascadeVars
      => [\A t \in Tasks : hist'[t] # hist[t] => hist'[t].old = hist[t].new]_hist
  BY <1>2
<1> QED
  BY <1>1, <1>3, <1>4, CascadeCorrect, PTL DEF CascadeSpec, AuditChain

===============================================================================
