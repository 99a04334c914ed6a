---------------------------- MODULE TaskIds_proofs ----------------------------
(***************************************************************************)
(* Proofs about TaskIds: its types, and that neither a reservation nor the *)
(* id of a file is given twice before a sync_all prunes a number in use,   *)
(* for any creators, pruners and faults.                                   *)
(***************************************************************************)
EXTENDS TaskIds, WellFoundedInduction, TLAPS

(* A set of numbers that is not empty has a least one.                     *)
LEMMA LeastExists ==
  ASSUME NEW T, T \subseteq Nat, T # {}
  PROVE  \E x \in T : \A y \in T : x <= y
<1> DEFINE R == OpToRel(<, Nat)
<1>1. IsWellFoundedOn(R, Nat)
  BY NatLessThanWellFounded
<1>2. \E x \in T : \A y \in T : ~ (<<y, x>> \in R)
  <2> HIDE DEF R
  <2> QED BY <1>1, WFMin
<1>3. ASSUME NEW x \in Nat, NEW y \in Nat, x < y
      PROVE  <<x, y>> \in R
  <2>1. <<x, y>> \in Nat \X Nat
    OBVIOUS
  <2> QED
    BY <1>3, <2>1 DEF OpToRel
<1> HIDE DEF R
<1>4. PICK x \in T : \A y \in T : ~ (<<y, x>> \in R)
  BY <1>2
<1>5. ASSUME NEW y \in T
      PROVE  x <= y
  <2>1. x \in Nat /\ y \in Nat
    OBVIOUS
  <2>2. ~ (y < x)
    BY <1>3, <1>4, <2>1
  <2> QED
    BY <2>1, <2>2
<1> QED
  BY <1>5

(* Max is the greatest element of a set of numbers with a bound.           *)
LEMMA MaxOfBounded ==
  ASSUME NEW S, S \subseteq Nat, S # {},
         NEW B \in Nat, \A x \in S : x <= B
  PROVE  Max(S) \in S /\ \A x \in S : x <= Max(S)
<1> DEFINE T == {n \in Nat : \A x \in S : x <= n}
<1>1. PICK m \in T : \A n \in T : m <= n
  <2>1. T \subseteq Nat /\ B \in T
    OBVIOUS
  <2> HIDE DEF T
  <2> QED
    BY <2>1, LeastExists
<1>2. m \in S
  <2> SUFFICES ASSUME m \notin S PROVE FALSE
    OBVIOUS
  <2>1. ASSUME NEW x \in S
        PROVE  x \in Nat /\ m \in Nat /\ x < m
    <3>1. x \in Nat /\ m \in Nat /\ x <= m /\ x # m
      BY <1>1
    <3> QED
      BY <3>1
  <2>2. m - 1 \in Nat
    <3> HIDE DEF T
    <3>1. PICK x \in S : TRUE
      OBVIOUS
    <3>2. x \in Nat /\ m \in Nat /\ x < m
      BY <2>1
    <3> QED
      BY <3>2
  <2>3. \A x \in S : x <= m - 1
    BY <2>1
  <2>4. m - 1 \in T
    BY <2>2, <2>3
  <2> QED
    BY <1>1, <2>2, <2>4
<1>3. \E x \in S : \A y \in S : x >= y
  BY <1>2
<1> QED
  BY <1>3 DEF Max

(* The values of a function on an interval have a bound.                   *)
LEMMA BoundExists ==
  ASSUME NEW N \in Nat, NEW f \in [1..N -> Nat]
  PROVE  \E B \in Nat : \A n \in 1..N : f[n] <= B
<1> DEFINE Bounds(k, B) == \A n \in 1..N : n <= k => f[n] <= B
           T == {k \in Nat : \A B \in Nat : ~ Bounds(k, B)}
<1>1. ASSUME T # {}
      PROVE  FALSE
  <2>1. PICK k \in T : \A j \in T : k <= j
    <3>1. T \subseteq Nat
      OBVIOUS
    <3> HIDE DEF T
    <3> QED
      BY <1>1, <3>1, LeastExists
  <2>2. k \in Nat /\ k # 0
    <3>1. Bounds(0, 0)
      OBVIOUS
    <3> QED
      BY <3>1
  <2>3. k - 1 \in Nat /\ k - 1 < k
    <3> HIDE DEF T
    <3> QED BY <2>2
  <2>4. PICK B \in Nat : Bounds(k - 1, B)
    <3>1. k - 1 \notin T
      <4> HIDE DEF T
      <4> QED BY <2>1, <2>2, <2>3
    <3> HIDE DEF Bounds
    <3> QED BY <2>3, <3>1
  <2>5. CASE k \in 1..N
    <3>1. f[k] \in Nat
      BY <2>5
    <3>2. PICK C \in Nat : B <= C /\ f[k] <= C
      <4> HIDE DEF T, Bounds
      <4>1. B <= B + f[k] /\ f[k] <= B + f[k] /\ B + f[k] \in Nat
        BY <3>1
      <4> QED
        BY <4>1
    <3>3. ASSUME NEW n \in 1..N, n <= k
          PROVE  f[n] <= C
      <4>1. f[n] \in Nat /\ n \in Nat
        <5> HIDE DEF T, Bounds
        <5> QED OBVIOUS
      <4>2. n = k \/ n <= k - 1
        <5> HIDE DEF T, Bounds
        <5> QED BY <2>2, <3>3, <4>1
      <4>3. CASE n = k
        BY <3>2, <4>3
      <4>4. CASE n <= k - 1
        <5>1. f[n] <= B
          BY <2>4, <4>4
        <5> HIDE DEF T, Bounds
        <5> QED BY <3>2, <4>1, <5>1
      <4> QED
        BY <4>2, <4>3, <4>4
    <3>4. Bounds(k, C)
      BY <3>3
    <3> QED
      BY <2>1, <3>4
  <2>6. CASE k \notin 1..N
    <3>1. \A n \in 1..N : n <= k => n <= k - 1
      BY <2>2, <2>6
    <3>2. Bounds(k, B)
      BY <2>4, <3>1
    <3> QED
      BY <2>1, <3>2
  <2> QED
    BY <2>5, <2>6
<1>2. \E B \in Nat : Bounds(N, B)
  BY <1>1
<1> QED
  BY <1>2

-------------------------------------------------------------------------------

(* The scan's number bounds the ids of the files.                          *)
LEMMA ScanAbove ==
  ASSUME IdsTypeOK
  PROVE  LET m == Max({0} \cup {f.id : f \in files})
         IN  m \in 0..MaxId /\ \A f \in files : f.id <= m
<1> DEFINE S == {0} \cup {f.id : f \in files}
<1>1. S \subseteq 0..MaxId /\ S # {} /\ MaxId \in Nat
  BY IdsAssumption DEF IdsTypeOK, File, Ids
<1>2. \A f \in files : f.id \in S
  OBVIOUS
<1> HIDE DEF S
<1>3. S \subseteq Nat /\ \A x \in S : x <= MaxId
  BY <1>1
<1>4. Max(S) \in S /\ \A x \in S : x <= Max(S)
  BY <1>1, <1>3, MaxOfBounded
<1>5. Max(S) \in 0..MaxId /\ \A f \in files : f.id <= Max(S)
  BY <1>1, <1>2, <1>4
<1> QED
  BY <1>5 DEF S

(* A reservation starts from a number no row and no scanned file exceeds.  *)
LEMMA HighestAbove ==
  ASSUME IdsTypeOK, NEW c \in Creators
  PROVE  /\ Highest(c) \in 0..MaxId /\ cr[c].max <= Highest(c)
         /\ \A n \in UsedIds : n <= Highest(c)
<1> DEFINE S == UsedIds \cup {cr[c].max}
<1>1. S \subseteq 0..MaxId /\ S # {} /\ MaxId \in Nat /\ cr[c].max \in S /\ UsedIds \subseteq S
  BY IdsAssumption DEF IdsTypeOK, Call, UsedIds, Ids
<1> HIDE DEF S
<1>2. S \subseteq Nat /\ \A x \in S : x <= MaxId
  BY <1>1
<1>3. Max(S) \in S /\ \A x \in S : x <= Max(S)
  BY <1>1, <1>2, MaxOfBounded
<1>4. /\ Max(S) \in 0..MaxId /\ cr[c].max <= Max(S)
      /\ \A n \in UsedIds : n <= Max(S)
  BY <1>1, <1>3
<1> QED
  BY <1>4 DEF S, Highest

(* A new row's rowid is above all others.                                  *)
LEMMA NextRidFresh ==
  ASSUME IdsTypeOK
  PROVE  NextRid \in Nat /\ \A n \in UsedIds : rows[n].rid < NextRid
<1> DEFINE S == {0} \cup {rows[n].rid : n \in UsedIds}
           f == [n \in 1..MaxId |-> IF n \in UsedIds THEN rows[n].rid ELSE 0]
<1>1. S \subseteq Nat /\ S # {} /\ MaxId \in Nat
  BY IdsAssumption DEF IdsTypeOK, Row, UsedIds
<1>2. f \in [1..MaxId -> Nat]
  BY DEF IdsTypeOK, Row, UsedIds, Ids
<1>3. PICK B \in Nat : \A n \in 1..MaxId : f[n] <= B
  <2> HIDE DEF f
  <2> QED BY <1>1, <1>2, BoundExists
<1>4. \A x \in S : x <= B
  <2> SUFFICES ASSUME NEW x \in S PROVE x <= B
    OBVIOUS
  <2>1. CASE x = 0
    BY <2>1
  <2>2. CASE x # 0
    <3>1. PICK n \in UsedIds : x = rows[n].rid
      BY <2>2
    <3>2. n \in 1..MaxId /\ f[n] = x
      BY <3>1 DEF UsedIds, Ids
    <3> QED
      BY <1>3, <3>2
  <2> QED
    BY <2>1, <2>2
<1>5. \A n \in UsedIds : rows[n].rid \in S
  OBVIOUS
<1>6. NextRid = Max(S) + 1
  BY DEF NextRid
<1> HIDE DEF S, f
<1>7. Max(S) \in S /\ \A x \in S : x <= Max(S)
  BY <1>1, <1>4, MaxOfBounded
<1>8. ASSUME NEW n \in UsedIds
      PROVE  rows[n].rid \in Nat /\ Max(S) \in Nat /\ rows[n].rid <= Max(S)
  BY <1>1, <1>5, <1>7
<1>9. ASSUME NEW n \in UsedIds
      PROVE  rows[n].rid < Max(S) + 1
  BY <1>8
<1>10. Max(S) + 1 \in Nat
  <2>1. Max(S) \in Nat
    BY <1>1, <1>7
  <2> QED
    BY <2>1
<1> QED
  BY <1>6, <1>9, <1>10

(* A synced row is typed.                                                  *)
LEMMA UpsertTyped ==
  ASSUME IdsTypeOK, NEW f \in File
  PROVE  /\ Upserted(f) \in [Ids -> {NoRow} \cup Row]
         /\ Upserted(f)[f.id] \in Row /\ Upserted(f)[f.id].path = f
         /\ \A n \in Ids \ {f.id} : Upserted(f)[n] = rows[n]
         /\ Upserted(f)[f.id].rid =
              IF f.id \in UsedIds THEN rows[f.id].rid ELSE NextRid
<1>1. f.id \in Ids
  BY DEF File
<1>2. NextRid \in Nat
  BY NextRidFresh
<1> DEFINE r == RowOf(f, IF rows[f.id] = NoRow THEN NextRid ELSE rows[f.id].rid)
<1>3. r \in Row
  BY <1>1, <1>2 DEF IdsTypeOK, RowOf, Row
<1>4. Upserted(f) = [rows EXCEPT ![f.id] = r]
  BY DEF Upserted
<1>5. /\ r.path = f
      /\ r.rid = IF f.id \in UsedIds THEN rows[f.id].rid ELSE NextRid
  BY <1>1 DEF RowOf, UsedIds
<1> HIDE DEF r
<1>6. rows \in [Ids -> {NoRow} \cup Row]
  BY DEF IdsTypeOK
<1> QED
  BY <1>1, <1>3, <1>4, <1>5, <1>6

-------------------------------------------------------------------------------

(* A creator past the read-back has a number.                              *)
NumberInv ==
  \A c \in Creators : cr[c].phase \in {"check", "write", "sync"} => cr[c].id \in Ids

(* Every step keeps the types.                                             *)
LEMMA TypeStep ==
  ASSUME IdsTypeOK, NumberInv, [Next]_vars
  PROVE  IdsTypeOK' /\ NumberInv'
<1> USE DEF IdsTypeOK, NumberInv
<1>1. ASSUME NEW c \in Creators, ScanFiles(c)
      PROVE  IdsTypeOK' /\ NumberInv'
  <2>1. Max({0} \cup {f.id : f \in files}) \in 0..MaxId
    BY ScanAbove
  <2> QED
    BY <1>1, <2>1 DEF ScanFiles, Call
<1>2. ASSUME NEW c \in Creators, Reserve(c)
      PROVE  IdsTypeOK' /\ NumberInv'
  <2>1. Highest(c) + 1 \in Ids /\ NextRid \in Nat
    <3>1. Highest(c) \in 0..MaxId /\ Highest(c) + 1 <= MaxId /\ MaxId \in Nat
      BY <1>2, HighestAbove, IdsAssumption DEF Reserve
    <3> QED
      BY <3>1, NextRidFresh DEF Ids
  <2>2. RowOf(Reserving, NextRid) \in Row
    BY <2>1 DEF RowOf, Row
  <2>3. rows' \in [Ids -> {NoRow} \cup Row]
    BY <1>2, <2>1, <2>2 DEF Reserve
  <2>4. cr' \in [Creators -> Call] /\ NumberInv'
    BY <1>2, <2>1 DEF Reserve, Call
  <2> QED
    BY <1>2, <2>3, <2>4 DEF Reserve
<1>3. ASSUME NEW c \in Creators, ReadBack(c)
      PROVE  IdsTypeOK' /\ NumberInv'
  <2>1. \A n \in UsedIds : n \in Ids /\ n \in 0..MaxId
    BY IdsAssumption DEF UsedIds, Ids
  <2>2. ASSUME NEW n \in UsedIds, cr' = [cr EXCEPT ![c].phase = "check", ![c].id = n]
        PROVE  IdsTypeOK' /\ NumberInv'
    <3>1. n \in Ids /\ n \in 0..MaxId
      BY <2>1
    <3>2. cr' \in [Creators -> Call] /\ NumberInv'
      BY <2>2, <3>1 DEF Call
    <3> QED
      BY <1>3, <3>2 DEF ReadBack
  <2>3. CASE cr' = [cr EXCEPT ![c].phase = "done"]
    BY <1>3, <2>3 DEF ReadBack, Call
  <2> QED
    BY <1>3, <2>2, <2>3 DEF ReadBack
<1>4. ASSUME NEW c \in Creators, CheckFile(c)
      PROVE  IdsTypeOK' /\ NumberInv'
  BY <1>4 DEF CheckFile, Call
<1>5. ASSUME NEW c \in Creators, WriteFile(c)
      PROVE  IdsTypeOK' /\ NumberInv'
  <2>1. Named(c) \in File
    BY <1>5 DEF WriteFile, Named, File
  <2>2. files' \subseteq File
    BY <1>5, <2>1 DEF WriteFile
  <2>3. cr' \in [Creators -> Call] /\ NumberInv'
    BY <1>5 DEF WriteFile, Call
  <2> QED
    BY <1>5, <2>2, <2>3 DEF WriteFile
<1>6. ASSUME NEW c \in Creators, SyncFile(c)
      PROVE  IdsTypeOK' /\ NumberInv'
  <2>1. rows' \in [Ids -> {NoRow} \cup Row]
    <3>1. Named(c) \in files => Upserted(Named(c)) \in [Ids -> {NoRow} \cup Row]
      BY UpsertTyped
    <3> QED
      BY <1>6, <3>1 DEF SyncFile
  <2>2. cr' \in [Creators -> Call] /\ NumberInv'
    BY <1>6 DEF SyncFile, Call
  <2> QED
    BY <1>6, <2>1, <2>2 DEF SyncFile
<1>7. ASSUME NEW c \in Creators, Crash(c)
      PROVE  IdsTypeOK' /\ NumberInv'
  BY <1>7 DEF Crash, Call
<1>8. ASSUME NEW f \in files, Remove(f)
      PROVE  IdsTypeOK' /\ NumberInv'
  BY <1>8 DEF Remove
<1>9. ASSUME NEW p \in Pruners, List(p)
      PROVE  IdsTypeOK' /\ NumberInv'
  <2>1. files \in SUBSET File
    OBVIOUS
  <2>2. [pr[p] EXCEPT !.phase = "sync", !.seen = files, !.todo = files] \in Run
    BY <2>1 DEF Run
  <2>3. pr' = [pr EXCEPT ![p] =
                 [pr[p] EXCEPT !.phase = "sync", !.seen = files, !.todo = files]]
    BY <1>9 DEF List
  <2>4. pr' \in [Pruners -> Run]
    <3> HIDE DEF NumberInv
    <3> QED BY <2>2, <2>3
  <2> QED
    BY <1>9, <2>4 DEF List
<1>10. ASSUME NEW p \in Pruners, SyncNext(p)
       PROVE  IdsTypeOK' /\ NumberInv'
  <2>1. PICK f \in pr[p].todo :
          IF f \in files
            THEN /\ rows' = Upserted(f)
                 /\ pr' = [pr EXCEPT ![p].todo = @ \ {f}]
            ELSE pr' = [pr EXCEPT ![p] = NewRun] /\ UNCHANGED rows
    BY <1>10 DEF SyncNext
  <2>2. f \in files => Upserted(f) \in [Ids -> {NoRow} \cup Row]
    BY UpsertTyped
  <2>3. pr' \in [Pruners -> Run]
    <3>1. CASE f \in files
      BY <2>1, <3>1 DEF Run
    <3>2. CASE f \notin files
      BY <2>1, <3>2 DEF Run, NewRun
    <3> QED
      BY <3>1, <3>2
  <2>4. rows' \in [Ids -> {NoRow} \cup Row]
    BY <2>1, <2>2
  <2> QED
    BY <1>10, <2>3, <2>4 DEF SyncNext
<1>11. ASSUME NEW p \in Pruners, SelectGone(p)
       PROVE  IdsTypeOK' /\ NumberInv'
  <2> DEFINE G == {n \in UsedIds : rows[n].path \notin pr[p].seen}
  <2>1. G \in SUBSET Ids
    BY DEF UsedIds
  <2> HIDE DEF G
  <2>2. NewRun \in Run /\ [pr[p] EXCEPT !.phase = "delete", !.gone = G] \in Run
    BY <2>1 DEF NewRun, Run
  <2>3. \/ pr' = [pr EXCEPT ![p] = [pr[p] EXCEPT !.phase = "delete", !.gone = G]]
        \/ pr' = [pr EXCEPT ![p] = NewRun]
    BY <1>11 DEF SelectGone, G
  <2>4. pr' \in [Pruners -> Run]
    <3> HIDE DEF NumberInv
    <3> QED BY <2>2, <2>3
  <2> QED
    BY <1>11, <2>4 DEF SelectGone
<1>12. ASSUME NEW p \in Pruners, DeleteGone(p)
       PROVE  IdsTypeOK' /\ NumberInv'
  <2>1. rows' \in [Ids -> {NoRow} \cup Row] /\ pruned' \subseteq Ids
    BY <1>12 DEF DeleteGone, UsedIds
  <2>2. pr' \in [Pruners -> Run]
    BY <1>12 DEF DeleteGone, NewRun, Run
  <2> QED
    BY <1>12, <2>1, <2>2 DEF DeleteGone
<1>13. CASE UNCHANGED vars
  BY <1>13 DEF vars
<1> QED
  <2> HIDE DEF IdsTypeOK, NumberInv
  <2> QED
    BY <1>1, <1>2, <1>3, <1>4, <1>5, <1>6, <1>7, <1>8, <1>9, <1>10, <1>11, <1>12, <1>13
       DEF Next, Create, SyncAll

-------------------------------------------------------------------------------

(* Creators between their reservation and their file own a row.            *)
Owners == {c \in Creators : cr[c].phase \in {"readback", "check", "write"}}

Owns(c, n) ==
  /\ n \in UsedIds
  /\ rows[n].path = Reserving /\ rows[n].rid = cr[c].rid
  /\ \A f \in files : f.id # n
  /\ cr[c].phase # "readback" => cr[c].id = n

RidInv == \A m, n \in UsedIds : rows[m].rid = rows[n].rid => m = n

OwnInv == \A c \in Owners : \E n \in Ids : Owns(c, n)

ApartInv == \A c, d \in Owners : cr[c].rid = cr[d].rid => c = d

(* What a creator's scan did not see has a row by now.                     *)
ScanInv ==
  \A c \in Creators : cr[c].phase = "reserve" =>
    \A f \in files : f.id <= cr[c].max \/ f.id \in UsedIds

(* A row is that of its id's file, or still the reservation.               *)
PathInv ==
  \A f \in files : f.id \in UsedIds => rows[f.id].path \in {f, Reserving}

OneFileInv == \A f, g \in files : f.id = g.id => f = g

SafeInv == RidInv /\ OwnInv /\ ApartInv /\ ScanInv /\ PathInv /\ OneFileInv

IdsInv == IdsTypeOK /\ NumberInv /\ (pruned = {} => SafeInv)

(* A step that only moves calls on, each keeping what it owns.             *)
LEMMA CallMoves ==
  ASSUME SafeInv, UNCHANGED <<files, rows>>,
         \A d \in Owners' : d \in Owners /\ cr'[d].rid = cr[d].rid,
         \A d \in Owners' : cr'[d].phase = "readback" \/ \E n \in Ids : Owns(d, n) /\ cr'[d].id = n,
         \A d \in Creators : cr'[d].phase = "reserve" =>
           \/ cr[d].phase = "reserve" /\ cr'[d].max = cr[d].max
           \/ \A f \in files : f.id <= cr'[d].max
  PROVE  SafeInv'
<1>1. RidInv' /\ PathInv' /\ OneFileInv'
  BY DEF SafeInv, RidInv, PathInv, OneFileInv, UsedIds
<1>2. ApartInv'
  BY DEF SafeInv, ApartInv
<1>3. OwnInv'
  <2> SUFFICES ASSUME NEW d \in Owners'
               PROVE  \E n \in Ids : Owns(d, n)'
    BY DEF OwnInv
  <2>1. PICK n \in Ids : Owns(d, n) /\ (cr'[d].phase = "readback" \/ cr'[d].id = n)
    BY DEF SafeInv, OwnInv
  <2> QED
    BY <2>1 DEF Owns, UsedIds
<1>4. ScanInv'
  BY DEF SafeInv, ScanInv, UsedIds
<1> QED
  BY <1>1, <1>2, <1>3, <1>4 DEF SafeInv

(* Syncing a file that is there touches nobody's reservation.              *)
LEMMA SyncKeeps ==
  ASSUME IdsTypeOK, SafeInv, NEW f \in files,
         rows' = Upserted(f), files' = files,
         \A d \in Creators : cr'[d] = cr[d] \/ cr'[d].phase = "done"
  PROVE  SafeInv'
<1>1. /\ f \in File /\ f.id \in Ids
      /\ rows'[f.id] \in Row /\ rows'[f.id].path = f
      /\ \A n \in Ids \ {f.id} : rows'[n] = rows[n]
      /\ rows'[f.id].rid = IF f.id \in UsedIds THEN rows[f.id].rid ELSE NextRid
  BY UpsertTyped DEF IdsTypeOK, File
<1>2. UsedIds' = UsedIds \cup {f.id}
  BY <1>1, IdsAssumption DEF UsedIds
<1>3. NextRid \in Nat /\ \A n \in UsedIds : rows[n].rid \in Nat /\ rows[n].rid < NextRid
  BY NextRidFresh DEF IdsTypeOK, UsedIds, Row
<1>4. \A n \in UsedIds : rows'[n].rid = rows[n].rid
  BY <1>1 DEF UsedIds
<1>5. RidInv'
  <2> SUFFICES ASSUME NEW m \in UsedIds', NEW n \in UsedIds', rows'[m].rid = rows'[n].rid
               PROVE  m = n
    BY DEF RidInv
  <2>1. CASE m \in UsedIds /\ n \in UsedIds
    BY <1>4, <2>1 DEF SafeInv, RidInv
  <2>2. CASE m \notin UsedIds /\ n \in UsedIds
    <3>1. m = f.id /\ rows'[m].rid = NextRid
      BY <1>1, <1>2, <2>2
    <3>2. rows'[n].rid \in Nat /\ rows'[n].rid < NextRid
      BY <1>3, <1>4, <2>2
    <3> QED
      BY <1>3, <3>1, <3>2
  <2>3. CASE n \notin UsedIds /\ m \in UsedIds
    <3>1. n = f.id /\ rows'[n].rid = NextRid
      BY <1>1, <1>2, <2>3
    <3>2. rows'[m].rid \in Nat /\ rows'[m].rid < NextRid
      BY <1>3, <1>4, <2>3
    <3> QED
      BY <1>3, <3>1, <3>2
  <2> QED
    BY <1>2, <2>1, <2>2, <2>3
<1>6. \A d \in Owners' : d \in Owners /\ cr'[d] = cr[d]
  BY DEF Owners
<1>7. OwnInv'
  <2> SUFFICES ASSUME NEW d \in Owners'
               PROVE  \E n \in Ids : Owns(d, n)'
    BY DEF OwnInv
  <2>1. PICK n \in Ids : Owns(d, n)
    BY <1>6 DEF SafeInv, OwnInv
  <2>2. n # f.id /\ rows'[n] = rows[n]
    BY <1>1, <2>1 DEF Owns
  <2> QED
    BY <1>2, <1>6, <2>1, <2>2 DEF Owns
<1>8. ApartInv'
  BY <1>6 DEF SafeInv, ApartInv
<1>9. ScanInv'
  BY <1>2 DEF SafeInv, ScanInv
<1>10. PathInv'
  <2> SUFFICES ASSUME NEW g \in files, g.id \in UsedIds'
               PROVE  rows'[g.id].path \in {g, Reserving}
    BY DEF PathInv
  <2>1. CASE g.id = f.id
    BY <1>1, <2>1 DEF SafeInv, OneFileInv
  <2>2. CASE g.id # f.id
    BY <1>1, <1>2, <2>2 DEF SafeInv, PathInv, UsedIds
  <2> QED
    BY <2>1, <2>2
<1>11. OneFileInv'
  BY DEF SafeInv, OneFileInv
<1> QED
  BY <1>5, <1>7, <1>8, <1>9, <1>10, <1>11 DEF SafeInv

(* A reservation takes a number above every row and every file.            *)
LEMMA ReserveKeeps ==
  ASSUME IdsTypeOK, SafeInv, NEW c \in Creators, Reserve(c)
  PROVE  SafeInv'
<1>0. PICK n : n = Highest(c) + 1
  OBVIOUS
<1>1. /\ n \in Ids /\ n \notin UsedIds /\ \A f \in files : f.id # n
      /\ cr[c].phase = "reserve"
  <2>1. /\ Highest(c) \in Nat /\ cr[c].max <= Highest(c) /\ n <= MaxId /\ MaxId \in Nat
        /\ cr[c].phase = "reserve" /\ cr[c].max \in Nat
        /\ \A m \in UsedIds : m \in Nat /\ m <= Highest(c)
    BY <1>0, HighestAbove, IdsAssumption DEF Reserve, UsedIds, Ids, IdsTypeOK, Call
  <2>2. n \in Ids /\ n \notin UsedIds
    BY <1>0, <2>1 DEF Ids
  <2>3. ASSUME NEW f \in files
        PROVE  f.id # n
    <3>1. f.id \in Nat /\ (f.id <= cr[c].max \/ f.id \in UsedIds)
      BY <2>1 DEF IdsTypeOK, File, Ids, SafeInv, ScanInv
    <3> QED
      BY <1>0, <2>1, <3>1
  <2> QED
    BY <2>1, <2>2, <2>3
<1>2. /\ rows' = [rows EXCEPT ![n] = RowOf(Reserving, NextRid)] /\ files' = files
      /\ cr' = [cr EXCEPT ![c].phase = "readback", ![c].rid = NextRid]
  BY <1>0 DEF Reserve
<1>3. /\ rows'[n].path = Reserving /\ rows'[n].rid = NextRid /\ rows'[n] # NoRow
      /\ \A m \in Ids \ {n} : rows'[m] = rows[m]
  <2>1. RowOf(Reserving, NextRid) \in Row
    BY NextRidFresh DEF RowOf, Row
  <2>2. RowOf(Reserving, NextRid).path = Reserving /\ RowOf(Reserving, NextRid).rid = NextRid
    BY DEF RowOf
  <2> QED
    BY <1>1, <1>2, <2>1, <2>2, IdsAssumption DEF IdsTypeOK
<1>4. UsedIds' = UsedIds \cup {n}
  BY <1>1, <1>3 DEF UsedIds
<1>5. NextRid \in Nat /\ \A m \in UsedIds : rows[m].rid \in Nat /\ rows[m].rid < NextRid
  BY NextRidFresh DEF IdsTypeOK, UsedIds, Row
<1>6. \A m \in UsedIds : rows'[m] = rows[m] /\ m # n
  BY <1>1, <1>3 DEF UsedIds
<1>7. RidInv'
  <2> SUFFICES ASSUME NEW i \in UsedIds', NEW j \in UsedIds', rows'[i].rid = rows'[j].rid
               PROVE  i = j
    BY DEF RidInv
  <2>1. \A m \in UsedIds : rows'[m].rid # rows'[n].rid
    BY <1>3, <1>5, <1>6
  <2>2. CASE i \in UsedIds /\ j \in UsedIds
    BY <1>6, <2>2 DEF SafeInv, RidInv
  <2> QED
    BY <1>4, <2>1, <2>2
<1>8. /\ cr'[c].phase = "readback" /\ cr'[c].rid = NextRid
      /\ \A d \in Creators \ {c} : cr'[d] = cr[d]
  BY <1>2 DEF IdsTypeOK, Call
<1>9. \A d \in Owners' \ {c} : d \in Owners
  BY <1>8 DEF Owners
<1>10. OwnInv'
  <2> SUFFICES ASSUME NEW d \in Owners'
               PROVE  \E m \in Ids : Owns(d, m)'
    BY DEF OwnInv
  <2>1. CASE d = c
    <3>1. Owns(c, n)'
      BY <1>1, <1>2, <1>3, <1>4, <1>8 DEF Owns
    <3> QED
      BY <1>1, <2>1, <3>1
  <2>2. CASE d # c
    <3>1. PICK m \in Ids : Owns(d, m)
      BY <1>9, <2>2 DEF SafeInv, OwnInv
    <3>2. d \in Creators /\ cr'[d] = cr[d]
      BY <1>8, <2>2 DEF Owners
    <3>3. Owns(d, m)'
      BY <1>2, <1>4, <1>6, <3>1, <3>2 DEF Owns
    <3> QED
      BY <3>3
  <2> QED
    BY <2>1, <2>2
<1>11. ApartInv'
  <2>1. ASSUME NEW d \in Owners', d # c
        PROVE  cr'[d].rid = cr[d].rid /\ cr'[d].rid # NextRid
    <3>1. PICK m \in Ids : Owns(d, m)
      BY <1>9, <2>1 DEF SafeInv, OwnInv
    <3>2. cr'[d] = cr[d]
      BY <1>8, <2>1 DEF Owners
    <3> QED
      BY <1>5, <3>1, <3>2 DEF Owns
  <2> SUFFICES ASSUME NEW d \in Owners', NEW e \in Owners', cr'[d].rid = cr'[e].rid
               PROVE  d = e
    BY DEF ApartInv
  <2>2. CASE d # c /\ e # c
    BY <1>9, <2>1, <2>2 DEF SafeInv, ApartInv
  <2> QED
    BY <1>8, <2>1, <2>2
<1>12. ScanInv'
  BY <1>2, <1>4, <1>8 DEF SafeInv, ScanInv
<1>13. PathInv'
  BY <1>1, <1>2, <1>4, <1>6 DEF SafeInv, PathInv
<1>14. OneFileInv'
  BY <1>2 DEF SafeInv, OneFileInv
<1> QED
  BY <1>7, <1>10, <1>11, <1>12, <1>13, <1>14 DEF SafeInv

(* A new file takes the number its creator owns.                           *)
LEMMA WriteKeeps ==
  ASSUME IdsTypeOK, SafeInv, NEW c \in Creators, WriteFile(c)
  PROVE  SafeInv'
<1>1. /\ cr[c].phase = "write" /\ files' = files \cup {Named(c)} /\ rows' = rows
      /\ cr' = [cr EXCEPT ![c].phase = "sync"] /\ Named(c).id = cr[c].id
  BY DEF WriteFile, Named
<1>2. Owns(c, cr[c].id)
  BY <1>1 DEF SafeInv, OwnInv, Owners, Owns
<1>3. \A f \in files : f.id # Named(c).id
  BY <1>1, <1>2 DEF Owns
<1>4. \A d \in Owners' : d \in Owners \ {c} /\ cr'[d] = cr[d]
  BY <1>1 DEF Owners, IdsTypeOK, Call
<1>5. UsedIds' = UsedIds
  BY <1>1 DEF UsedIds
<1>6. OwnInv'
  <2> SUFFICES ASSUME NEW d \in Owners'
               PROVE  \E n \in Ids : Owns(d, n)'
    BY DEF OwnInv
  <2>1. PICK n \in Ids : Owns(d, n)
    BY <1>4 DEF SafeInv, OwnInv
  <2>2. c \in Owners /\ cr[c].rid # cr[d].rid
    BY <1>1, <1>4 DEF SafeInv, ApartInv, Owners
  <2>3. n # Named(c).id
    BY <1>1, <1>2, <2>1, <2>2 DEF Owns
  <2> QED
    BY <1>1, <1>4, <1>5, <2>1, <2>3 DEF Owns
<1>7. ApartInv'
  BY <1>4 DEF SafeInv, ApartInv
<1>8. ScanInv'
  <2>1. \A d \in Creators : cr'[d].phase = "reserve" => cr'[d] = cr[d]
    BY <1>1 DEF IdsTypeOK, Call
  <2>2. Named(c).id \in UsedIds
    BY <1>1, <1>2 DEF Owns
  <2> QED
    BY <1>1, <1>5, <2>1, <2>2 DEF SafeInv, ScanInv
<1>9. PathInv'
  BY <1>1, <1>2, <1>5 DEF SafeInv, PathInv, Owns
<1>10. OneFileInv'
  BY <1>1, <1>3 DEF SafeInv, OneFileInv
<1>11. RidInv'
  BY <1>1, <1>5 DEF SafeInv, RidInv
<1> QED
  BY <1>6, <1>7, <1>8, <1>9, <1>10, <1>11 DEF SafeInv

(* A pruning that deletes no number in use leaves all reservations.        *)
LEMMA PruneKeeps ==
  ASSUME IdsTypeOK, SafeInv, NEW p \in Pruners, DeleteGone(p), pruned' = {}
  PROVE  SafeInv'
<1>1. /\ rows' = [n \in Ids |-> IF n \in pr[p].gone THEN NoRow ELSE rows[n]]
      /\ files' = files /\ cr' = cr
      /\ \A n \in pr[p].gone \cap UsedIds : rows[n].path \notin files \cup {Reserving}
  BY DEF DeleteGone
<1>2. \A n \in UsedIds' : n \in UsedIds /\ rows'[n] = rows[n]
  BY <1>1 DEF UsedIds
<1>3. \A n \in UsedIds : rows[n].path \in files \cup {Reserving} => n \in UsedIds' /\ rows'[n] = rows[n]
  BY <1>1 DEF UsedIds
<1>4. \A f \in files : f.id \in UsedIds => f.id \in UsedIds'
  BY <1>3 DEF SafeInv, PathInv
<1>5. RidInv' /\ PathInv' /\ OneFileInv'
  BY <1>1, <1>2 DEF SafeInv, RidInv, PathInv, OneFileInv
<1>6. OwnInv'
  <2> SUFFICES ASSUME NEW d \in Owners'
               PROVE  \E n \in Ids : Owns(d, n)'
    BY DEF OwnInv
  <2>1. PICK n \in Ids : Owns(d, n)
    BY <1>1 DEF SafeInv, OwnInv, Owners
  <2> QED
    BY <1>1, <1>3, <2>1 DEF Owns
<1>7. ApartInv'
  BY <1>1 DEF SafeInv, ApartInv, Owners
<1>8. ScanInv'
  BY <1>1, <1>4 DEF SafeInv, ScanInv
<1> QED
  BY <1>5, <1>6, <1>7, <1>8 DEF SafeInv

(* A file that goes frees no reservation.                                  *)
LEMMA RemoveKeeps ==
  ASSUME SafeInv, NEW f, Remove(f)
  PROVE  SafeInv'
<1>1. files' \subseteq files /\ rows' = rows /\ cr' = cr
  BY DEF Remove
<1>2. UsedIds' = UsedIds /\ Owners' = Owners
  BY <1>1 DEF UsedIds, Owners
<1>3. \A c, n : Owns(c, n) => Owns(c, n)'
  BY <1>1, <1>2 DEF Owns
<1>4. OwnInv' /\ ApartInv' /\ RidInv'
  BY <1>1, <1>2, <1>3 DEF SafeInv, OwnInv, ApartInv, RidInv
<1>5. ScanInv' /\ PathInv' /\ OneFileInv'
  BY <1>1, <1>2 DEF SafeInv, ScanInv, PathInv, OneFileInv
<1> QED
  BY <1>4, <1>5 DEF SafeInv

(* Until a number in use is pruned, every step keeps the invariant.        *)
LEMMA SafeStep ==
  ASSUME IdsTypeOK, NumberInv, SafeInv, [Next]_vars, pruned' = {}
  PROVE  SafeInv'
<1>1. ASSUME NEW c \in Creators, ScanFiles(c)
      PROVE  SafeInv'
  <2>1. \A f \in files : f.id <= Max({0} \cup {g.id : g \in files})
    BY ScanAbove
  <2>2. /\ UNCHANGED <<files, rows>>
        /\ cr'[c].phase = "reserve" /\ \A f \in files : f.id <= cr'[c].max
        /\ \A d \in Creators \ {c} : cr'[d] = cr[d]
    BY <1>1, <2>1 DEF ScanFiles, IdsTypeOK, Call
  <2>3. \A d \in Owners' : d \in Owners /\ cr'[d] = cr[d]
    BY <2>2 DEF Owners
  <2>4. \A d \in Owners' : cr'[d].phase = "readback" \/ \E n \in Ids : Owns(d, n) /\ cr'[d].id = n
    BY <2>3 DEF SafeInv, OwnInv, Owns
  <2> QED
    BY <2>2, <2>3, <2>4, CallMoves
<1>2. ASSUME NEW c \in Creators, ReadBack(c)
      PROVE  SafeInv'
  <2>1. /\ UNCHANGED <<files, rows>> /\ cr[c].phase = "readback"
        /\ cr'[c].phase \in {"check", "done"} /\ cr'[c].rid = cr[c].rid
        /\ cr'[c].phase = "check" => \E n \in UsedIds : rows[n].rid = cr[c].rid /\ cr'[c].id = n
        /\ \A d \in Creators \ {c} : cr'[d] = cr[d]
    BY <1>2 DEF ReadBack, IdsTypeOK, Call
  <2>2. \A d \in Owners' : d \in Owners /\ cr'[d].rid = cr[d].rid
    BY <2>1 DEF Owners
  <2>3. ASSUME NEW d \in Owners'
        PROVE  cr'[d].phase = "readback" \/ \E n \in Ids : Owns(d, n) /\ cr'[d].id = n
    <3>1. PICK n \in Ids : Owns(d, n)
      BY <2>2 DEF SafeInv, OwnInv
    <3>2. CASE d = c
      <4>1. cr'[c].phase = "check"
        BY <2>1, <3>2 DEF Owners
      <4>2. PICK m \in UsedIds : rows[m].rid = cr[c].rid /\ cr'[c].id = m
        BY <2>1, <4>1
      <4>3. m = n
        BY <3>1, <3>2, <4>2 DEF SafeInv, RidInv, Owns
      <4> QED
        BY <3>1, <3>2, <4>2, <4>3
    <3>3. CASE d # c
      BY <2>1, <3>1, <3>3 DEF Owns, Owners
    <3> QED
      BY <3>2, <3>3
  <2>4. \A d \in Creators : cr'[d].phase = "reserve" => cr'[d] = cr[d]
    BY <2>1
  <2> QED
    BY <2>1, <2>2, <2>3, <2>4, CallMoves
<1>3. ASSUME NEW c \in Creators, CheckFile(c)
      PROVE  SafeInv'
  <2>1. /\ UNCHANGED <<files, rows>> /\ cr[c].phase = "check"
        /\ cr'[c].phase \in {"write", "done"}
        /\ \A d \in Creators : cr'[d].rid = cr[d].rid /\ cr'[d].id = cr[d].id
        /\ \A d \in Creators \ {c} : cr'[d] = cr[d]
    BY <1>3 DEF CheckFile, IdsTypeOK, Call
  <2>2. \A d \in Owners' : d \in Owners /\ cr'[d].rid = cr[d].rid
    BY <2>1 DEF Owners
  <2>3. \A d \in Owners' : cr'[d].phase = "readback" \/ \E n \in Ids : Owns(d, n) /\ cr'[d].id = n
    BY <2>1, <2>2 DEF SafeInv, OwnInv, Owns, Owners
  <2>4. \A d \in Creators : cr'[d].phase = "reserve" => cr'[d] = cr[d]
    BY <2>1
  <2> QED
    BY <2>1, <2>2, <2>3, <2>4, CallMoves
<1>4. ASSUME NEW c \in Creators, Crash(c)
      PROVE  SafeInv'
  <2>1. /\ UNCHANGED <<files, rows>> /\ cr'[c].phase = "done"
        /\ \A d \in Creators \ {c} : cr'[d] = cr[d]
    BY <1>4 DEF Crash, IdsTypeOK, Call
  <2>2. \A d \in Owners' : d \in Owners /\ cr'[d] = cr[d]
    BY <2>1 DEF Owners
  <2>3. \A d \in Owners' : cr'[d].phase = "readback" \/ \E n \in Ids : Owns(d, n) /\ cr'[d].id = n
    BY <2>2 DEF SafeInv, OwnInv, Owns
  <2>4. \A d \in Creators : cr'[d].phase = "reserve" => cr'[d] = cr[d]
    BY <2>1
  <2> QED
    BY <2>1, <2>2, <2>3, <2>4, CallMoves
<1>5. ASSUME UNCHANGED <<files, rows, cr>>
      PROVE  SafeInv'
  <2>1. \A d \in Owners' : d \in Owners /\ cr'[d] = cr[d]
    BY <1>5 DEF Owners
  <2>2. \A d \in Owners' : cr'[d].phase = "readback" \/ \E n \in Ids : Owns(d, n) /\ cr'[d].id = n
    BY <2>1 DEF SafeInv, OwnInv, Owns
  <2> QED
    BY <1>5, <2>1, <2>2, CallMoves
<1>6. ASSUME NEW c \in Creators, SyncFile(c)
      PROVE  SafeInv'
  <2>1. /\ files' = files /\ cr'[c].phase = "done"
        /\ \A d \in Creators \ {c} : cr'[d] = cr[d]
        /\ rows' = IF Named(c) \in files THEN Upserted(Named(c)) ELSE rows
    BY <1>6 DEF SyncFile, IdsTypeOK, Call
  <2>2. CASE Named(c) \in files
    <3>1. \A d \in Creators : cr'[d] = cr[d] \/ cr'[d].phase = "done"
      BY <2>1
    <3> QED
      BY <2>1, <2>2, <3>1, SyncKeeps
  <2>3. CASE Named(c) \notin files
    <3>1. \A d \in Owners' : d \in Owners /\ cr'[d] = cr[d]
      BY <2>1 DEF Owners
    <3>2. \A d \in Owners' : cr'[d].phase = "readback" \/ \E n \in Ids : Owns(d, n) /\ cr'[d].id = n
      BY <3>1 DEF SafeInv, OwnInv, Owns
    <3>3. \A d \in Creators : cr'[d].phase = "reserve" => cr'[d] = cr[d]
      BY <2>1
    <3> QED
      BY <2>1, <2>3, <3>1, <3>2, <3>3, CallMoves
  <2> QED
    BY <2>2, <2>3
<1>7. ASSUME NEW p \in Pruners, SyncNext(p)
      PROVE  SafeInv'
  <2>1. files' = files /\ cr' = cr
    BY <1>7 DEF SyncNext
  <2>2. rows' = rows \/ \E f \in files : rows' = Upserted(f)
    BY <1>7 DEF SyncNext
  <2>3. CASE rows' = rows
    BY <1>5, <2>1, <2>3
  <2>4. CASE \E f \in files : rows' = Upserted(f)
    BY <2>1, <2>4, SyncKeeps
  <2> QED
    BY <2>2, <2>3, <2>4
<1>8. ASSUME NEW p \in Pruners, List(p) \/ SelectGone(p)
      PROVE  SafeInv'
  BY <1>5, <1>8 DEF List, SelectGone
<1>9. CASE UNCHANGED vars
  BY <1>5, <1>9 DEF vars
<1> QED
  BY <1>1, <1>2, <1>3, <1>4, <1>6, <1>7, <1>8, <1>9,
     ReserveKeeps, WriteKeeps, PruneKeeps, RemoveKeeps
     DEF Next, Create, SyncAll

-------------------------------------------------------------------------------

(* The board starts with one task or none, and no call under way.          *)
LEMMA InitIds == Init => IdsInv
<1> SUFFICES ASSUME Init PROVE IdsInv
  OBVIOUS
<1>1. PICK F \in {{}, {[id |-> 1, slug |-> OldSlug]}} : files = F
  BY DEF Init
<1>2. files \subseteq File /\ \A f, g \in files : f = g
  BY <1>1, IdsAssumption DEF File, Ids
<1>3. /\ \A n \in UsedIds : \E f \in files : rows[n] = RowOf(f, 1)
      /\ \A n \in UsedIds : rows[n].path.id = n
  BY DEF Init, UsedIds
<1>4. rows \in [Ids -> {NoRow} \cup Row]
  <2>1. \A f \in files : RowOf(f, 1) \in Row
    BY <1>2 DEF RowOf, Row
  <2> QED
    BY <2>1 DEF Init
<1>5. cr \in [Creators -> Call] /\ pr \in [Pruners -> Run]
  BY IdsAssumption DEF Init, NewCall, NewRun, Call, Run
<1>6. \A c \in Creators : cr[c].phase = "scan"
  BY DEF Init, NewCall
<1>7. IdsTypeOK /\ NumberInv
  BY <1>2, <1>4, <1>5, <1>6 DEF IdsTypeOK, NumberInv, Init
<1>8. RidInv
  <2> SUFFICES ASSUME NEW m \in UsedIds, NEW n \in UsedIds
               PROVE  m = n
    BY DEF RidInv
  <2>1. rows[m] = rows[n]
    BY <1>2, <1>3
  <2> QED
    BY <1>3, <2>1
<1>9. PathInv
  <2> SUFFICES ASSUME NEW f \in files, f.id \in UsedIds
               PROVE  rows[f.id].path = f
    BY DEF PathInv
  <2>1. PICK g \in files : rows[f.id] = RowOf(g, 1)
    BY <1>3
  <2> QED
    BY <1>2, <2>1 DEF RowOf
<1>10. OwnInv /\ ApartInv /\ ScanInv /\ OneFileInv
  BY <1>2, <1>6 DEF OwnInv, ApartInv, ScanInv, OneFileInv, Owners
<1> QED
  BY <1>7, <1>8, <1>9, <1>10 DEF IdsInv, SafeInv

(* What is pruned stays on the record.                                     *)
LEMMA StepIds == IdsInv /\ [Next]_vars => IdsInv'
<1> SUFFICES ASSUME IdsInv, [Next]_vars PROVE IdsInv'
  OBVIOUS
<1>1. IdsTypeOK' /\ NumberInv'
  BY TypeStep DEF IdsInv
<1>2. pruned \subseteq pruned'
  BY DEF Next, Create, SyncAll, ScanFiles, Reserve, ReadBack, CheckFile, WriteFile,
         SyncFile, Crash, Remove, List, SyncNext, SelectGone, DeleteGone, vars
<1>3. pruned' = {} => SafeInv'
  BY <1>2, SafeStep DEF IdsInv
<1> QED
  BY <1>1, <1>3 DEF IdsInv

(* A number that is held is a row of its holder's own; while no sync_all   *)
(* has pruned a number in use, rowids lead every creator to its own row.   *)
THEOREM IdsCorrect == Spec => []IdsInv
BY InitIds, StepIds, PTL DEF Spec

(* Files, rows, calls and runs are typed, whatever dies or is removed.     *)
THEOREM IdsTypeCorrect == Spec => []IdsTypeOK
<1>1. IdsInv => IdsTypeOK
  BY DEF IdsInv
<1> QED
  BY <1>1, IdsCorrect, PTL

(* No two creators hold one number before a number in use is pruned.       *)
THEOREM ReservationsDistinct == Spec => []DistinctReservations
<1>1. IdsInv => DistinctReservations
  <2> SUFFICES ASSUME SafeInv, NEW c \in Holding, NEW d \in Holding, cr[c].id = cr[d].id
               PROVE  c = d
    BY DEF IdsInv, DistinctReservations
  <2>1. c \in Owners /\ d \in Owners
    BY DEF Holding, Owners
  <2>2. Owns(c, cr[c].id) /\ Owns(d, cr[d].id)
    BY <2>1 DEF SafeInv, OwnInv, Owns, Holding
  <2> QED
    BY <2>1, <2>2 DEF Owns, SafeInv, ApartInv
<1> QED
  BY <1>1, IdsCorrect, PTL

(* No two files have one id before a number in use is pruned.              *)
THEOREM FilesDistinct == Spec => []DistinctIds
<1>1. IdsInv => DistinctIds
  BY DEF IdsInv, SafeInv, OneFileInv, DistinctIds
<1> QED
  BY <1>1, IdsCorrect, PTL

===============================================================================
