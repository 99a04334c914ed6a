------------------------- MODULE GraphReindex_proofs -------------------------
(***************************************************************************)
(* Proofs about GraphReindex, for any files, names, contents and commands, *)
(* any number of workers and of troubles: the graph that is kept up file   *)
(* by file is the graph of the whole tree.                                 *)
(***************************************************************************)
EXTENDS GraphReindex, FiniteSetTheorems, TLAPS

(* A worker has read the text of a file, or found the file gone.           *)
Reading == {"reset", "upsert", "census", "prune", "link", "record", "error"}
Removing == {"orphans", "uproot", "forget"}
Busy == Reading \cup Removing

(* What the fields of a worker have to do with its phase. *)
Shape(w) ==
  /\ w.home # Gone =>
       /\ w.paths # <<>> /\ Head(w.paths) = w.home /\ w.home \notin w.owed
       /\ w.homeText \in Versions[w.home]
       /\ w.phase \in Busy \cup {"lookup", "refresh"}
  /\ w.home = Gone => w.homeText = Gone
  /\ w.phase \in Busy \cup {"lookup"} =>
       /\ w.file # Gone /\ w.text \in Versions[w.file] /\ w.file \notin w.owed
       /\ w.file = w.home => w.text = w.homeText
  /\ w.phase \in Reading \cup {"lookup"} => w.text # Gone
  /\ w.phase \in Removing => w.file = w.home /\ w.homeText = Gone
  /\ w.phase = "lookup" => w.file = w.home
  /\ w.phase \in {"lookup", "reset", "upsert", "census", "error", "orphans"} /\ w.file = w.home =>
       w.owed = {}
  /\ w.phase = "record" => w.file # w.home
  /\ w.phase = "link" => ~w.walk
  /\ w.home = Gone /\ w.phase \in Busy \cup {"refresh"} => w.walk /\ w.paths = <<>>
  /\ w.home = Gone /\ w.phase \notin Busy \cup {"refresh"} => w.owed = {}
  /\ w.walk => Range(w.paths) \subseteq w.plan /\ w.again \subseteq w.plan
  /\ w.phase \in {"list", "reconcile", "sweep"} => w.walk
  /\ w.phase \in {"reconcile", "sweep", "end"} => w.paths = <<>>
  /\ w.phase = "next" /\ w.paths = <<>> => w.walk
  /\ w.phase = "list" => w.again = {}
  /\ w.phase = "end" => ~w.walk
  /\ w.phase = "quiet" => ~w.walk /\ \E f \in Files : w.paths = <<f>>

ShapeInv == \A j \in Jobs : Shape(job[j])

DiskInv == \A f \in Files : disk[f] \in Versions[f]

(* One worker at a time, unless that has been noted.                       *)
OneActive == void = {} => \A i, k \in Jobs : Active(i) /\ Active(k) => i = k

-------------------------------------------------------------------------------

(* The graph as three relations: an edge that is bound, a stub, a node.    *)
Linked(f, s) == [from |-> f, to |-> s, bound |-> TRUE] \in edges
Stub(f, s) == [from |-> f, to |-> s, bound |-> FALSE] \in edges

Calls(f, symbols) == \A s \in Symbol : (Linked(f, s) \/ Stub(f, s)) <=> s \in symbols
Has(f, names) == \A s \in Symbol : s[1] = f => (s \in nodes <=> s[2] \in names)

BoundInv == \A f \in Files, s \in Symbol : Linked(f, s) => s \in nodes
SelfInv == \A f \in Files, s \in Symbol : Linked(f, s) \/ Stub(f, s) => s[1] # f

Sane == ReindexTypeOK /\ ShapeInv /\ DiskInv /\ BoundInv /\ SelfInv /\ OneActive
(* What a worker has not finished with. *)
Ahead(w) == IF w.home = Gone THEN Range(w.paths) ELSE Range(Tail(w.paths))
Unlisted(w, f) ==
  w.walk /\ f \notin w.plan /\ (w.home # Gone \/ w.phase \in {"next", "reconcile"})

(* A forced walk that waits makes up for whatever happens before it lists. *)
Exempt == \E j \in Jobs : job[j].phase = "list" /\ job[j].force

(* A node without a row is of a file that is still to be dispatched.       *)
RowInv(w) ==
  \A s \in nodes : index[s[1]] = NoRow =>
    s[1] \in Ahead(w) \/ s[1] = w.home \/ (w.phase \in Busy /\ s[1] = w.file)

(* The file dispatched is done, and its dependents are read again. *)
HomeDone(w) == w.home # Gone /\ (w.phase = "refresh" \/ (w.phase \in Busy /\ w.file # w.home))

DoneNames(w) ==
  HomeDone(w) => /\ w.homeText # Gone => Has(w.home, w.homeText.defs)
                 /\ w.homeText = Gone => Has(w.home, {}) /\ index[w.home] = NoRow

NameInv(w) ==
  /\ w.phase = "upsert" => Has(w.file, w.known)
  /\ w.phase \in {"census", "prune", "link", "record"} =>
       \A s \in Symbol : s[1] = w.file /\ s[2] \in w.text.defs => s \in nodes
  /\ w.phase \in {"link", "record"} => Has(w.file, w.text.defs)
  /\ w.phase = "forget" => Has(w.file, {})

NodeGood(w) == RowInv(w) /\ DoneNames(w) /\ NameInv(w)

(* A row in order is the truth about the graph, but for the files in hand. *)
Sound(f) ==
  index[f] # NoRow /\ index[f].ok => Has(f, index[f].text.defs) /\ Calls(f, index[f].text.calls)

Loose(w, f) ==
  \/ f \in w.owed \/ (w.phase # "lookup" /\ f = w.home) \/ (w.phase \in Busy /\ f = w.file)
  \/ w.force /\ f \in Ahead(w)
  \/ Unlisted(w, f)

SoundInv(w) == \A f \in Files : ~Loose(w, f) => Sound(f)

DoneCalls(w) ==
  HomeDone(w) => /\ w.homeText # Gone => Calls(w.home, w.homeText.calls)
                 /\ w.homeText = Gone => Calls(w.home, {})

(* Whoever loses an edge is owed a refresh before the edge is lost. *)
CallInv(w) ==
  /\ w.phase \in {"upsert", "error", "forget"} => Calls(w.file, {})
  /\ w.phase \in {"census", "prune", "link", "record"} => Calls(w.file, w.text.calls)
  /\ w.phase = "prune" /\ w.file = w.home =>
       Dependents(Outdated(w.file, w.text), w.file) \subseteq w.owed
  /\ w.phase = "uproot" => Dependents({s \in nodes : s[1] = w.file}, w.file) \subseteq w.owed

(* Files whose edges mean nothing yet: their own are cleared before use. *)
Raw(w, f) ==
  \/ /\ index[f] = NoRow
     /\ w.phase \in {"lookup", "reset", "orphans", "uproot"} => f # w.home \/ f = w.file
     /\ w.phase \notin {"lookup", "reset", "orphans", "uproot"} => f # w.home
     /\ w.phase \in Busy \ {"reset", "orphans", "uproot"} => f # w.file
  \/ w.phase \in {"reset", "orphans", "uproot"} /\ f = w.file
  \/ w.force /\ f \in Ahead(w)
  \/ Unlisted(w, f)

(* A stub whose symbol exists is about to be linked. *)
ToLink(w, f, s) ==
  \/ w.walk /\ w.phase \notin {"sweep", "end"}
  \/ /\ w.phase \in {"census", "prune", "link"}
     /\ f = w.file \/ (s[1] = w.file /\ s[2] \in w.text.defs \ w.known)

LinkInv(w) ==
  \A f \in Files, s \in Symbol : Stub(f, s) /\ s \in nodes /\ ~Raw(w, f) => ToLink(w, f, s)

TwinInv(w) == \A f \in Files, s \in Symbol : Stub(f, s) /\ Linked(f, s) => Raw(w, f)

(* Whatever changed on the disk has a worker that will see it.             *)
Waiting(f) == \E i \in Jobs : job[i].phase = "quiet" /\ job[i].paths = <<f>> /\ marker[f] = i

Current(w, f) ==
  /\ disk[f] = Gone => index[f] = NoRow /\ (Calls(f, {}) \/ w.walk)
  /\ disk[f] # Gone => index[f] # NoRow /\ index[f].text = disk[f]

Covered(w, f) ==
  \/ f \in Ahead(w) /\ (w.force \/ disk[f] # Gone)
  \/ Unlisted(w, f) \/ f = w.home
  \/ disk[f] # Gone /\ (Waiting(f) \/ (index[f] # NoRow /\ ~index[f].ok))
  \/ Current(w, f)

Read(f, text) == disk[f] = text \/ (disk[f] # Gone /\ Waiting(f))

CoverInv(w) ==
  /\ \A f \in Files : Covered(w, f)
  /\ \A f \in Files : Unlisted(w, f) => Read(f, Gone)
  /\ w.phase \in Busy \cup {"lookup"} => Read(w.file, w.text)
  /\ w.home # Gone => Read(w.home, w.homeText)

GraphGood(w) ==
  SoundInv(w) /\ DoneCalls(w) /\ CallInv(w) /\ LinkInv(w) /\ TwinInv(w) /\ CoverInv(w)

Good(w) == NodeGood(w) /\ (Exempt \/ GraphGood(w))

(* The worker that is active is on its way to the graph of the whole tree; *)
(* when nobody is, nothing is left to do.                                  *)
GoodInv ==
  void = {} => /\ \A j \in Jobs : Active(j) => Good(job[j])
               /\ (\A j \in Jobs : ~Active(j)) => Good(At("done"))

ReindexInv == Sane /\ GoodInv

-------------------------------------------------------------------------------

(* What is in a list. *)
LEMMA InList == ASSUME NEW p, NEW x PROVE x \in Range(p) <=> \E i \in DOMAIN p : x = p[i]
BY DEF Range

(* Of a list of paths there is its head and the rest. *)
LEMMA HeadAndTail ==
  ASSUME NEW p \in Seq(Files), p # <<>>
  PROVE  /\ Head(p) \in Files /\ Tail(p) \in Seq(Files)
         /\ Range(p) = {Head(p)} \cup Range(Tail(p))
         /\ Len(p) = 1 => Range(Tail(p)) = {}
         /\ Len(p) # 1 => Tail(p) # <<>>
<1>1. PICK n \in Nat : n = Len(p) /\ DOMAIN p = 1..n /\ n # 0
  OBVIOUS
<1>2. /\ Tail(p) \in Seq(Files) /\ Len(Tail(p)) = n - 1 /\ DOMAIN Tail(p) = 1..(n - 1)
      /\ \A i \in 1..(n - 1) : Tail(p)[i] = p[i + 1]
      /\ Head(p) = p[1] /\ Head(p) \in Files
  BY <1>1
<1>3. ASSUME NEW x
      PROVE  (x \in Range(p)) <=> (x = p[1] \/ \E i \in 1..(n - 1) : x = p[i + 1])
  <2>1. x \in Range(p) <=> \E i \in 1..n : x = p[i]
    <3>1. x \in Range(p) <=> \E i \in DOMAIN p : x = p[i]
      BY InList
    <3> QED BY <1>1, <3>1
  <2>2. \A i \in 1..n : i = 1 \/ (i - 1 \in 1..(n - 1) /\ i = (i - 1) + 1)
    BY <1>1
  <2>3. \A i \in 1..(n - 1) : i + 1 \in 1..n
    BY <1>1
  <2>4. 1 \in 1..n
    BY <1>1
  <2>5. ASSUME NEW i \in 1..n, x = p[i] PROVE x = p[1] \/ \E k \in 1..(n - 1) : x = p[k + 1]
    BY <2>2, <2>5
  <2> QED BY <2>1, <2>3, <2>4, <2>5
<1>4. ASSUME NEW x PROVE x \in Range(Tail(p)) <=> \E i \in 1..(n - 1) : x = p[i + 1]
  <2>1. x \in Range(Tail(p)) <=> \E i \in DOMAIN Tail(p) : x = Tail(p)[i]
    BY InList
  <2> QED BY <1>2, <2>1
<1>5. Range(p) = {Head(p)} \cup Range(Tail(p))
  <2>1. ASSUME NEW x PROVE x \in Range(p) <=> x \in {Head(p)} \cup Range(Tail(p))
    BY <1>2, <1>3, <1>4
  <2> QED BY <2>1
<1>6. Len(p) = 1 => Range(Tail(p)) = {}
  <2>1. ASSUME Len(p) = 1, NEW x PROVE x \notin Range(Tail(p))
    <3>1. 1..(n - 1) = {}
      BY <1>1, <2>1
    <3> QED BY <3>1, <1>4
  <2> QED BY <2>1
<1>7. Len(p) # 1 => Tail(p) # <<>>
  <2>1. Len(<<>>) = 0
    OBVIOUS
  <2>2. Len(p) # 1 => Len(Tail(p)) # 0
    BY <1>1, <1>2
  <2> QED BY <2>1, <2>2
<1> QED BY <1>2, <1>5, <1>6, <1>7

(* Nothing is left of an empty list. *)
LEMMA NothingLeft == Range(<<>>) = {} /\ <<>> \in Seq(Files)
BY DEF Range

(* One path. *)
LEMMA OnePath ==
  ASSUME NEW f \in Files
  PROVE  <<f>> \in Seq(Files) /\ Range(<<f>>) = {f} /\ Head(<<f>>) = f /\ <<f>> # <<>>
BY DEF Range

(* A set of files as a list. *)
LEMMA Listing ==
  ASSUME NEW S \in SUBSET Files
  PROVE  SetToSeq(S) \in Seq(Files) /\ Range(SetToSeq(S)) = S /\ (S # {} => SetToSeq(S) # <<>>)
<1>1. IsFiniteSet(S)
  BY ReindexAssumption, FS_Subset
<1> DEFINE n == Cardinality(S)
<1>2. n \in Nat /\ ExistsBijection(1..n, S)
  BY <1>1, FS_CardinalityType
<1>3. \E f \in [1..n -> S] : IsInjective(f)
  BY <1>2 DEF ExistsBijection, Bijection, Injection, IsInjective
<1>4. SetToSeq(S) \in [1..n -> S] /\ IsInjective(SetToSeq(S))
  BY <1>3 DEF SetToSeq
<1>5. SetToSeq(S) \in Injection(1..n, S)
  BY <1>4 DEF Injection, IsInjective
<1>6. IsFiniteSet(1..n) /\ Cardinality(1..n) = n
  BY <1>2, FS_Interval
<1>7. SetToSeq(S) \in Surjection(1..n, S)
  BY <1>1, <1>5, <1>6, FS_Injection
<1>8. Range(SetToSeq(S)) = S
  BY <1>4, <1>7 DEF Surjection, Range
<1>9. SetToSeq(S) \in Seq(Files)
  BY <1>2, <1>4
<1> QED BY <1>8, <1>9, NothingLeft

(* Two lists, one after the other. *)
LEMMA Joined ==
  ASSUME NEW p \in Seq(Files), NEW q \in Seq(Files)
  PROVE  p \o q \in Seq(Files) /\ Range(p \o q) = Range(p) \cup Range(q)
<1>1. PICK m \in Nat, k \in Nat : m = Len(p) /\ k = Len(q) /\ DOMAIN p = 1..m /\ DOMAIN q = 1..k
  OBVIOUS
<1>2. /\ p \o q \in Seq(Files) /\ DOMAIN (p \o q) = 1..(m + k)
      /\ \A i \in 1..m : (p \o q)[i] = p[i]
      /\ \A i \in 1..k : (p \o q)[m + i] = q[i]
  BY <1>1
<1>3. \A i \in 1..(m + k) : i \in 1..m \/ (i - m \in 1..k /\ i = m + (i - m))
  BY <1>1
<1>4. \A i \in 1..k : m + i \in 1..(m + k)
  BY <1>1
<1>5. 1..m \subseteq 1..(m + k)
  BY <1>1
<1>6. ASSUME NEW x PROVE x \in Range(p \o q) <=> x \in Range(p) \/ x \in Range(q)
  <2>1. /\ x \in Range(p \o q) <=> \E i \in 1..(m + k) : x = (p \o q)[i]
        /\ x \in Range(p) <=> \E i \in 1..m : x = p[i]
        /\ x \in Range(q) <=> \E i \in 1..k : x = q[i]
    <3>1. /\ x \in Range(p \o q) <=> \E i \in DOMAIN (p \o q) : x = (p \o q)[i]
          /\ x \in Range(p) <=> \E i \in DOMAIN p : x = p[i]
          /\ x \in Range(q) <=> \E i \in DOMAIN q : x = q[i]
      BY InList
    <3> QED BY <1>1, <1>2, <3>1
  <2>2. ASSUME NEW i \in 1..(m + k), x = (p \o q)[i] PROVE x \in Range(p) \/ x \in Range(q)
    BY <1>2, <1>3, <2>1, <2>2
  <2>3. ASSUME NEW i \in 1..m, x = p[i] PROVE x = (p \o q)[i] /\ i \in 1..(m + k)
    BY <1>2, <1>5, <2>3
  <2>4. ASSUME NEW i \in 1..k, x = q[i] PROVE x = (p \o q)[m + i] /\ m + i \in 1..(m + k)
    BY <1>2, <1>4, <2>4
  <2> QED BY <2>1, <2>2, <2>3, <2>4
<1> QED BY <1>2, <1>6

-------------------------------------------------------------------------------

(* The owner and the name of a symbol. *)
LEMMA SymbolParts ==
  ASSUME NEW s \in Symbol PROVE s[1] \in Files /\ s[2] \in Names /\ s = <<s[1], s[2]>>
BY DEF Symbol

(* delete_edges_from_file *)
LEMMA ResetEdges ==
  ASSUME NEW g, edges' = {e \in edges : e.from # g}
  PROVE  \A f \in Files, s \in Symbol :
           /\ Linked(f, s)' <=> Linked(f, s) /\ f # g
           /\ Stub(f, s)' <=> Stub(f, s) /\ f # g
BY DEF Linked, Stub

(* bulk_upsert adds stubs. *)
LEMMA UpsertEdges ==
  ASSUME NEW g \in Files, NEW calls \in SUBSET Symbol,
         edges' = edges \cup {[from |-> g, to |-> s, bound |-> FALSE] : s \in calls}
  PROVE  \A f \in Files, s \in Symbol :
           /\ Linked(f, s)' <=> Linked(f, s)
           /\ Stub(f, s)' <=> (Stub(f, s) \/ (f = g /\ s \in calls))
BY DEF Linked, Stub

(* Nodes take the edges into them along. *)
LEMMA DeleteEdges ==
  ASSUME NEW symbols, NEW sources, Delete(symbols, sources)
  PROVE  /\ \A f \in Files, s \in Symbol :
              /\ Linked(f, s)' <=> Linked(f, s) /\ f \notin sources /\ s \notin symbols
              /\ Stub(f, s)' <=> Stub(f, s) /\ f \notin sources
         /\ \A s : s \in nodes' <=> s \in nodes /\ s \notin symbols
BY DEF Linked, Stub, Delete

(* Linking turns a stub whose symbol exists into an edge, unless there is  *)
(* that edge already.                                                      *)
LEMMA BindEdges ==
  ASSUME edges \subseteq Edge, NEW sources \in SUBSET Files, edges' = BoundFor(sources)
  PROVE  /\ edges' \subseteq Edge
         /\ \A f \in Files, s \in Symbol :
              LET target == s \in nodes /\ \E g \in sources : Stub(g, s) IN
              /\ Linked(f, s)' <=> (Linked(f, s) \/ (Stub(f, s) /\ target))
              /\ Stub(f, s)' <=> (Stub(f, s) /\ (target => Linked(f, s)))
<1> DEFINE targets == {e.to : e \in {x \in edges : x.from \in sources /\ ~x.bound}} \cap nodes
           bind(e) == [from |-> e.from, to |-> e.to, bound |-> TRUE]
           image(e) == IF e.to \in targets /\ ~e.bound /\ bind(e) \notin edges THEN bind(e) ELSE e
<1>1. \A e \in edges : /\ e = [from |-> e.from, to |-> e.to, bound |-> e.bound]
                       /\ e.from \in Files /\ e.to \in Symbol /\ e.bound \in BOOLEAN
  BY DEF Edge
<1>3. \A s \in Symbol : s \in targets <=> s \in nodes /\ \E g \in sources : Stub(g, s)
  <2>1. ASSUME NEW s \in Symbol, NEW e \in edges, e.from \in sources, ~e.bound, e.to = s
        PROVE  Stub(e.from, s)
    BY <1>1, <2>1 DEF Stub
  <2>2. ASSUME NEW s \in Symbol, NEW g \in sources, Stub(g, s)
        PROVE  \E e \in edges : e.from \in sources /\ ~e.bound /\ e.to = s
    <3> DEFINE e == [from |-> g, to |-> s, bound |-> FALSE]
    <3>1. e \in edges /\ e.from = g /\ e.to = s /\ ~e.bound
      BY <2>2 DEF Stub
    <3> HIDE DEF e
    <3> QED BY <3>1
  <2>3. \A s : s \in targets
                 <=> s \in nodes /\ \E e \in edges : e.from \in sources /\ ~e.bound /\ e.to = s
    OBVIOUS
  <2> HIDE DEF targets
  <2> QED BY <2>1, <2>2, <2>3
<1>4. edges' = {image(e) : e \in edges}
  BY DEF BoundFor
<1> HIDE DEF targets
<1>5. edges' \subseteq Edge
  <2>1. ASSUME NEW e \in edges PROVE image(e) \in Edge
    BY <1>1 DEF Edge
  <2> HIDE DEF image
  <2> QED BY <1>4, <2>1
<1>6. ASSUME NEW f \in Files, NEW s \in Symbol
      PROVE  Linked(f, s)' <=> (Linked(f, s) \/ (Stub(f, s) /\ s \in targets))
  <2>1. ASSUME NEW e \in edges, image(e) = [from |-> f, to |-> s, bound |-> TRUE]
        PROVE  Linked(f, s) \/ (Stub(f, s) /\ s \in targets)
    <3>1. CASE image(e) = e
      BY <2>1, <3>1 DEF Linked
    <3>2. CASE image(e) # e
      <4>1. e.to \in targets /\ ~e.bound /\ image(e) = bind(e)
        BY <3>2
      <4>2. e.from = f /\ e.to = s
        BY <2>1, <4>1
      <4> QED BY <1>1, <4>1, <4>2 DEF Stub
    <3> QED BY <3>1, <3>2
  <2>2. ASSUME Linked(f, s) PROVE Linked(f, s)'
    <3> DEFINE e == [from |-> f, to |-> s, bound |-> TRUE]
    <3>1. e \in edges /\ image(e) = e
      BY <2>2 DEF Linked
    <3> QED BY <1>4, <3>1 DEF Linked
  <2>3. ASSUME Stub(f, s), s \in targets, ~Linked(f, s) PROVE Linked(f, s)'
    <3> DEFINE e == [from |-> f, to |-> s, bound |-> FALSE]
    <3>1. e \in edges /\ image(e) = [from |-> f, to |-> s, bound |-> TRUE]
      BY <2>3 DEF Linked, Stub
    <3> QED BY <1>4, <3>1 DEF Linked
  <2> QED BY <1>4, <2>1, <2>2, <2>3 DEF Linked
<1>7. ASSUME NEW f \in Files, NEW s \in Symbol
      PROVE  Stub(f, s)' <=> (Stub(f, s) /\ (s \in targets => Linked(f, s)))
  <2> DEFINE stub == [from |-> f, to |-> s, bound |-> FALSE]
  <2>1. stub \in edges => image(stub) = IF s \in targets /\ ~Linked(f, s) THEN bind(stub) ELSE stub
    BY DEF Linked
  <2>2. bind(stub) # stub
    <3>1. bind(stub).bound = TRUE /\ stub.bound = FALSE
      OBVIOUS
    <3> QED BY <3>1
  <2>3. ASSUME NEW e \in edges, image(e) = stub PROVE e = stub
    <3>1. image(e) # bind(e)
      <4>1. bind(e).bound = TRUE /\ stub.bound = FALSE
        OBVIOUS
      <4> QED BY <2>3, <4>1
    <3> QED BY <2>3, <3>1
  <2>4. Stub(f, s)' <=> \E e \in edges : image(e) = stub
    BY <1>4 DEF Stub
  <2>5. Stub(f, s)' <=> stub \in edges /\ image(stub) = stub
    <3> HIDE DEF image, stub
    <3> QED BY <2>3, <2>4
  <2> QED BY <2>1, <2>2, <2>5 DEF Stub
<1> QED BY <1>3, <1>5, <1>6, <1>7

(* files_depending_on *)
LEMMA DependentOf ==
  ASSUME edges \subseteq Edge, NEW symbols \in SUBSET Symbol, NEW f
  PROVE  /\ Dependents(symbols, f) \subseteq Files \ {f}
         /\ \A d \in Files, s \in symbols : d # f /\ Linked(d, s) => d \in Dependents(symbols, f)
<1>1. ASSUME NEW d \in Files, NEW s \in symbols, d # f, Linked(d, s)
      PROVE  d \in Dependents(symbols, f)
  <2> DEFINE e == [from |-> d, to |-> s, bound |-> TRUE]
  <2>1. e \in edges /\ e.bound /\ e.to \in symbols /\ e.from = d
    BY <1>1 DEF Linked
  <2> HIDE DEF e
  <2> QED BY <1>1, <2>1 DEF Dependents
<1>2. Dependents(symbols, f) \subseteq Files \ {f}
  BY DEF Dependents, Edge
<1> QED BY <1>1, <1>2

-------------------------------------------------------------------------------

(* Two records of a worker that agree on its task, and on the file in hand.*)
SameTask(w, v) ==
  /\ v.walk = w.walk /\ v.bulk = w.bulk /\ v.force = w.force /\ v.paths = w.paths
  /\ v.plan = w.plan /\ v.again = w.again /\ v.retried = w.retried
SameHome(w, v) == v.home = w.home /\ v.homeText = w.homeText
SameFile(w, v) == v.file = w.file /\ v.text = w.text /\ v.known = w.known

(* A worker that goes to another phase. *)
LEMMA GotoParts ==
  ASSUME NEW w \in Worker, NEW p \in Phases, NEW v, v = [w EXCEPT !.phase = p]
  PROVE  v \in Worker /\ v.phase = p /\ SameTask(w, v) /\ SameHome(w, v) /\ SameFile(w, v)
         /\ v.owed = w.owed
BY DEF Worker, SameTask, SameHome, SameFile

(* A worker that has no task. *)
LEMMA AtParts ==
  ASSUME NEW p \in Phases
  PROVE  /\ At(p) \in Worker /\ At(p).phase = p /\ ~At(p).walk /\ ~At(p).bulk /\ ~At(p).force
         /\ At(p).paths = <<>> /\ At(p).plan = {} /\ At(p).again = {} /\ ~At(p).retried
         /\ At(p).home = Gone /\ At(p).homeText = Gone /\ At(p).file = Gone /\ At(p).text = Gone
         /\ At(p).known = {} /\ At(p).owed = {}
BY NothingLeft DEF At, Worker

(* A worker that has ended a dispatch. *)
LEMMA AdvanceParts ==
  ASSUME NEW j \in Jobs, job \in [Jobs -> Worker], NEW failed \in BOOLEAN, Advance(j, failed),
         job[j].paths # <<>>
  PROVE  LET w == job[j]
             v == job'[j] IN
         /\ job' = [job EXCEPT ![j] = v] /\ v \in Worker
         /\ ~w.walk /\ Len(w.paths) = 1 => v = At("done")
         /\ w.walk \/ Len(w.paths) # 1 =>
              /\ v.phase = "next" /\ v.walk = w.walk /\ v.bulk = w.bulk /\ v.force = w.force
              /\ v.paths = Tail(w.paths) /\ v.plan = w.plan /\ v.retried = w.retried
              /\ v.again = (IF failed /\ w.walk THEN w.again \cup {Head(w.paths)} ELSE w.again)
              /\ v.home = Gone /\ v.homeText = Gone /\ v.file = Gone /\ v.text = Gone
              /\ v.known = {} /\ v.owed = {}
<1> DEFINE w == job[j]
           u == [At("next") EXCEPT !.walk = w.walk, !.bulk = w.bulk, !.force = w.force,
                   !.paths = Tail(w.paths), !.plan = w.plan, !.retried = w.retried,
                   !.again = IF failed /\ w.walk THEN w.again \cup {Head(w.paths)} ELSE w.again]
           x == IF ~w.walk /\ Len(w.paths) = 1 THEN At("done") ELSE u
<1>1. job' = [job EXCEPT ![j] = x]
  BY DEF Advance, Set
<1>2. job'[j] = x
  BY <1>1
<1>3. w \in Worker
  OBVIOUS
<1>4. Tail(w.paths) \in Seq(Files)
  BY <1>3 DEF Worker
<1>5. w.walk \in BOOLEAN /\ w.bulk \in BOOLEAN /\ w.force \in BOOLEAN /\ w.plan \in SUBSET Files
      /\ w.again \in SUBSET Files /\ w.retried \in BOOLEAN
  BY <1>3 DEF Worker
<1> HIDE DEF w
<1>6. Head(w.paths) \in Files
  BY <1>3, HeadAndTail DEF w, Worker
<1>7. (IF failed /\ w.walk THEN w.again \cup {Head(w.paths)} ELSE w.again) \in SUBSET Files
  BY <1>5, <1>6
<1>8. /\ u \in Worker /\ u.phase = "next"
      /\ u.walk = w.walk /\ u.bulk = w.bulk /\ u.force = w.force
      /\ u.paths = Tail(w.paths) /\ u.plan = w.plan /\ u.retried = w.retried
      /\ u.again = (IF failed /\ w.walk THEN w.again \cup {Head(w.paths)} ELSE w.again)
      /\ u.home = Gone /\ u.homeText = Gone /\ u.file = Gone /\ u.text = Gone
      /\ u.known = {} /\ u.owed = {}
  <2>1. At("next") \in Worker
    BY AtParts DEF Phases
  <2> DEFINE half == [At("next") EXCEPT !.walk = w.walk, !.bulk = w.bulk, !.force = w.force,
                                        !.paths = Tail(w.paths)]
             whole == [half EXCEPT !.plan = w.plan, !.retried = w.retried,
                         !.again = IF failed /\ w.walk THEN w.again \cup {Head(w.paths)} ELSE w.again]
  <2>2. half \in Worker
    BY <1>4, <1>5, <2>1 DEF Worker
  <2>3. whole \in Worker
    <3> HIDE DEF half
    <3> QED BY <1>5, <1>7, <2>2 DEF Worker
  <2>4. u = whole
    OBVIOUS
  <2>5. /\ u.phase = "next"
        /\ u.walk = w.walk /\ u.bulk = w.bulk /\ u.force = w.force
        /\ u.paths = Tail(w.paths) /\ u.plan = w.plan /\ u.retried = w.retried
        /\ u.again = (IF failed /\ w.walk THEN w.again \cup {Head(w.paths)} ELSE w.again)
        /\ u.home = Gone /\ u.homeText = Gone /\ u.file = Gone /\ u.text = Gone
        /\ u.known = {} /\ u.owed = {}
    BY DEF At
  <2> HIDE DEF u, whole
  <2> QED BY <2>3, <2>4, <2>5
<1>9. At("done") \in Worker
  BY AtParts DEF Phases
<1> HIDE DEF u
<1> QED BY <1>1, <1>2, <1>8, <1>9 DEF w

-------------------------------------------------------------------------------

(* A row is not taken for the lack of one. *)
LEMMA RowIsRow ==
  ASSUME NEW text \in Content, NEW ok \in BOOLEAN
  PROVE  [text |-> text, ok |-> ok] \in [text : Content, ok : BOOLEAN] \ {NoRow}
<1>1. [text |-> text, ok |-> ok] \in [text : Content, ok : BOOLEAN]
  OBVIOUS
<1> QED BY <1>1, ReindexAssumption

(* A step of a worker that leaves the disk and the waiting workers alone,  *)
(* and what is to be shown of it.                                          *)
Aside == disk' = disk /\ \A f \in Files : Waiting(f)' <=> Waiting(f)

SameRows == nodes' = nodes /\ edges' = edges /\ index' = index

Keeps(w, v) ==
  NodeGood(w) => NodeGood(v)' /\ (GraphGood(w) => GraphGood(v)')

(* The file in hand and the file dispatched are files, with a content that *)
(* calls nothing of its own.                                               *)
LEMMA InHand ==
  ASSUME NEW w \in Worker, Shape(w)
  PROVE  /\ w.phase \in Busy \cup {"lookup"} => w.file \in Files
         /\ w.phase \in Reading \cup {"lookup"} =>
              /\ w.text \in Content /\ w.text.calls \in SUBSET Symbol
              /\ \A s \in w.text.calls : s[1] # w.file
         /\ w.home # Gone => w.home \in Files
<1>1. w.home # Gone => w.home \in Files
  BY DEF Worker
<1>2. w.phase \in Busy \cup {"lookup"} => w.file \in Files /\ w.text \in Versions[w.file]
  BY DEF Worker, Shape
<1>3. w.phase \in Reading \cup {"lookup"} => w.text \in Content
  BY DEF Worker, Shape
<1>4. w.phase \in Reading \cup {"lookup"} => \A s \in w.text.calls : s[1] # w.file
  BY <1>2, ReindexAssumption DEF Shape, Busy
<1> QED BY <1>1, <1>2, <1>3, <1>4 DEF Content

(* A step that changes no row, node or edge changes no fact about them.    *)
LEMMA SameFacts ==
  ASSUME SameRows
  PROVE  /\ \A f \in Files, s \in Symbol :
              (Linked(f, s)' <=> Linked(f, s)) /\ (Stub(f, s)' <=> Stub(f, s))
         /\ \A f, S : (Calls(f, S)' <=> Calls(f, S)) /\ (Has(f, S)' <=> Has(f, S))
         /\ \A f \in Files : Sound(f)' <=> Sound(f)
BY DEF SameRows, Linked, Stub, Calls, Has, Sound

(* A step on the file in hand that records nothing leaves every file as    *)
(* covered as it was, if no file that is gone gets edges.                  *)
LEMMA CoverKept ==
  ASSUME Aside, index' = index, NEW w, NEW v, SameTask(w, v), SameHome(w, v), CoverInv(w),
         \A f \in Files : Unlisted(v, f) <=> Unlisted(w, f),
         \A f \in Files : disk[f] = Gone /\ Calls(f, {}) => Calls(f, {})',
         v.phase \in Busy \cup {"lookup"} =>
           w.phase \in Busy \cup {"lookup"} /\ v.file = w.file /\ v.text = w.text /\ v.file \in Files,
         w.home # Gone => w.home \in Files
  PROVE  CoverInv(v)'
<1> USE DEF SameTask, SameHome
<1>1. Ahead(v) = Ahead(w)
  BY DEF Ahead
<1>2. \A f \in Files : Read(f, Gone)' <=> Read(f, Gone)
  BY DEF Read, Aside
<1>3. ASSUME NEW f \in Files PROVE Covered(v, f)'
  <2>1. Covered(w, f)
    BY DEF CoverInv
  <2>2. Current(w, f) => Current(v, f)'
    BY DEF Current, Aside
  <2>3. Waiting(f) => Waiting(f)'
    BY DEF Aside
  <2> QED BY <1>1, <2>1, <2>2, <2>3 DEF Covered, Aside, Unlisted
<1>4. \A f \in Files : Unlisted(v, f) => Read(f, Gone)'
  BY <1>2 DEF CoverInv
<1>5. v.phase \in Busy \cup {"lookup"} => Read(v.file, v.text)'
  BY DEF CoverInv, Read, Aside
<1>6. v.home # Gone => Read(v.home, v.homeText)'
  BY DEF CoverInv, Read, Aside
<1> QED BY <1>3, <1>4, <1>5, <1>6 DEF CoverInv, Unlisted

(* delete_edges_from_file: from now on the edges of the file are its own.  *)
LEMMA ResetGood ==
  ASSUME ReindexTypeOK, SelfInv, Aside, NEW w \in Worker, Shape(w), NEW v \in Worker,
         w.phase = "reset", v.phase = "upsert", SameTask(w, v), SameHome(w, v),
         v.file = w.file, v.text = w.text, v.owed = w.owed, v.known = NamesOf(w.file),
         edges' = {e \in edges : e.from # w.file}, nodes' = nodes, index' = index
  PROVE  Keeps(w, v)
<1> SUFFICES ASSUME NodeGood(w) PROVE NodeGood(v)' /\ (GraphGood(w) => GraphGood(v)')
  BY DEF Keeps
<1> USE DEF SameTask, SameHome
<1>1. w.file \in Files /\ (w.home # Gone => w.home \in Files) /\ Ahead(v) = Ahead(w)
  BY InHand DEF Ahead, Busy, Reading
<1>2. \A f \in Files, s \in Symbol : /\ Linked(f, s)' <=> Linked(f, s) /\ f # w.file
                                     /\ Stub(f, s)' <=> Stub(f, s) /\ f # w.file
  BY ResetEdges
<1>3. NodeGood(v)'
  <2>1. RowInv(v)'
    BY <1>1 DEF NodeGood, RowInv, Busy, Reading
  <2>2. DoneNames(v)'
    BY DEF NodeGood, DoneNames, HomeDone, Has, Busy, Reading
  <2>3. NameInv(v)'
    BY SymbolParts DEF NameInv, Has, NamesOf
  <2> QED BY <2>1, <2>2, <2>3 DEF NodeGood
<1>4. ASSUME GraphGood(w) PROVE GraphGood(v)'
  <2> USE <1>4 DEF GraphGood
  <2>1. SoundInv(v)'
    BY <1>1, <1>2 DEF SoundInv, Sound, Loose, Unlisted, Has, Calls, Busy, Reading
  <2>2. DoneCalls(v)'
    BY <1>1, <1>2 DEF DoneCalls, HomeDone, Calls, Busy, Reading
  <2>3. CallInv(v)'
    BY <1>1, <1>2 DEF CallInv, Calls
  <2>4. LinkInv(v)'
    BY <1>1, <1>2 DEF LinkInv, Raw, ToLink, Unlisted, Busy, Reading
  <2>5. TwinInv(v)'
    BY <1>1, <1>2 DEF TwinInv, Raw, Unlisted, Busy, Reading
  <2>6. CoverInv(v)'
    BY <1>1, <1>2, CoverKept DEF Unlisted, Calls, Busy, Reading
  <2> QED BY <2>1, <2>2, <2>3, <2>4, <2>5, <2>6
<1> QED BY <1>3, <1>4


(* bulk_upsert: the stubs of the file, and its names, new ones perhaps.    *)
LEMMA UpsertGood ==
  ASSUME ReindexTypeOK, SelfInv, Aside, NEW w \in Worker, Shape(w), NEW v \in Worker,
         w.phase = "upsert", v.phase = "census", SameTask(w, v), SameHome(w, v), SameFile(w, v),
         v.owed = w.owed, index' = index,
         nodes' = nodes \cup {<<w.file, n>> : n \in w.text.defs},
         edges' = edges \cup {[from |-> w.file, to |-> s, bound |-> FALSE] : s \in w.text.calls}
  PROVE  Keeps(w, v)
<1> SUFFICES ASSUME NodeGood(w) PROVE NodeGood(v)' /\ (GraphGood(w) => GraphGood(v)')
  BY DEF Keeps
<1> USE DEF SameTask, SameHome, SameFile
<1>1. /\ w.file \in Files /\ (w.home # Gone => w.home \in Files) /\ Ahead(v) = Ahead(w)
      /\ w.text.calls \in SUBSET Symbol /\ w.text \in Content
  BY InHand DEF Ahead, Busy, Reading
<1>2. \A f \in Files, s \in Symbol :
        /\ Linked(f, s)' <=> Linked(f, s)
        /\ Stub(f, s)' <=> (Stub(f, s) \/ (f = w.file /\ s \in w.text.calls))
  BY <1>1 DEF Linked, Stub
<1>3. /\ nodes' \subseteq Symbol
      /\ \A s \in Symbol : s \in nodes' <=> s \in nodes \/ (s[1] = w.file /\ s[2] \in w.text.defs)
  BY <1>1 DEF Symbol, Content, ReindexTypeOK
<1>4. NodeGood(v)'
  <2>1. RowInv(v)'
    BY <1>1, <1>3 DEF NodeGood, RowInv, Busy, Reading
  <2>2. DoneNames(v)'
    BY <1>3 DEF NodeGood, DoneNames, HomeDone, Has, Busy, Reading
  <2>3. NameInv(v)'
    BY <1>3 DEF NameInv
  <2> QED BY <2>1, <2>2, <2>3 DEF NodeGood
<1>5. ASSUME GraphGood(w) PROVE GraphGood(v)'
  <2> USE <1>5 DEF GraphGood
  <2>0. Calls(w.file, {}) /\ Has(w.file, w.known)
    BY DEF CallInv, NodeGood, NameInv
  <2>1. SoundInv(v)'
    BY <1>1, <1>2, <1>3 DEF SoundInv, Sound, Loose, Unlisted, Has, Calls, Busy, Reading
  <2>2. DoneCalls(v)'
    BY <1>1, <1>2 DEF DoneCalls, HomeDone, Calls, Busy, Reading
  <2>3. CallInv(v)'
    BY <1>1, <1>2, <2>0 DEF CallInv, Calls
  <2>4. LinkInv(v)'
    <3> SUFFICES ASSUME NEW f \in Files, NEW s \in Symbol, Stub(f, s)', s \in nodes', ~Raw(v, f)'
                 PROVE  ToLink(v, f, s)
      BY DEF LinkInv, ToLink
    <3>1. ~Raw(w, f)
      BY <1>1 DEF Raw, Unlisted, Busy, Reading
    <3>2. CASE f = w.file
      BY <3>2 DEF ToLink
    <3>3. CASE f # w.file /\ s \in nodes
      BY <1>2, <3>1, <3>3 DEF LinkInv, ToLink
    <3>4. CASE s \notin nodes
      BY <1>3, <2>0, <3>4 DEF Has, ToLink
    <3> QED BY <3>2, <3>3, <3>4
  <2>5. TwinInv(v)'
    BY <1>1, <1>2, <2>0 DEF TwinInv, Raw, Unlisted, Busy, Reading, Calls
  <2>6. CoverInv(v)'
    <3>1. disk[w.file] # Gone
      BY <1>1, ReindexAssumption DEF CoverInv, Read, Busy, Reading
    <3> QED BY <1>1, <1>2, <3>1, CoverKept DEF Unlisted, Calls, Busy, Reading
  <2> QED BY <2>1, <2>2, <2>3, <2>4, <2>5, <2>6
<1> QED BY <1>4, <1>5

(* files_depending_on, before the prune. *)
LEMMA CensusGood ==
  ASSUME ReindexTypeOK, Aside, NEW w \in Worker, Shape(w), NEW v \in Worker,
         w.phase = "census", v.phase = "prune", SameTask(w, v), SameHome(w, v), SameFile(w, v),
         w.owed \subseteq v.owed, SameRows,
         w.file = w.home => v.owed = Dependents(Outdated(w.file, w.text), w.file)
  PROVE  Keeps(w, v)
<1> SUFFICES ASSUME NodeGood(w) PROVE NodeGood(v)' /\ (GraphGood(w) => GraphGood(v)')
  BY DEF Keeps
<1> USE DEF SameTask, SameHome, SameFile, SameRows
<1>1. Ahead(v) = Ahead(w)
  BY DEF Ahead
<1>2. NodeGood(v)'
  BY <1>1 DEF NodeGood, RowInv, DoneNames, HomeDone, NameInv, Has, Busy, Reading
<1>3. ASSUME GraphGood(w) PROVE GraphGood(v)'
  <2> USE <1>3 DEF GraphGood
  <2>1. SoundInv(v)'
    BY <1>1 DEF SoundInv, Sound, Loose, Unlisted, Has, Calls, Linked, Stub, Busy, Reading
  <2>2. DoneCalls(v)'
    BY <1>1 DEF DoneCalls, HomeDone, Calls, Linked, Stub, Busy, Reading
  <2>3. CallInv(v)'
    BY <1>1 DEF CallInv, Calls, Linked, Stub, Dependents, Outdated
  <2>4. LinkInv(v)' /\ TwinInv(v)'
    BY <1>1 DEF LinkInv, TwinInv, Raw, ToLink, Unlisted, Linked, Stub, Busy, Reading
  <2>5. CoverInv(v)'
    BY InHand, CoverKept DEF Unlisted, Calls, Linked, Stub, Busy, Reading
  <2> QED BY <2>1, <2>2, <2>3, <2>4, <2>5
<1> QED BY <1>2, <1>3


(* delete_nodes_for_file: the file has its own names left, and whoever     *)
(* called another is owed a refresh.                                       *)
LEMMA PruneGood ==
  ASSUME ReindexTypeOK, SelfInv, Aside, NEW w \in Worker, Shape(w), NEW v \in Worker,
         w.phase = "prune", SameTask(w, v), SameHome(w, v), SameFile(w, v), v.owed = w.owed,
         v.phase = IF ~w.walk THEN "link" ELSE IF w.file = w.home THEN "refresh" ELSE "record",
         index' = index, Delete(Outdated(w.file, w.text), {}),
         w.file # w.home => Dependents(Outdated(w.file, w.text), w.file) = {}
  PROVE  Keeps(w, v)
<1> SUFFICES ASSUME NodeGood(w) PROVE NodeGood(v)' /\ (GraphGood(w) => GraphGood(v)')
  BY DEF Keeps
<1> USE DEF SameTask, SameHome, SameFile
<1>1. /\ w.file \in Files /\ (w.home # Gone => w.home \in Files) /\ Ahead(v) = Ahead(w)
      /\ w.text.calls \in SUBSET Symbol /\ w.text \in Content
      /\ w.homeText = w.text \/ w.file # w.home
      /\ \A s \in w.text.calls : s[1] # w.file
  BY InHand DEF Ahead, Busy, Reading, Shape
<1> DEFINE outdated == Outdated(w.file, w.text)
<1>2. /\ outdated \in SUBSET Symbol
      /\ \A s \in Symbol : s \in outdated <=> s \in nodes /\ s[1] = w.file /\ s[2] \notin w.text.defs
  BY DEF Outdated, ReindexTypeOK
<1> HIDE DEF outdated
<1>3. /\ \A f \in Files, s \in Symbol : /\ Linked(f, s)' <=> Linked(f, s) /\ s \notin outdated
                                        /\ Stub(f, s)' <=> Stub(f, s)
      /\ \A s : s \in nodes' <=> s \in nodes /\ s \notin outdated
  BY DeleteEdges DEF outdated
<1>4. nodes' \subseteq nodes /\ nodes \subseteq Symbol
  BY <1>3 DEF ReindexTypeOK
<1>5. v.phase \in {"link", "refresh", "record"} /\ (v.phase = "refresh" => w.file = w.home)
      /\ (v.phase = "link" <=> ~w.walk) /\ (v.phase = "record" => w.file # w.home)
  OBVIOUS
<1>6. Has(w.file, w.text.defs)'
  BY <1>2, <1>3 DEF NodeGood, NameInv, Has
<1>7. NodeGood(v)'
  <2>1. RowInv(v)'
    BY <1>1, <1>4, <1>5 DEF NodeGood, RowInv, Busy, Reading
  <2>2. DoneNames(v)'
    <3>1. CASE w.file = w.home
      BY <1>1, <1>5, <1>6, <3>1, ReindexAssumption DEF DoneNames, HomeDone
    <3>2. CASE w.file # w.home
      BY <1>2, <1>3, <1>5, <3>2 DEF NodeGood, DoneNames, HomeDone, Has, Busy, Reading
    <3> QED BY <3>1, <3>2
  <2>3. NameInv(v)'
    BY <1>5, <1>6 DEF NameInv, Has
  <2> QED BY <2>1, <2>2, <2>3 DEF NodeGood
<1>8. ASSUME GraphGood(w) PROVE GraphGood(v)'
  <2> USE <1>8 DEF GraphGood
  <2>0. \A f \in Files, s \in outdated : Linked(f, s) => f \in w.owed
    <3>1. \A f \in Files, s \in outdated : Linked(f, s) => f # w.file
      BY <1>2 DEF SelfInv
    <3>2. \A f \in Files, s \in outdated : f # w.file /\ Linked(f, s)
                                             => f \in Dependents(outdated, w.file)
      BY <1>2, DependentOf DEF ReindexTypeOK
    <3>3. Dependents(outdated, w.file) \subseteq w.owed
      BY DEF CallInv, outdated
    <3> QED BY <3>1, <3>2, <3>3
  <2>1. \A S : \A f \in Files \ w.owed : Calls(f, S) => Calls(f, S)'
    BY <1>2, <1>3, <2>0 DEF Calls
  <2>2. SoundInv(v)'
    <3> SUFFICES ASSUME NEW f \in Files, ~Loose(v, f)' PROVE Sound(f)'
      BY DEF SoundInv
    <3>1. ~Loose(w, f) /\ f # w.file /\ f \notin w.owed
      BY <1>1, <1>5 DEF Loose, Unlisted, Busy, Reading
    <3> QED BY <1>2, <1>3, <2>1, <3>1 DEF SoundInv, Sound, Has
  <2>3. DoneCalls(v)'
    <3>1. CASE w.file = w.home
      <4>1. Calls(w.file, w.text.calls) /\ w.file \notin w.owed
        BY DEF CallInv, Shape, Busy, Reading
      <4> QED BY <1>1, <1>5, <2>1, <3>1, <4>1, ReindexAssumption DEF DoneCalls, HomeDone
    <3>2. CASE w.file # w.home
      <4>1. w.home # Gone => w.home \notin w.owed
        BY DEF Shape
      <4> QED BY <1>1, <1>5, <2>1, <3>2, <4>1 DEF DoneCalls, HomeDone, Busy, Reading
    <3> QED BY <3>1, <3>2
  <2>4. CallInv(v)'
    <3>1. Calls(w.file, w.text.calls) /\ w.file \notin w.owed
      BY DEF CallInv, Shape, Busy, Reading
    <3> QED BY <1>1, <1>5, <2>1, <3>1 DEF CallInv
  <2>5. \A f \in Files : Raw(w, f) <=> Raw(v, f)'
    BY <1>1, <1>5 DEF Raw, Unlisted, Busy, Reading
  <2>6. LinkInv(v)'
    BY <1>3, <1>5, <2>5 DEF LinkInv, ToLink
  <2>7. TwinInv(v)'
    BY <1>3, <2>5 DEF TwinInv
  <2>8. CoverInv(v)'
    <3>1. \A f \in Files : Calls(f, {}) => Calls(f, {})'
      BY <1>3 DEF Calls
    <3> QED BY <1>1, <1>5, <3>1, CoverKept DEF Unlisted, Busy, Reading
  <2> QED BY <2>2, <2>3, <2>4, <2>6, <2>7, <2>8
<1> QED BY <1>7, <1>8


(* link_cross_file and link_callers_of: no stub is left whose symbol       *)
(* exists.                                                                 *)
LEMMA LinkGood ==
  ASSUME ReindexTypeOK, Aside, NEW w \in Worker, Shape(w), NEW v \in Worker,
         w.phase = "link", SameTask(w, v), SameHome(w, v), SameFile(w, v), v.owed = w.owed,
         v.phase = IF w.file = w.home THEN "refresh" ELSE "record",
         nodes' = nodes, index' = index,
         NEW callers \in SUBSET Files, edges' = BoundFor({w.file} \cup callers),
         \A f \in Files, s \in Symbol : Stub(f, s) /\ s[2] \in w.text.defs \ w.known => f \in callers
  PROVE  Keeps(w, v)
<1> SUFFICES ASSUME NodeGood(w) PROVE NodeGood(v)' /\ (GraphGood(w) => GraphGood(v)')
  BY DEF Keeps
<1> USE DEF SameTask, SameHome, SameFile
<1>1. /\ w.file \in Files /\ (w.home # Gone => w.home \in Files) /\ Ahead(v) = Ahead(w)
      /\ w.text \in Content
      /\ w.homeText = w.text \/ w.file # w.home
      /\ ~w.walk
  BY InHand DEF Ahead, Busy, Reading, Shape
<1> DEFINE target(s) == s \in nodes /\ \E g \in {w.file} \cup callers : Stub(g, s)
<1>2. \A f \in Files, s \in Symbol :
        /\ Linked(f, s)' <=> (Linked(f, s) \/ (Stub(f, s) /\ target(s)))
        /\ Stub(f, s)' <=> (Stub(f, s) /\ (target(s) => Linked(f, s)))
  BY <1>1, BindEdges DEF ReindexTypeOK
<1>3. \A S : \A f \in Files : Calls(f, S)' <=> Calls(f, S)
  BY <1>2 DEF Calls
<1>4. v.phase \in {"refresh", "record"} /\ (v.phase = "refresh" <=> w.file = w.home)
  OBVIOUS
<1>5. \A f \in Files : Raw(w, f) <=> Raw(v, f)'
  BY <1>1, <1>4 DEF Raw, Unlisted, Busy, Reading
<1>6. NodeGood(v)'
  <2>1. RowInv(v)'
    BY <1>1, <1>4 DEF NodeGood, RowInv, Busy, Reading
  <2>2. DoneNames(v)'
    BY <1>1, <1>4, ReindexAssumption
       DEF NodeGood, DoneNames, NameInv, HomeDone, Has, Busy, Reading
  <2>3. NameInv(v)'
    BY <1>4 DEF NodeGood, NameInv, Has
  <2> QED BY <2>1, <2>2, <2>3 DEF NodeGood
<1>7. ASSUME GraphGood(w) PROVE GraphGood(v)'
  <2> USE <1>7 DEF GraphGood
  <2>1. SoundInv(v)'
    BY <1>1, <1>3, <1>4 DEF SoundInv, Sound, Loose, Unlisted, Has, Busy, Reading
  <2>2. DoneCalls(v)'
    BY <1>1, <1>3, <1>4, ReindexAssumption DEF DoneCalls, CallInv, HomeDone, Busy, Reading
  <2>3. CallInv(v)'
    BY <1>1, <1>3, <1>4 DEF CallInv
  <2>4. LinkInv(v)'
    <3> SUFFICES ASSUME NEW f \in Files, NEW s \in Symbol, Stub(f, s)', s \in nodes, ~Raw(w, f)
                 PROVE  FALSE
      BY <1>5 DEF LinkInv
    <3>1. Stub(f, s) /\ ~Linked(f, s) /\ ~target(s)
      BY <1>2 DEF TwinInv
    <3>2. f = w.file \/ s[2] \in w.text.defs \ w.known
      BY <1>1, <3>1 DEF LinkInv, ToLink
    <3> QED BY <3>1, <3>2
  <2>5. TwinInv(v)'
    BY <1>2, <1>5 DEF TwinInv
  <2>6. CoverInv(v)'
    BY <1>1, <1>3, <1>4, CoverKept DEF Unlisted, Busy, Reading
  <2> QED BY <2>1, <2>2, <2>3, <2>4, <2>5, <2>6
<1> QED BY <1>6, <1>7

(* _refresh: a dependent that is still there is read. *)
LEMMA RefreshGood ==
  ASSUME ReindexTypeOK, Aside, NEW w \in Worker, Shape(w), NEW v \in Worker,
         w.phase = "refresh", v.phase = "reset", SameTask(w, v), SameHome(w, v), SameRows,
         v.file \in w.owed, v.owed = w.owed \ {v.file}, v.text = disk[v.file]
  PROVE  Keeps(w, v)
<1> SUFFICES ASSUME NodeGood(w) PROVE NodeGood(v)' /\ (GraphGood(w) => GraphGood(v)')
  BY DEF Keeps
<1> USE DEF SameTask, SameHome, SameRows
<1>1. /\ v.file \in Files /\ (w.home # Gone => w.home \in Files) /\ Ahead(v) = Ahead(w)
      /\ v.file # w.home
  BY InHand, ReindexAssumption DEF Ahead, Busy, Reading, Shape, Worker
<1>2. NodeGood(v)'
  <2>1. RowInv(v)'
    BY <1>1 DEF NodeGood, RowInv, Busy, Reading, Removing
  <2>2. DoneNames(v)'
    BY <1>1, SameFacts DEF NodeGood, DoneNames, HomeDone, Busy, Reading, Removing
  <2>3. NameInv(v)'
    BY DEF NameInv
  <2> QED BY <2>1, <2>2, <2>3 DEF NodeGood
<1>3. ASSUME GraphGood(w) PROVE GraphGood(v)'
  <2> USE <1>3 DEF GraphGood
  <2>1. SoundInv(v)'
    BY <1>1, SameFacts DEF SoundInv, Loose, Unlisted, Busy, Reading, Removing
  <2>2. DoneCalls(v)'
    BY <1>1 DEF DoneCalls, HomeDone, Calls, Linked, Stub, Busy, Reading, Removing
  <2>3. CallInv(v)'
    BY DEF CallInv
  <2>4. \A f \in Files : ~Raw(v, f)' => ~Raw(w, f)
    BY <1>1 DEF Raw, Unlisted, Busy, Reading, Removing
  <2>5. LinkInv(v)' /\ TwinInv(v)'
    BY <2>4 DEF LinkInv, TwinInv, ToLink, Linked, Stub
  <2>6. CoverInv(v)'
    <3>1. \A f \in Files : Covered(w, f) => Covered(v, f)'
      BY <1>1 DEF Covered, Current, Unlisted, Aside, Calls, Linked, Stub
    <3>2. Read(v.file, v.text)'
      BY DEF Read, Aside
    <3> QED BY <1>1, <3>1, <3>2 DEF CoverInv, Read, Unlisted, Aside
  <2> QED BY <2>1, <2>2, <2>3, <2>5, <2>6
<1> QED BY <1>2, <1>3

(* A dependent that is gone is skipped: it has no row either, or it is yet *)
(* to be dispatched.                                                       *)
LEMMA SkipGood ==
  ASSUME ReindexTypeOK, Aside, NEW w \in Worker, Shape(w), NEW v \in Worker,
         w.phase = "refresh", v.phase = "refresh", SameTask(w, v), SameHome(w, v), SameFile(w, v),
         SameRows, NEW d \in w.owed, v.owed = w.owed \ {d}, disk[d] = Gone
  PROVE  Keeps(w, v)
<1> SUFFICES ASSUME NodeGood(w) PROVE NodeGood(v)' /\ (GraphGood(w) => GraphGood(v)')
  BY DEF Keeps
<1> USE DEF SameTask, SameHome, SameFile, SameRows
<1>1. /\ d \in Files /\ d # w.home /\ Ahead(v) = Ahead(w)
      /\ w.home # Gone => w.home \in Files
  BY InHand, ReindexAssumption DEF Ahead, Shape, Worker
<1>2. NodeGood(v)'
  BY <1>1 DEF NodeGood, RowInv, DoneNames, HomeDone, NameInv, Has, Busy, Reading
<1>3. ASSUME GraphGood(w) PROVE GraphGood(v)'
  <2> USE <1>3 DEF GraphGood
  <2>1. SoundInv(v)'
    <3>1. index[d] = NoRow \/ Loose(v, d)
      BY <1>1 DEF CoverInv, Covered, Current, Loose, Unlisted
    <3>2. \A f \in Files \ {d} : Loose(w, f) <=> Loose(v, f)
      BY <1>1 DEF Loose, Unlisted
    <3>3. Sound(d) \/ Loose(v, d)
      BY <3>1 DEF Sound
    <3> QED BY <3>2, <3>3, SameFacts DEF SoundInv
  <2>2. DoneCalls(v)' /\ CallInv(v)'
    BY <1>1 DEF DoneCalls, CallInv, HomeDone, Calls, Linked, Stub, Busy, Reading
  <2>3. LinkInv(v)' /\ TwinInv(v)'
    BY <1>1 DEF LinkInv, TwinInv, Raw, ToLink, Unlisted, Linked, Stub, Busy, Reading
  <2>4. CoverInv(v)'
    BY <1>1, CoverKept DEF Unlisted, Calls, Linked, Stub, Busy, Reading, Removing
  <2> QED BY <2>1, <2>2, <2>3, <2>4
<1> QED BY <1>2, <1>3


(* A dependent's row is written as soon as it is indexed. *)
LEMMA RecordGood ==
  ASSUME ReindexTypeOK, Aside, NEW w \in Worker, Shape(w), NEW v \in Worker,
         w.phase = "record", v.phase = "refresh", SameTask(w, v), SameHome(w, v), SameFile(w, v),
         v.owed = w.owed, nodes' = nodes, edges' = edges,
         index' = [index EXCEPT ![w.file] = [text |-> w.text, ok |-> TRUE]]
  PROVE  Keeps(w, v)
<1> SUFFICES ASSUME NodeGood(w) PROVE NodeGood(v)' /\ (GraphGood(w) => GraphGood(v)')
  BY DEF Keeps
<1> USE DEF SameTask, SameHome, SameFile
<1>1. /\ w.file \in Files /\ (w.home # Gone => w.home \in Files) /\ Ahead(v) = Ahead(w)
      /\ w.text \in Content /\ w.file # w.home
  BY InHand DEF Ahead, Busy, Reading, Shape
<1>2. /\ index'[w.file] # NoRow /\ index'[w.file].text = w.text /\ index'[w.file].ok
      /\ \A f \in Files \ {w.file} : index'[f] = index[f]
  <2>1. [text |-> w.text, ok |-> TRUE] # NoRow
    BY <1>1, RowIsRow
  <2>2. index'[w.file] = [text |-> w.text, ok |-> TRUE]
    BY <1>1 DEF ReindexTypeOK
  <2> QED BY <2>1, <2>2 DEF ReindexTypeOK
<1>3. nodes \subseteq Symbol
  BY DEF ReindexTypeOK
<1>4. /\ \A f, S : (Calls(f, S)' <=> Calls(f, S)) /\ (Has(f, S)' <=> Has(f, S))
      /\ \A f \in Files, s \in Symbol : (Linked(f, s)' <=> Linked(f, s)) /\ (Stub(f, s)' <=> Stub(f, s))
  BY DEF Calls, Has, Linked, Stub
<1>5. NodeGood(v)'
  <2>1. RowInv(v)'
    BY <1>1, <1>2, <1>3, SymbolParts DEF NodeGood, RowInv, Busy, Reading
  <2>2. DoneNames(v)'
    BY <1>1, <1>2, <1>4 DEF NodeGood, DoneNames, HomeDone, Busy, Reading
  <2>3. NameInv(v)'
    BY DEF NameInv
  <2> QED BY <2>1, <2>2, <2>3 DEF NodeGood
<1>6. ASSUME GraphGood(w) PROVE GraphGood(v)'
  <2> USE <1>6 DEF GraphGood
  <2>1. SoundInv(v)'
    <3>1. Sound(w.file)'
      BY <1>2, <1>4 DEF Sound, NodeGood, NameInv, CallInv
    <3>2. \A f \in Files \ {w.file} : Sound(f) => Sound(f)'
      BY <1>2, <1>4 DEF Sound
    <3> QED BY <1>1, <3>1, <3>2 DEF SoundInv, Loose, Unlisted, Busy, Reading
  <2>2. DoneCalls(v)' /\ CallInv(v)'
    BY <1>1, <1>4 DEF DoneCalls, CallInv, HomeDone, Busy, Reading
  <2>3. \A f \in Files : Raw(w, f) => Raw(v, f)'
    BY <1>1, <1>2 DEF Raw, Unlisted, Busy, Reading
  <2>4. LinkInv(v)' /\ TwinInv(v)'
    BY <1>4, <2>3 DEF LinkInv, TwinInv, ToLink
  <2>5. CoverInv(v)'
    <3>1. Covered(v, w.file)'
      <4>1. disk[w.file] = w.text => Current(v, w.file)'
        BY <1>1, <1>2, ReindexAssumption DEF Current, Aside
      <4> QED BY <1>1, <4>1 DEF CoverInv, Covered, Read, Aside, Busy, Reading
    <3>2. \A f \in Files \ {w.file} : Covered(w, f) => Covered(v, f)'
      BY <1>1, <1>2, <1>4 DEF Covered, Current, Unlisted, Aside
    <3> QED BY <1>1, <3>1, <3>2 DEF CoverInv, Read, Unlisted, Aside, Busy, Reading, Removing
  <2> QED BY <2>1, <2>2, <2>4, <2>5
<1> QED BY <1>5, <1>6

(* The end of a dispatch, as Advance leaves the worker. *)
Ends(w, v) ==
  /\ v.phase \in {"next", "done"} /\ v.home = Gone /\ v.homeText = Gone /\ v.owed = {}
  /\ Ahead(v) = Ahead(w) /\ (v.force = w.force \/ Ahead(w) = {})
  /\ v.walk = w.walk /\ (w.walk => v.phase = "next" /\ v.plan = w.plan)

(* A dispatch that ends leaves the file as its row says, or the row gone   *)
(* with the nodes.                                                         *)
LEMMA EndGood ==
  ASSUME ReindexTypeOK, Aside, NEW w \in Worker, Shape(w), NEW v \in Worker, Ends(w, v),
         w.phase \in {"lookup", "refresh", "error"}, w.home # Gone, w.owed = {},
         w.phase # "refresh" => w.file = w.home,
         nodes' = nodes, edges' = edges, index' \in [Files -> [text : Content, ok : BOOLEAN] \cup {NoRow}],
         \A f \in Files \ {w.home} : index'[f] = index[f],
         index'[w.home] = NoRow /\ NodeGood(w) => Has(w.home, {}),
         w.phase = "lookup" => index[w.home] # NoRow,
         NodeGood(w) /\ GraphGood(w) =>
           /\ ~Loose(v, w.home) => Sound(w.home)'
           /\ Covered(v, w.home)'
  PROVE  Keeps(w, v)
<1> SUFFICES ASSUME NodeGood(w) PROVE NodeGood(v)' /\ (GraphGood(w) => GraphGood(v)')
  BY DEF Keeps
<1> USE DEF Ends
<1>1. w.home \in Files /\ nodes \subseteq Symbol
  BY InHand DEF ReindexTypeOK
<1>2. /\ \A f, S : (Calls(f, S)' <=> Calls(f, S)) /\ (Has(f, S)' <=> Has(f, S))
      /\ \A f \in Files, s \in Symbol : (Linked(f, s)' <=> Linked(f, s)) /\ (Stub(f, s)' <=> Stub(f, s))
  BY DEF Calls, Has, Linked, Stub
<1>3. \A f \in Files : Unlisted(v, f) <=> Unlisted(w, f)
  BY DEF Unlisted
<1>4. NodeGood(v)'
  <2>1. RowInv(v)'
    BY <1>1, SymbolParts DEF NodeGood, RowInv, Has, Busy, Reading, Removing
  <2>2. DoneNames(v)' /\ NameInv(v)'
    BY DEF DoneNames, HomeDone, NameInv
  <2> QED BY <2>1, <2>2 DEF NodeGood
<1>5. ASSUME GraphGood(w) PROVE GraphGood(v)'
  <2> USE <1>5 DEF GraphGood
  <2>1. SoundInv(v)'
    <3>1. \A f \in Files \ {w.home} : Sound(f) => Sound(f)'
      BY <1>2 DEF Sound
    <3>2. \A f \in Files \ {w.home} : Loose(w, f) => Loose(v, f)
      BY <1>3 DEF Loose, Busy, Reading, Removing
    <3> QED BY <1>1, <3>1, <3>2 DEF SoundInv
  <2>2. DoneCalls(v)' /\ CallInv(v)'
    BY DEF DoneCalls, CallInv, HomeDone
  <2>3. \A f \in Files : Raw(w, f) => Raw(v, f)'
    BY <1>1, <1>3, ReindexAssumption DEF Raw, Busy, Reading, Removing
  <2>4. LinkInv(v)' /\ TwinInv(v)'
    BY <1>2, <2>3 DEF LinkInv, TwinInv, ToLink
  <2>5. CoverInv(v)'
    <3>1. \A f \in Files \ {w.home} : Covered(w, f) => Covered(v, f)'
      BY <1>2, <1>3 DEF Covered, Current, Aside
    <3>2. \A f \in Files : Unlisted(v, f) => Read(f, Gone)'
      BY <1>3 DEF CoverInv, Read, Aside
    <3> QED BY <3>1, <3>2 DEF CoverInv, Unlisted, Busy, Reading, Removing
  <2> QED BY <2>1, <2>2, <2>4, <2>5
<1> QED BY <1>4, <1>5


(* A step that changes no row, and after which no more is claimed of a     *)
(* file than before: every step between the transactions.                  *)
LEMMA QuietGood ==
  ASSUME ReindexTypeOK, SameRows, Aside, NEW w \in Worker, Shape(w), NEW v \in Worker,
         \A f \in Files : f \in Ahead(w) \cup {w.home} => f \in Ahead(v) \cup {v.home},
         w.phase \in Busy => v.phase \in Busy /\ v.file = w.file,
         ~HomeDone(v) \/ (HomeDone(w) /\ SameHome(w, v)), NameInv(w) => NameInv(v),
         \A f \in Files : Loose(w, f) => Loose(v, f),
         \A f \in Files : Raw(w, f) => Raw(v, f),
         \A f \in Files, s \in Symbol : ToLink(w, f, s) => ToLink(v, f, s),
         NodeGood(w) /\ GraphGood(w) => CallInv(v) /\ CoverInv(v)'
  PROVE  Keeps(w, v)
<1> SUFFICES ASSUME NodeGood(w) PROVE NodeGood(v)' /\ (GraphGood(w) => GraphGood(v)')
  BY DEF Keeps
<1>1. NodeGood(v)'
  <2>1. RowInv(v)'
    BY SymbolParts DEF NodeGood, RowInv, SameRows, ReindexTypeOK
  <2>2. DoneNames(v)'
    BY SameFacts DEF NodeGood, DoneNames, SameHome, SameRows
  <2>3. NameInv(v)'
    BY SameFacts DEF NodeGood, NameInv, SameRows
  <2> QED BY <2>1, <2>2, <2>3 DEF NodeGood
<1>2. ASSUME GraphGood(w) PROVE GraphGood(v)'
  <2> USE <1>2 DEF GraphGood
  <2>1. SoundInv(v)'
    BY SameFacts DEF SoundInv
  <2>2. DoneCalls(v)'
    BY SameFacts DEF DoneCalls, SameHome
  <2>3. CallInv(v)'
    <3>1. CallInv(v)
      OBVIOUS
    <3>2. v.phase = "prune" /\ v.file = v.home =>
            (Dependents(Outdated(v.file, v.text), v.file) \subseteq v.owed)'
      BY <3>1 DEF CallInv, SameRows, Dependents, Outdated
    <3>3. v.phase = "uproot" => (Dependents({s \in nodes : s[1] = v.file}, v.file) \subseteq v.owed)'
      BY <3>1 DEF CallInv, SameRows, Dependents
    <3> QED BY <3>1, <3>2, <3>3, SameFacts DEF CallInv
  <2>4. \A f \in Files : Raw(v, f)' <=> Raw(v, f)
    BY DEF SameRows, Raw
  <2>5. TwinInv(v)'
    BY <2>4, SameFacts DEF TwinInv
  <2>6. LinkInv(v)'
    <3>1. nodes' = nodes
      BY DEF SameRows
    <3> QED BY <2>4, <3>1, SameFacts DEF LinkInv
  <2> QED BY <2>1, <2>2, <2>3, <2>5, <2>6
<1> QED BY <1>1, <1>2


(* A file is read: what was ahead is now in hand. *)
LEMMA OpenGood ==
  ASSUME ReindexTypeOK, SameRows, Aside, NEW w \in Worker, Shape(w), NEW v \in Worker,
         w.phase = "next", w.paths # <<>>, SameTask(w, v), v.owed = w.owed,
         v.home = Head(w.paths), v.homeText = disk[v.home], v.file = v.home, v.text = v.homeText,
         v.phase = IF v.text = Gone THEN "orphans" ELSE IF w.force THEN "reset" ELSE "lookup"
  PROVE  Keeps(w, v)
<1>1. /\ w.home = Gone /\ w.owed = {} /\ v.home \in Files /\ Gone \notin Files
      /\ Ahead(w) = {v.home} \cup Ahead(v)
  <2>1. w.home = Gone /\ w.owed = {} /\ w.paths \in Seq(Files)
    BY DEF Shape, Worker, Busy, Reading, Removing
  <2>2. v.home \in Files /\ Gone \notin Files
    BY <2>1, HeadAndTail, ReindexAssumption
  <2> QED BY <2>1, <2>2, HeadAndTail DEF Ahead, SameTask
<1>2. v.phase \in {"orphans", "reset", "lookup"} /\ (v.phase = "lookup" => ~w.force)
  OBVIOUS
<1> USE DEF Busy, Reading, Removing
<1>3. \A f \in Files : Loose(w, f) => Loose(v, f)
  BY <1>1, <1>2 DEF Loose, Unlisted, SameTask
<1>4. \A f \in Files : Raw(w, f) => Raw(v, f)
  BY <1>1, <1>2 DEF Raw, Unlisted, SameTask
<1>5. \A f \in Files, s \in Symbol : ToLink(w, f, s) => ToLink(v, f, s)
  BY <1>2 DEF ToLink, SameTask
<1>6. CallInv(v) /\ NameInv(v) /\ ~HomeDone(v)
  BY <1>2 DEF CallInv, NameInv, HomeDone
<1>7. GraphGood(w) => CoverInv(v)'
  <2> SUFFICES ASSUME CoverInv(w) PROVE CoverInv(v)'
    BY DEF GraphGood
  <2>1. \A f \in Files : Covered(w, f) => Covered(v, f)'
    BY <1>1, SameFacts DEF Covered, Current, Unlisted, Aside, SameTask, SameRows
  <2>2. Read(v.home, v.homeText)' /\ Read(v.file, v.text)'
    BY DEF Read, Aside
  <2>3. \A f \in Files : Unlisted(v, f) => Read(f, Gone)'
    BY <1>1 DEF CoverInv, Unlisted, Read, Aside, SameTask
  <2> QED BY <2>1, <2>2, <2>3 DEF CoverInv, Unlisted
<1> QED BY <1>1, <1>2, <1>3, <1>4, <1>5, <1>6, <1>7, QuietGood

(* A step in the file in hand that changes no row; reset is the phase      *)
(* before its edges are touched.                                           *)
LEMMA HandGood ==
  ASSUME ReindexTypeOK, SameRows, Aside, NEW w \in Worker, Shape(w), NEW v \in Worker,
         SameTask(w, v), SameHome(w, v), SameFile(w, v), w.owed \subseteq v.owed,
         \/ w.phase = "lookup" /\ v.phase = "reset"
         \/ w.phase = "upsert" /\ v.phase \in {"reset", "error"}
         \/ w.phase = "orphans" /\ v.phase = "uproot"
              /\ v.owed = Dependents({s \in nodes : s[1] = w.file}, w.file)
  PROVE  Keeps(w, v)
<1> USE DEF Busy, Reading, Removing, SameTask, SameHome, SameFile
<1>1. Ahead(v) = Ahead(w) /\ w.file \in Files /\ (w.home # Gone => w.home \in Files)
      /\ (w.phase = "lookup" => w.file = w.home)
  BY InHand DEF Ahead, Shape
<1>2. \A f \in Files : Loose(w, f) => Loose(v, f)
  BY <1>1 DEF Loose, Unlisted
<1>3. \A f \in Files : Raw(w, f) => Raw(v, f)
  BY <1>1 DEF Raw, Unlisted
<1>4. \A f \in Files, s \in Symbol : ToLink(w, f, s) => ToLink(v, f, s)
  BY DEF ToLink
<1>5. NameInv(v) /\ (HomeDone(v) => HomeDone(w))
  BY <1>1 DEF NameInv, HomeDone
<1>6. NodeGood(w) /\ GraphGood(w) => CallInv(v) /\ CoverInv(v)'
  <2>1. GraphGood(w) => CallInv(v)
    BY DEF GraphGood, CallInv
  <2>2. GraphGood(w) => CoverInv(v)'
    BY <1>1, SameFacts, CoverKept DEF GraphGood, Unlisted, SameRows
  <2> QED BY <2>1, <2>2
<1>7. w.phase \in Busy => v.phase \in Busy /\ v.file = w.file
  OBVIOUS
<1> QED BY <1>1, <1>2, <1>3, <1>4, <1>5, <1>6, <1>7, QuietGood


(* A file that is gone takes its nodes and its edges along, and whoever    *)
(* called it is owed a refresh.                                            *)
LEMMA UprootGood ==
  ASSUME ReindexTypeOK, SelfInv, Aside, NEW w \in Worker, Shape(w), NEW v \in Worker,
         w.phase = "uproot", v.phase = "forget", SameTask(w, v), SameHome(w, v), SameFile(w, v),
         v.owed = w.owed, index' = index, Delete({s \in nodes : s[1] = w.file}, {w.file})
  PROVE  Keeps(w, v)
<1> SUFFICES ASSUME NodeGood(w) PROVE NodeGood(v)' /\ (GraphGood(w) => GraphGood(v)')
  BY DEF Keeps
<1> USE DEF SameTask, SameHome, SameFile, Busy, Reading, Removing
<1>1. /\ w.file \in Files /\ (w.home # Gone => w.home \in Files) /\ Ahead(v) = Ahead(w)
      /\ w.file = w.home
  BY InHand DEF Ahead, Shape
<1> DEFINE symbols == {s \in nodes : s[1] = w.file}
<1>2. /\ symbols \in SUBSET Symbol
      /\ \A s \in Symbol : s \in symbols <=> s \in nodes /\ s[1] = w.file
  BY DEF ReindexTypeOK
<1> HIDE DEF symbols
<1>3. /\ \A f \in Files, s \in Symbol :
           /\ Linked(f, s)' <=> Linked(f, s) /\ f # w.file /\ s \notin symbols
           /\ Stub(f, s)' <=> Stub(f, s) /\ f # w.file
      /\ \A s : s \in nodes' <=> s \in nodes /\ s \notin symbols
  BY DeleteEdges DEF symbols
<1>4. nodes' \subseteq nodes /\ nodes \subseteq Symbol
  BY <1>3 DEF ReindexTypeOK
<1>5. NodeGood(v)'
  <2>1. RowInv(v)'
    BY <1>1, <1>4 DEF NodeGood, RowInv
  <2>2. DoneNames(v)'
    BY <1>1 DEF DoneNames, HomeDone
  <2>3. NameInv(v)'
    BY <1>2, <1>3 DEF NameInv, Has
  <2> QED BY <2>1, <2>2, <2>3 DEF NodeGood
<1>6. ASSUME GraphGood(w) PROVE GraphGood(v)'
  <2> USE <1>6 DEF GraphGood
  <2>0. \A f \in Files \ {w.file}, s \in symbols : Linked(f, s) => f \in w.owed
    <3>1. \A f \in Files, s \in symbols : f # w.file /\ Linked(f, s)
                                            => f \in Dependents(symbols, w.file)
      BY <1>2, DependentOf DEF ReindexTypeOK
    <3>2. Dependents(symbols, w.file) \subseteq w.owed
      BY DEF CallInv, symbols
    <3> QED BY <3>1, <3>2
  <2>1. \A S : \A f \in Files \ (w.owed \cup {w.file}) : Calls(f, S) => Calls(f, S)'
    BY <1>2, <1>3, <2>0 DEF Calls
  <2>2. SoundInv(v)'
    <3> SUFFICES ASSUME NEW f \in Files, ~Loose(v, f)' PROVE Sound(f)'
      BY DEF SoundInv
    <3>1. ~Loose(w, f) /\ f # w.file /\ f \notin w.owed
      BY <1>1 DEF Loose, Unlisted
    <3> QED BY <1>2, <1>3, <2>1, <3>1 DEF SoundInv, Sound, Has
  <2>3. DoneCalls(v)'
    BY <1>1 DEF DoneCalls, HomeDone
  <2>4. CallInv(v)'
    BY <1>1, <1>3 DEF CallInv, Calls
  <2>5. LinkInv(v)' /\ TwinInv(v)'
    <3>1. \A f \in Files \ {w.file} : ~Raw(v, f)' => ~Raw(w, f)
      BY <1>1 DEF Raw, Unlisted
    <3> QED BY <1>1, <1>3, <3>1 DEF LinkInv, TwinInv, ToLink
  <2>6. CoverInv(v)'
    <3>1. \A f \in Files : Calls(f, {}) => Calls(f, {})'
      BY <1>3 DEF Calls
    <3> QED BY <1>1, <3>1, CoverKept DEF Unlisted
  <2> QED BY <2>2, <2>3, <2>4, <2>5, <2>6
<1> QED BY <1>5, <1>6

(* Its row goes too. *)
LEMMA ForgetGood ==
  ASSUME ReindexTypeOK, Aside, NEW w \in Worker, Shape(w), NEW v \in Worker,
         w.phase = "forget", v.phase = "refresh", SameTask(w, v), SameHome(w, v), SameFile(w, v),
         v.owed = w.owed, nodes' = nodes, edges' = edges,
         index' = [index EXCEPT ![w.file] = NoRow]
  PROVE  Keeps(w, v)
<1> SUFFICES ASSUME NodeGood(w) PROVE NodeGood(v)' /\ (GraphGood(w) => GraphGood(v)')
  BY DEF Keeps
<1> USE DEF SameTask, SameHome, SameFile, Busy, Reading, Removing
<1>1. /\ w.file \in Files /\ Ahead(v) = Ahead(w) /\ w.file = w.home /\ w.homeText = Gone
      /\ w.home # Gone
  BY InHand DEF Ahead, Shape
<1>2. index'[w.file] = NoRow /\ \A f \in Files \ {w.file} : index'[f] = index[f]
  BY <1>1 DEF ReindexTypeOK
<1>3. /\ \A f, S : (Calls(f, S)' <=> Calls(f, S)) /\ (Has(f, S)' <=> Has(f, S))
      /\ \A f \in Files, s \in Symbol : (Linked(f, s)' <=> Linked(f, s)) /\ (Stub(f, s)' <=> Stub(f, s))
  BY DEF Calls, Has, Linked, Stub
<1>4. nodes \subseteq Symbol
  BY DEF ReindexTypeOK
<1>5. NodeGood(v)'
  <2>1. RowInv(v)'
    BY <1>1, <1>2, <1>4, SymbolParts DEF NodeGood, RowInv
  <2>2. DoneNames(v)'
    BY <1>1, <1>2, <1>3 DEF NodeGood, NameInv, DoneNames, HomeDone
  <2>3. NameInv(v)'
    BY DEF NameInv
  <2> QED BY <2>1, <2>2, <2>3 DEF NodeGood
<1>6. ASSUME GraphGood(w) PROVE GraphGood(v)'
  <2> USE <1>6 DEF GraphGood
  <2>1. SoundInv(v)'
    <3>1. \A f \in Files \ {w.file} : Sound(f) => Sound(f)'
      BY <1>2, <1>3 DEF Sound
    <3> QED BY <1>1, <3>1 DEF SoundInv, Loose, Unlisted
  <2>2. DoneCalls(v)' /\ CallInv(v)'
    BY <1>1, <1>3 DEF DoneCalls, CallInv, HomeDone
  <2>3. \A f \in Files : Raw(w, f) => Raw(v, f)'
    BY <1>1, <1>2 DEF Raw, Unlisted
  <2>4. LinkInv(v)' /\ TwinInv(v)'
    BY <1>3, <2>3 DEF LinkInv, TwinInv, ToLink
  <2>5. CoverInv(v)'
    <3>1. \A f \in Files : Covered(w, f) => Covered(v, f)'
      BY <1>1, <1>2, <1>3 DEF Covered, Current, Unlisted, Aside
    <3> QED BY <1>1, <3>1 DEF CoverInv, Read, Unlisted, Aside
  <2> QED BY <2>1, <2>2, <2>4, <2>5
<1> QED BY <1>5, <1>6

(* A dependent that could not be indexed has an error in its row. *)
LEMMA ErrorGood ==
  ASSUME ReindexTypeOK, Aside, NEW w \in Worker, Shape(w), NEW v \in Worker,
         w.phase = "error", v.phase = "refresh", SameTask(w, v), SameHome(w, v), SameFile(w, v),
         v.owed = w.owed, w.file # w.home, nodes' = nodes, edges' = edges,
         index' \in [Files -> [text : Content, ok : BOOLEAN] \cup {NoRow}],
         \A f \in Files \ {w.file} : index'[f] = index[f],
         index'[w.file] # NoRow, ~index'[w.file].ok
  PROVE  Keeps(w, v)
<1> SUFFICES ASSUME NodeGood(w) PROVE NodeGood(v)' /\ (GraphGood(w) => GraphGood(v)')
  BY DEF Keeps
<1> USE DEF SameTask, SameHome, SameFile, Busy, Reading, Removing
<1>1. /\ w.file \in Files /\ (w.home # Gone => w.home \in Files) /\ Ahead(v) = Ahead(w)
      /\ w.text # Gone
  BY InHand DEF Ahead, Shape
<1>2. /\ \A f, S : (Calls(f, S)' <=> Calls(f, S)) /\ (Has(f, S)' <=> Has(f, S))
      /\ \A f \in Files, s \in Symbol : (Linked(f, s)' <=> Linked(f, s)) /\ (Stub(f, s)' <=> Stub(f, s))
  BY DEF Calls, Has, Linked, Stub
<1>3. nodes \subseteq Symbol
  BY DEF ReindexTypeOK
<1>4. NodeGood(v)'
  <2>1. RowInv(v)'
    BY <1>1, <1>3, SymbolParts DEF NodeGood, RowInv
  <2>2. DoneNames(v)'
    BY <1>1, <1>2 DEF NodeGood, DoneNames, HomeDone
  <2>3. NameInv(v)'
    BY DEF NameInv
  <2> QED BY <2>1, <2>2, <2>3 DEF NodeGood
<1>5. ASSUME GraphGood(w) PROVE GraphGood(v)'
  <2> USE <1>5 DEF GraphGood
  <2>1. SoundInv(v)'
    <3>1. \A f \in Files \ {w.file} : Sound(f) => Sound(f)'
      BY <1>2 DEF Sound
    <3>2. Sound(w.file)'
      BY DEF Sound
    <3> QED BY <1>1, <3>1, <3>2 DEF SoundInv, Loose, Unlisted
  <2>2. DoneCalls(v)' /\ CallInv(v)'
    BY <1>1, <1>2 DEF DoneCalls, CallInv, HomeDone
  <2>3. \A f \in Files : Raw(w, f) => Raw(v, f)'
    BY <1>1 DEF Raw, Unlisted
  <2>4. LinkInv(v)' /\ TwinInv(v)'
    BY <1>2, <2>3 DEF LinkInv, TwinInv, ToLink
  <2>5. CoverInv(v)'
    <3>1. \A f \in Files \ {w.file} : Covered(w, f) => Covered(v, f)'
      BY <1>1, <1>2 DEF Covered, Current, Unlisted, Aside
    <3>2. disk[w.file] # Gone
      BY <1>1 DEF CoverInv, Read
    <3>3. Covered(v, w.file)'
      BY <3>2 DEF Covered, Aside
    <3> QED BY <1>1, <3>1, <3>3 DEF CoverInv, Read, Unlisted, Aside
  <2> QED BY <2>1, <2>2, <2>4, <2>5
<1> QED BY <1>4, <1>5


(* Advance is the end of a dispatch. *)
LEMMA AdvanceEnds ==
  ASSUME NEW j \in Jobs, job \in [Jobs -> Worker], NEW failed \in BOOLEAN, Advance(j, failed),
         Shape(job[j]), job[j].home # Gone
  PROVE  Ends(job[j], job'[j])
<1> DEFINE w == job[j]
           v == job'[j]
<1>1. w \in Worker /\ w.home \in Files /\ w.paths # <<>> /\ w.paths \in Seq(Files)
  BY DEF Shape, Worker
<1>2. Ahead(w) = Range(Tail(w.paths)) /\ (Len(w.paths) = 1 => Ahead(w) = {})
  BY <1>1, HeadAndTail DEF Ahead
<1>3. CASE ~w.walk /\ Len(w.paths) = 1
  <2>1. v = At("done")
    BY <1>1, <1>3, AdvanceParts
  <2>2. Ahead(At("done")) = {}
    BY AtParts, NothingLeft DEF Ahead, Phases
  <2>3. /\ At("done").phase = "done" /\ At("done").walk = FALSE
        /\ At("done").home = Gone /\ At("done").homeText = Gone /\ At("done").owed = {}
    BY DEF At
  <2>4. w.walk = FALSE
    BY <1>1, <1>3 DEF Worker
  <2> QED BY <1>2, <1>3, <2>1, <2>2, <2>3, <2>4 DEF Ends
<1>4. CASE ~(~w.walk /\ Len(w.paths) = 1)
  <2>1. /\ v.phase = "next" /\ v.walk = w.walk /\ v.force = w.force /\ v.paths = Tail(w.paths)
        /\ v.plan = w.plan /\ v.home = Gone /\ v.homeText = Gone /\ v.owed = {}
    <3>1. w.walk \/ Len(w.paths) # 1
      BY <1>4
    <3> HIDE <1>4
    <3> QED BY <1>1, <3>1, AdvanceParts
  <2> QED BY <1>2, <2>1 DEF Ends, Ahead
<1> QED BY <1>3, <1>4

(* The walk has dispatched what it listed, or is given its failures again. *)
LEMMA ListedGood ==
  ASSUME ReindexTypeOK, SameRows, Aside, NEW w \in Worker, Shape(w), NEW v \in Worker,
         w.phase = "next", w.paths = <<>>, v.walk = w.walk, v.plan = w.plan, v.force = w.force,
         SameHome(w, v), SameFile(w, v), v.owed = w.owed,
         \/ v.phase = "reconcile" /\ v.paths = <<>>
         \/ v.phase = "next"
  PROVE  Keeps(w, v)
<1> USE DEF Busy, Reading, Removing, SameHome, SameFile
<1>1. w.walk /\ w.home = Gone /\ w.owed = {} /\ Ahead(w) = {} /\ Gone \notin Files
  BY NothingLeft, ReindexAssumption DEF Ahead, Shape
<1>2. v.phase \in {"reconcile", "next"}
  OBVIOUS
<1>3. \A f \in Files : Loose(w, f) => Loose(v, f)
  BY <1>1, <1>2 DEF Loose, Unlisted
<1>4. \A f \in Files : Raw(w, f) => Raw(v, f)
  BY <1>1, <1>2 DEF Raw, Unlisted
<1>5. \A f \in Files, s \in Symbol : ToLink(w, f, s) => ToLink(v, f, s)
  BY <1>1, <1>2 DEF ToLink
<1>6. NameInv(v) /\ ~HomeDone(v) /\ CallInv(v)
  BY <1>1, <1>2 DEF NameInv, HomeDone, CallInv
<1>7. GraphGood(w) => CoverInv(v)'
  <2> SUFFICES ASSUME CoverInv(w) PROVE CoverInv(v)'
    BY DEF GraphGood
  <2>1. \A f \in Files : Covered(w, f) => Covered(v, f)'
    BY <1>1, <1>2, SameFacts DEF Covered, Current, Unlisted, Aside, SameRows
  <2>2. \A f \in Files : Unlisted(v, f) => Read(f, Gone)'
    BY <1>1, <1>2 DEF CoverInv, Unlisted, Read, Aside
  <2> QED BY <1>1, <1>2, <2>1, <2>2 DEF CoverInv, Unlisted
<1> QED BY <1>1, <1>3, <1>4, <1>5, <1>6, <1>7, QuietGood

(* Who is to be read again when the nodes of these files go.               *)
CallersOf(stale, listed) ==
  (UNION {Dependents({s \in nodes : s[1] = f}, f) : f \in stale}) \cap listed

(* The reconcile of a walk: rows of files it did not list go with their    *)
(* nodes, and the listed files that called them are owed a refresh.        *)
LEMMA ReconcileGood ==
  ASSUME ReindexTypeOK, Aside, NEW w \in Worker, Shape(w), NEW v \in Worker,
         w.phase = "reconcile", v.phase = "refresh", SameTask(w, v),
         v.home = Gone, v.homeText = Gone, v.file = Gone,
         NEW stale, stale = {f \in Files : index[f] # NoRow /\ f \notin w.plan},
         Delete({s \in nodes : s[1] \in stale}, stale),
         index' = [f \in Files |-> IF f \in stale THEN NoRow ELSE index[f]],
         v.owed = CallersOf(stale, w.plan)
  PROVE  Keeps(w, v)
<1> SUFFICES ASSUME NodeGood(w) PROVE NodeGood(v)' /\ (GraphGood(w) => GraphGood(v)')
  BY DEF Keeps
<1> USE DEF SameTask, Busy, Reading, Removing
<1>1. /\ w.walk /\ w.home = Gone /\ w.owed = {} /\ w.paths = <<>> /\ Gone \notin Files
      /\ Ahead(w) = {} /\ Ahead(v) = {}
  BY NothingLeft, ReindexAssumption DEF Ahead, Shape
<1> DEFINE symbols == {s \in nodes : s[1] \in stale}
<1>2. /\ symbols \in SUBSET Symbol /\ nodes \subseteq Symbol
      /\ \A s \in Symbol : s \in symbols <=> s \in nodes /\ s[1] \in stale
  BY DEF ReindexTypeOK
<1> HIDE DEF symbols
<1>3. /\ \A f \in Files, s \in Symbol :
           /\ Linked(f, s)' <=> Linked(f, s) /\ f \notin stale /\ s \notin symbols
           /\ Stub(f, s)' <=> Stub(f, s) /\ f \notin stale
      /\ \A s : s \in nodes' <=> s \in nodes /\ s \notin symbols
  BY DeleteEdges DEF symbols
<1>4. \A f \in Files : index'[f] = IF f \in stale THEN NoRow ELSE index[f]
  OBVIOUS
<1>5. NodeGood(v)'
  <2>1. RowInv(v)'
    BY <1>1, <1>2, <1>3, <1>4, SymbolParts DEF NodeGood, RowInv
  <2>2. DoneNames(v)' /\ NameInv(v)'
    BY DEF DoneNames, HomeDone, NameInv
  <2> QED BY <2>1, <2>2 DEF NodeGood
<1>6. ASSUME GraphGood(w) PROVE GraphGood(v)'
  <2> USE <1>6 DEF GraphGood
  <2>0. \A f \in w.plan \ stale, s \in symbols : Linked(f, s) => f \in v.owed
    <3> SUFFICES ASSUME NEW f \in w.plan \ stale, NEW s \in symbols, Linked(f, s)
                 PROVE  f \in v.owed
      OBVIOUS
    <3> DEFINE g == s[1]
               own == {x \in nodes : x[1] = g}
    <3>1. f \in Files /\ s \in Symbol /\ s \in nodes /\ g \in stale /\ f # g
      BY <1>2 DEF Worker
    <3>2. own \in SUBSET Symbol /\ s \in own
      BY <1>2, <3>1
    <3>3. f \in Dependents(own, g)
      <4> HIDE DEF own, g
      <4> QED BY <3>1, <3>2, DependentOf DEF ReindexTypeOK
    <3> QED BY <3>1, <3>3 DEF CallersOf
  <2>1. SoundInv(v)'
    <3> SUFFICES ASSUME NEW f \in Files, ~Loose(v, f)', index'[f] # NoRow PROVE Sound(f)'
      BY DEF SoundInv, Sound
    <3>1. f \notin stale /\ f \in w.plan /\ f \notin v.owed /\ index'[f] = index[f]
      BY <1>4 DEF Loose
    <3>2. ~Loose(w, f)
      BY <1>1, <3>1 DEF Loose, Unlisted
    <3>3. \A S : Calls(f, S) => Calls(f, S)'
      BY <1>3, <2>0, <3>1 DEF Calls
    <3>4. \A S : Has(f, S) => Has(f, S)'
      BY <1>2, <1>3, <3>1 DEF Has
    <3> QED BY <3>1, <3>2, <3>3, <3>4 DEF SoundInv, Sound
  <2>2. DoneCalls(v)' /\ CallInv(v)'
    BY DEF DoneCalls, CallInv, HomeDone
  <2>3. LinkInv(v)'
    BY <1>1 DEF LinkInv, ToLink
  <2>4. TwinInv(v)'
    <3>1. \A f \in Files : Raw(w, f) => Raw(v, f)'
      BY <1>1, <1>4 DEF Raw, Unlisted
    <3> QED BY <1>3, <3>1 DEF TwinInv
  <2>5. CoverInv(v)'
    <3> SUFFICES ASSUME NEW f \in Files PROVE Covered(v, f)'
      BY DEF CoverInv, Unlisted
    <3>1. CASE Unlisted(w, f)
      BY <1>1, <1>4, <3>1 DEF CoverInv, Read, Covered, Current, Unlisted, Aside
    <3>2. CASE ~Unlisted(w, f)
      <4>1. index'[f] = index[f]
        BY <1>1, <1>4, <3>2 DEF Unlisted
      <4> QED BY <1>1, <3>2, <4>1 DEF CoverInv, Covered, Current, Aside
    <3> QED BY <3>1, <3>2
  <2> QED BY <2>1, <2>2, <2>3, <2>4, <2>5
<1> QED BY <1>5, <1>6


(* The link pass of a walk leaves no stub whose symbol exists. *)
LEMMA LinkAllGood ==
  ASSUME ReindexTypeOK, Aside, NEW w \in Worker, Shape(w), NEW v \in Worker,
         w.phase = "refresh", w.home = Gone, w.owed = {}, v.phase = "sweep",
         SameTask(w, v), SameHome(w, v), SameFile(w, v), v.owed = w.owed,
         nodes' = nodes, index' = index, edges' = BoundFor(Files)
  PROVE  Keeps(w, v)
<1> SUFFICES ASSUME NodeGood(w) PROVE NodeGood(v)' /\ (GraphGood(w) => GraphGood(v)')
  BY DEF Keeps
<1> USE DEF SameTask, SameHome, SameFile, Busy, Reading, Removing
<1>1. w.walk /\ Gone \notin Files /\ Ahead(v) = Ahead(w)
  BY ReindexAssumption DEF Ahead, Shape
<1> DEFINE target(s) == s \in nodes /\ \E g \in Files : Stub(g, s)
<1>2. \A f \in Files, s \in Symbol :
        /\ Linked(f, s)' <=> (Linked(f, s) \/ (Stub(f, s) /\ target(s)))
        /\ Stub(f, s)' <=> (Stub(f, s) /\ (target(s) => Linked(f, s)))
  BY BindEdges DEF ReindexTypeOK
<1>3. \A S : \A f \in Files : Calls(f, S)' <=> Calls(f, S)
  BY <1>2 DEF Calls
<1>4. \A f \in Files : (Raw(v, f)' <=> Raw(w, f)) /\ ~Unlisted(v, f) /\ ~Unlisted(w, f)
  BY <1>1 DEF Raw, Unlisted
<1>5. NodeGood(v)'
  BY <1>1 DEF NodeGood, RowInv, DoneNames, NameInv, HomeDone
<1>6. ASSUME GraphGood(w) PROVE GraphGood(v)'
  <2> USE <1>6 DEF GraphGood
  <2>1. SoundInv(v)'
    <3>1. \A f \in Files : Sound(f) => Sound(f)'
      BY <1>3 DEF Sound, Has
    <3>2. \A f \in Files : Loose(w, f) <=> Loose(v, f)
      BY <1>1, <1>4 DEF Loose
    <3> QED BY <3>1, <3>2 DEF SoundInv
  <2>2. DoneCalls(v)' /\ CallInv(v)'
    BY DEF DoneCalls, CallInv, HomeDone
  <2>3. LinkInv(v)'
    <3> SUFFICES ASSUME NEW f \in Files, NEW s \in Symbol, Stub(f, s)', s \in nodes, ~Raw(w, f)
                 PROVE  FALSE
      BY <1>4 DEF LinkInv
    <3>1. Stub(f, s) /\ ~Linked(f, s) /\ ~target(s)
      BY <1>2 DEF TwinInv
    <3> QED BY <3>1
  <2>4. TwinInv(v)'
    BY <1>2, <1>4 DEF TwinInv
  <2>5. CoverInv(v)'
    BY <1>1, <1>3, <1>4, CoverKept
  <2> QED BY <2>1, <2>2, <2>3, <2>4, <2>5
<1> QED BY <1>5, <1>6

(* cos_graph_doctor finds no node of a path that does not exist, only the  *)
(* edges that one has left.                                                *)
LEMMA SweepGood ==
  ASSUME ReindexTypeOK, BoundInv, Aside, NEW w \in Worker, Shape(w), NEW v \in Worker,
         w.phase = "sweep", v.phase \in {"end", "done"}, v.paths = <<>>, v.walk = FALSE,
         v.force = FALSE, v.home = Gone, v.homeText = Gone, v.file = Gone, v.owed = {},
         index' = index, NEW absent, absent = {f \in Files : disk[f] = Gone},
         Delete({s \in nodes : s[1] \in absent}, absent)
  PROVE  Keeps(w, v)
<1> SUFFICES ASSUME NodeGood(w) PROVE NodeGood(v)' /\ (GraphGood(w) => GraphGood(v)')
  BY DEF Keeps
<1> USE DEF Busy, Reading, Removing
<1>1. /\ w.walk /\ w.home = Gone /\ w.owed = {} /\ Gone \notin Files
      /\ Ahead(w) = {} /\ Ahead(v) = {}
  BY NothingLeft, ReindexAssumption DEF Ahead, Shape
<1> DEFINE symbols == {s \in nodes : s[1] \in absent}
<1>2. /\ symbols \in SUBSET Symbol /\ nodes \subseteq Symbol
      /\ \A s \in Symbol : s \in symbols <=> s \in nodes /\ s[1] \in absent
  BY DEF ReindexTypeOK
<1> HIDE DEF symbols
<1>3. /\ \A f \in Files, s \in Symbol :
           /\ Linked(f, s)' <=> Linked(f, s) /\ f \notin absent /\ s \notin symbols
           /\ Stub(f, s)' <=> Stub(f, s) /\ f \notin absent
      /\ \A s : s \in nodes' <=> s \in nodes /\ s \notin symbols
  BY DeleteEdges DEF symbols
<1>4. NodeGood(v)'
  <2>1. RowInv(v)'
    BY <1>1, <1>2, <1>3, SymbolParts DEF NodeGood, RowInv
  <2>2. DoneNames(v)' /\ NameInv(v)'
    BY DEF DoneNames, HomeDone, NameInv
  <2> QED BY <2>1, <2>2 DEF NodeGood
<1>5. ASSUME GraphGood(w) PROVE GraphGood(v)'
  <2> USE <1>5 DEF GraphGood
  <2>1. \A f \in absent : f \in Files /\ index[f] = NoRow /\ f \notin Ahead(w)
    BY <1>1 DEF CoverInv, Covered, Current, Unlisted
  <2>2. symbols = {}
    <3> SUFFICES ASSUME NEW s \in symbols PROVE FALSE
      OBVIOUS
    <3>1. s \in nodes /\ s[1] \in Files /\ index[s[1]] = NoRow
      BY <1>2, <2>1
    <3> QED BY <1>1, <3>1 DEF NodeGood, RowInv
  <2>3. \A S : \A f \in Files \ absent : (Calls(f, S) => Calls(f, S)') /\ (Has(f, S) => Has(f, S)')
    BY <1>3, <2>2 DEF Calls, Has
  <2>4. SoundInv(v)'
    <3> SUFFICES ASSUME NEW f \in Files, index[f] # NoRow PROVE Sound(f)'
      BY DEF SoundInv, Sound
    <3>1. ~Loose(w, f)
      BY <1>1 DEF Loose, Unlisted
    <3> QED BY <2>1, <2>3, <3>1 DEF SoundInv, Sound
  <2>5. DoneCalls(v)' /\ CallInv(v)'
    BY DEF DoneCalls, CallInv, HomeDone
  <2>6. \A f \in Files : Raw(w, f) => Raw(v, f)'
    BY <1>1 DEF Raw, Unlisted
  <2>7. LinkInv(v)' /\ TwinInv(v)'
    BY <1>3, <2>6 DEF LinkInv, TwinInv, ToLink
  <2>8. CoverInv(v)'
    <3> SUFFICES ASSUME NEW f \in Files PROVE Covered(v, f)'
      BY DEF CoverInv, Unlisted
    <3>1. disk[f] = Gone => Calls(f, {})'
      BY <1>3 DEF Calls
    <3> QED BY <1>1, <3>1 DEF CoverInv, Covered, Current, Unlisted, Aside
  <2> QED BY <2>4, <2>5, <2>7, <2>8
<1> QED BY <1>4, <1>5

(* The shell around the walk has ended too. *)
LEMMA OverGood ==
  ASSUME ReindexTypeOK, SameRows, Aside, NEW w \in Worker, Shape(w), w.phase = "end",
         At("done") \in Worker
  PROVE  Keeps(w, At("done"))
<1> DEFINE v == At("done")
<1>1. /\ v.phase = "done" /\ v.walk = FALSE /\ v.home = Gone /\ v.owed = {} /\ v.paths = <<>>
      /\ v.force = FALSE /\ v.file = Gone /\ v.homeText = Gone
  BY DEF At
<1> HIDE DEF v
<1> USE DEF Busy, Reading, Removing
<1>2. ~w.walk /\ w.home = Gone /\ w.owed = {} /\ Ahead(w) = {} /\ Ahead(v) = {} /\ Gone \notin Files
  BY <1>1, NothingLeft, ReindexAssumption DEF Ahead, Shape
<1>3. \A f \in Files : Loose(w, f) => Loose(v, f)
  BY <1>1, <1>2 DEF Loose, Unlisted
<1>4. \A f \in Files : Raw(w, f) => Raw(v, f)
  BY <1>1, <1>2 DEF Raw, Unlisted
<1>5. \A f \in Files, s \in Symbol : ToLink(w, f, s) => ToLink(v, f, s)
  BY <1>2 DEF ToLink
<1>6. NameInv(v) /\ ~HomeDone(v) /\ CallInv(v)
  BY <1>1 DEF NameInv, HomeDone, CallInv
<1>7. GraphGood(w) => CoverInv(v)'
  <2>1. \A f \in Files : Covered(w, f) => Covered(v, f)'
    BY <1>1, <1>2, SameFacts DEF Covered, Current, Unlisted, Aside, SameRows
  <2> QED BY <1>1, <2>1 DEF GraphGood, CoverInv, Unlisted
<1>8. v \in Worker
  BY DEF v
<1>9. Keeps(w, v)
  BY <1>1, <1>2, <1>3, <1>4, <1>5, <1>6, <1>7, <1>8, QuietGood
<1> QED BY <1>9 DEF v


(* A worker begins where nothing was left to do: it has ahead of it every  *)
(* file that has just changed.                                             *)
LEMMA BeginGood ==
  ASSUME ReindexTypeOK, SameRows, NEW v \in Worker, v.phase = "next", v.home = Gone,
         v.homeText = Gone, v.owed = {},
         \A f \in Files : Covered(At("done"), f) => Covered(v, f)',
         \A f \in Files : Unlisted(v, f) => Read(f, Gone)'
  PROVE  Keeps(At("done"), v)
<1> DEFINE w == At("done")
<1>1. /\ w.phase = "done" /\ w.walk = FALSE /\ w.home = Gone /\ w.owed = {} /\ w.paths = <<>>
      /\ w.force = FALSE /\ w.file = Gone /\ w.homeText = Gone
  BY DEF At
<1> HIDE DEF w
<1> USE DEF Busy, Reading, Removing
<1>2. Ahead(w) = {} /\ Gone \notin Files
  BY <1>1, NothingLeft, ReindexAssumption DEF Ahead
<1> SUFFICES ASSUME NodeGood(w) PROVE NodeGood(v)' /\ (GraphGood(w) => GraphGood(v)')
  BY DEF Keeps, w
<1>3. NodeGood(v)'
  <2>1. RowInv(v)'
    BY <1>1, <1>2, SymbolParts DEF NodeGood, RowInv, SameRows, ReindexTypeOK
  <2>2. DoneNames(v)' /\ NameInv(v)'
    BY DEF DoneNames, HomeDone, NameInv
  <2> QED BY <2>1, <2>2 DEF NodeGood
<1>4. ASSUME GraphGood(w) PROVE GraphGood(v)'
  <2> USE <1>4 DEF GraphGood
  <2>1. SoundInv(v)'
    <3>1. \A f \in Files : Loose(w, f) => Loose(v, f)
      BY <1>1, <1>2 DEF Loose, Unlisted
    <3> QED BY <3>1, SameFacts DEF SoundInv
  <2>2. DoneCalls(v)' /\ CallInv(v)'
    BY DEF DoneCalls, CallInv, HomeDone
  <2>3. \A f \in Files : Raw(w, f) => Raw(v, f)'
    BY <1>1, <1>2 DEF Raw, Unlisted, SameRows
  <2>4. LinkInv(v)' /\ TwinInv(v)'
    <3>1. \A f \in Files, s \in Symbol : ~ToLink(w, f, s)
      BY <1>1 DEF ToLink
    <3>2. nodes' = nodes
      BY DEF SameRows
    <3> QED BY <2>3, <3>1, <3>2, SameFacts DEF LinkInv, TwinInv
  <2>5. CoverInv(v)'
    <3>1. \A f \in Files : Covered(w, f)
      BY DEF CoverInv
    <3> QED BY <3>1 DEF CoverInv, w, Unlisted
  <2> QED BY <2>1, <2>2, <2>4, <2>5
<1> QED BY <1>3, <1>4

(* A forced walk takes nothing for granted, once every node has a row or a *)
(* file to lead to it.                                                     *)
LEMMA ForcedGood ==
  ASSUME ReindexTypeOK, SameRows, disk' = disk, Rooted, NEW v \in Worker, v.phase = "next",
         v.home = Gone, v.homeText = Gone, v.owed = {}, v.walk, v.force,
         v.plan = {f \in Files : disk[f] # Gone}, Range(v.paths) = v.plan
  PROVE  NodeGood(v)' /\ GraphGood(v)'
<1> USE DEF Busy, Reading, Removing
<1>1. Ahead(v) = v.plan
  BY DEF Ahead
<1>2. \A f \in Files : (f \in Ahead(v) \/ Unlisted(v, f)) /\ (f \in v.plan <=> disk[f] # Gone)
  BY <1>1 DEF Unlisted
<1>3. RowInv(v)'
  BY <1>1, SymbolParts DEF RowInv, Rooted, SameRows, ReindexTypeOK
<1>4. DoneNames(v)' /\ NameInv(v)' /\ DoneCalls(v)' /\ CallInv(v)'
  BY DEF DoneNames, NameInv, DoneCalls, CallInv, HomeDone
<1>5. SoundInv(v)'
  BY <1>2 DEF SoundInv, Loose
<1>6. LinkInv(v)' /\ TwinInv(v)'
  BY <1>2 DEF LinkInv, TwinInv, Raw
<1>7. CoverInv(v)'
  BY <1>1, <1>2 DEF CoverInv, Covered, Unlisted, Read
<1> QED BY <1>3, <1>4, <1>5, <1>6, <1>7 DEF NodeGood, GraphGood

(* What happens on the disk has somebody waiting for it: it changes nothing*)
(* for the worker that is on its way.                                      *)
LEMMA WatchGood ==
  ASSUME SameRows, NEW w,
         \A f \in Files : \/ disk'[f] = disk[f] /\ (Waiting(f) => Waiting(f)')
                          \/ disk'[f] # Gone /\ Waiting(f)',
         w.phase \in Busy \cup {"lookup"} => w.file \in Files,
         w.home # Gone => w.home \in Files
  PROVE  Keeps(w, w)
<1> SUFFICES ASSUME NodeGood(w) PROVE NodeGood(w)' /\ (GraphGood(w) => GraphGood(w)')
  BY DEF Keeps
<1>1. NodeGood(w)'
  BY SameFacts DEF NodeGood, RowInv, DoneNames, NameInv, SameRows
<1>2. ASSUME GraphGood(w) PROVE GraphGood(w)'
  <2> USE <1>2 DEF GraphGood
  <2>1. SoundInv(w)' /\ DoneCalls(w)'
    BY SameFacts DEF SoundInv, DoneCalls
  <2>2. CallInv(w)'
    BY SameFacts DEF CallInv, SameRows, Dependents, Outdated
  <2>3. \A f \in Files : Raw(w, f)' <=> Raw(w, f)
    BY DEF SameRows, Raw
  <2>4. nodes' = nodes
    BY DEF SameRows
  <2>5. LinkInv(w)' /\ TwinInv(w)'
    BY <2>3, <2>4, SameFacts DEF LinkInv, TwinInv
  <2>6. \A f \in Files : Covered(w, f) => Covered(w, f)'
    BY SameFacts DEF Covered, Current, SameRows
  <2>7. \A text : \A f \in Files : Read(f, text) => Read(f, text)'
    BY DEF Read
  <2>8. CoverInv(w)'
    BY <2>6, <2>7 DEF CoverInv
  <2> QED BY <2>1, <2>2, <2>5, <2>8
<1> QED BY <1>1, <1>2

-------------------------------------------------------------------------------

(* A step of a worker, put together: it keeps what holds of itself, and    *)
(* nobody else is at work.                                                 *)
LEMMA WorkStep ==
  ASSUME ReindexInv, NEW j \in Jobs, Active(j), NEW v \in Worker, job' = [job EXCEPT ![j] = v],
         Shape(v), v.phase \notin {"idle", "quiet", "list"}, v.phase = "done" => v = At("done"),
         disk' = disk, marker' = marker, sentinel' \in BOOLEAN, troubles' \in 0..MaxTroubles,
         void' \subseteq {"overlap", "refresh", "trouble"}, void' = {} => void = {},
         nodes' \subseteq Symbol, edges' \subseteq Edge,
         index' \in [Files -> [text : Content, ok : BOOLEAN] \cup {NoRow}],
         BoundInv', SelfInv',
         Aside /\ void' = {} => Keeps(job[j], v)
  PROVE  ReindexInv'
<1> USE DEF ReindexInv, Sane
<1>1. job \in [Jobs -> Worker] /\ job'[j] = v /\ \A i \in Jobs \ {j} : job'[i] = job[i]
  BY DEF ReindexTypeOK
<1>2. ReindexTypeOK'
  BY DEF ReindexTypeOK
<1>3. ShapeInv'
  BY <1>1 DEF ShapeInv
<1>4. DiskInv'
  BY DEF DiskInv
<1>5. \A i \in Jobs \ {j} : Active(i)' <=> Active(i)
  BY <1>1 DEF Active
<1>6. OneActive'
  BY <1>5 DEF OneActive
<1>7. job[j].phase \notin {"idle", "quiet", "list", "done"}
  BY DEF Active
<1>8. Aside
  BY <1>1, <1>7 DEF Aside, Waiting
<1>9. Exempt' <=> Exempt
  BY <1>1, <1>7 DEF Exempt
<1>10. GoodInv'
  <2> SUFFICES ASSUME void' = {}
               PROVE  /\ \A i \in Jobs : Active(i)' => Good(job[i])'
                      /\ (\A i \in Jobs : ~Active(i)') => Good(At("done"))'
    BY DEF GoodInv
  <2>1. Good(job[j]) /\ \A i \in Jobs \ {j} : ~Active(i)
    BY DEF GoodInv, OneActive
  <2>2. Good(v)'
    BY <1>8, <1>9, <2>1 DEF Good, Keeps
  <2>3. Good(job[j])'
    BY <1>1, <2>2
  <2>4. (\A i \in Jobs : ~Active(i)') => v.phase = "done"
    BY <1>1 DEF Active
  <2> QED BY <1>5, <2>1, <2>2, <2>3, <2>4
<1> QED BY <1>2, <1>3, <1>4, <1>6, <1>10


(* A step that changes only the worker. *)
LEMMA QuietStep ==
  ASSUME ReindexInv, NEW j \in Jobs, Active(j), NEW v \in Worker, job' = [job EXCEPT ![j] = v],
         Shape(v), v.phase \notin {"idle", "quiet", "list"}, v.phase = "done" => v = At("done"),
         UNCHANGED <<treeVars, graphRows, troubles, void>>,
         Aside /\ SameRows => Keeps(job[j], v)
  PROVE  ReindexInv'
<1>1. /\ disk' = disk /\ marker' = marker /\ sentinel' = sentinel /\ troubles' = troubles
      /\ void' = void /\ nodes' = nodes /\ edges' = edges /\ index' = index
  BY DEF treeVars, graphRows
<1>2. SameRows
  BY <1>1 DEF SameRows
<1>3. ReindexTypeOK /\ BoundInv /\ SelfInv
  BY DEF ReindexInv, Sane
<1>4. BoundInv' /\ SelfInv'
  BY <1>1, <1>3, <1>2, SameFacts DEF BoundInv, SelfInv
<1>5. /\ nodes' \subseteq Symbol /\ edges' \subseteq Edge /\ sentinel' \in BOOLEAN
      /\ index' \in [Files -> [text : Content, ok : BOOLEAN] \cup {NoRow}]
      /\ troubles' \in 0..MaxTroubles /\ void' \subseteq {"overlap", "refresh", "trouble"}
  BY <1>1, <1>3 DEF ReindexTypeOK
<1> QED BY <1>1, <1>2, <1>4, <1>5, WorkStep

(* What is known of a worker. *)
LEMMA WorkerKnown ==
  ASSUME ReindexInv, NEW j \in Jobs
  PROVE  /\ job \in [Jobs -> Worker] /\ job[j] \in Worker /\ Shape(job[j]) /\ Gone \notin Files
         /\ ReindexTypeOK /\ BoundInv /\ SelfInv /\ DiskInv
         /\ job[j].walk \in BOOLEAN /\ job[j].bulk \in BOOLEAN /\ job[j].force \in BOOLEAN
         /\ job[j].paths \in Seq(Files) /\ job[j].plan \in SUBSET Files
         /\ job[j].again \in SUBSET Files /\ job[j].owed \in SUBSET Files
BY ReindexAssumption DEF ReindexInv, Sane, ReindexTypeOK, ShapeInv, Worker

(* A worker that has ended, or has only the shell around it left. *)
LEMMA AtShape ==
  ASSUME NEW p \in {"end", "done"}
  PROVE  Shape(At(p)) /\ At(p) \in Worker /\ At(p).phase = p
<1>1. At(p) \in Worker /\ At(p).phase = p
  BY AtParts DEF Phases
<1>2. /\ ~At(p).walk /\ At(p).home = Gone /\ At(p).homeText = Gone /\ At(p).owed = {}
      /\ At(p).paths = <<>> /\ At(p).plan = {} /\ At(p).again = {}
  BY DEF At
<1>3. Shape(At(p))
  BY <1>1, <1>2 DEF Shape, Busy, Reading, Removing
<1> QED BY <1>1, <1>3

(* A dispatch that ends leaves a worker that has more to do, or none. *)
LEMMA AdvanceShape ==
  ASSUME NEW j \in Jobs, job \in [Jobs -> Worker], NEW failed \in BOOLEAN, Advance(j, failed),
         Shape(job[j]), job[j].home # Gone \/ job[j].paths # <<>>
  PROVE  LET v == job'[j] IN
         /\ job' = [job EXCEPT ![j] = v] /\ v \in Worker /\ Shape(v)
         /\ v.phase \in {"next", "done"} /\ (v.phase = "done" => v = At("done"))
<1> DEFINE w == job[j]
           v == job'[j]
<1>1. /\ w \in Worker /\ w.paths # <<>> /\ w.paths \in Seq(Files)
      /\ (w.walk => Range(w.paths) \subseteq w.plan /\ w.again \subseteq w.plan)
  BY DEF Shape, Worker
<1>2. /\ Range(w.paths) = {Head(w.paths)} \cup Range(Tail(w.paths))
      /\ Len(w.paths) # 1 => Tail(w.paths) # <<>>
  BY <1>1, HeadAndTail
<1>3. job' = [job EXCEPT ![j] = v] /\ v \in Worker
  BY <1>1, AdvanceParts
<1>4. CASE ~w.walk /\ Len(w.paths) = 1
  <2>1. v = At("done")
    BY <1>1, <1>4, AdvanceParts
  <2> HIDE DEF v
  <2>2. Shape(At("done")) /\ At("done").phase = "done"
    BY AtShape
  <2>3. Shape(v) /\ v.phase = "done"
    BY <2>1, <2>2
  <2> QED BY <1>3, <2>1, <2>3 DEF v
<1>5. CASE w.walk \/ Len(w.paths) # 1
  <2>1. /\ v.phase = "next" /\ v.walk = w.walk /\ v.paths = Tail(w.paths) /\ v.plan = w.plan
        /\ v.again = (IF failed /\ w.walk THEN w.again \cup {Head(w.paths)} ELSE w.again)
        /\ v.home = Gone /\ v.homeText = Gone /\ v.owed = {}
    BY <1>1, <1>5, AdvanceParts
  <2>2. Shape(v)
    BY <1>1, <1>2, <1>5, <2>1 DEF Shape, Busy, Reading, Removing
  <2> QED BY <1>3, <2>1, <2>2
<1> QED BY <1>4, <1>5

-------------------------------------------------------------------------------

(* The file is read. *)
LEMMA OpenStep == ASSUME ReindexInv, NEW j \in Jobs, Open(j) PROVE ReindexInv'
<1> DEFINE w == job[j]
           f == Head(w.paths)
           phase == IF disk[f] = Gone THEN "orphans" ELSE IF w.force THEN "reset" ELSE "lookup"
<1>1. /\ w \in Worker /\ Shape(w) /\ w.phase = "next" /\ w.paths # <<>> /\ w.paths \in Seq(Files)
      /\ w.home = Gone /\ w.owed = {} /\ Gone \notin Files /\ ReindexTypeOK
      /\ job \in [Jobs -> Worker]
  BY WorkerKnown DEF Open, Shape, Busy, Reading, Removing
<1>2. f \in Files /\ disk[f] \in Content \cup {Gone} /\ disk[f] \in Versions[f]
  BY <1>1, HeadAndTail DEF ReindexInv, Sane, ReindexTypeOK, DiskInv
<1>3. PICK v : v = [w EXCEPT !.home = f, !.homeText = disk[f], !.file = f, !.text = disk[f],
                             !.phase = phase]
  OBVIOUS
<1>4. job' = [job EXCEPT ![j] = v]
  BY <1>3 DEF Open, Set
<1>5. UNCHANGED <<treeVars, graphRows, troubles, void>>
  BY DEF Open
<1>6. phase \in {"orphans", "reset", "lookup"}
  OBVIOUS
<1>7. v \in Worker
  <2> DEFINE half == [w EXCEPT !.home = f, !.homeText = disk[f], !.file = f]
  <2> HIDE DEF w, f, phase
  <2>1. half \in Worker
    BY <1>1, <1>2 DEF Worker
  <2>2. [half EXCEPT !.text = disk[f], !.phase = phase] \in Worker
    <3> HIDE DEF half
    <3> QED BY <1>2, <1>6, <2>1 DEF Worker, Phases
  <2>3. v = [half EXCEPT !.text = disk[f], !.phase = phase]
    BY <1>3
  <2> QED BY <2>2, <2>3
<1>8. /\ v.home = f /\ v.homeText = disk[f] /\ v.file = f /\ v.text = disk[f] /\ v.phase = phase
      /\ SameTask(w, v) /\ v.owed = w.owed
  <2> HIDE DEF w, f, phase
  <2> QED BY <1>1, <1>3 DEF Worker, SameTask
<1>9. Shape(v)
  <2> HIDE DEF w
  <2> QED BY <1>1, <1>2, <1>8 DEF Shape, SameTask, Busy, Reading, Removing
<1>10. Active(j)
  BY <1>1 DEF Active
<1>11. Aside /\ SameRows => Keeps(w, v)
  BY <1>1, <1>7, <1>8, OpenGood
<1>12. v.phase \in {"orphans", "reset", "lookup"}
  BY <1>6, <1>8
<1> QED BY <1>4, <1>5, <1>7, <1>9, <1>10, <1>11, <1>12, QuietStep


(* The end of a dispatch: the row of the file says what is in the graph,   *)
(* or is in error, or is gone with the nodes.                              *)
LEMMA EndStep ==
  ASSUME ReindexInv, NEW j \in Jobs, NEW failed \in BOOLEAN, Advance(j, failed),
         NEW w, w = job[j],
         w.phase \in {"lookup", "refresh", "error"}, w.home # Gone, w.owed = {},
         w.phase # "refresh" => w.file = w.home,
         UNCHANGED <<treeVars, nodes, edges, troubles, void>>,
         index' \in [Files -> [text : Content, ok : BOOLEAN] \cup {NoRow}],
         \A f \in Files \ {w.home} : index'[f] = index[f],
         index'[w.home] = NoRow /\ NodeGood(w) => Has(w.home, {}),
         w.phase = "lookup" => index[w.home] # NoRow,
         Aside /\ NodeGood(w) /\ GraphGood(w) =>
           /\ (~Loose(w, w.home) /\ w.phase = "lookup")
                \/ w.phase # "lookup" => Sound(w.home)'
           /\ disk[w.home] # Gone =>
                \/ Waiting(w.home)
                \/ index'[w.home] # NoRow
                     /\ (~index'[w.home].ok \/ index'[w.home].text = disk[w.home])
           /\ disk[w.home] = Gone => index'[w.home] = NoRow /\ Calls(w.home, {})
  PROVE  ReindexInv'
<1>1. w = job[j]
  OBVIOUS
<1>2. PICK v : v = job'[j]
  OBVIOUS
<1>3. /\ w \in Worker /\ Shape(w) /\ job \in [Jobs -> Worker] /\ Gone \notin Files
      /\ ReindexTypeOK /\ BoundInv /\ SelfInv
  BY <1>1, WorkerKnown
<1>4. /\ job' = [job EXCEPT ![j] = v] /\ v \in Worker /\ Shape(v)
      /\ v.phase \in {"next", "done"} /\ (v.phase = "done" => v = At("done"))
  BY <1>1, <1>2, <1>3, AdvanceShape
<1>5. Ends(w, v)
  BY <1>1, <1>2, <1>3, AdvanceEnds
<1>6. /\ disk' = disk /\ marker' = marker /\ sentinel' = sentinel /\ nodes' = nodes
      /\ edges' = edges /\ troubles' = troubles /\ void' = void
  BY DEF treeVars
<1>7. /\ \A f \in Files, s \in Symbol : (Linked(f, s)' <=> Linked(f, s)) /\ (Stub(f, s)' <=> Stub(f, s))
      /\ \A f, S : Calls(f, S)' <=> Calls(f, S)
  BY <1>6 DEF Linked, Stub, Calls
<1>8. w.home \in Files
  BY <1>1, <1>3 DEF Worker
<1>9. ASSUME Aside, NodeGood(w), GraphGood(w)
      PROVE  (~Loose(v, w.home) => Sound(w.home)') /\ Covered(v, w.home)'
  <2>1. ~Loose(v, w.home) => Sound(w.home)'
    <3>1. w.phase = "lookup" => (Loose(w, w.home) => Loose(v, w.home))
      BY <1>3, <1>5 DEF Loose, Ends, Unlisted, Shape, Busy, Reading, Removing
    <3> QED BY <1>1, <1>9, <3>1
  <2>2. Covered(v, w.home)'
    <3>1. disk[w.home] = Gone => Current(v, w.home)'
      BY <1>1, <1>6, <1>7, <1>9 DEF Current
    <3>2. disk[w.home] # Gone => \/ Waiting(w.home)
                                 \/ index'[w.home] # NoRow /\ ~index'[w.home].ok
                                 \/ Current(v, w.home)'
      BY <1>1, <1>6, <1>9 DEF Current
    <3> QED BY <1>6, <1>8, <1>9, <3>1, <3>2 DEF Covered, Aside
  <2> QED BY <2>1, <2>2
<1>10. Aside => Keeps(w, v)
  BY <1>1, <1>3, <1>4, <1>5, <1>6, <1>9, EndGood
<1>11. BoundInv' /\ SelfInv'
  BY <1>3, <1>6, <1>7 DEF BoundInv, SelfInv
<1>12. Active(j)
  BY DEF Active
<1>13. /\ nodes' \subseteq Symbol /\ edges' \subseteq Edge /\ sentinel' \in BOOLEAN
       /\ troubles' \in 0..MaxTroubles /\ void' \subseteq {"overlap", "refresh", "trouble"}
  BY <1>3, <1>6 DEF ReindexTypeOK
<1> QED BY <1>1, <1>4, <1>6, <1>10, <1>11, <1>12, <1>13, WorkStep


(* _lookup_cache: the row says the graph is up to date, or the file is     *)
(* indexed.                                                                *)
LEMMA LookupStep == ASSUME ReindexInv, NEW j \in Jobs, Lookup(j) PROVE ReindexInv'
<1> USE DEF Busy, Reading, Removing
<1>1. PICK w : w = job[j]
  OBVIOUS
<1>2. /\ w \in Worker /\ Shape(w) /\ job \in [Jobs -> Worker] /\ Gone \notin Files
      /\ ReindexTypeOK /\ w.phase = "lookup" /\ w.file = w.home /\ w.home # Gone
      /\ w.owed = {} /\ w.text \in Content /\ w.text = w.homeText /\ w.home \in Files
  <2>1. /\ w \in Worker /\ Shape(w) /\ job \in [Jobs -> Worker] /\ Gone \notin Files
        /\ ReindexTypeOK /\ w.phase = "lookup"
    BY <1>1, WorkerKnown DEF Lookup
  <2> QED BY <2>1, InHand DEF Shape
<1>3. UNCHANGED <<treeVars, nodes, edges, troubles, void>> /\ index' = index
  BY DEF Lookup, graphRows
<1>4. CASE index[w.file] = [text |-> w.text, ok |-> TRUE]
  <2>1. index[w.file] # NoRow /\ index[w.file].text = w.text
    <3>1. [text |-> w.text, ok |-> TRUE] # NoRow
      BY <1>2, RowIsRow
    <3> QED BY <1>4, <3>1
  <2>2. Advance(j, FALSE)
    BY <1>1, <1>4 DEF Lookup
  <2>3. ASSUME Aside, NodeGood(w), GraphGood(w)
        PROVE  /\ (~Loose(w, w.home) /\ w.phase = "lookup") \/ w.phase # "lookup" => Sound(w.home)'
               /\ disk[w.home] # Gone =>
                    \/ Waiting(w.home)
                    \/ index'[w.home] # NoRow
                         /\ (~index'[w.home].ok \/ index'[w.home].text = disk[w.home])
               /\ disk[w.home] = Gone => index'[w.home] = NoRow /\ Calls(w.home, {})
    <3>1. Sound(w.home) => Sound(w.home)'
      BY <1>3 DEF Sound, Has, Calls, Linked, Stub
    <3>2. Read(w.home, w.homeText)
      BY <1>2, <2>3 DEF GraphGood, CoverInv
    <3>3. ~Loose(w, w.home) => Sound(w.home)
      BY <1>2, <2>3 DEF GraphGood, SoundInv
    <3>4. Gone \notin Content
      BY ReindexAssumption
    <3> QED BY <1>2, <1>3, <2>1, <3>1, <3>2, <3>3, <3>4 DEF Read
  <2>4. index'[w.home] # NoRow /\ FALSE \in BOOLEAN
    BY <1>2, <1>3, <2>1
  <2>5. index' \in [Files -> [text : Content, ok : BOOLEAN] \cup {NoRow}]
    BY <1>2, <1>3 DEF ReindexTypeOK
  <2> QED BY <1>1, <1>2, <1>3, <2>1, <2>2, <2>3, <2>4, <2>5, EndStep
<1>5. CASE index[w.file] # [text |-> w.text, ok |-> TRUE]
  <2>1. PICK v : v = [w EXCEPT !.phase = "reset"]
    OBVIOUS
  <2>2. job' = [job EXCEPT ![j] = v]
    <3>1. job' = [job EXCEPT ![j].phase = "reset"]
      BY <1>1, <1>5 DEF Lookup, Goto
    <3> QED BY <1>1, <1>2, <2>1, <3>1
  <2>3. v \in Worker /\ v.phase = "reset" /\ SameTask(w, v) /\ SameHome(w, v) /\ SameFile(w, v)
        /\ v.owed = w.owed
    BY <1>2, <2>1, GotoParts DEF Phases
  <2>4. Shape(v)
    BY <1>2, <2>3 DEF Shape, SameTask, SameHome, SameFile
  <2>5. Aside /\ SameRows => Keeps(w, v)
    BY <1>2, <2>3, HandGood
  <2>6. Active(j) /\ UNCHANGED <<treeVars, graphRows, troubles, void>>
    BY <1>1, <1>2 DEF Active, Lookup
  <2> QED BY <1>1, <2>2, <2>3, <2>4, <2>5, <2>6, QuietStep
<1> QED BY <1>4, <1>5

(* delete_edges_from_file *)
LEMMA ResetStep == ASSUME ReindexInv, NEW j \in Jobs, Reset(j) PROVE ReindexInv'
<1> USE DEF Busy, Reading, Removing
<1>1. PICK w : w = job[j]
  OBVIOUS
<1>2. /\ w \in Worker /\ Shape(w) /\ job \in [Jobs -> Worker]
      /\ ReindexTypeOK /\ BoundInv /\ SelfInv /\ w.phase = "reset"
  BY <1>1, WorkerKnown DEF Reset
<1>3. PICK v : v = [w EXCEPT !.phase = "upsert", !.known = NamesOf(w.file)]
  OBVIOUS
<1>4. job' = [job EXCEPT ![j] = v]
  BY <1>1, <1>3 DEF Reset, Set
<1>5. /\ v \in Worker /\ v.phase = "upsert" /\ SameTask(w, v) /\ SameHome(w, v)
      /\ v.file = w.file /\ v.text = w.text /\ v.owed = w.owed /\ v.known = NamesOf(w.file)
  <2>1. NamesOf(w.file) \in SUBSET Names
    BY DEF NamesOf
  <2> QED BY <1>2, <1>3, <2>1 DEF Worker, Phases, SameTask, SameHome
<1>6. Shape(v)
  BY <1>2, <1>5 DEF Shape, SameTask, SameHome
<1>7. /\ edges' = {e \in edges : e.from # w.file} /\ nodes' = nodes /\ index' = index
      /\ disk' = disk /\ marker' = marker /\ sentinel' = sentinel /\ troubles' = troubles
      /\ void' = void
  BY <1>1 DEF Reset, treeVars
<1>8. Aside => Keeps(w, v)
  BY <1>2, <1>5, <1>7, ResetGood
<1>9. BoundInv' /\ SelfInv'
  <2>1. \A f \in Files, s \in Symbol : (Linked(f, s)' => Linked(f, s)) /\ (Stub(f, s)' => Stub(f, s))
    BY <1>7, ResetEdges
  <2> QED BY <1>2, <1>7, <2>1 DEF BoundInv, SelfInv
<1>10. /\ nodes' \subseteq Symbol /\ edges' \subseteq Edge /\ sentinel' \in BOOLEAN
       /\ troubles' \in 0..MaxTroubles /\ void' \subseteq {"overlap", "refresh", "trouble"}
       /\ index' \in [Files -> [text : Content, ok : BOOLEAN] \cup {NoRow}] /\ Active(j)
  BY <1>1, <1>2, <1>7 DEF ReindexTypeOK, Active
<1> QED BY <1>1, <1>4, <1>5, <1>6, <1>7, <1>8, <1>9, <1>10, WorkStep

(* bulk_upsert *)
LEMMA UpsertStep == ASSUME ReindexInv, NEW j \in Jobs, Upsert(j) PROVE ReindexInv'
<1> USE DEF Busy, Reading, Removing
<1>1. PICK w : w = job[j]
  OBVIOUS
<1>2. /\ w \in Worker /\ Shape(w) /\ job \in [Jobs -> Worker]
      /\ ReindexTypeOK /\ BoundInv /\ SelfInv /\ w.phase = "upsert"
  BY <1>1, WorkerKnown DEF Upsert
<1>3. PICK v : v = [w EXCEPT !.phase = "census"]
  OBVIOUS
<1>4. job' = [job EXCEPT ![j] = v]
  <2>1. job' = [job EXCEPT ![j].phase = "census"]
    BY DEF Upsert, Goto
  <2> QED BY <1>1, <1>2, <1>3, <2>1
<1>5. /\ v \in Worker /\ v.phase = "census" /\ SameTask(w, v) /\ SameHome(w, v) /\ SameFile(w, v)
      /\ v.owed = w.owed
  BY <1>2, <1>3, GotoParts DEF Phases
<1>6. Shape(v)
  BY <1>2, <1>5 DEF Shape, SameTask, SameHome, SameFile
<1>7. /\ nodes' = nodes \cup {<<w.file, n>> : n \in w.text.defs}
      /\ edges' = edges \cup {[from |-> w.file, to |-> s, bound |-> FALSE] : s \in w.text.calls}
      /\ index' = index /\ disk' = disk /\ marker' = marker /\ sentinel' = sentinel
      /\ troubles' = troubles /\ void' = void
  BY <1>1 DEF Upsert, treeVars
<1>8. Aside => Keeps(w, v)
  BY <1>2, <1>5, <1>7, UpsertGood
<1>9. /\ w.file \in Files /\ w.text \in Content /\ w.text.calls \in SUBSET Symbol
      /\ \A s \in w.text.calls : s[1] # w.file
  BY <1>2, InHand
<1>10. BoundInv' /\ SelfInv'
  <2>1. \A f \in Files, s \in Symbol :
          /\ Linked(f, s)' <=> Linked(f, s)
          /\ Stub(f, s)' <=> (Stub(f, s) \/ (f = w.file /\ s \in w.text.calls))
    BY <1>7, <1>9 DEF Linked, Stub
  <2> QED BY <1>2, <1>7, <1>9, <2>1 DEF BoundInv, SelfInv
<1>11. nodes' \subseteq Symbol /\ edges' \subseteq Edge
  <2>1. nodes' \subseteq Symbol
    BY <1>2, <1>7, <1>9 DEF ReindexTypeOK, Symbol, Content
  <2>2. \A s \in w.text.calls : [from |-> w.file, to |-> s, bound |-> FALSE] \in Edge
    BY <1>9 DEF Edge
  <2> QED BY <1>2, <1>7, <2>1, <2>2 DEF ReindexTypeOK
<1>12. /\ sentinel' \in BOOLEAN
       /\ troubles' \in 0..MaxTroubles /\ void' \subseteq {"overlap", "refresh", "trouble"}
       /\ index' \in [Files -> [text : Content, ok : BOOLEAN] \cup {NoRow}] /\ Active(j)
  BY <1>1, <1>2, <1>7 DEF ReindexTypeOK, Active
<1> QED BY <1>1, <1>4, <1>5, <1>6, <1>7, <1>8, <1>10, <1>11, <1>12, WorkStep


(* files_depending_on *)
LEMMA CensusStep == ASSUME ReindexInv, NEW j \in Jobs, Census(j) PROVE ReindexInv'
<1> USE DEF Busy, Reading, Removing
<1>1. PICK w : w = job[j]
  OBVIOUS
<1>2. /\ w \in Worker /\ Shape(w) /\ job \in [Jobs -> Worker] /\ ReindexTypeOK
      /\ w.phase = "census" /\ w.owed \in SUBSET Files
  BY <1>1, WorkerKnown DEF Census
<1> DEFINE lost == Dependents(Outdated(w.file, w.text), w.file)
<1>3. lost \subseteq Files \ {w.file}
  <2>1. Outdated(w.file, w.text) \in SUBSET Symbol /\ edges \subseteq Edge
    BY <1>2 DEF Outdated, ReindexTypeOK
  <2> QED BY <2>1, DependentOf
<1>4. PICK v : v = [w EXCEPT !.phase = "prune", !.owed = IF w.file = w.home THEN lost ELSE w.owed]
  OBVIOUS
<1>5. job' = [job EXCEPT ![j] = v]
  BY <1>1, <1>4 DEF Census, Set, Home
<1> HIDE DEF lost
<1>6. /\ v \in Worker /\ v.phase = "prune" /\ SameTask(w, v) /\ SameHome(w, v) /\ SameFile(w, v)
      /\ v.owed = IF w.file = w.home THEN lost ELSE w.owed
  <2>1. (IF w.file = w.home THEN lost ELSE w.owed) \in SUBSET Files
    BY <1>2, <1>3
  <2> QED BY <1>2, <1>4, <2>1 DEF Worker, Phases, SameTask, SameHome, SameFile
<1>7. Shape(v)
  BY <1>2, <1>3, <1>6 DEF Shape, SameTask, SameHome, SameFile
<1>8. Aside /\ SameRows => Keeps(w, v)
  <2>1. w.owed \subseteq v.owed /\ (w.file = w.home => v.owed = lost)
    BY <1>2, <1>6 DEF Shape
  <2> QED BY <1>2, <1>6, <2>1, CensusGood DEF lost
<1>9. Active(j) /\ UNCHANGED <<treeVars, graphRows, troubles, void>>
  BY <1>1, <1>2 DEF Active, Census
<1> QED BY <1>1, <1>5, <1>6, <1>7, <1>8, <1>9, QuietStep

(* Deleting keeps the graph a graph. *)
LEMMA DeleteRows ==
  ASSUME ReindexTypeOK, BoundInv, SelfInv, NEW symbols, NEW sources, Delete(symbols, sources)
  PROVE  nodes' \subseteq Symbol /\ edges' \subseteq Edge /\ BoundInv' /\ SelfInv'
<1>1. nodes' \subseteq Symbol /\ edges' \subseteq Edge
  BY DEF Delete, ReindexTypeOK
<1>2. BoundInv' /\ SelfInv'
  BY DeleteEdges DEF BoundInv, SelfInv
<1> QED BY <1>1, <1>2

(* So does binding. *)
LEMMA BindRows ==
  ASSUME ReindexTypeOK, BoundInv, SelfInv, NEW sources \in SUBSET Files, edges' = BoundFor(sources),
         nodes' = nodes
  PROVE  nodes' \subseteq Symbol /\ edges' \subseteq Edge /\ BoundInv' /\ SelfInv'
<1>1. nodes' \subseteq Symbol /\ edges' \subseteq Edge
  BY BindEdges DEF ReindexTypeOK
<1>2. \A f \in Files, s \in Symbol :
        /\ Linked(f, s)' => Linked(f, s) \/ (Stub(f, s) /\ s \in nodes)
        /\ Stub(f, s)' => Stub(f, s)
  BY BindEdges DEF ReindexTypeOK
<1> QED BY <1>1, <1>2 DEF BoundInv, SelfInv

(* delete_nodes_for_file with keep_uids *)
LEMMA PruneStep == ASSUME ReindexInv, NEW j \in Jobs, Prune(j) PROVE ReindexInv'
<1> USE DEF Busy, Reading, Removing
<1>1. PICK w : w = job[j]
  OBVIOUS
<1>2. /\ w \in Worker /\ Shape(w) /\ job \in [Jobs -> Worker] /\ ReindexTypeOK /\ BoundInv /\ SelfInv
      /\ w.phase = "prune" /\ w.walk \in BOOLEAN
  BY <1>1, WorkerKnown DEF Prune
<1> DEFINE next == IF ~w.walk THEN "link" ELSE IF w.file = w.home THEN "refresh" ELSE "record"
<1>3. PICK v : v = [w EXCEPT !.phase = next]
  OBVIOUS
<1>4. job' = [job EXCEPT ![j] = v]
  <2>1. Pruned(j) = next
    BY <1>1 DEF Pruned, Settled, Home
  <2>2. job' = [job EXCEPT ![j].phase = next]
    BY <2>1 DEF Prune, Goto
  <2> QED BY <1>1, <1>2, <1>3, <2>2
<1>5. /\ v \in Worker /\ v.phase = next /\ SameTask(w, v) /\ SameHome(w, v) /\ SameFile(w, v)
      /\ v.owed = w.owed
  <2>1. next \in Phases
    BY DEF Phases
  <2> HIDE DEF next
  <2> QED BY <1>2, <1>3, <2>1, GotoParts
<1>6. Shape(v)
  BY <1>2, <1>5 DEF Shape, SameTask, SameHome, SameFile
<1>7. /\ Delete(Outdated(w.file, w.text), {})
      /\ index' = index /\ disk' = disk /\ marker' = marker /\ sentinel' = sentinel
      /\ troubles' = troubles
      /\ IF w.file = w.home \/ Dependents(Outdated(w.file, w.text), w.file) = {}
           THEN void' = void ELSE void' = void \cup {"refresh"}
  BY <1>1 DEF Prune, treeVars, Home, Voids
<1>8. nodes' \subseteq Symbol /\ edges' \subseteq Edge /\ BoundInv' /\ SelfInv'
  BY <1>2, <1>7, DeleteRows
<1>9. /\ sentinel' \in BOOLEAN
      /\ troubles' \in 0..MaxTroubles /\ void' \subseteq {"overlap", "refresh", "trouble"}
      /\ index' \in [Files -> [text : Content, ok : BOOLEAN] \cup {NoRow}] /\ Active(j)
      /\ void' = {} => void = {}
  BY <1>1, <1>2, <1>7 DEF ReindexTypeOK, Active
<1>10. Aside /\ void' = {} => Keeps(w, v)
  <2>1. void' = {} /\ w.file # w.home => Dependents(Outdated(w.file, w.text), w.file) = {}
    BY <1>7
  <2> QED BY <1>2, <1>5, <1>7, <2>1, PruneGood
<1>11. v.phase \in {"link", "refresh", "record"}
  BY <1>5
<1> QED BY <1>1, <1>4, <1>5, <1>6, <1>7, <1>8, <1>9, <1>10, <1>11, WorkStep

(* link_cross_file, link_callers_of *)
LEMMA LinkStep == ASSUME ReindexInv, NEW j \in Jobs, Link(j) PROVE ReindexInv'
<1> USE DEF Busy, Reading, Removing
<1>1. PICK w : w = job[j]
  OBVIOUS
<1>2. /\ w \in Worker /\ Shape(w) /\ job \in [Jobs -> Worker] /\ ReindexTypeOK /\ BoundInv /\ SelfInv
      /\ w.phase = "link"
  BY <1>1, WorkerKnown DEF Link
<1>3. w.file \in Files
  BY <1>2, InHand
<1> DEFINE next == IF w.file = w.home THEN "refresh" ELSE "record"
           gained == w.text.defs \ w.known
           callers == {e.from : e \in {x \in edges : ~x.bound /\ x.to[2] \in gained}}
<1>4. PICK v : v = [w EXCEPT !.phase = next]
  OBVIOUS
<1>5. job' = [job EXCEPT ![j] = v]
  <2>1. Settled(j) = next
    BY <1>1 DEF Settled, Home
  <2>2. job' = [job EXCEPT ![j].phase = next]
    BY <2>1 DEF Link, Goto
  <2> QED BY <1>1, <1>2, <1>4, <2>2
<1>6. /\ v \in Worker /\ v.phase = next /\ SameTask(w, v) /\ SameHome(w, v) /\ SameFile(w, v)
      /\ v.owed = w.owed
  <2>1. next \in Phases
    BY DEF Phases
  <2> HIDE DEF next
  <2> QED BY <1>2, <1>4, <2>1, GotoParts
<1>7. Shape(v)
  BY <1>2, <1>6 DEF Shape, SameTask, SameHome, SameFile
<1>8. /\ edges' = BoundFor({w.file} \cup callers) /\ nodes' = nodes
      /\ index' = index /\ disk' = disk /\ marker' = marker /\ sentinel' = sentinel
      /\ troubles' = troubles /\ void' = void
  BY <1>1 DEF Link, treeVars
<1>9. callers \in SUBSET Files
  BY <1>2 DEF ReindexTypeOK, Edge
<1>10. \A f \in Files, s \in Symbol : Stub(f, s) /\ s[2] \in gained => f \in callers
  <2> SUFFICES ASSUME NEW f \in Files, NEW s \in Symbol, Stub(f, s), s[2] \in gained
               PROVE  f \in callers
    OBVIOUS
  <2> DEFINE e == [from |-> f, to |-> s, bound |-> FALSE]
  <2>1. e \in edges /\ e.from = f /\ e.to = s /\ ~e.bound
    BY DEF Stub
  <2> HIDE DEF e, gained
  <2> QED BY <2>1
<1>11. Aside => Keeps(w, v)
  <2> HIDE DEF callers
  <2> QED BY <1>2, <1>6, <1>8, <1>9, <1>10, LinkGood
<1>12. nodes' \subseteq Symbol /\ edges' \subseteq Edge /\ BoundInv' /\ SelfInv'
  <2>1. {w.file} \cup callers \in SUBSET Files
    BY <1>3, <1>9
  <2> HIDE DEF callers
  <2> QED BY <1>2, <1>8, <2>1, BindRows
<1>13. /\ sentinel' \in BOOLEAN
       /\ troubles' \in 0..MaxTroubles /\ void' \subseteq {"overlap", "refresh", "trouble"}
       /\ index' \in [Files -> [text : Content, ok : BOOLEAN] \cup {NoRow}] /\ Active(j)
  BY <1>1, <1>2, <1>8 DEF ReindexTypeOK, Active
<1>14. v.phase \in {"refresh", "record"}
  BY <1>6
<1> QED BY <1>1, <1>5, <1>6, <1>7, <1>8, <1>11, <1>12, <1>13, <1>14, WorkStep


(* _refresh takes the next dependent, or skips one that is gone. *)
LEMMA RefreshStep == ASSUME ReindexInv, NEW j \in Jobs, Refresh(j) PROVE ReindexInv'
<1> USE DEF Busy, Reading, Removing
<1>1. PICK w : w = job[j]
  OBVIOUS
<1>2. /\ w \in Worker /\ Shape(w) /\ job \in [Jobs -> Worker] /\ ReindexTypeOK /\ DiskInv
      /\ Gone \notin Files /\ w.phase = "refresh" /\ w.owed # {} /\ w.owed \in SUBSET Files
  BY <1>1, WorkerKnown DEF Refresh
<1>3. PICK d : d = CHOOSE f \in w.owed : TRUE
  OBVIOUS
<1>4. d \in w.owed /\ d \in Files /\ d # w.home
  <2>1. d \in w.owed
    BY <1>2, <1>3
  <2> QED BY <1>2, <2>1 DEF Shape
<1>5. Active(j) /\ UNCHANGED <<treeVars, graphRows, troubles, void>>
  BY <1>1, <1>2 DEF Active, Refresh
<1>6. CASE disk[d] = Gone
  <2>1. PICK v : v = [w EXCEPT !.owed = w.owed \ {d}]
    OBVIOUS
  <2>2. job' = [job EXCEPT ![j] = v]
    BY <1>1, <1>3, <1>6, <2>1 DEF Refresh, Set
  <2>3. /\ v \in Worker /\ v.phase = "refresh" /\ SameTask(w, v) /\ SameHome(w, v) /\ SameFile(w, v)
        /\ v.owed = w.owed \ {d}
    BY <1>2, <2>1 DEF Worker, SameTask, SameHome, SameFile
  <2>4. Shape(v)
    BY <1>2, <2>3 DEF Shape, SameTask, SameHome, SameFile
  <2>5. Aside /\ SameRows => Keeps(w, v)
    BY <1>2, <1>4, <1>6, <2>3, SkipGood
  <2> QED BY <1>1, <1>5, <2>2, <2>3, <2>4, <2>5, QuietStep
<1>7. CASE disk[d] # Gone
  <2>1. PICK v : v = [w EXCEPT !.phase = "reset", !.file = d, !.text = disk[d],
                               !.owed = w.owed \ {d}]
    OBVIOUS
  <2>2. job' = [job EXCEPT ![j] = v]
    BY <1>1, <1>3, <1>7, <2>1 DEF Refresh, Set
  <2>3. disk[d] \in Content \cup {Gone} /\ disk[d] \in Versions[d]
    BY <1>2, <1>4 DEF ReindexTypeOK, DiskInv
  <2>4. /\ v \in Worker /\ v.phase = "reset" /\ SameTask(w, v) /\ SameHome(w, v)
        /\ v.file = d /\ v.text = disk[d] /\ v.owed = w.owed \ {d}
    BY <1>2, <1>4, <2>1, <2>3 DEF Worker, Phases, SameTask, SameHome
  <2>5. Shape(v)
    BY <1>2, <1>4, <1>7, <2>3, <2>4 DEF Shape, SameTask, SameHome
  <2>6. Aside /\ SameRows => Keeps(w, v)
    BY <1>2, <1>4, <2>4, RefreshGood
  <2> QED BY <1>1, <1>5, <2>2, <2>4, <2>5, <2>6, QuietStep
<1> QED BY <1>6, <1>7

(* A row that is written is a row. *)
LEMMA StoreRow ==
  ASSUME ReindexTypeOK, NEW f \in Files, NEW text \in Content, NEW ok \in BOOLEAN,
         index' = [index EXCEPT ![f] = [text |-> text, ok |-> ok]]
  PROVE  /\ index' \in [Files -> [text : Content, ok : BOOLEAN] \cup {NoRow}]
         /\ index'[f] # NoRow /\ index'[f].text = text /\ index'[f].ok = ok
         /\ \A g \in Files \ {f} : index'[g] = index[g]
<1> DEFINE row == [text |-> text, ok |-> ok]
<1>1. row \in [text : Content, ok : BOOLEAN] /\ row # NoRow
  BY RowIsRow
<1>2. row.text = text /\ row.ok = ok
  OBVIOUS
<1>3. index' = [index EXCEPT ![f] = row]
  OBVIOUS
<1> HIDE DEF row
<1> QED BY <1>1, <1>2, <1>3 DEF ReindexTypeOK

(* The rows: a dependent's at once, that of the file dispatched when its   *)
(* dependents are done.                                                    *)
LEMMA RecordStep == ASSUME ReindexInv, NEW j \in Jobs, Record(j) PROVE ReindexInv'
<1> USE DEF Busy, Reading, Removing
<1>1. PICK w : w = job[j]
  OBVIOUS
<1>2. /\ w \in Worker /\ Shape(w) /\ job \in [Jobs -> Worker] /\ ReindexTypeOK /\ BoundInv /\ SelfInv
      /\ Gone \notin Files /\ Gone \notin Content
  BY <1>1, WorkerKnown, ReindexAssumption
<1>3. /\ UNCHANGED <<treeVars, nodes, edges, troubles, void>>
      /\ disk' = disk /\ marker' = marker /\ sentinel' = sentinel /\ nodes' = nodes
      /\ edges' = edges /\ troubles' = troubles /\ void' = void
  BY DEF Record, treeVars
<1>4. CASE w.phase = "record" /\ Store(w.file, w.text) /\ Goto(j, "refresh")
  <2>1. PICK v : v = [w EXCEPT !.phase = "refresh"]
    OBVIOUS
  <2>2. job' = [job EXCEPT ![j] = v]
    BY <1>1, <1>2, <1>4, <2>1 DEF Goto
  <2>3. v \in Worker /\ v.phase = "refresh" /\ SameTask(w, v) /\ SameHome(w, v) /\ SameFile(w, v)
        /\ v.owed = w.owed
    BY <1>2, <2>1, GotoParts DEF Phases
  <2>4. Shape(v)
    BY <1>2, <1>4, <2>3 DEF Shape, SameTask, SameHome, SameFile
  <2>5. w.file \in Files /\ w.text \in Content
    BY <1>2, <1>4, InHand
  <2>6. index' = [index EXCEPT ![w.file] = [text |-> w.text, ok |-> TRUE]]
    BY <1>4 DEF Store
  <2>7. index' \in [Files -> [text : Content, ok : BOOLEAN] \cup {NoRow}]
    BY <1>2, <2>5, <2>6, StoreRow
  <2>8. Aside => Keeps(w, v)
    BY <1>2, <1>3, <1>4, <2>3, <2>6, RecordGood
  <2>9. BoundInv' /\ SelfInv'
    BY <1>2, <1>3 DEF BoundInv, SelfInv, Linked, Stub
  <2>10. /\ nodes' \subseteq Symbol /\ edges' \subseteq Edge /\ sentinel' \in BOOLEAN
         /\ troubles' \in 0..MaxTroubles /\ void' \subseteq {"overlap", "refresh", "trouble"}
         /\ Active(j)
    BY <1>1, <1>2, <1>3, <1>4 DEF ReindexTypeOK, Active
  <2> QED BY <1>1, <1>3, <2>2, <2>3, <2>4, <2>7, <2>8, <2>9, <2>10, WorkStep
<1>5. CASE /\ w.phase = "refresh" /\ w.owed = {} /\ w.homeText # Gone
           /\ Store(w.home, w.homeText) /\ Advance(j, FALSE)
  <2>1. w.home # Gone /\ w.home \in Files /\ w.homeText \in Content
    BY <1>2, <1>5 DEF Shape, Worker
  <2>2. index' = [index EXCEPT ![w.home] = [text |-> w.homeText, ok |-> TRUE]]
    BY <1>5 DEF Store
  <2>3. /\ index' \in [Files -> [text : Content, ok : BOOLEAN] \cup {NoRow}]
        /\ index'[w.home] # NoRow /\ index'[w.home].text = w.homeText /\ index'[w.home].ok = TRUE
        /\ \A f \in Files \ {w.home} : index'[f] = index[f]
    BY <1>2, <2>1, <2>2, StoreRow
  <2>4. ASSUME NodeGood(w), GraphGood(w)
        PROVE  /\ Sound(w.home)'
               /\ disk[w.home] # Gone =>
                    \/ Waiting(w.home)
                    \/ index'[w.home] # NoRow
                         /\ (~index'[w.home].ok \/ index'[w.home].text = disk[w.home])
               /\ disk[w.home] = Gone => index'[w.home] = NoRow /\ Calls(w.home, {})
    <3>1. Has(w.home, w.homeText.defs) /\ Calls(w.home, w.homeText.calls)
      BY <1>5, <2>1, <2>4 DEF NodeGood, GraphGood, DoneNames, DoneCalls, HomeDone
    <3>2. Sound(w.home)'
      BY <1>3, <2>3, <3>1 DEF Sound, Has, Calls, Linked, Stub
    <3>3. Read(w.home, w.homeText)
      BY <2>1, <2>4 DEF GraphGood, CoverInv
    <3> QED BY <1>2, <2>1, <2>3, <3>2, <3>3 DEF Read
  <2>5. FALSE \in BOOLEAN
    OBVIOUS
  <2> QED BY <1>1, <1>3, <1>5, <2>1, <2>3, <2>4, <2>5, EndStep
<1> QED BY <1>1, <1>4, <1>5 DEF Record, Refreshed

(* A removal ends without a row. *)
LEMMA RemovedStep == ASSUME ReindexInv, NEW j \in Jobs, Removed(j) PROVE ReindexInv'
<1> USE DEF Busy, Reading, Removing
<1>1. PICK w : w = job[j]
  OBVIOUS
<1>2. /\ w \in Worker /\ Shape(w) /\ ReindexTypeOK /\ Gone \notin Files
      /\ w.phase = "refresh" /\ w.owed = {} /\ w.home # Gone /\ w.homeText = Gone
      /\ Advance(j, FALSE)
  BY <1>1, WorkerKnown DEF Removed, Refreshed
<1>3. UNCHANGED <<treeVars, nodes, edges, troubles, void>> /\ index' = index
  BY DEF Removed, graphRows
<1>4. NodeGood(w) => Has(w.home, {}) /\ index[w.home] = NoRow
  BY <1>2 DEF NodeGood, DoneNames, HomeDone
<1>5. ASSUME NodeGood(w), GraphGood(w)
      PROVE  /\ Sound(w.home)'
             /\ disk[w.home] # Gone =>
                  \/ Waiting(w.home)
                  \/ index'[w.home] # NoRow
                       /\ (~index'[w.home].ok \/ index'[w.home].text = disk[w.home])
             /\ disk[w.home] = Gone => index'[w.home] = NoRow /\ Calls(w.home, {})
  <2>1. Calls(w.home, {})
    BY <1>2, <1>5 DEF GraphGood, DoneCalls, HomeDone
  <2>2. Read(w.home, Gone)
    BY <1>2, <1>5 DEF GraphGood, CoverInv
  <2> QED BY <1>3, <1>4, <1>5, <2>1, <2>2 DEF Read, Sound
<1>6. FALSE \in BOOLEAN /\ index' \in [Files -> [text : Content, ok : BOOLEAN] \cup {NoRow}]
  BY <1>2, <1>3 DEF ReindexTypeOK
<1> QED BY <1>1, <1>2, <1>3, <1>4, <1>5, <1>6, EndStep


(* A failure is in the row. *)
LEMMA RecordErrorStep == ASSUME ReindexInv, NEW j \in Jobs, RecordError(j) PROVE ReindexInv'
<1> USE DEF Busy, Reading, Removing
<1>1. PICK w : w = job[j]
  OBVIOUS
<1>2. /\ w \in Worker /\ Shape(w) /\ job \in [Jobs -> Worker] /\ ReindexTypeOK /\ BoundInv /\ SelfInv
      /\ Gone \notin Files /\ Gone \notin Content /\ w.phase = "error"
  BY <1>1, WorkerKnown, ReindexAssumption DEF RecordError
<1>3. /\ UNCHANGED <<treeVars, nodes, edges, troubles, void>>
      /\ disk' = disk /\ marker' = marker /\ sentinel' = sentinel /\ nodes' = nodes
      /\ edges' = edges /\ troubles' = troubles /\ void' = void
  BY DEF RecordError, treeVars
<1>4. w.file \in Files /\ w.text \in Content
  BY <1>2, InHand
<1> DEFINE text == IF index[w.file] = NoRow THEN w.text ELSE index[w.file].text
<1>5. text \in Content
  BY <1>2, <1>4 DEF ReindexTypeOK
<1>6. index' = [index EXCEPT ![w.file] = [text |-> text, ok |-> FALSE]]
  BY <1>1 DEF RecordError
<1> HIDE DEF text
<1>7. /\ index' \in [Files -> [text : Content, ok : BOOLEAN] \cup {NoRow}]
      /\ index'[w.file] # NoRow /\ index'[w.file].ok = FALSE
      /\ \A f \in Files \ {w.file} : index'[f] = index[f]
  BY <1>2, <1>4, <1>5, <1>6, StoreRow
<1>8. CASE w.file = w.home
  <2>1. w.home # Gone /\ w.owed = {} /\ w.homeText # Gone
    BY <1>2, <1>4, <1>8 DEF Shape
  <2>2. Advance(j, TRUE) /\ TRUE \in BOOLEAN
    BY <1>1, <1>8 DEF RecordError, Home
  <2>3. ASSUME NodeGood(w), GraphGood(w)
        PROVE  /\ Sound(w.home)'
               /\ disk[w.home] # Gone =>
                    \/ Waiting(w.home)
                    \/ index'[w.home] # NoRow
                         /\ (~index'[w.home].ok \/ index'[w.home].text = disk[w.home])
               /\ disk[w.home] = Gone => index'[w.home] = NoRow /\ Calls(w.home, {})
    <3>1. Read(w.home, w.homeText)
      BY <2>1, <2>3 DEF GraphGood, CoverInv
    <3>2. disk[w.home] # Gone
      BY <2>1, <3>1 DEF Read
    <3>3. Sound(w.home)'
      BY <1>7, <1>8 DEF Sound
    <3> QED BY <1>7, <1>8, <3>2, <3>3
  <2> QED BY <1>1, <1>2, <1>3, <1>7, <1>8, <2>1, <2>2, <2>3, EndStep
<1>9. CASE w.file # w.home
  <2>1. PICK v : v = [w EXCEPT !.phase = "refresh"]
    OBVIOUS
  <2>2. job' = [job EXCEPT ![j] = v]
    <3>1. job' = [job EXCEPT ![j].phase = "refresh"]
      BY <1>1, <1>9 DEF RecordError, Home, Goto
    <3> QED BY <1>1, <1>2, <2>1, <3>1
  <2>3. v \in Worker /\ v.phase = "refresh" /\ SameTask(w, v) /\ SameHome(w, v) /\ SameFile(w, v)
        /\ v.owed = w.owed
    BY <1>2, <2>1, GotoParts DEF Phases
  <2>4. Shape(v)
    BY <1>2, <1>9, <2>3 DEF Shape, SameTask, SameHome, SameFile
  <2>5. Aside => Keeps(w, v)
    BY <1>2, <1>3, <1>7, <1>9, <2>3, ErrorGood
  <2>6. BoundInv' /\ SelfInv'
    BY <1>2, <1>3 DEF BoundInv, SelfInv, Linked, Stub
  <2>7. /\ nodes' \subseteq Symbol /\ edges' \subseteq Edge /\ sentinel' \in BOOLEAN
        /\ troubles' \in 0..MaxTroubles /\ void' \subseteq {"overlap", "refresh", "trouble"}
        /\ Active(j)
    BY <1>1, <1>2, <1>3 DEF ReindexTypeOK, Active
  <2> QED BY <1>1, <1>3, <1>7, <2>2, <2>3, <2>4, <2>5, <2>6, <2>7, WorkStep
<1> QED BY <1>8, <1>9

(* files_depending_on, of a file that is gone. *)
LEMMA OrphansStep == ASSUME ReindexInv, NEW j \in Jobs, Orphans(j) PROVE ReindexInv'
<1> USE DEF Busy, Reading, Removing
<1>1. PICK w : w = job[j]
  OBVIOUS
<1>2. /\ w \in Worker /\ Shape(w) /\ job \in [Jobs -> Worker] /\ ReindexTypeOK
      /\ w.phase = "orphans" /\ w.owed = {}
  BY <1>1, WorkerKnown DEF Orphans, Shape
<1> DEFINE lost == Dependents({s \in nodes : s[1] = w.file}, w.file)
<1>3. lost \subseteq Files \ {w.file}
  <2> DEFINE own == {s \in nodes : s[1] = w.file}
  <2>1. own \in SUBSET Symbol /\ edges \subseteq Edge
    BY <1>2 DEF ReindexTypeOK
  <2> HIDE DEF own
  <2>2. Dependents(own, w.file) \subseteq Files \ {w.file}
    BY <2>1, DependentOf
  <2> QED BY <2>2 DEF own
<1>4. PICK v : v = [w EXCEPT !.phase = "uproot", !.owed = lost]
  OBVIOUS
<1>5. job' = [job EXCEPT ![j] = v]
  BY <1>1, <1>4 DEF Orphans, Set
<1> HIDE DEF lost
<1>6. /\ v \in Worker /\ v.phase = "uproot" /\ SameTask(w, v) /\ SameHome(w, v) /\ SameFile(w, v)
      /\ v.owed = lost
  <2>1. lost \in SUBSET Files
    BY <1>3
  <2> QED BY <1>2, <1>4, <2>1 DEF Worker, Phases, SameTask, SameHome, SameFile
<1>7. Shape(v)
  BY <1>2, <1>3, <1>6 DEF Shape, SameTask, SameHome, SameFile
<1>8. Aside /\ SameRows => Keeps(w, v)
  <2>1. v.owed = Dependents({s \in nodes : s[1] = w.file}, w.file)
    BY <1>6 DEF lost
  <2>2. w.owed \subseteq v.owed
    BY <1>2
  <2> QED BY <1>2, <1>6, <2>1, <2>2, HandGood
<1>9. Active(j) /\ UNCHANGED <<treeVars, graphRows, troubles, void>>
  BY <1>1, <1>2 DEF Active, Orphans
<1> QED BY <1>1, <1>5, <1>6, <1>7, <1>8, <1>9, QuietStep

(* The nodes of a file that is gone. *)
LEMMA UprootStep == ASSUME ReindexInv, NEW j \in Jobs, Uproot(j) PROVE ReindexInv'
<1> USE DEF Busy, Reading, Removing
<1>1. PICK w : w = job[j]
  OBVIOUS
<1>2. /\ w \in Worker /\ Shape(w) /\ job \in [Jobs -> Worker] /\ ReindexTypeOK /\ BoundInv /\ SelfInv
      /\ w.phase = "uproot"
  BY <1>1, WorkerKnown DEF Uproot
<1>3. PICK v : v = [w EXCEPT !.phase = "forget"]
  OBVIOUS
<1>4. job' = [job EXCEPT ![j] = v]
  <2>1. job' = [job EXCEPT ![j].phase = "forget"]
    BY DEF Uproot, Goto
  <2> QED BY <1>1, <1>2, <1>3, <2>1
<1>5. /\ v \in Worker /\ v.phase = "forget" /\ SameTask(w, v) /\ SameHome(w, v) /\ SameFile(w, v)
      /\ v.owed = w.owed
  BY <1>2, <1>3, GotoParts DEF Phases
<1>6. Shape(v)
  BY <1>2, <1>5 DEF Shape, SameTask, SameHome, SameFile
<1>7. /\ Delete({s \in nodes : s[1] = w.file}, {w.file})
      /\ index' = index /\ disk' = disk /\ marker' = marker /\ sentinel' = sentinel
      /\ troubles' = troubles /\ void' = void
  BY <1>1 DEF Uproot, treeVars
<1>8. nodes' \subseteq Symbol /\ edges' \subseteq Edge /\ BoundInv' /\ SelfInv'
  BY <1>2, <1>7, DeleteRows
<1>9. /\ sentinel' \in BOOLEAN
      /\ troubles' \in 0..MaxTroubles /\ void' \subseteq {"overlap", "refresh", "trouble"}
      /\ index' \in [Files -> [text : Content, ok : BOOLEAN] \cup {NoRow}] /\ Active(j)
  BY <1>1, <1>2, <1>7 DEF ReindexTypeOK, Active
<1>10. Aside => Keeps(w, v)
  BY <1>2, <1>5, <1>7, UprootGood
<1> QED BY <1>1, <1>4, <1>5, <1>6, <1>7, <1>8, <1>9, <1>10, WorkStep

(* And its row. *)
LEMMA ForgetStep == ASSUME ReindexInv, NEW j \in Jobs, Forget(j) PROVE ReindexInv'
<1> USE DEF Busy, Reading, Removing
<1>1. PICK w : w = job[j]
  OBVIOUS
<1>2. /\ w \in Worker /\ Shape(w) /\ job \in [Jobs -> Worker] /\ ReindexTypeOK /\ BoundInv /\ SelfInv
      /\ w.phase = "forget"
  BY <1>1, WorkerKnown DEF Forget
<1>3. PICK v : v = [w EXCEPT !.phase = "refresh"]
  OBVIOUS
<1>4. job' = [job EXCEPT ![j] = v]
  <2>1. job' = [job EXCEPT ![j].phase = "refresh"]
    BY DEF Forget, Goto
  <2> QED BY <1>1, <1>2, <1>3, <2>1
<1>5. /\ v \in Worker /\ v.phase = "refresh" /\ SameTask(w, v) /\ SameHome(w, v) /\ SameFile(w, v)
      /\ v.owed = w.owed
  BY <1>2, <1>3, GotoParts DEF Phases
<1>6. Shape(v)
  BY <1>2, <1>5 DEF Shape, SameTask, SameHome, SameFile
<1>7. /\ index' = [index EXCEPT ![w.file] = NoRow]
      /\ nodes' = nodes /\ edges' = edges /\ disk' = disk /\ marker' = marker
      /\ sentinel' = sentinel /\ troubles' = troubles /\ void' = void
  BY <1>1 DEF Forget, treeVars
<1>8. BoundInv' /\ SelfInv'
  BY <1>2, <1>7 DEF BoundInv, SelfInv, Linked, Stub
<1>9. /\ nodes' \subseteq Symbol /\ edges' \subseteq Edge /\ sentinel' \in BOOLEAN
      /\ troubles' \in 0..MaxTroubles /\ void' \subseteq {"overlap", "refresh", "trouble"}
      /\ index' \in [Files -> [text : Content, ok : BOOLEAN] \cup {NoRow}] /\ Active(j)
  BY <1>1, <1>2, <1>7 DEF ReindexTypeOK, Active
<1>10. Aside => Keeps(w, v)
  BY <1>2, <1>5, <1>7, ForgetGood
<1> QED BY <1>1, <1>4, <1>5, <1>6, <1>7, <1>8, <1>9, <1>10, WorkStep

(* An upsert that fails is tried again from the reset, or is an error. *)
LEMMA UpsertFailsStep == ASSUME ReindexInv, NEW j \in Jobs, UpsertFails(j) PROVE ReindexInv'
<1> USE DEF Busy, Reading, Removing
<1>1. PICK w : w = job[j]
  OBVIOUS
<1>2. /\ w \in Worker /\ Shape(w) /\ job \in [Jobs -> Worker] /\ ReindexTypeOK /\ BoundInv /\ SelfInv
      /\ w.phase = "upsert"
  BY <1>1, WorkerKnown DEF UpsertFails
<1>3. PICK p \in {"reset", "error"} : Goto(j, p)
  BY DEF UpsertFails
<1>4. PICK v : v = [w EXCEPT !.phase = p]
  OBVIOUS
<1>5. job' = [job EXCEPT ![j] = v]
  <2>1. job' = [job EXCEPT ![j].phase = p]
    BY <1>3 DEF Goto
  <2> QED BY <1>1, <1>2, <1>4, <2>1
<1>6. /\ v \in Worker /\ v.phase = p /\ SameTask(w, v) /\ SameHome(w, v) /\ SameFile(w, v)
      /\ v.owed = w.owed
  <2>1. p \in Phases
    BY DEF Phases
  <2> QED BY <1>2, <1>4, <2>1, GotoParts
<1>7. Shape(v)
  BY <1>2, <1>6 DEF Shape, SameTask, SameHome, SameFile
<1>8. /\ index' = index /\ nodes' = nodes /\ edges' = edges /\ disk' = disk /\ marker' = marker
      /\ sentinel' = sentinel /\ void' = void /\ SameRows
  BY DEF UpsertFails, treeVars, graphRows, SameRows
<1>9. troubles' \in 0..MaxTroubles
  BY <1>2, ReindexAssumption DEF UpsertFails, Trouble, ReindexTypeOK
<1>10. BoundInv' /\ SelfInv'
  BY <1>2, <1>8 DEF BoundInv, SelfInv, Linked, Stub
<1>11. /\ nodes' \subseteq Symbol /\ edges' \subseteq Edge /\ sentinel' \in BOOLEAN
       /\ void' \subseteq {"overlap", "refresh", "trouble"}
       /\ index' \in [Files -> [text : Content, ok : BOOLEAN] \cup {NoRow}] /\ Active(j)
  BY <1>1, <1>2, <1>8 DEF ReindexTypeOK, Active
<1>12. Aside => Keeps(w, v)
  BY <1>2, <1>6, <1>8, HandGood
<1> QED BY <1>1, <1>5, <1>6, <1>7, <1>8, <1>9, <1>10, <1>11, <1>12, WorkStep


(* A walk that has dispatched what it was given. *)
LEMMA ListedStep == ASSUME ReindexInv, NEW j \in Jobs, Listed(j) PROVE ReindexInv'
<1> USE DEF Busy, Reading, Removing
<1>1. PICK w : w = job[j]
  OBVIOUS
<1>2. /\ w \in Worker /\ Shape(w) /\ job \in [Jobs -> Worker] /\ ReindexTypeOK
      /\ w.phase = "next" /\ w.paths = <<>> /\ w.walk /\ w.again \in SUBSET Files
  BY <1>1, WorkerKnown DEF Listed, Shape
<1>3. Active(j) /\ UNCHANGED <<treeVars, graphRows, troubles, void>>
  BY <1>1, <1>2 DEF Active, Listed
<1>4. CASE w.retried
  <2>1. PICK v : v = [w EXCEPT !.phase = "reconcile"]
    OBVIOUS
  <2>2. job' = [job EXCEPT ![j] = v]
    <3>1. job' = [job EXCEPT ![j].phase = "reconcile"]
      BY <1>1, <1>4 DEF Listed, Goto
    <3> QED BY <1>1, <1>2, <2>1, <3>1
  <2>3. v \in Worker /\ v.phase = "reconcile" /\ SameTask(w, v) /\ SameHome(w, v) /\ SameFile(w, v)
        /\ v.owed = w.owed
    BY <1>2, <2>1, GotoParts DEF Phases
  <2>4. Shape(v)
    BY <1>2, <2>3 DEF Shape, SameTask, SameHome, SameFile
  <2>5. Aside /\ SameRows => Keeps(w, v)
    BY <1>2, <2>3, ListedGood DEF SameTask
  <2> QED BY <1>1, <1>3, <2>2, <2>3, <2>4, <2>5, QuietStep
<1>5. CASE ~w.retried
  <2> DEFINE paths == SetToSeq(w.again)
  <2>1. PICK v : v = [w EXCEPT !.paths = paths, !.retried = TRUE]
    OBVIOUS
  <2>2. job' = [job EXCEPT ![j] = v]
    BY <1>1, <1>5, <2>1 DEF Listed, Set
  <2>3. paths \in Seq(Files) /\ Range(paths) = w.again
    BY <1>2, Listing
  <2> HIDE DEF paths
  <2>4. /\ v \in Worker /\ v.phase = w.phase /\ v.walk = w.walk /\ v.plan = w.plan
        /\ v.force = w.force /\ v.again = w.again /\ v.paths = paths
        /\ SameHome(w, v) /\ SameFile(w, v) /\ v.owed = w.owed
    BY <1>2, <2>1, <2>3 DEF Worker, SameHome, SameFile
  <2>5. Shape(v)
    BY <1>2, <2>3, <2>4 DEF Shape, SameHome, SameFile
  <2>6. Aside /\ SameRows => Keeps(w, v)
    BY <1>2, <2>4, ListedGood
  <2> QED BY <1>1, <1>2, <1>3, <2>2, <2>4, <2>5, <2>6, QuietStep
<1> QED BY <1>4, <1>5

(* The worker of a walk that has dispatched everything, with dependents.   *)
LEMMA RelinkParts ==
  ASSUME NEW j \in Jobs, job \in [Jobs -> Worker], NEW owed \in SUBSET Files, Relink(j, owed),
         Shape(job[j]), job[j].phase = "reconcile"
  PROVE  LET v == job'[j] IN
         /\ job' = [job EXCEPT ![j] = v] /\ v \in Worker /\ Shape(v)
         /\ v.phase = "refresh" /\ SameTask(job[j], v) /\ v.home = Gone
         /\ v.homeText = Gone /\ v.file = Gone /\ v.owed = owed
<1> DEFINE w == job[j]
           half == [w EXCEPT !.phase = "refresh", !.home = Gone]
           v == [half EXCEPT !.homeText = Gone, !.file = Gone, !.owed = owed]
<1>1. job' = [job EXCEPT ![j] = v] /\ job'[j] = v
  BY DEF Relink, Set
<1>2. w \in Worker /\ Shape(w) /\ w.phase = "reconcile"
  OBVIOUS
<1> HIDE DEF w
<1>3. half \in Worker
  BY <1>2 DEF Worker, Phases
<1>4. v \in Worker
  <2> HIDE DEF half
  <2> QED BY <1>3 DEF Worker
<1>5. /\ v.phase = "refresh" /\ SameTask(w, v) /\ v.home = Gone
      /\ v.homeText = Gone /\ v.file = Gone /\ v.owed = owed
  BY <1>2 DEF Worker, SameTask
<1> HIDE DEF v
<1>6. Shape(v)
  BY <1>2, <1>5, ReindexAssumption DEF Shape, SameTask, Busy, Reading, Removing
<1> QED BY <1>1, <1>4, <1>5, <1>6 DEF w

(* The reconcile. *)
LEMMA ReconcileStep == ASSUME ReindexInv, NEW j \in Jobs, Reconcile(j) PROVE ReindexInv'
<1> USE DEF Busy, Reading, Removing
<1>1. PICK w : w = job[j]
  OBVIOUS
<1>2. /\ w \in Worker /\ Shape(w) /\ job \in [Jobs -> Worker] /\ ReindexTypeOK /\ BoundInv /\ SelfInv
      /\ w.phase = "reconcile" /\ w.plan \in SUBSET Files
  BY <1>1, WorkerKnown DEF Reconcile
<1>3. PICK stale : stale = {f \in Files : index[f] # NoRow /\ f \notin w.plan}
  OBVIOUS
<1>4. PICK owed : owed = CallersOf(stale, w.plan)
  OBVIOUS
<1>5. PICK v : v = job'[j]
  OBVIOUS
<1>6. /\ Delete({s \in nodes : s[1] \in stale}, stale)
      /\ index' = [f \in Files |-> IF f \in stale THEN NoRow ELSE index[f]]
      /\ Relink(j, owed)
      /\ disk' = disk /\ marker' = marker /\ sentinel' = sentinel /\ troubles' = troubles
      /\ void' = void
  BY <1>1, <1>3, <1>4 DEF Reconcile, treeVars, CallersOf
<1>7. owed \in SUBSET Files
  BY <1>2, <1>4 DEF CallersOf
<1>8. /\ job' = [job EXCEPT ![j] = v] /\ v \in Worker /\ v.phase = "refresh" /\ SameTask(w, v)
      /\ v.home = Gone /\ v.homeText = Gone /\ v.file = Gone /\ v.owed = owed /\ Shape(v)
  BY <1>1, <1>2, <1>5, <1>6, <1>7, RelinkParts
<1>9. nodes' \subseteq Symbol /\ edges' \subseteq Edge /\ BoundInv' /\ SelfInv'
  BY <1>2, <1>6, DeleteRows
<1>10. /\ sentinel' \in BOOLEAN
       /\ troubles' \in 0..MaxTroubles /\ void' \subseteq {"overlap", "refresh", "trouble"}
       /\ index' \in [Files -> [text : Content, ok : BOOLEAN] \cup {NoRow}] /\ Active(j)
  BY <1>1, <1>2, <1>6 DEF ReindexTypeOK, Active
<1>11. Aside => Keeps(w, v)
  BY <1>2, <1>3, <1>4, <1>6, <1>8, ReconcileGood
<1> QED BY <1>1, <1>6, <1>8, <1>9, <1>10, <1>11, WorkStep

(* The link pass of a walk. *)
LEMMA LinkAllStep == ASSUME ReindexInv, NEW j \in Jobs, LinkAll(j) PROVE ReindexInv'
<1> USE DEF Busy, Reading, Removing
<1>1. PICK w : w = job[j]
  OBVIOUS
<1>2. /\ w \in Worker /\ Shape(w) /\ job \in [Jobs -> Worker] /\ ReindexTypeOK /\ BoundInv /\ SelfInv
      /\ w.phase = "refresh" /\ w.owed = {} /\ w.home = Gone
  BY <1>1, WorkerKnown DEF LinkAll, Refreshed
<1>3. PICK v : v = [w EXCEPT !.phase = "sweep"]
  OBVIOUS
<1>4. job' = [job EXCEPT ![j] = v]
  <2>1. job' = [job EXCEPT ![j].phase = "sweep"]
    BY DEF LinkAll, Goto
  <2> QED BY <1>1, <1>2, <1>3, <2>1
<1>5. /\ v \in Worker /\ v.phase = "sweep" /\ SameTask(w, v) /\ SameHome(w, v) /\ SameFile(w, v)
      /\ v.owed = w.owed
  BY <1>2, <1>3, GotoParts DEF Phases
<1>6. Shape(v)
  BY <1>2, <1>5 DEF Shape, SameTask, SameHome, SameFile
<1>7. /\ edges' = BoundFor(Files) /\ nodes' = nodes
      /\ index' = index /\ disk' = disk /\ marker' = marker /\ sentinel' = sentinel
      /\ troubles' = troubles /\ void' = void
  BY <1>1 DEF LinkAll, treeVars
<1>8. nodes' \subseteq Symbol /\ edges' \subseteq Edge /\ BoundInv' /\ SelfInv'
  BY <1>2, <1>7, BindRows
<1>9. /\ sentinel' \in BOOLEAN
      /\ troubles' \in 0..MaxTroubles /\ void' \subseteq {"overlap", "refresh", "trouble"}
      /\ index' \in [Files -> [text : Content, ok : BOOLEAN] \cup {NoRow}] /\ Active(j)
  BY <1>1, <1>2, <1>7 DEF ReindexTypeOK, Active
<1>10. Aside => Keeps(w, v)
  BY <1>2, <1>5, <1>7, LinkAllGood
<1> QED BY <1>1, <1>4, <1>5, <1>6, <1>7, <1>8, <1>9, <1>10, WorkStep

(* What is left of a worker whose walk is over. *)
LEMMA OverParts ==
  ASSUME NEW j \in Jobs, job \in [Jobs -> Worker], Over(j)
  PROVE  LET v == job'[j] IN
         /\ job' = [job EXCEPT ![j] = v] /\ v \in Worker /\ Shape(v)
         /\ v.phase \in {"end", "done"} /\ (v.phase = "done" => v = At("done"))
         /\ v.paths = <<>> /\ v.walk = FALSE /\ v.force = FALSE /\ v.home = Gone
         /\ v.homeText = Gone /\ v.file = Gone /\ v.owed = {}
<1> DEFINE u == IF job[j].bulk THEN [At("end") EXCEPT !.bulk = TRUE] ELSE At("done")
<1>1. job' = [job EXCEPT ![j] = u] /\ job'[j] = u
  BY DEF Over, Set
<1>2. CASE job[j].bulk
  <2>1. u = [At("end") EXCEPT !.bulk = TRUE]
    BY <1>2
  <2>2. u \in Worker
    <3>1. At("end") \in Worker
      BY AtShape
    <3> HIDE DEF u
    <3> QED BY <2>1, <3>1 DEF Worker
  <2>3. /\ u.phase = "end" /\ u.paths = <<>> /\ u.walk = FALSE /\ u.force = FALSE /\ u.home = Gone
        /\ u.homeText = Gone /\ u.file = Gone /\ u.owed = {} /\ u.plan = {} /\ u.again = {}
    <3> HIDE DEF u
    <3> QED BY <2>1 DEF At
  <2> HIDE DEF u
  <2>4. Shape(u)
    BY <2>3 DEF Shape, Busy, Reading, Removing
  <2> QED BY <1>1, <2>2, <2>3, <2>4
<1>3. CASE ~job[j].bulk
  <2>1. u = At("done")
    BY <1>3
  <2> HIDE DEF u
  <2>2. Shape(u) /\ u \in Worker /\ u.phase = "done"
    BY <2>1, AtShape
  <2>3. /\ u.paths = <<>> /\ u.walk = FALSE /\ u.force = FALSE /\ u.home = Gone
        /\ u.homeText = Gone /\ u.file = Gone /\ u.owed = {}
    BY <2>1 DEF At
  <2> QED BY <1>1, <2>1, <2>2, <2>3
<1> QED BY <1>2, <1>3

(* cos_graph_doctor *)
LEMMA SweepStep == ASSUME ReindexInv, NEW j \in Jobs, Sweep(j) PROVE ReindexInv'
<1> USE DEF Busy, Reading, Removing
<1>1. PICK w : w = job[j]
  OBVIOUS
<1>2. /\ w \in Worker /\ Shape(w) /\ job \in [Jobs -> Worker] /\ ReindexTypeOK /\ BoundInv /\ SelfInv
      /\ w.phase = "sweep"
  BY <1>1, WorkerKnown DEF Sweep
<1>3. PICK absent : absent = {f \in Files : disk[f] = Gone}
  OBVIOUS
<1>4. PICK v : v = job'[j]
  OBVIOUS
<1>5. /\ Delete({s \in nodes : s[1] \in absent}, absent) /\ Over(j)
      /\ index' = index /\ disk' = disk /\ marker' = marker /\ sentinel' = sentinel
      /\ troubles' = troubles /\ void' = void
  BY <1>3 DEF Sweep, treeVars
<1>6. /\ job' = [job EXCEPT ![j] = v] /\ v \in Worker /\ Shape(v)
      /\ v.phase \in {"end", "done"} /\ (v.phase = "done" => v = At("done"))
      /\ v.paths = <<>> /\ v.walk = FALSE /\ v.force = FALSE /\ v.home = Gone
      /\ v.homeText = Gone /\ v.file = Gone /\ v.owed = {}
  BY <1>2, <1>4, <1>5, OverParts
<1>7. nodes' \subseteq Symbol /\ edges' \subseteq Edge /\ BoundInv' /\ SelfInv'
  BY <1>2, <1>5, DeleteRows
<1>8. /\ sentinel' \in BOOLEAN
      /\ troubles' \in 0..MaxTroubles /\ void' \subseteq {"overlap", "refresh", "trouble"}
      /\ index' \in [Files -> [text : Content, ok : BOOLEAN] \cup {NoRow}] /\ Active(j)
  BY <1>1, <1>2, <1>5 DEF ReindexTypeOK, Active
<1>9. Aside => Keeps(w, v)
  BY <1>2, <1>3, <1>5, <1>6, SweepGood
<1> QED BY <1>1, <1>5, <1>6, <1>7, <1>8, <1>9, WorkStep

(* The sentinel goes. *)
LEMMA EndOfWalkStep == ASSUME ReindexInv, NEW j \in Jobs, End(j) PROVE ReindexInv'
<1> USE DEF Busy, Reading, Removing
<1>1. PICK w : w = job[j]
  OBVIOUS
<1>2. /\ w \in Worker /\ Shape(w) /\ job \in [Jobs -> Worker] /\ ReindexTypeOK /\ BoundInv /\ SelfInv
      /\ w.phase = "end"
  BY <1>1, WorkerKnown DEF End
<1>3. PICK v : v = At("done")
  OBVIOUS
<1>4. job' = [job EXCEPT ![j] = v] /\ v \in Worker /\ Shape(v) /\ v.phase = "done"
  BY <1>3, AtShape DEF End, Set
<1>5. /\ index' = index /\ nodes' = nodes /\ edges' = edges /\ disk' = disk /\ marker' = marker
      /\ sentinel' = FALSE /\ troubles' = troubles /\ void' = void /\ SameRows
  BY DEF End, graphRows, SameRows
<1>6. BoundInv' /\ SelfInv'
  BY <1>2, <1>5 DEF BoundInv, SelfInv, Linked, Stub
<1>7. /\ nodes' \subseteq Symbol /\ edges' \subseteq Edge /\ sentinel' \in BOOLEAN
      /\ troubles' \in 0..MaxTroubles /\ void' \subseteq {"overlap", "refresh", "trouble"}
      /\ index' \in [Files -> [text : Content, ok : BOOLEAN] \cup {NoRow}] /\ Active(j)
  BY <1>1, <1>2, <1>5 DEF ReindexTypeOK, Active
<1>8. Aside => Keeps(w, v)
  BY <1>2, <1>3, <1>4, <1>5, OverGood
<1> QED BY <1>1, <1>3, <1>4, <1>5, <1>6, <1>7, <1>8, WorkStep


-------------------------------------------------------------------------------

(* The disk has somebody waiting for everything that changes on it. *)
Watched == \A f \in Files : \/ disk'[f] = disk[f] /\ (Waiting(f) => Waiting(f)')
                            \/ disk'[f] # Gone /\ Waiting(f)'

(* A step of a worker that is not at work and stays so. *)
LEMMA StandStep ==
  ASSUME ReindexInv, NEW j \in Jobs, ~Active(j), job[j].phase # "list", NEW v \in Worker,
         job' = [job EXCEPT ![j] = v], Shape(v), v.phase \in {"quiet", "list", "done"},
         SameRows, disk' \in [Files -> Content \cup {Gone}], DiskInv',
         marker' \in [Files -> 0..MaxJobs], sentinel' \in BOOLEAN, troubles' = troubles,
         void' \subseteq {"overlap", "refresh", "trouble"}, void' = {} => void = {},
         void' = {} => Watched \/ (v.phase = "list" /\ v.force)
  PROVE  ReindexInv'
<1> USE DEF ReindexInv, Sane
<1>1. job \in [Jobs -> Worker] /\ job'[j] = v /\ \A i \in Jobs \ {j} : job'[i] = job[i]
  BY DEF ReindexTypeOK
<1>2. nodes' = nodes /\ edges' = edges /\ index' = index
  BY DEF SameRows
<1>3. ReindexTypeOK'
  BY <1>2 DEF ReindexTypeOK
<1>4. ShapeInv'
  BY <1>1 DEF ShapeInv
<1>5. BoundInv' /\ SelfInv'
  BY <1>2, SameFacts DEF BoundInv, SelfInv
<1>6. \A i \in Jobs : Active(i)' <=> Active(i)
  BY <1>1 DEF Active
<1>7. OneActive'
  BY <1>6 DEF OneActive
<1>8. Exempt => Exempt'
  BY <1>1 DEF Exempt
<1>9. v.phase = "list" /\ v.force => Exempt'
  BY <1>1 DEF Exempt
<1>10. ASSUME NEW w, w.phase \in Busy \cup {"lookup"} => w.file \in Files,
              w.home # Gone => w.home \in Files, Good(w), void' = {}
       PROVE  Good(w)'
  <2>1. CASE Watched
    <3>1. Keeps(w, w)
      BY <1>10, <2>1, WatchGood DEF Watched
    <3> QED BY <1>8, <1>10, <3>1 DEF Good, Keeps
  <2>2. CASE Exempt'
    BY <1>2, <1>10, <2>2, SameFacts DEF Good, NodeGood, RowInv, DoneNames, NameInv
  <2> QED BY <1>9, <1>10, <2>1, <2>2
<1>11. GoodInv'
  <2> SUFFICES ASSUME void' = {}
               PROVE  /\ \A i \in Jobs : Active(i)' => Good(job[i])'
                      /\ (\A i \in Jobs : ~Active(i)') => Good(At("done"))'
    BY DEF GoodInv
  <2>1. ASSUME NEW i \in Jobs, Active(i)' PROVE Good(job[i])'
    <3>1. PICK w : w = job[i]
      OBVIOUS
    <3>2. Active(i) /\ i # j /\ Good(w) /\ job'[i] = w
      BY <1>1, <1>6, <2>1, <3>1 DEF GoodInv
    <3>3. w \in Worker /\ Shape(w)
      BY <1>1, <3>1 DEF ShapeInv
    <3>4. Good(w)'
      BY <1>10, <3>2, <3>3, InHand
    <3> QED BY <3>2, <3>4
  <2>2. ASSUME \A i \in Jobs : ~Active(i)' PROVE Good(At("done"))'
    <3>1. Good(At("done"))
      BY <1>6, <2>2 DEF GoodInv
    <3>2. PICK w : w = At("done")
      OBVIOUS
    <3>3. w.phase = "done" /\ w.home = Gone
      BY <3>2 DEF At
    <3>4. Good(w)'
      BY <1>10, <3>1, <3>2, <3>3 DEF Busy, Reading, Removing
    <3> QED BY <3>2, <3>4
  <2> QED BY <2>1, <2>2
<1> QED BY <1>3, <1>4, <1>5, <1>7, <1>11

(* A worker that begins, alone. *)
LEMMA StartStep ==
  ASSUME ReindexInv, NEW j \in Jobs, ~Active(j), NEW v \in Worker,
         job' = [job EXCEPT ![j] = v], Shape(v), v.phase = "next",
         SameRows, disk' \in [Files -> Content \cup {Gone}], DiskInv',
         marker' = marker, sentinel' = sentinel, troubles' = troubles,
         void' \subseteq {"overlap", "refresh", "trouble"},
         void' = {} => Alone(j) /\ Good(v)'
  PROVE  ReindexInv'
<1> USE DEF ReindexInv, Sane
<1>1. job \in [Jobs -> Worker] /\ job'[j] = v /\ \A i \in Jobs \ {j} : job'[i] = job[i]
  BY DEF ReindexTypeOK
<1>2. nodes' = nodes /\ edges' = edges /\ index' = index
  BY DEF SameRows
<1>3. ReindexTypeOK'
  BY <1>2 DEF ReindexTypeOK
<1>4. ShapeInv'
  BY <1>1 DEF ShapeInv
<1>5. BoundInv' /\ SelfInv'
  BY <1>2, SameFacts DEF BoundInv, SelfInv
<1>6. Active(j)' /\ \A i \in Jobs \ {j} : Active(i)' <=> Active(i)
  BY <1>1 DEF Active
<1>7. void' = {} => \A i \in Jobs \ {j} : ~Active(i)'
  BY <1>6 DEF Alone
<1>8. OneActive'
  BY <1>7 DEF OneActive
<1>9. void' = {} => Good(job[j])'
  BY <1>1
<1>10. GoodInv'
  BY <1>6, <1>7, <1>9 DEF GoodInv
<1> QED BY <1>3, <1>4, <1>5, <1>8, <1>10

(* Nobody is at work: nothing is left to do. *)
LEMMA Nobody ==
  ASSUME ReindexInv, NEW j \in Jobs, ~Active(j), Alone(j), void = {}
  PROVE  Good(At("done"))
BY DEF ReindexInv, GoodInv, Alone

(* A step that leaves trouble behind keeps the types and the shapes, also  *)
(* when it changes a row.                                                  *)
LEMMA TroubleInRow ==
  ASSUME ReindexInv, NEW j \in Jobs, NEW v \in Worker, job' = [job EXCEPT ![j] = v], Shape(v),
         Trouble, Voids("trouble"), UNCHANGED <<treeVars, nodes, edges>>,
         index' \in [Files -> [text : Content, ok : BOOLEAN] \cup {NoRow}]
  PROVE  ReindexInv'
<1> USE DEF ReindexInv, Sane
<1>1. job \in [Jobs -> Worker] /\ job'[j] = v /\ \A i \in Jobs \ {j} : job'[i] = job[i]
  BY DEF ReindexTypeOK
<1>2. /\ disk' = disk /\ marker' = marker /\ sentinel' = sentinel
      /\ nodes' = nodes /\ edges' = edges
  BY DEF treeVars
<1>3. void' # {} /\ void' \subseteq {"overlap", "refresh", "trouble"}
  BY DEF Voids, ReindexTypeOK
<1>4. troubles' \in 0..MaxTroubles
  BY ReindexAssumption DEF Trouble, ReindexTypeOK
<1>5. ReindexTypeOK'
  BY <1>2, <1>3, <1>4 DEF ReindexTypeOK
<1>6. ShapeInv' /\ DiskInv'
  BY <1>1, <1>2 DEF ShapeInv, DiskInv
<1>7. BoundInv' /\ SelfInv'
  BY <1>2 DEF BoundInv, SelfInv, Linked, Stub
<1>8. OneActive' /\ GoodInv'
  BY <1>3 DEF OneActive, GoodInv
<1> QED BY <1>5, <1>6, <1>7, <1>8

(* When it changes none. *)
LEMMA TroubleStep ==
  ASSUME ReindexInv, NEW j \in Jobs, NEW v \in Worker, job' = [job EXCEPT ![j] = v], Shape(v),
         Trouble, Voids("trouble"), UNCHANGED <<treeVars, graphRows>>
  PROVE  ReindexInv'
<1>1. UNCHANGED <<treeVars, nodes, edges>> /\ index' = index
  BY DEF graphRows
<1>2. index \in [Files -> [text : Content, ok : BOOLEAN] \cup {NoRow}]
  BY DEF ReindexInv, Sane, ReindexTypeOK
<1> QED BY <1>1, <1>2, TroubleInRow


(* An edit: its worker waits. *)
LEMMA EditStep ==
  ASSUME ReindexInv, NEW j \in Jobs, NEW f \in Files, NEW c \in Versions[f], Edit(j, f, c)
  PROVE  ReindexInv'
<1>1. /\ job \in [Jobs -> Worker] /\ job[j].phase = "idle" /\ Gone \notin Files
      /\ ReindexTypeOK /\ DiskInv
  BY WorkerKnown DEF Edit, Unused
<1>2. PICK v : v = [At("quiet") EXCEPT !.paths = <<f>>]
  OBVIOUS
<1>3. job' = [job EXCEPT ![j] = v] /\ job'[j] = v /\ \A i \in Jobs \ {j} : job'[i] = job[i]
  BY <1>1, <1>2 DEF Edit, Set
<1>4. v \in Worker
  <2>1. At("quiet") \in Worker /\ <<f>> \in Seq(Files)
    BY AtParts DEF Phases
  <2> QED BY <1>2, <2>1 DEF Worker
<1>5. /\ v.phase = "quiet" /\ v.paths = <<f>> /\ v.walk = FALSE /\ v.home = Gone
      /\ v.homeText = Gone /\ v.owed = {}
  BY <1>2 DEF At
<1>6. Shape(v)
  BY <1>5 DEF Shape, Busy, Reading, Removing
<1>7. /\ disk' = [disk EXCEPT ![f] = c] /\ marker' = [marker EXCEPT ![f] = j] /\ c # Gone
      /\ sentinel' = sentinel /\ troubles' = troubles /\ void' = void /\ SameRows
  BY DEF Edit, graphRows, SameRows
<1>8. disk' \in [Files -> Content \cup {Gone}] /\ DiskInv'
  <2>1. c \in Content \cup {Gone}
    BY ReindexAssumption
  <2> QED BY <1>1, <1>7, <2>1 DEF ReindexTypeOK, DiskInv
<1>9. marker' \in [Files -> 0..MaxJobs] /\ sentinel' \in BOOLEAN
      /\ void' \subseteq {"overlap", "refresh", "trouble"}
  <2>1. j \in 0..MaxJobs
    BY ReindexAssumption DEF Jobs
  <2> QED BY <1>1, <1>7, <2>1 DEF ReindexTypeOK
<1>10. Watched
  <2>1. disk'[f] # Gone /\ Waiting(f)'
    <3>1. disk'[f] = c /\ marker'[f] = j
      BY <1>1, <1>7 DEF ReindexTypeOK
    <3> QED BY <1>3, <1>5, <1>7, <3>1 DEF Waiting
  <2>2. ASSUME NEW g \in Files \ {f} PROVE disk'[g] = disk[g] /\ (Waiting(g) => Waiting(g)')
    <3>1. disk'[g] = disk[g] /\ marker'[g] = marker[g]
      BY <1>1, <1>7 DEF ReindexTypeOK
    <3> QED BY <1>1, <1>3, <3>1 DEF Waiting
  <2> QED BY <2>1, <2>2 DEF Watched
<1>11. ~Active(j) /\ job[j].phase # "list"
  BY <1>1 DEF Active
<1> QED BY <1>3, <1>4, <1>5, <1>6, <1>7, <1>8, <1>9, <1>10, <1>11, StandStep

(* A worker that waits for nothing on the disk comes or goes. *)
LEMMA StillWatched ==
  ASSUME NEW j \in Jobs, job \in [Jobs -> Worker], NEW v, job' = [job EXCEPT ![j] = v],
         disk' = disk, marker' = marker,
         job[j].phase = "quiet" => \A f \in Files : job[j].paths = <<f>> => marker[f] # j
  PROVE  Watched
BY DEF Watched, Waiting

(* The walk of the command line. *)
LEMMA WalkStep ==
  ASSUME ReindexInv, NEW j \in Jobs, NEW force \in BOOLEAN, Walk(j, force) PROVE ReindexInv'
<1>1. /\ job \in [Jobs -> Worker] /\ job[j].phase = "idle" /\ ReindexTypeOK /\ DiskInv
  BY WorkerKnown DEF Walk, Unused
<1>2. PICK v : v = [At("list") EXCEPT !.walk = TRUE, !.force = force]
  OBVIOUS
<1>3. job' = [job EXCEPT ![j] = v]
  BY <1>2 DEF Walk, Set
<1>4. v \in Worker
  <2>1. At("list") \in Worker
    BY AtParts DEF Phases
  <2> QED BY <1>2, <2>1 DEF Worker
<1>5. /\ v.phase = "list" /\ v.paths = <<>> /\ v.walk = TRUE /\ v.home = Gone
      /\ v.homeText = Gone /\ v.owed = {} /\ v.again = {}
  BY <1>2 DEF At
<1>6. Shape(v)
  BY <1>5, NothingLeft DEF Shape, Busy, Reading, Removing
<1>7. /\ disk' = disk /\ marker' = marker /\ sentinel' = sentinel /\ troubles' = troubles
      /\ void' = void /\ SameRows
  BY DEF Walk, treeVars, graphRows, SameRows
<1>8. /\ disk' \in [Files -> Content \cup {Gone}] /\ DiskInv'
      /\ marker' \in [Files -> 0..MaxJobs] /\ sentinel' \in BOOLEAN
      /\ void' \subseteq {"overlap", "refresh", "trouble"}
  BY <1>1, <1>7 DEF ReindexTypeOK, DiskInv
<1>9. Watched
  BY <1>1, <1>3, <1>7, StillWatched
<1>10. ~Active(j) /\ job[j].phase # "list"
  BY <1>1 DEF Active
<1> QED BY <1>3, <1>4, <1>5, <1>6, <1>7, <1>8, <1>9, <1>10, StandStep

(* What a command leaves on the disk. *)
LEMMA Overwritten ==
  ASSUME ReindexTypeOK, DiskInv, NEW s \in Commands, disk' = Written(s)
  PROVE  /\ disk' \in [Files -> Content \cup {Gone}] /\ DiskInv' /\ DOMAIN s \subseteq Files
         /\ \A f \in Files : disk'[f] = IF f \in DOMAIN s THEN s[f] ELSE disk[f]
<1>1. /\ DOMAIN s \subseteq Files
      /\ \A f \in DOMAIN s : s[f] \in Versions[f] /\ s[f] \in Content \cup {Gone}
  BY ReindexAssumption
<1>2. disk' = [f \in Files |-> IF f \in DOMAIN s THEN s[f] ELSE disk[f]]
  BY DEF Written
<1> QED BY <1>1, <1>2 DEF ReindexTypeOK, DiskInv

(* A bulk command, with a walk or without. *)
LEMMA BulkStep ==
  ASSUME ReindexInv, NEW j \in Jobs, NEW s \in Commands, Bulk(j, s) PROVE ReindexInv'
<1>1. /\ job \in [Jobs -> Worker] /\ job[j].phase = "idle" /\ ReindexTypeOK /\ DiskInv
  BY WorkerKnown DEF Bulk, Unused
<1>2. ~Active(j) /\ job[j].phase # "list"
  BY <1>1 DEF Active
<1>3. /\ disk' = Written(s) /\ sentinel' = TRUE /\ marker' = marker /\ troubles' = troubles
      /\ SameRows
  BY DEF Bulk, graphRows, SameRows
<1>4. disk' \in [Files -> Content \cup {Gone}] /\ DiskInv'
  BY <1>1, <1>3, Overwritten
<1>5. marker' \in [Files -> 0..MaxJobs] /\ sentinel' \in BOOLEAN
  BY <1>1, <1>3 DEF ReindexTypeOK
<1>6. CASE /\ Set(j, [At("list") EXCEPT !.walk = TRUE, !.force = TRUE, !.bulk = TRUE])
           /\ void' = void
  <2>1. PICK v : v = [At("list") EXCEPT !.walk = TRUE, !.force = TRUE, !.bulk = TRUE]
    OBVIOUS
  <2>2. job' = [job EXCEPT ![j] = v]
    BY <1>6, <2>1 DEF Set
  <2>3. v \in Worker
    <3>1. At("list") \in Worker
      BY AtParts DEF Phases
    <3> QED BY <2>1, <3>1 DEF Worker
  <2>4. /\ v.phase = "list" /\ v.paths = <<>> /\ v.walk = TRUE /\ v.home = Gone
        /\ v.homeText = Gone /\ v.owed = {} /\ v.again = {} /\ v.force = TRUE
    BY <2>1 DEF At
  <2>5. Shape(v)
    BY <2>4, NothingLeft DEF Shape, Busy, Reading, Removing
  <2>6. void' \subseteq {"overlap", "refresh", "trouble"}
    BY <1>1, <1>6 DEF ReindexTypeOK
  <2> QED BY <1>2, <1>3, <1>4, <1>5, <1>6, <2>2, <2>3, <2>4, <2>5, <2>6, StandStep
<1>7. CASE Set(j, At("done")) /\ Voids("overlap")
  <2>1. PICK v : v = At("done")
    OBVIOUS
  <2>2. job' = [job EXCEPT ![j] = v] /\ v \in Worker /\ Shape(v) /\ v.phase = "done"
    BY <1>7, <2>1, AtShape DEF Set
  <2>3. void' # {} /\ void' \subseteq {"overlap", "refresh", "trouble"}
    BY <1>1, <1>7 DEF Voids, ReindexTypeOK
  <2> QED BY <1>2, <1>3, <1>4, <1>5, <2>2, <2>3, StandStep
<1> QED BY <1>6, <1>7 DEF Bulk


(* The debounce is over: the last edit's worker goes on. *)
LEMMA WakeStep == ASSUME ReindexInv, NEW j \in Jobs, Wake(j) PROVE ReindexInv'
<1>1. PICK w : w = job[j]
  OBVIOUS
<1>2. /\ w \in Worker /\ Shape(w) /\ job \in [Jobs -> Worker] /\ ReindexTypeOK /\ DiskInv
      /\ w.phase = "quiet" /\ Gone \notin Files
  BY <1>1, WorkerKnown DEF Wake
<1>3. PICK f \in Files : w.paths = <<f>> /\ Head(w.paths) = f
  <2>1. \E f \in Files : w.paths = <<f>>
    BY <1>2 DEF Shape
  <2> QED BY <2>1, OnePath
<1>4. ~Active(j) /\ job[j].phase # "list"
  BY <1>1, <1>2 DEF Active
<1>5. /\ disk' = disk /\ marker' = marker /\ sentinel' = sentinel /\ troubles' = troubles /\ SameRows
  BY DEF Wake, treeVars, graphRows, SameRows
<1>6. /\ disk' \in [Files -> Content \cup {Gone}] /\ DiskInv'
      /\ marker' \in [Files -> 0..MaxJobs] /\ sentinel' \in BOOLEAN
  BY <1>2, <1>5 DEF ReindexTypeOK, DiskInv
<1>7. CASE marker[f] = j
  <2>1. PICK v : v = [w EXCEPT !.phase = "next"]
    OBVIOUS
  <2>2. job' = [job EXCEPT ![j] = v] /\ Starts(j)
    <3>1. job' = [job EXCEPT ![j].phase = "next"] /\ Starts(j)
      BY <1>1, <1>3, <1>7 DEF Wake, Goto
    <3> QED BY <1>1, <1>2, <2>1, <3>1
  <2>3. v \in Worker /\ v.phase = "next" /\ SameTask(w, v) /\ SameHome(w, v) /\ v.owed = w.owed
    BY <1>2, <2>1, GotoParts DEF Phases
  <2>4. /\ v.walk = FALSE /\ v.home = Gone /\ v.homeText = Gone /\ v.owed = {} /\ v.paths = <<f>>
    BY <1>2, <1>3, <2>3 DEF Shape, SameTask, SameHome, Worker, Busy, Reading, Removing
  <2>5. Shape(v)
    BY <2>3, <2>4, OnePath DEF Shape, Busy, Reading, Removing
  <2>6. void' \subseteq {"overlap", "refresh", "trouble"} /\ (void' = {} => void = {} /\ Alone(j))
    BY <1>2, <2>2 DEF Starts, Voids, ReindexTypeOK
  <2>7. ASSUME void' = {} PROVE Good(v)'
    <3>1. Good(At("done"))
      BY <1>4, <2>6, <2>7, Nobody
    <3>2. Ahead(v) = {f}
      BY <2>4, OnePath DEF Ahead
    <3>3. \A g \in Files : g # f => (Waiting(g) => Waiting(g)')
      <4>1. \A g \in Files : g # f => w.paths # <<g>>
        BY <1>3
      <4> QED BY <1>1, <1>2, <1>5, <2>2, <4>1 DEF Waiting
    <3>4. ASSUME NEW g \in Files, Covered(At("done"), g) PROVE Covered(v, g)'
      <4>1. PICK d : d = At("done")
        OBVIOUS
      <4>2. d.walk = FALSE /\ d.home = Gone /\ Ahead(d) = {} /\ d.phase = "done"
        <5>1. d.walk = FALSE /\ d.home = Gone /\ d.paths = <<>> /\ d.phase = "done"
          BY <4>1 DEF At
        <5> QED BY <5>1, NothingLeft DEF Ahead
      <4>3. \/ disk[g] # Gone /\ (Waiting(g) \/ (index[g] # NoRow /\ ~index[g].ok))
            \/ Current(d, g)
        BY <1>2, <3>4, <4>1, <4>2 DEF Covered, Unlisted
      <4>4. Current(d, g) => Current(v, g)'
        BY <1>5, <4>2, SameFacts DEF Current, SameRows
      <4> QED BY <1>5, <3>2, <3>3, <4>3, <4>4 DEF Covered, SameRows
    <3>5. \A g \in Files : ~Unlisted(v, g)
      BY <2>4 DEF Unlisted
    <3>6. Keeps(At("done"), v)
      BY <1>2, <1>5, <2>3, <2>4, <3>4, <3>5, BeginGood
    <3>7. Exempt => Exempt'
      BY <1>1, <1>2, <2>2 DEF Exempt
    <3> QED BY <3>1, <3>6, <3>7 DEF Good, Keeps
  <2> QED BY <1>4, <1>5, <1>6, <2>2, <2>3, <2>5, <2>6, <2>7, StartStep
<1>8. CASE marker[f] # j
  <2>1. PICK v : v = At("done")
    OBVIOUS
  <2>2. job' = [job EXCEPT ![j] = v] /\ v \in Worker /\ Shape(v) /\ v.phase = "done" /\ void' = void
    BY <1>1, <1>3, <1>8, <2>1, AtShape DEF Wake, Set
  <2>3. Watched
    <3>1. \A g \in Files : w.paths = <<g>> => g = f
      BY <1>3
    <3> QED BY <1>1, <1>2, <1>5, <1>8, <2>2, <3>1, StillWatched
  <2>4. void' \subseteq {"overlap", "refresh", "trouble"}
    BY <1>2, <2>2 DEF ReindexTypeOK
  <2> QED BY <1>4, <1>5, <1>6, <2>2, <2>3, <2>4, StandStep
<1> QED BY <1>1, <1>3, <1>7, <1>8

(* A command that the reconciler follows. *)
LEMMA ShellStep ==
  ASSUME ReindexInv, NEW j \in Jobs, NEW s \in Commands, Shell(j, s) PROVE ReindexInv'
<1>1. /\ job \in [Jobs -> Worker] /\ job[j].phase = "idle" /\ ReindexTypeOK /\ DiskInv
      /\ Gone \notin Files
  BY WorkerKnown DEF Shell, Unused
<1>2. ~Active(j) /\ job[j].phase # "list"
  BY <1>1 DEF Active
<1> DEFINE gone == {f \in DOMAIN s : s[f] = Gone}
           paths == SetToSeq(gone) \o SetToSeq(DOMAIN s \ gone)
<1>3. PICK v : v = [At("next") EXCEPT !.force = TRUE, !.paths = paths]
  OBVIOUS
<1>4. /\ job' = [job EXCEPT ![j] = v] /\ disk' = Written(s) /\ Starts(j)
      /\ marker' = marker /\ sentinel' = sentinel /\ troubles' = troubles /\ SameRows
  BY <1>3 DEF Shell, Set, graphRows, SameRows
<1>5. /\ disk' \in [Files -> Content \cup {Gone}] /\ DiskInv' /\ DOMAIN s \subseteq Files
      /\ \A f \in Files : disk'[f] = IF f \in DOMAIN s THEN s[f] ELSE disk[f]
  BY <1>1, <1>4, Overwritten
<1>6. paths \in Seq(Files) /\ Range(paths) = DOMAIN s
  <2>1. gone \in SUBSET Files /\ DOMAIN s \ gone \in SUBSET Files
    BY <1>5
  <2>2. /\ SetToSeq(gone) \in Seq(Files) /\ Range(SetToSeq(gone)) = gone
        /\ SetToSeq(DOMAIN s \ gone) \in Seq(Files)
        /\ Range(SetToSeq(DOMAIN s \ gone)) = DOMAIN s \ gone
    BY <2>1, Listing
  <2>3. Range(paths) = gone \cup (DOMAIN s \ gone) /\ paths \in Seq(Files)
    BY <2>2, Joined
  <2> QED BY <2>3
<1> HIDE DEF paths, gone
<1>7. DOMAIN s # {}
  BY DEF Shell
<1>8. paths # <<>>
  BY <1>6, <1>7, NothingLeft
<1>9. v \in Worker
  <2>1. At("next") \in Worker
    BY AtParts DEF Phases
  <2> QED BY <1>3, <1>6, <2>1 DEF Worker
<1>10. /\ v.phase = "next" /\ v.force = TRUE /\ v.paths = paths /\ v.walk = FALSE /\ v.home = Gone
       /\ v.homeText = Gone /\ v.owed = {}
  BY <1>3 DEF At
<1>11. Shape(v)
  BY <1>8, <1>10 DEF Shape, Busy, Reading, Removing
<1>12. void' \subseteq {"overlap", "refresh", "trouble"} /\ (void' = {} => void = {} /\ Alone(j))
  BY <1>1, <1>4 DEF Starts, Voids, ReindexTypeOK
<1>13. ASSUME void' = {} PROVE Good(v)'
  <2>1. Good(At("done"))
    BY <1>2, <1>12, <1>13, Nobody
  <2>2. Ahead(v) = DOMAIN s
    BY <1>6, <1>10 DEF Ahead
  <2>3. \A g \in Files : Waiting(g) => Waiting(g)'
    BY <1>1, <1>4 DEF Waiting
  <2>4. ASSUME NEW g \in Files, Covered(At("done"), g) PROVE Covered(v, g)'
    <3>1. PICK d : d = At("done")
      OBVIOUS
    <3>2. d.walk = FALSE /\ d.home = Gone /\ Ahead(d) = {} /\ d.phase = "done"
      <4>1. d.walk = FALSE /\ d.home = Gone /\ d.paths = <<>> /\ d.phase = "done"
        BY <3>1 DEF At
      <4> QED BY <4>1, NothingLeft DEF Ahead
    <3>3. \/ disk[g] # Gone /\ (Waiting(g) \/ (index[g] # NoRow /\ ~index[g].ok))
          \/ Current(d, g)
      BY <1>1, <2>4, <3>1, <3>2 DEF Covered, Unlisted
    <3>4. disk'[g] = disk[g] /\ Current(d, g) => Current(v, g)'
      BY <1>4, <3>2, SameFacts DEF Current, SameRows
    <3>5. CASE g \in DOMAIN s
      BY <1>10, <2>2, <3>5 DEF Covered
    <3>6. CASE g \notin DOMAIN s
      BY <1>4, <1>5, <2>3, <3>3, <3>4, <3>6 DEF Covered, SameRows
    <3> QED BY <3>5, <3>6
  <2>5. \A g \in Files : ~Unlisted(v, g)
    BY <1>10 DEF Unlisted
  <2>6. Keeps(At("done"), v)
    BY <1>1, <1>4, <1>9, <1>10, <2>4, <2>5, BeginGood
  <2>7. Exempt => Exempt'
    BY <1>1, <1>4 DEF Exempt
  <2> QED BY <2>1, <2>6, <2>7 DEF Good, Keeps
<1> QED BY <1>2, <1>4, <1>5, <1>9, <1>10, <1>11, <1>12, <1>13, StartStep


(* A walk lists the files. *)
LEMMA ListStep == ASSUME ReindexInv, NEW j \in Jobs, List(j) PROVE ReindexInv'
<1>1. PICK w : w = job[j]
  OBVIOUS
<1>2. /\ w \in Worker /\ Shape(w) /\ job \in [Jobs -> Worker] /\ ReindexTypeOK /\ DiskInv
      /\ w.phase = "list" /\ Gone \notin Files /\ w.walk \in BOOLEAN /\ w.force \in BOOLEAN
  BY <1>1, WorkerKnown DEF List
<1>3. PICK plan : plan = {f \in Files : disk[f] # Gone}
  OBVIOUS
<1>4. PICK paths : paths = SetToSeq(plan)
  OBVIOUS
<1>5. PICK v : v = [w EXCEPT !.phase = "next", !.plan = plan, !.paths = paths]
  OBVIOUS
<1>6. /\ job' = [job EXCEPT ![j] = v]
      /\ IF w.force /\ Rooted /\ Alone(j) THEN void' = {} ELSE Starts(j)
      /\ disk' = disk /\ marker' = marker /\ sentinel' = sentinel /\ troubles' = troubles
      /\ SameRows
  BY <1>1, <1>3, <1>4, <1>5 DEF List, Set, treeVars, graphRows, SameRows
<1>7. paths \in Seq(Files) /\ Range(paths) = plan
  BY <1>3, <1>4, Listing
<1>8. v \in Worker
  BY <1>2, <1>3, <1>5, <1>7 DEF Worker, Phases
<1>9. /\ v.phase = "next" /\ v.plan = plan /\ v.paths = paths /\ v.walk = TRUE
      /\ v.force = w.force /\ v.home = Gone /\ v.homeText = Gone /\ v.owed = {} /\ v.again = {}
  <2>1. /\ v.phase = "next" /\ v.plan = plan /\ v.paths = paths /\ v.walk = w.walk
        /\ v.force = w.force /\ v.home = w.home /\ v.homeText = w.homeText
        /\ v.owed = w.owed /\ v.again = w.again
    BY <1>2, <1>5 DEF Worker
  <2> QED BY <1>2, <2>1 DEF Shape, Busy, Reading, Removing
<1>10. Shape(v)
  BY <1>7, <1>9 DEF Shape, Busy, Reading, Removing
<1>11. ~Active(j)
  BY <1>1, <1>2 DEF Active
<1>12. /\ disk' \in [Files -> Content \cup {Gone}] /\ DiskInv'
       /\ void' \subseteq {"overlap", "refresh", "trouble"} /\ (void' = {} => Alone(j))
       /\ void' = {} /\ ~(w.force /\ Rooted) => void = {}
  BY <1>2, <1>6 DEF Starts, Voids, ReindexTypeOK, DiskInv
<1>13. ASSUME void' = {}, w.force PROVE Good(v)'
  <2>1. Rooted
    <3> SUFFICES ASSUME ~Rooted PROVE FALSE
      OBVIOUS
    <3>1. Good(At("done"))
      BY <1>11, <1>12, <1>13, Nobody
    <3>2. PICK d : d = At("done")
      OBVIOUS
    <3>3. d.home = Gone /\ Ahead(d) = {} /\ d.phase = "done"
      <4>1. d.home = Gone /\ d.paths = <<>> /\ d.phase = "done"
        BY <3>2 DEF At
      <4> QED BY <4>1, NothingLeft DEF Ahead
    <3>4. \A s \in nodes : index[s[1]] # NoRow
      BY <1>2, <3>1, <3>2, <3>3, SymbolParts
         DEF Good, NodeGood, RowInv, ReindexTypeOK, Busy, Reading, Removing
    <3> QED BY <3>4 DEF Rooted
  <2>2. NodeGood(v)' /\ GraphGood(v)'
    BY <1>2, <1>3, <1>6, <1>7, <1>8, <1>9, <1>13, <2>1, ForcedGood
  <2> QED BY <2>2 DEF Good
<1>14. ASSUME void' = {}, ~w.force PROVE Good(v)'
  <2>1. Good(At("done"))
    BY <1>11, <1>12, <1>14, Nobody
  <2>2. Ahead(v) = plan
    BY <1>7, <1>9 DEF Ahead
  <2>3. ASSUME NEW g \in Files PROVE Covered(v, g)'
    BY <1>3, <1>6, <1>9, <2>2 DEF Covered, Unlisted
  <2>4. \A g \in Files : Unlisted(v, g) => Read(g, Gone)'
    BY <1>3, <1>6, <1>9 DEF Unlisted, Read
  <2>5. Keeps(At("done"), v)
    BY <1>2, <1>6, <1>8, <1>9, <2>3, <2>4, BeginGood
  <2>6. Exempt => Exempt'
    BY <1>1, <1>2, <1>6, <1>14 DEF Exempt
  <2> QED BY <2>1, <2>5, <2>6 DEF Good, Keeps
<1> QED BY <1>6, <1>8, <1>9, <1>10, <1>11, <1>12, <1>13, <1>14, StartStep

(* A file that is there and cannot be read. *)
LEMMA UnreadStep == ASSUME ReindexInv, NEW j \in Jobs, Unread(j) PROVE ReindexInv'
<1>1. PICK w : w = job[j]
  OBVIOUS
<1>2. /\ w \in Worker /\ Shape(w) /\ job \in [Jobs -> Worker] /\ w.owed \in SUBSET Files
      /\ Trouble /\ Voids("trouble") /\ UNCHANGED <<treeVars, graphRows>>
  BY <1>1, WorkerKnown DEF Unread
<1>3. CASE w.paths # <<>> /\ Advance(j, TRUE)
  <2>1. PICK v : v = job'[j]
    OBVIOUS
  <2>2. job' = [job EXCEPT ![j] = v] /\ v \in Worker /\ Shape(v)
    BY <1>1, <1>2, <1>3, <2>1, AdvanceShape
  <2> QED BY <1>2, <2>2, TroubleStep
<1>4. ASSUME NEW d \in w.owed, w.phase = "refresh", Set(j, [w EXCEPT !.owed = w.owed \ {d}])
      PROVE  ReindexInv'
  <2>1. PICK v : v = [w EXCEPT !.owed = w.owed \ {d}]
    OBVIOUS
  <2>2. job' = [job EXCEPT ![j] = v]
    BY <1>4, <2>1 DEF Set
  <2>3. /\ v \in Worker /\ v.phase = "refresh" /\ SameTask(w, v) /\ SameHome(w, v) /\ SameFile(w, v)
        /\ v.owed = w.owed \ {d}
    BY <1>2, <1>4, <2>1 DEF Worker, SameTask, SameHome, SameFile
  <2>4. Shape(v)
    BY <1>2, <1>4, <2>3 DEF Shape, SameTask, SameHome, Busy, Reading, Removing
  <2> QED BY <1>2, <2>2, <2>3, <2>4, TroubleStep
<1> QED BY <1>1, <1>3, <1>4 DEF Unread

(* A removal that skips the dependents. *)
LEMMA UnlinkedStep == ASSUME ReindexInv, NEW j \in Jobs, Unlinked(j) PROVE ReindexInv'
<1>1. PICK v : v = job'[j]
  OBVIOUS
<1>2. /\ job \in [Jobs -> Worker] /\ Shape(job[j]) /\ ReindexTypeOK /\ Gone \notin Files
      /\ job[j].phase = "forget" /\ Advance(j, TRUE) /\ Trouble /\ Voids("trouble")
      /\ UNCHANGED <<treeVars, nodes, edges>>
      /\ index' = [index EXCEPT ![job[j].file] = NoRow]
  BY WorkerKnown DEF Unlinked
<1>3. job[j].home # Gone
  BY <1>2 DEF Shape, Busy, Reading, Removing
<1>4. job' = [job EXCEPT ![j] = v] /\ v \in Worker /\ Shape(v)
  BY <1>1, <1>2, <1>3, AdvanceShape
<1>5. index' \in [Files -> [text : Content, ok : BOOLEAN] \cup {NoRow}]
  BY <1>2 DEF ReindexTypeOK
<1> QED BY <1>2, <1>4, <1>5, TroubleInRow

(* A worker that is killed, wherever it is. *)
LEMMA KillStep == ASSUME ReindexInv, NEW j \in Jobs, Kill(j) PROVE ReindexInv'
<1>1. PICK v : v = job'[j]
  OBVIOUS
<1>2. job \in [Jobs -> Worker] /\ Trouble /\ Voids("trouble") /\ UNCHANGED <<treeVars, graphRows>>
  BY WorkerKnown DEF Kill
<1>3. job' = [job EXCEPT ![j] = v] /\ v \in Worker /\ Shape(v)
  <2>1. CASE Set(j, At("done"))
    <3>1. job' = [job EXCEPT ![j] = At("done")]
      BY <2>1 DEF Set
    <3>2. v = At("done")
      BY <1>1, <1>2, <3>1
    <3> QED BY <3>1, <3>2, AtShape
  <2>2. CASE Over(j)
    BY <1>1, <1>2, <2>2, OverParts
  <2> QED BY <2>1, <2>2 DEF Kill
<1> QED BY <1>2, <1>3, TroubleStep

(* An error that is only logged. *)
LEMMA SwallowStep == ASSUME ReindexInv, NEW j \in Jobs, Swallow(j) PROVE ReindexInv'
<1> USE DEF Busy, Reading, Removing
<1>1. PICK w : w = job[j]
  OBVIOUS
<1>2. /\ w \in Worker /\ Shape(w) /\ job \in [Jobs -> Worker] /\ Gone \notin Files
      /\ Trouble /\ Voids("trouble") /\ UNCHANGED <<treeVars, graphRows>>
  BY <1>1, WorkerKnown DEF Swallow
<1>3. ASSUME NEW v, job' = [job EXCEPT ![j] = v], v \in Worker, Shape(v) PROVE ReindexInv'
  BY <1>2, <1>3, TroubleStep
<1>4. ASSUME NEW p \in Phases, Goto(j, p), Shape([w EXCEPT !.phase = p]) PROVE ReindexInv'
  <2>1. PICK v : v = [w EXCEPT !.phase = p]
    OBVIOUS
  <2>2. job' = [job EXCEPT ![j] = v]
    BY <1>1, <1>2, <1>4, <2>1 DEF Goto
  <2>3. v \in Worker
    BY <1>2, <2>1, GotoParts
  <2> QED BY <1>3, <1>4, <2>1, <2>2, <2>3
<1>5. ASSUME NEW p \in Phases
      PROVE  LET v == [w EXCEPT !.phase = p] IN
             v.phase = p /\ SameTask(w, v) /\ SameHome(w, v) /\ SameFile(w, v) /\ v.owed = w.owed
  BY <1>2, GotoParts
<1>6. ASSUME NEW failed \in BOOLEAN, Advance(j, failed), w.home # Gone PROVE ReindexInv'
  <2>1. PICK v : v = job'[j]
    OBVIOUS
  <2>2. job' = [job EXCEPT ![j] = v] /\ v \in Worker /\ Shape(v)
    BY <1>1, <1>2, <1>6, <2>1, AdvanceShape
  <2> QED BY <1>3, <2>2
<1>7. ASSUME Over(j) PROVE ReindexInv'
  <2>1. PICK v : v = job'[j]
    OBVIOUS
  <2>2. job' = [job EXCEPT ![j] = v] /\ v \in Worker /\ Shape(v)
    BY <1>2, <1>7, <2>1, OverParts
  <2> QED BY <1>3, <2>2
<1>8. CASE w.phase = "reset"
  <2>1. PICK v : v = [w EXCEPT !.phase = "upsert", !.known = NamesOf(w.file)]
    OBVIOUS
  <2>2. job' = [job EXCEPT ![j] = v]
    BY <1>1, <1>8, <2>1 DEF Swallow, Set, Refreshed
  <2>3. /\ v \in Worker /\ v.phase = "upsert" /\ SameTask(w, v) /\ SameHome(w, v)
        /\ v.file = w.file /\ v.text = w.text /\ v.owed = w.owed
    <3>1. NamesOf(w.file) \in SUBSET Names
      BY DEF NamesOf
    <3> QED BY <1>2, <2>1, <3>1 DEF Worker, Phases, SameTask, SameHome
  <2>4. Shape(v)
    BY <1>2, <1>8, <2>3 DEF Shape, SameTask, SameHome
  <2> QED BY <1>3, <2>2, <2>3, <2>4
<1>9. CASE w.phase \in {"census", "prune"}
  <2>1. PICK p \in {"link", "refresh", "record"} :
          /\ Goto(j, p) /\ (p = "link" => ~w.walk) /\ (p = "record" => w.file # w.home)
          /\ p = "refresh" => w.file = w.home
    BY <1>1, <1>9 DEF Swallow, Refreshed, Pruned, Settled, Home
  <2>2. p \in Phases
    BY DEF Phases
  <2>3. Shape([w EXCEPT !.phase = p])
    <3>1. PICK v : v = [w EXCEPT !.phase = p]
      OBVIOUS
    <3>2. v.phase = p /\ SameTask(w, v) /\ SameHome(w, v) /\ SameFile(w, v) /\ v.owed = w.owed
      BY <1>5, <2>2, <3>1
    <3>3. Shape(v)
      BY <1>2, <1>9, <2>1, <3>2 DEF Shape, SameTask, SameHome, SameFile
    <3> QED BY <3>1, <3>3
  <2> QED BY <1>4, <2>1, <2>2, <2>3
<1>10. CASE w.phase = "link"
  <2>1. PICK p \in {"refresh", "record"} :
          Goto(j, p) /\ (p = "record" => w.file # w.home) /\ (p = "refresh" => w.file = w.home)
    BY <1>1, <1>10 DEF Swallow, Refreshed, Settled, Home
  <2>2. p \in Phases
    BY DEF Phases
  <2>3. Shape([w EXCEPT !.phase = p])
    <3>1. PICK v : v = [w EXCEPT !.phase = p]
      OBVIOUS
    <3>2. v.phase = p /\ SameTask(w, v) /\ SameHome(w, v) /\ SameFile(w, v) /\ v.owed = w.owed
      BY <1>5, <2>2, <3>1
    <3>3. Shape(v)
      BY <1>2, <1>10, <2>1, <3>2 DEF Shape, SameTask, SameHome, SameFile
    <3> QED BY <3>1, <3>3
  <2> QED BY <1>4, <2>1, <2>2, <2>3
<1>11. CASE w.phase = "record"
  <2>1. Goto(j, "refresh") /\ "refresh" \in Phases
    BY <1>1, <1>11 DEF Swallow, Refreshed, Phases
  <2>2. Shape([w EXCEPT !.phase = "refresh"])
    <3>1. PICK v : v = [w EXCEPT !.phase = "refresh"]
      OBVIOUS
    <3>2. v.phase = "refresh" /\ SameTask(w, v) /\ SameHome(w, v) /\ SameFile(w, v)
          /\ v.owed = w.owed
      BY <1>5, <2>1, <3>1
    <3>3. Shape(v)
      BY <1>2, <1>11, <3>2 DEF Shape, SameTask, SameHome, SameFile
    <3> QED BY <3>1, <3>3
  <2> QED BY <1>4, <2>1, <2>2
<1>12. CASE w.phase = "refresh" /\ w.owed = {} /\ w.homeText # Gone
  <2>1. w.home # Gone
    BY <1>2, <1>12 DEF Shape
  <2>2. Advance(j, FALSE) /\ FALSE \in BOOLEAN
    BY <1>1, <1>12, <2>1 DEF Swallow, Refreshed
  <2> QED BY <1>6, <2>1, <2>2
<1>13. CASE w.phase \in {"orphans", "uproot", "forget"}
  <2>1. Advance(j, TRUE) /\ TRUE \in BOOLEAN
    BY <1>1, <1>13 DEF Swallow, Refreshed
  <2>2. w.home # Gone
    BY <1>2, <1>13 DEF Shape
  <2> QED BY <1>6, <2>1, <2>2
<1>14. CASE w.phase = "reconcile"
  <2>1. Relink(j, {}) /\ {} \in SUBSET Files
    BY <1>1, <1>14 DEF Swallow, Refreshed
  <2>2. PICK v : v = job'[j]
    OBVIOUS
  <2>3. job' = [job EXCEPT ![j] = v] /\ v \in Worker /\ Shape(v)
    BY <1>1, <1>2, <1>14, <2>1, <2>2, RelinkParts
  <2> QED BY <1>3, <2>3
<1>15. CASE w.phase = "refresh" /\ w.owed = {} /\ w.home = Gone
  <2>1. w.homeText = Gone
    BY <1>2, <1>15 DEF Shape
  <2>2. Goto(j, "sweep") /\ "sweep" \in Phases
    BY <1>1, <1>15, <2>1 DEF Swallow, Refreshed, Phases
  <2>3. Shape([w EXCEPT !.phase = "sweep"])
    <3>1. PICK v : v = [w EXCEPT !.phase = "sweep"]
      OBVIOUS
    <3>2. v.phase = "sweep" /\ SameTask(w, v) /\ SameHome(w, v) /\ SameFile(w, v) /\ v.owed = w.owed
      BY <1>5, <2>2, <3>1
    <3>3. Shape(v)
      BY <1>2, <1>15, <3>2 DEF Shape, SameTask, SameHome, SameFile
    <3> QED BY <3>1, <3>3
  <2> QED BY <1>4, <2>2, <2>3
<1>16. CASE w.phase = "sweep"
  <2>1. Over(j)
    BY <1>1, <1>16 DEF Swallow, Refreshed
  <2> QED BY <1>7, <2>1
<1>17. \/ w.phase \in {"reset", "census", "prune", "link", "record", "orphans", "uproot", "forget",
                      "reconcile", "sweep"}
       \/ w.phase = "refresh" /\ w.owed = {} /\ (w.homeText # Gone \/ w.home = Gone)
  BY <1>1 DEF Swallow, Refreshed
<1> QED BY <1>8, <1>9, <1>10, <1>11, <1>12, <1>13, <1>14, <1>15, <1>16, <1>17


-------------------------------------------------------------------------------

(* The graph of the whole tree, as relations. *)
LEMMA FullGraph ==
  ASSUME NEW d
  PROVE  /\ \A f \in Files, s \in Symbol :
              /\ [from |-> f, to |-> s, bound |-> TRUE] \in Called(d)
                   <=> d[f] # Gone /\ s \in d[f].calls /\ s \in Defined(d)
              /\ [from |-> f, to |-> s, bound |-> FALSE] \in Called(d)
                   <=> d[f] # Gone /\ s \in d[f].calls /\ s \notin Defined(d)
         /\ Called(d) \subseteq Edge /\ Defined(d) \subseteq Symbol
<1>1. \A f \in Files, s \in Symbol :
        /\ [from |-> f, to |-> s, bound |-> TRUE] \in Edge
        /\ [from |-> f, to |-> s, bound |-> FALSE] \in Edge
  BY DEF Edge
<1>2. (\A s : s \in Defined(d) \/ s \notin Defined(d)) /\ Defined(d) \subseteq Symbol
  BY DEF Defined
<1>3. Called(d) \subseteq Edge
  BY DEF Called
<1>4. ASSUME NEW f \in Files, NEW s \in Symbol, NEW b \in BOOLEAN
      PROVE  [from |-> f, to |-> s, bound |-> b] \in Called(d)
               <=> d[f] # Gone /\ s \in d[f].calls /\ b = (s \in Defined(d))
  <2> DEFINE e == [from |-> f, to |-> s, bound |-> b]
  <2>1. e \in Edge /\ e.from = f /\ e.to = s /\ e.bound = b
    BY DEF Edge
  <2> HIDE DEF e
  <2>2. e \in Called(d) <=> d[f] # Gone /\ s \in d[f].calls /\ b = (s \in Defined(d))
    BY <2>1 DEF Called
  <2> QED BY <2>2 DEF e
<1>5. ASSUME NEW f \in Files, NEW s \in Symbol
      PROVE  /\ [from |-> f, to |-> s, bound |-> TRUE] \in Called(d)
                   <=> d[f] # Gone /\ s \in d[f].calls /\ s \in Defined(d)
             /\ [from |-> f, to |-> s, bound |-> FALSE] \in Called(d)
                   <=> d[f] # Gone /\ s \in d[f].calls /\ s \notin Defined(d)
  <2>1. [from |-> f, to |-> s, bound |-> TRUE] \in Called(d)
          <=> d[f] # Gone /\ s \in d[f].calls /\ TRUE = (s \in Defined(d))
    BY <1>4
  <2>2. [from |-> f, to |-> s, bound |-> FALSE] \in Called(d)
          <=> d[f] # Gone /\ s \in d[f].calls /\ FALSE = (s \in Defined(d))
    BY <1>4
  <2> QED BY <2>1, <2>2
<1> QED BY <1>2, <1>3, <1>5

(* Sets of edges that have the same edges and stubs are the same. *)
LEMMA SameEdges ==
  ASSUME NEW A \in SUBSET Edge, NEW B \in SUBSET Edge,
         \A f \in Files, s \in Symbol, b \in BOOLEAN :
           [from |-> f, to |-> s, bound |-> b] \in A <=> [from |-> f, to |-> s, bound |-> b] \in B
  PROVE  A = B
<1>1. ASSUME NEW e \in Edge PROVE e \in A <=> e \in B
  <2>1. /\ e = [from |-> e.from, to |-> e.to, bound |-> e.bound]
        /\ e.from \in Files /\ e.to \in Symbol /\ e.bound \in BOOLEAN
    BY DEF Edge
  <2>2. [from |-> e.from, to |-> e.to, bound |-> e.bound] \in A
          <=> [from |-> e.from, to |-> e.to, bound |-> e.bound] \in B
    BY <2>1
  <2> QED BY <2>1, <2>2
<1> QED BY <1>1

(* A tree that has been indexed. *)
LEMMA ReindexStart == ReindexInit => ReindexInv
<1> SUFFICES ASSUME ReindexInit PROVE ReindexInv
  OBVIOUS
<1> USE DEF ReindexInit
<1>1. \A f \in Files : disk[f] \in Content \cup {Gone} /\ disk[f] \in Versions[f]
  BY ReindexAssumption
<1>2. \A f \in Files :
        /\ disk[f] = Gone => index[f] = NoRow
        /\ disk[f] # Gone => /\ index[f] # NoRow /\ index[f] \in [text : Content, ok : BOOLEAN]
                             /\ index[f].text = disk[f] /\ index[f].ok = TRUE
  <2> SUFFICES ASSUME NEW f \in Files, disk[f] # Gone
               PROVE  /\ index[f] # NoRow /\ index[f] \in [text : Content, ok : BOOLEAN]
                      /\ index[f].text = disk[f] /\ index[f].ok = TRUE
    OBVIOUS
  <2> DEFINE row == [text |-> disk[f], ok |-> TRUE]
  <2>1. disk[f] \in Content
    BY <1>1
  <2>2. row \in [text : Content, ok : BOOLEAN] /\ row # NoRow
    BY <2>1, RowIsRow
  <2>3. row.text = disk[f] /\ row.ok = TRUE /\ index[f] = row
    OBVIOUS
  <2> HIDE DEF row
  <2> QED BY <2>2, <2>3
<1>3. PICK w : w = At("idle")
  OBVIOUS
<1>4. /\ w \in Worker /\ w.phase = "idle" /\ w.walk = FALSE /\ w.home = Gone /\ w.homeText = Gone
      /\ w.owed = {} /\ w.paths = <<>>
  BY <1>3, AtParts DEF Phases, At
<1>5. job \in [Jobs -> Worker] /\ \A j \in Jobs : job[j] = w
  BY <1>3, <1>4
<1>6. /\ \A f \in Files, s \in Symbol :
           /\ Linked(f, s) <=> disk[f] # Gone /\ s \in disk[f].calls /\ s \in nodes
           /\ Stub(f, s) <=> disk[f] # Gone /\ s \in disk[f].calls /\ s \notin nodes
      /\ nodes \subseteq Symbol /\ edges \subseteq Edge
  BY FullGraph DEF Linked, Stub
<1>7. \A s \in Symbol : s \in nodes <=> disk[s[1]] # Gone /\ s[2] \in disk[s[1]].defs
  BY DEF Defined
<1>8. ReindexTypeOK
  <2>1. /\ disk \in [Files -> Content \cup {Gone}]
        /\ index \in [Files -> [text : Content, ok : BOOLEAN] \cup {NoRow}]
    BY <1>2
  <2>2. marker \in [Files -> 0..MaxJobs] /\ troubles \in 0..MaxTroubles
    BY ReindexAssumption
  <2> QED BY <1>5, <1>6, <2>1, <2>2 DEF ReindexTypeOK
<1>9. ShapeInv
  <2>1. Shape(w)
    BY <1>4 DEF Shape, Busy, Reading, Removing
  <2> QED BY <1>5, <2>1 DEF ShapeInv
<1>10. DiskInv /\ BoundInv
  BY <1>1, <1>6 DEF DiskInv, BoundInv
<1>11. SelfInv
  BY <1>1, <1>6, ReindexAssumption DEF SelfInv
<1>12. \A j \in Jobs : ~Active(j)
  BY <1>4, <1>5 DEF Active
<1>13. PICK d : d = At("done")
  OBVIOUS
<1>14. d.phase = "done" /\ d.walk = FALSE /\ d.home = Gone /\ d.owed = {} /\ d.paths = <<>>
  BY <1>13 DEF At
<1>15. NodeGood(d)
  <2>1. RowInv(d)
    BY <1>2, <1>6, <1>7, SymbolParts DEF RowInv
  <2> QED BY <1>14, <2>1 DEF NodeGood, DoneNames, NameInv, HomeDone
<1>16. GraphGood(d)
  <2>1. SoundInv(d)
    BY <1>2, <1>6, <1>7 DEF SoundInv, Sound, Has, Calls
  <2>2. DoneCalls(d) /\ CallInv(d)
    BY <1>14 DEF DoneCalls, CallInv, HomeDone
  <2>3. LinkInv(d) /\ TwinInv(d)
    BY <1>6 DEF LinkInv, TwinInv
  <2>4. CoverInv(d)
    <3>1. \A f \in Files : disk[f] = Gone => Calls(f, {})
      BY <1>6 DEF Calls
    <3> QED BY <1>2, <1>14, <3>1
            DEF CoverInv, Covered, Current, Unlisted, Busy, Reading, Removing
  <2> QED BY <2>1, <2>2, <2>3, <2>4 DEF GraphGood
<1>17. OneActive /\ GoodInv
  BY <1>12, <1>13, <1>15, <1>16 DEF OneActive, GoodInv, Good
<1> QED BY <1>8, <1>9, <1>10, <1>11, <1>17 DEF ReindexInv, Sane

(* Every step keeps the invariant. *)
LEMMA ReindexSteps == ReindexInv /\ [ReindexNext]_graphVars => ReindexInv'
<1> SUFFICES ASSUME ReindexInv, [ReindexNext]_graphVars PROVE ReindexInv'
  OBVIOUS
<1>1. CASE UNCHANGED graphVars
  <2>1. /\ disk' = disk /\ nodes' = nodes /\ edges' = edges /\ index' = index
        /\ marker' = marker /\ sentinel' = sentinel /\ job' = job /\ troubles' = troubles
        /\ void' = void
    BY <1>1 DEF graphVars
  <2>2. Sane'
    <3>1. ReindexTypeOK'
      BY <2>1 DEF ReindexInv, Sane, ReindexTypeOK
    <3>2. ShapeInv' /\ DiskInv'
      BY <2>1 DEF ReindexInv, Sane, ShapeInv, DiskInv
    <3>3. BoundInv' /\ SelfInv'
      BY <2>1 DEF ReindexInv, Sane, BoundInv, SelfInv, Linked, Stub
    <3>4. OneActive'
      BY <2>1 DEF ReindexInv, Sane, OneActive, Active
    <3> QED BY <3>1, <3>2, <3>3, <3>4 DEF Sane
  <2>3. ASSUME NEW w, NodeGood(w) PROVE NodeGood(w)'
    <3>1. RowInv(w)'
      BY <2>1, <2>3 DEF NodeGood, RowInv
    <3>2. DoneNames(w)'
      BY <2>1, <2>3 DEF NodeGood, DoneNames, Has
    <3>3. NameInv(w)'
      BY <2>1, <2>3 DEF NodeGood, NameInv, Has
    <3> QED BY <3>1, <3>2, <3>3 DEF NodeGood
  <2>4. Exempt' = Exempt
    BY <2>1 DEF Exempt
  <2>5. ASSUME NEW w, GraphGood(w) PROVE GraphGood(w)'
    <3>1. SoundInv(w)'
      BY <2>1, <2>5 DEF GraphGood, SoundInv, Sound, Has, Calls, Linked, Stub
    <3>2. DoneCalls(w)'
      BY <2>1, <2>5 DEF GraphGood, DoneCalls, Calls, Linked, Stub
    <3>3. CallInv(w)'
      BY <2>1, <2>5 DEF GraphGood, CallInv, Calls, Linked, Stub, Dependents, Outdated
    <3>4. LinkInv(w)' /\ TwinInv(w)'
      BY <2>1, <2>5 DEF GraphGood, LinkInv, TwinInv, Raw, Linked, Stub
    <3>5. CoverInv(w)'
      BY <2>1, <2>5 DEF GraphGood, CoverInv, Covered, Current, Read, Waiting, Calls, Linked, Stub
    <3> QED BY <3>1, <3>2, <3>3, <3>4, <3>5 DEF GraphGood
  <2>6. ASSUME NEW w, Good(w) PROVE Good(w)'
    BY <2>3, <2>4, <2>5, <2>6 DEF Good
  <2>7. GoodInv'
    BY <2>1, <2>6 DEF ReindexInv, GoodInv, Active
  <2> QED BY <2>2, <2>7 DEF ReindexInv
<1>2. CASE ReindexNext
  <2>1. PICK j \in Jobs : Begin(j) \/ Work(j) \/ Fail(j)
    BY <1>2 DEF ReindexNext
  <2>2. CASE Begin(j)
    BY <2>2, EditStep, ShellStep, BulkStep, WalkStep DEF Begin
  <2>3. CASE Dispatch(j)
    BY <2>3, OpenStep, LookupStep, ResetStep, UpsertStep, CensusStep, PruneStep, LinkStep,
       RefreshStep, RecordStep, RemovedStep, RecordErrorStep, OrphansStep, UprootStep, ForgetStep
       DEF Dispatch
  <2>4. CASE WalkEnd(j)
    BY <2>4, ReconcileStep, LinkAllStep, SweepStep, EndOfWalkStep DEF WalkEnd
  <2>5. CASE Wake(j) \/ List(j) \/ Listed(j)
    BY <2>5, WakeStep, ListStep, ListedStep
  <2>6. CASE Fail(j)
    BY <2>6, UpsertFailsStep, SwallowStep, UnreadStep, UnlinkedStep, KillStep DEF Fail
  <2> QED BY <2>1, <2>2, <2>3, <2>4, <2>5, <2>6 DEF Work
<1> QED BY <1>1, <1>2

(* As long as nothing is voided, each worker, wherever it is, is on its way *)
(* to the graph of the whole tree; what it still has to do, and what every *)
(* row in order says of the graph, is in ReindexInv. Whatever is voided,   *)
(* types and shapes stay.                                                  *)
THEOREM ReindexCorrect == ReindexSpec => []ReindexInv
<1> QED BY ReindexStart, ReindexSteps, PTL DEF ReindexSpec

(* The types. *)
THEOREM ReindexTypeCorrect == ReindexSpec => []ReindexTypeOK
<1>1. ReindexInv => ReindexTypeOK
  BY DEF ReindexInv, Sane
<1> QED BY <1>1, ReindexCorrect, PTL

(* When nobody is on the way any more, that is the graph. *)
LEMMA RestIsFull == ReindexInv => IncrementalIsFull
<1> SUFFICES ASSUME ReindexInv, Rest, void = {}, AllOk
             PROVE  /\ nodes = Defined(disk) /\ edges = Called(disk)
                    /\ \A f \in Files : IF disk[f] = Gone THEN index[f] = NoRow
                                        ELSE index[f] = [text |-> disk[f], ok |-> TRUE]
  BY DEF IncrementalIsFull
<1>1. ReindexTypeOK /\ BoundInv /\ Gone \notin Files
  BY ReindexAssumption DEF ReindexInv, Sane
<1>2. PICK d : d = At("done")
  OBVIOUS
<1>3. /\ d.phase = "done" /\ d.walk = FALSE /\ d.home = Gone /\ d.owed = {} /\ Ahead(d) = {}
  <2>1. d.phase = "done" /\ d.walk = FALSE /\ d.home = Gone /\ d.owed = {} /\ d.paths = <<>>
    BY <1>2 DEF At
  <2> QED BY <2>1, NothingLeft DEF Ahead
<1>4. NodeGood(d) /\ GraphGood(d)
  <2>1. ~Exempt /\ \A j \in Jobs : ~Active(j)
    BY DEF Rest, Exempt, Active
  <2> QED BY <1>2, <2>1 DEF ReindexInv, GoodInv, Good
<1>5. \A f \in Files : ~Waiting(f)
  BY DEF Rest, Waiting
<1>6. ASSUME NEW f \in Files
      PROVE  /\ disk[f] = Gone => index[f] = NoRow /\ Calls(f, {})
             /\ disk[f] # Gone => index[f] # NoRow /\ index[f].text = disk[f] /\ index[f].ok
  <2>1. Covered(d, f) /\ (index[f] # NoRow => index[f].ok)
    BY <1>4 DEF GraphGood, CoverInv, AllOk
  <2> QED BY <1>1, <1>3, <1>5, <2>1 DEF Covered, Current, Unlisted
<1>7. \A f \in Files : Sound(f) /\ (index[f] = NoRow \/ ~Raw(d, f))
  BY <1>1, <1>3, <1>4 DEF GraphGood, SoundInv, Loose, Raw, Unlisted, Busy, Reading, Removing
<1>8. \A f \in Files : disk[f] # Gone => Has(f, disk[f].defs) /\ Calls(f, disk[f].calls)
  BY <1>6, <1>7 DEF Sound
<1>9. \A s \in nodes : index[s[1]] # NoRow
  BY <1>1, <1>3, <1>4, SymbolParts
     DEF NodeGood, RowInv, ReindexTypeOK, Busy, Reading, Removing
<1>10. nodes = Defined(disk)
  <2>1. \A s \in Symbol : s \in nodes <=> disk[s[1]] # Gone /\ s[2] \in disk[s[1]].defs
    BY <1>6, <1>8, <1>9, SymbolParts DEF Has
  <2> QED BY <1>1, <2>1 DEF Defined, ReindexTypeOK
<1>11. ASSUME NEW f \in Files, NEW s \in Symbol
       PROVE  /\ Linked(f, s) <=> disk[f] # Gone /\ s \in disk[f].calls /\ s \in nodes
              /\ Stub(f, s) <=> disk[f] # Gone /\ s \in disk[f].calls /\ s \notin nodes
  <2>1. Linked(f, s) \/ Stub(f, s) <=> disk[f] # Gone /\ s \in disk[f].calls
    BY <1>6, <1>8 DEF Calls
  <2>2. Linked(f, s) => s \in nodes
    BY <1>1 DEF BoundInv
  <2>3. Stub(f, s) /\ disk[f] # Gone => s \notin nodes
    BY <1>3, <1>4, <1>6, <1>7 DEF GraphGood, LinkInv, ToLink
  <2> QED BY <2>1, <2>2, <2>3
<1>12. edges = Called(disk)
  <2>1. edges \in SUBSET Edge /\ Called(disk) \in SUBSET Edge
    BY <1>1, FullGraph DEF ReindexTypeOK
  <2>2. ASSUME NEW f \in Files, NEW s \in Symbol
        PROVE  /\ [from |-> f, to |-> s, bound |-> TRUE] \in edges
                    <=> [from |-> f, to |-> s, bound |-> TRUE] \in Called(disk)
               /\ [from |-> f, to |-> s, bound |-> FALSE] \in edges
                    <=> [from |-> f, to |-> s, bound |-> FALSE] \in Called(disk)
    BY <1>10, <1>11, FullGraph DEF Linked, Stub
  <2>3. ASSUME NEW f \in Files, NEW s \in Symbol, NEW b \in BOOLEAN
        PROVE  [from |-> f, to |-> s, bound |-> b] \in edges
                 <=> [from |-> f, to |-> s, bound |-> b] \in Called(disk)
    <3>1. CASE b = TRUE
      BY <2>2, <3>1
    <3>2. CASE b = FALSE
      BY <2>2, <3>2
    <3> QED BY <3>1, <3>2
  <2> QED BY <2>1, <2>3, SameEdges
<1>13. \A f \in Files : IF disk[f] = Gone THEN index[f] = NoRow
                        ELSE index[f] = [text |-> disk[f], ok |-> TRUE]
  <2> SUFFICES ASSUME NEW f \in Files, disk[f] # Gone
               PROVE  index[f] = [text |-> disk[f], ok |-> TRUE]
    BY <1>6
  <2>1. index[f] \in [text : Content, ok : BOOLEAN]
    BY <1>1, <1>6 DEF ReindexTypeOK
  <2>2. index[f] = [text |-> index[f].text, ok |-> index[f].ok] /\ index[f].ok \in BOOLEAN
    BY <2>1
  <2>3. index[f].text = disk[f] /\ index[f].ok = TRUE
    BY <1>6, <2>2
  <2> QED BY <2>2, <2>3
<1> QED BY <1>10, <1>12, <1>13

(* Whatever edits, commands and walks there were, one worker at a time,    *)
(* whatever extractions and upserts failed, and whatever else went wrong   *)
(* before the last forced walk began: when all have ended, nothing since   *)
(* was voided (an error that leaves no mark, a file that could not be read, *)
(* a kill, an overlap, a refresh that prunes) and every row is in order,   *)
(* the graph kept up file by file is that of the whole tree.               *)
THEOREM GraphFollows == ReindexSpec => []IncrementalIsFull
<1> QED BY ReindexCorrect, RestIsFull, PTL

===============================================================================
