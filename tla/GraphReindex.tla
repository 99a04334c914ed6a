----------------------------- MODULE GraphReindex -----------------------------
(***************************************************************************)
(* How the code graph follows the files: the edit hook with its trailing   *)
(* debounce (_reindex_on_edit.sh), the reconciler of shell commands        *)
(* (auto-graph-reconcile-shell.sh), the walk of `cos graph-reindex`, and   *)
(* the dispatch of one file they all end in (reindex_dispatch.py), as the  *)
(* transactions and the reads between them that it really is. Detached     *)
(* workers overlap, are killed, and meet a locked database.                *)
(*                                                                         *)
(* A file defines names and calls names of other files from its top level, *)
(* so the edges leave a node that every version of the file has. A stub    *)
(* (code:external:...) is an edge that is not bound. One extractor per     *)
(* file; the docs layer, which has a marker and rows of its own, and       *)
(* settings that change the chain key are left out.                        *)
(***************************************************************************)
EXTENDS Naturals, SequencesExt

CONSTANTS
  Files, Names,
  Versions,      \* the contents each file may have
  Commands,      \* shell commands: the files they touch, and what they leave there
  Gone,          \* the content of a file that does not exist
  NoRow,
  MaxJobs,       \* bound: edits, commands and walks together
  MaxTroubles    \* bound: kills, failing statements and failing reads together

Symbol == Files \X Names

Content == [defs : SUBSET Names, calls : SUBSET Symbol]

ASSUME ReindexAssumption ==
  /\ Versions \in [Files -> SUBSET (Content \cup {Gone})]
  /\ \A f \in Files : \A c \in Versions[f] \ {Gone} : \A s \in c.calls : s[1] # f
  /\ \A s \in Commands : \A f \in DOMAIN s : f \in Files /\ s[f] \in Versions[f]
  /\ Gone \notin Content \cup Files /\ NoRow \notin [text : Content, ok : BOOLEAN]
  /\ IsFiniteSet(Files) /\ MaxJobs \in Nat /\ MaxTroubles \in Nat

VARIABLES
  disk,        \* the files
  nodes,       \* graph_nodes: the symbols
  edges,       \* graph_edges_v12: who calls which symbol, found or still a stub
  index,       \* file_index_state: the content last recorded, and last_error
  marker,      \* .reindex-pending-<file>: the token of the last edit
  sentinel,    \* .reindex-scheduled: a walk was started for a bulk command
  job,         \* the workers
  troubles,    \* kills, failing statements and failing reads so far
  void         \* ghost: what has happened that only a forced walk repairs

graphVars == <<disk, nodes, edges, index, marker, sentinel, job, troubles, void>>
treeVars == <<disk, marker, sentinel>>
graphRows == <<nodes, edges, index>>

Jobs == 1..MaxJobs

Edge == [from : Files, to : Symbol, bound : BOOLEAN]

(* idle; quiet, the debounce, and list, of a walk; then the steps of a     *)
(* dispatch, orphans to forget those of a file that is gone, refresh those *)
(* for the dependents; reconcile, sweep and end finish a walk.             *)
Phases == {"idle", "quiet", "list", "next", "lookup", "reset", "upsert", "census", "prune",
           "link", "record", "error", "refresh", "orphans", "uproot", "forget",
           "reconcile", "sweep", "end", "done"}

(* paths: files still to dispatch; plan: files a walk has listed; again:   *)
(* its failures; home: the file dispatched, with the content it was read   *)
(* with; file: the file indexed now, home or one of its dependents; known: *)
(* names it had before; owed: dependents still to be read again.           *)
Worker == [phase : Phases, walk : BOOLEAN, bulk : BOOLEAN, force : BOOLEAN, paths : Seq(Files),
           plan : SUBSET Files, again : SUBSET Files, retried : BOOLEAN,
           home : Files \cup {Gone}, homeText : Content \cup {Gone},
           file : Files \cup {Gone}, text : Content \cup {Gone},
           known : SUBSET Names, owed : SUBSET Files]

At(phase) == [phase |-> phase, walk |-> FALSE, bulk |-> FALSE, force |-> FALSE,
              paths |-> <<>>, plan |-> {}, again |-> {}, retried |-> FALSE,
              home |-> Gone, homeText |-> Gone, file |-> Gone, text |-> Gone, known |-> {}, owed |-> {}]

ReindexTypeOK ==
  /\ disk \in [Files -> Content \cup {Gone}]
  /\ nodes \subseteq Symbol
  /\ edges \subseteq Edge
  /\ index \in [Files -> [text : Content, ok : BOOLEAN] \cup {NoRow}]
  /\ marker \in [Files -> 0..MaxJobs]
  /\ sentinel \in BOOLEAN
  /\ job \in [Jobs -> Worker]
  /\ troubles \in 0..MaxTroubles
  /\ void \subseteq {"overlap", "refresh", "trouble"}

-------------------------------------------------------------------------------

(* What an extractor finds, and the graph a tree of files has. *)
Defined(d) == {s \in Symbol : d[s[1]] # Gone /\ s[2] \in d[s[1]].defs}
Called(d) == {e \in Edge : /\ d[e.from] # Gone /\ e.to \in d[e.from].calls
                           /\ e.bound = (e.to \in Defined(d))}

(* A tree of files that has been indexed. *)
ReindexInit ==
  /\ disk \in [Files -> Content \cup {Gone}]
  /\ \A f \in Files : disk[f] \in Versions[f]
  /\ nodes = Defined(disk) /\ edges = Called(disk)
  /\ index = [f \in Files |-> IF disk[f] = Gone THEN NoRow
                              ELSE [text |-> disk[f], ok |-> TRUE]]
  /\ marker = [f \in Files |-> 0] /\ sentinel = FALSE
  /\ job = [j \in Jobs |-> At("idle")]
  /\ troubles = 0 /\ void = {}

Active(j) == job[j].phase \notin {"idle", "quiet", "list", "done"}
Alone(j) == \A i \in Jobs \ {j} : ~Active(i)
Unused(j) == job[j].phase = "idle" /\ \A i \in 1..(j - 1) : job[i].phase # "idle"

Set(j, worker) == job' = [job EXCEPT ![j] = worker]
Goto(j, phase) == job' = [job EXCEPT ![j].phase = phase]

Voids(reason) == void' = void \cup {reason}

Starts(j) == IF Alone(j) THEN UNCHANGED void ELSE Voids("overlap")

(* The hook of an edit: its token, and a worker that waits. *)
Edit(j, f, c) ==
  /\ Unused(j) /\ c \notin {Gone, disk[f]}
  /\ disk' = [disk EXCEPT ![f] = c]
  /\ marker' = [marker EXCEPT ![f] = j]
  /\ Set(j, [At("quiet") EXCEPT !.paths = <<f>>])
  /\ UNCHANGED <<sentinel, graphRows, troubles, void>>

(* Only the last edit's worker goes on: an earlier one finds another token.*)
Wake(j) ==
  /\ job[j].phase = "quiet"
  /\ IF marker[Head(job[j].paths)] = j
       THEN Goto(j, "next") /\ Starts(j)
       ELSE Set(j, At("done")) /\ UNCHANGED void
  /\ UNCHANGED <<treeVars, graphRows, troubles>>

(* What a command leaves on the disk. *)
Written(s) == [f \in Files |-> IF f \in DOMAIN s THEN s[f] ELSE disk[f]]

(* The reconciler: one worker, forced, the files that are gone first. *)
Shell(j, s) ==
  /\ Unused(j) /\ \E f \in DOMAIN s : disk[f] # s[f]
  /\ disk' = Written(s)
  /\ LET gone == {f \in DOMAIN s : s[f] = Gone} IN
     Set(j, [At("next") EXCEPT !.force = TRUE,
                               !.paths = SetToSeq(gone) \o SetToSeq(DOMAIN s \ gone)])
  /\ Starts(j)
  /\ UNCHANGED <<marker, sentinel, graphRows, troubles>>

(* `cos graph-reindex`, and the walk a bulk command is given unless one was *)
(* scheduled within 30 s: then the command is not followed at all. A forced *)
(* walk reads everything again.                                            *)
Walk(j, force) ==
  /\ Unused(j)
  /\ Set(j, [At("list") EXCEPT !.walk = TRUE, !.force = force])
  /\ UNCHANGED <<treeVars, graphRows, troubles, void>>

Bulk(j, s) ==
  /\ Unused(j) /\ \E f \in DOMAIN s : disk[f] # s[f]
  /\ disk' = Written(s) /\ sentinel' = TRUE
  /\ \/ Set(j, [At("list") EXCEPT !.walk = TRUE, !.force = TRUE, !.bulk = TRUE]) /\ UNCHANGED void
     \/ sentinel /\ Set(j, At("done")) /\ Voids("overlap")
  /\ UNCHANGED <<marker, graphRows, troubles>>

(* Nodes that no row leads to, of a file that is gone: the walk links       *)
(* callers to them before its sweep deletes them, and reads no one again.  *)
Rooted == \A s \in nodes : disk[s[1]] # Gone \/ index[s[1]] # NoRow

List(j) ==
  LET plan == {f \in Files : disk[f] # Gone} IN
  /\ job[j].phase = "list"
  /\ Set(j, [job[j] EXCEPT !.phase = "next", !.plan = plan, !.paths = SetToSeq(plan)])
  /\ IF job[j].force /\ Rooted /\ Alone(j) THEN void' = {} ELSE Starts(j)
  /\ UNCHANGED <<treeVars, graphRows, troubles>>

-------------------------------------------------------------------------------

(* A dispatch that has ended: the worker ends with its last path, a walk   *)
(* notes the files that failed and goes on.                                *)
Advance(j, failed) ==
  LET w == job[j] IN
  Set(j, IF ~w.walk /\ Len(w.paths) = 1 THEN At("done")
         ELSE [At("next") EXCEPT !.walk = w.walk, !.bulk = w.bulk, !.force = w.force,
                 !.paths = Tail(w.paths), !.plan = w.plan, !.retried = w.retried,
                 !.again = IF failed /\ w.walk THEN w.again \cup {Head(w.paths)}
                            ELSE w.again])

Home(j) == job[j].file = job[j].home

(* The file is read once; a read that fails on a missing file is a removal, *)
(* and one that fails on a file that is there is Unread.                   *)
Open(j) ==
  /\ job[j].phase = "next" /\ job[j].paths # <<>>
  /\ LET f == Head(job[j].paths) IN
     Set(j, [job[j] EXCEPT !.home = f, !.homeText = disk[f], !.file = f, !.text = disk[f],
               !.phase = IF disk[f] = Gone THEN "orphans"
                         ELSE IF job[j].force THEN "reset" ELSE "lookup"])
  /\ UNCHANGED <<treeVars, graphRows, troubles, void>>

(* _lookup_cache *)
Lookup(j) ==
  /\ job[j].phase = "lookup"
  /\ IF index[job[j].file] = [text |-> job[j].text, ok |-> TRUE]
       THEN Advance(j, FALSE)
       ELSE Goto(j, "reset")
  /\ UNCHANGED <<treeVars, graphRows, troubles, void>>

NamesOf(f) == {n \in Names : <<f, n>> \in nodes}

ResetBoth(j) ==
  /\ job[j].phase = "reset"
  /\ edges' = {e \in edges : e.from # job[j].file /\ e.to[1] # job[j].file}
  /\ Set(j, [job[j] EXCEPT !.phase = "upsert", !.known = NamesOf(job[j].file)])
  /\ UNCHANGED <<treeVars, nodes, index, troubles, void>>

(* delete_edges_from_file: only the file's own calls are cleared up front. *)
Reset(j) ==
  /\ job[j].phase = "reset"
  /\ edges' = {e \in edges : e.from # job[j].file}
  /\ Set(j, [job[j] EXCEPT !.phase = "upsert", !.known = NamesOf(job[j].file)])
  /\ UNCHANGED <<treeVars, nodes, index, troubles, void>>

(* Extraction, and bulk_upsert in one transaction. *)
Upsert(j) ==
  /\ job[j].phase = "upsert"
  /\ nodes' = nodes \cup {<<job[j].file, n>> : n \in job[j].text.defs}
  /\ edges' = edges \cup {[from |-> job[j].file, to |-> s, bound |-> FALSE]
                            : s \in job[j].text.calls}
  /\ Goto(j, "census")
  /\ UNCHANGED <<treeVars, index, troubles, void>>

(* files_depending_on *)
Dependents(symbols, f) == {e.from : e \in {x \in edges : x.bound /\ x.to \in symbols}} \ {f}

Outdated(f, text) == {s \in nodes : s[1] = f /\ s[2] \notin text.defs}

(* Read before, and outside, the transaction that deletes; a refresh asks  *)
(* for nobody's dependents.                                                *)
Census(j) ==
  LET f == job[j].file IN
  /\ job[j].phase = "census"
  /\ Set(j, [job[j] EXCEPT !.phase = "prune",
               !.owed = IF Home(j) THEN Dependents(Outdated(f, job[j].text), f)
                       ELSE job[j].owed])
  /\ UNCHANGED <<treeVars, graphRows, troubles, void>>

(* Nodes take the edges into them along, and those out of a whole file. *)
Delete(symbols, sources) ==
  /\ nodes' = nodes \ symbols
  /\ edges' = {e \in edges : e.from \notin sources /\ (e.bound => e.to \notin symbols)}

(* A walk links once, at its end; a dependent has no dependents. *)
Settled(j) == IF Home(j) THEN "refresh" ELSE "record"

Pruned(j) == IF job[j].walk THEN Settled(j) ELSE "link"

(* delete_nodes_for_file with keep_uids. A dependent that is refreshed may  *)
(* have changed too: then its own dependents lose their edges.             *)
Prune(j) ==
  LET f == job[j].file
      outdated == Outdated(f, job[j].text) IN
  /\ job[j].phase = "prune"
  /\ Delete(outdated, {})
  /\ Goto(j, Pruned(j))
  /\ IF Home(j) \/ Dependents(outdated, f) = {} THEN UNCHANGED void ELSE Voids("refresh")
  /\ UNCHANGED <<treeVars, index, troubles>>

(* The stubs of these files whose symbol exists, and every other edge to   *)
(* the same stubs, are bound; an edge that would become a duplicate stays. *)
BoundFor(sources) ==
  LET targets == {e.to : e \in {x \in edges : x.from \in sources /\ ~x.bound}} \cap nodes
      bind(e) == [from |-> e.from, to |-> e.to, bound |-> TRUE] IN
  {IF e.to \in targets /\ ~e.bound /\ bind(e) \notin edges THEN bind(e) ELSE e : e \in edges}

(* link_cross_file, and link_callers_of for the names just gained. *)
Link(j) ==
  LET f == job[j].file
      gained == job[j].text.defs \ job[j].known
      callers == {e.from : e \in {x \in edges : ~x.bound /\ x.to[2] \in gained}} IN
  /\ job[j].phase = "link"
  /\ edges' = BoundFor({f} \cup callers)
  /\ Goto(j, Settled(j))
  /\ UNCHANGED <<treeVars, nodes, index, troubles, void>>

RefreshSame(j) ==
  /\ job[j].phase = "refresh" /\ job[j].owed # {}
  /\ LET d == CHOOSE f \in job[j].owed : TRUE IN
     IF disk[d] = Gone
       THEN Set(j, [job[j] EXCEPT !.owed = job[j].owed \ {d}])
       ELSE Set(j, [job[j] EXCEPT !.phase = "reset", !.file = d, !.text = disk[d]])
  /\ UNCHANGED <<treeVars, graphRows, troubles, void>>

(* _refresh: a dependent that is still there is read and indexed again,    *)
(* whatever its row says.                                                  *)
Refresh(j) ==
  /\ job[j].phase = "refresh" /\ job[j].owed # {}
  /\ LET d == CHOOSE f \in job[j].owed : TRUE IN
     IF disk[d] = Gone
       THEN Set(j, [job[j] EXCEPT !.owed = job[j].owed \ {d}])
       ELSE Set(j, [job[j] EXCEPT !.phase = "reset", !.file = d, !.text = disk[d],
                                  !.owed = job[j].owed \ {d}])
  /\ UNCHANGED <<treeVars, graphRows, troubles, void>>

Refreshed(j) == job[j].phase = "refresh" /\ job[j].owed = {}

Store(f, text) == index' = [index EXCEPT ![f] = [text |-> text, ok |-> TRUE]]

RecordAny(j) ==
  /\ \/ job[j].phase = "record" /\ Store(job[j].file, job[j].text) /\ Goto(j, "refresh")
     \/ /\ Refreshed(j) /\ job[j].home # Gone
        /\ Store(job[j].home, job[j].homeText) /\ Advance(j, FALSE)
  /\ UNCHANGED <<treeVars, nodes, edges, troubles, void>>

(* _record_state_safe with advance_hash: a dependent's row at once, the     *)
(* row of the file dispatched when its dependents are done.                *)
Record(j) ==
  /\ \/ job[j].phase = "record" /\ Store(job[j].file, job[j].text) /\ Goto(j, "refresh")
     \/ /\ Refreshed(j) /\ job[j].homeText # Gone
        /\ Store(job[j].home, job[j].homeText) /\ Advance(j, FALSE)
  /\ UNCHANGED <<treeVars, nodes, edges, troubles, void>>

(* A removal has no row to record. *)
Removed(j) ==
  /\ Refreshed(j) /\ job[j].home # Gone /\ job[j].homeText = Gone
  /\ Advance(j, FALSE)
  /\ UNCHANGED <<treeVars, graphRows, troubles, void>>

(* A failure is recorded with the content of the row there was. *)
RecordError(j) ==
  /\ job[j].phase = "error"
  /\ index' = [index EXCEPT ![job[j].file] =
                 [text |-> IF @ = NoRow THEN job[j].text ELSE @.text, ok |-> FALSE]]
  /\ IF Home(j) THEN Advance(j, TRUE) ELSE Goto(j, "refresh")
  /\ UNCHANGED <<treeVars, nodes, edges, troubles, void>>

(* _prune_graph_for_deleted_file: dependents, nodes, rows. *)
Orphans(j) ==
  LET f == job[j].file IN
  /\ job[j].phase = "orphans"
  /\ Set(j, [job[j] EXCEPT !.phase = "uproot",
               !.owed = Dependents({s \in nodes : s[1] = f}, f)])
  /\ UNCHANGED <<treeVars, graphRows, troubles, void>>

Uproot(j) ==
  LET f == job[j].file IN
  /\ job[j].phase = "uproot"
  /\ Delete({s \in nodes : s[1] = f}, {f})
  /\ Goto(j, "forget")
  /\ UNCHANGED <<treeVars, index, troubles, void>>

(* The link pass over the calls of the file then finds none.               *)
Forget(j) ==
  /\ job[j].phase = "forget"
  /\ index' = [index EXCEPT ![job[j].file] = NoRow]
  /\ Goto(j, "refresh")
  /\ UNCHANGED <<treeVars, nodes, edges, troubles, void>>

-------------------------------------------------------------------------------

(* A walk dispatches its failures once more, then reconciles.              *)
Listed(j) ==
  /\ job[j].phase = "next" /\ job[j].paths = <<>>
  /\ IF job[j].retried THEN Goto(j, "reconcile")
     ELSE Set(j, [job[j] EXCEPT !.paths = SetToSeq(job[j].again), !.retried = TRUE])
  /\ UNCHANGED <<treeVars, graphRows, troubles, void>>

Relink(j, owed) ==
  Set(j, [job[j] EXCEPT !.phase = "refresh", !.home = Gone, !.homeText = Gone, !.file = Gone,
                             !.owed = owed])

(* Rows of files the walk did not list go, with their nodes, in one        *)
(* transaction; listed files that called them are read again.              *)
Reconcile(j) ==
  LET listed == job[j].plan
      stale == {f \in Files : index[f] # NoRow /\ f \notin listed}
      symbols == {s \in nodes : s[1] \in stale} IN
  /\ job[j].phase = "reconcile"
  /\ Delete(symbols, stale)
  /\ index' = [f \in Files |-> IF f \in stale THEN NoRow ELSE index[f]]
  /\ Relink(j, (UNION {Dependents({s \in nodes : s[1] = f}, f) : f \in stale}) \cap listed)
  /\ UNCHANGED <<treeVars, troubles, void>>

(* The one link pass of a walk, over every stub. *)
LinkAll(j) ==
  /\ Refreshed(j) /\ job[j].home = Gone
  /\ edges' = BoundFor(Files)
  /\ Goto(j, "sweep")
  /\ UNCHANGED <<treeVars, nodes, index, troubles, void>>

(* The shell around the walk of a bulk command removes the sentinel. *)
Over(j) == Set(j, IF job[j].bulk THEN [At("end") EXCEPT !.bulk = TRUE] ELSE At("done"))

(* cos_graph_doctor(fix=True): nodes of paths that do not exist. *)
Sweep(j) ==
  LET absent == {f \in Files : disk[f] = Gone} IN
  /\ job[j].phase = "sweep"
  /\ Delete({s \in nodes : s[1] \in absent}, absent)
  /\ Over(j)
  /\ UNCHANGED <<treeVars, index, troubles, void>>

End(j) ==
  /\ job[j].phase = "end"
  /\ Set(j, At("done"))
  /\ sentinel' = FALSE
  /\ UNCHANGED <<disk, marker, graphRows, troubles, void>>

-------------------------------------------------------------------------------

Trouble == troubles < MaxTroubles /\ troubles' = troubles + 1

(* "locked" is tried again from the start, up to three times; any other    *)
(* error of extractor or database ends the dispatch.                       *)
UpsertFails(j) ==
  /\ job[j].phase = "upsert"
  /\ Trouble
  /\ Goto(j, "reset") \/ Goto(j, "error")
  /\ UNCHANGED <<treeVars, graphRows, void>>

(* Everywhere else an error is only logged, and the dispatch goes on.      *)
Swallow(j) ==
  /\ Trouble /\ Voids("trouble")
  /\ CASE job[j].phase = "reset" ->
              Set(j, [job[j] EXCEPT !.phase = "upsert", !.known = NamesOf(job[j].file)])
       [] job[j].phase \in {"census", "prune"} -> Goto(j, Pruned(j))
       [] job[j].phase = "link" -> Goto(j, Settled(j))
       [] job[j].phase = "record" -> Goto(j, "refresh")
       [] Refreshed(j) /\ job[j].homeText # Gone -> Advance(j, FALSE)
       [] job[j].phase \in {"orphans", "uproot", "forget"} -> Advance(j, TRUE)
       [] job[j].phase = "reconcile" -> Relink(j, {})
       [] Refreshed(j) /\ job[j].home = Gone -> Goto(j, "sweep")
       [] job[j].phase = "sweep" -> Over(j)
       [] OTHER -> FALSE
  /\ UNCHANGED <<treeVars, graphRows>>

(* A file that is there cannot be read: the error is returned, and nothing  *)
(* is recorded. The file a dispatch is about keeps its row and its nodes;  *)
(* a dependent also keeps its row, but not the edges it has lost already.  *)
Unread(j) ==
  /\ Trouble /\ Voids("trouble")
  /\ \/ /\ job[j].phase = "next" /\ job[j].paths # <<>> /\ disk[Head(job[j].paths)] # Gone
        /\ Advance(j, TRUE)
     \/ \E d \in job[j].owed :
          /\ job[j].phase = "refresh" /\ disk[d] # Gone
          /\ Set(j, [job[j] EXCEPT !.owed = job[j].owed \ {d}])
  /\ UNCHANGED <<treeVars, graphRows>>

(* The link pass that ends a removal fails: no dependent is read again.    *)
Unlinked(j) ==
  /\ job[j].phase = "forget"
  /\ Trouble /\ Voids("trouble")
  /\ index' = [index EXCEPT ![job[j].file] = NoRow]
  /\ Advance(j, TRUE)
  /\ UNCHANGED <<treeVars, nodes, edges>>

(* A detached worker dies at any point, also while it waits; the shell     *)
(* around the walk of a bulk command may live on.                          *)
Kill(j) ==
  /\ job[j].phase \notin {"idle", "end", "done"}
  /\ Trouble /\ Voids("trouble")
  /\ Set(j, At("done")) \/ (job[j].bulk /\ Over(j))
  /\ UNCHANGED <<treeVars, graphRows>>

Dispatch(j) ==
  \/ Open(j) \/ Lookup(j)
  \/ Reset(j) \/ Upsert(j) \/ Census(j) \/ Prune(j) \/ Link(j)
  \/ Refresh(j) \/ Record(j) \/ Removed(j) \/ RecordError(j)
  \/ Orphans(j) \/ Uproot(j) \/ Forget(j)

WalkEnd(j) == Reconcile(j) \/ LinkAll(j) \/ Sweep(j) \/ End(j)

Work(j) == Wake(j) \/ List(j) \/ Dispatch(j) \/ Listed(j) \/ WalkEnd(j)

Fail(j) == UpsertFails(j) \/ Swallow(j) \/ Unread(j) \/ Unlinked(j) \/ Kill(j)

Begin(j) ==
  \/ \E f \in Files : \E c \in Versions[f] : Edit(j, f, c)
  \/ \E s \in Commands : Shell(j, s) \/ Bulk(j, s)
  \/ \E force \in BOOLEAN : Walk(j, force)

ReindexNext == \E j \in Jobs : Begin(j) \/ Work(j) \/ Fail(j)

ReindexSpec == ReindexInit /\ [][ReindexNext]_graphVars

(* A worker that has been started runs; nothing makes anyone edit. *)
ReindexFair == ReindexSpec /\ \A j \in Jobs : WF_graphVars(Work(j))

-------------------------------------------------------------------------------

Rest == \A j \in Jobs : job[j].phase \in {"idle", "done"}

AllOk == \A f \in Files : index[f] # NoRow => index[f].ok

(* Indexing file by file gives the graph of the whole tree: callers of     *)
(* symbols that left or came, removed and restored files included. Voided  *)
(* until a forced walk by workers that overlap, kills, errors that leave   *)
(* no mark (those that are only logged, and a file that is there but cannot *)
(* be read), and a refresh that prunes. An extraction or an upsert that    *)
(* fails voids nothing: its error is in the row of its file.               *)
IncrementalIsFull ==
  Rest /\ void = {} /\ AllOk =>
    /\ nodes = Defined(disk) /\ edges = Called(disk)
    /\ \A f \in Files : IF disk[f] = Gone THEN index[f] = NoRow
                        ELSE index[f] = [text |-> disk[f], ok |-> TRUE]

(* Every edit, command and walk ends: no worker refreshes for ever, or     *)
(* waits behind another.                                                   *)
WorkersEnd == []<>Rest

(* "the caller re-extracts them so each stub comes back and relinks": also *)
(* when a file that is re-extracted has changed itself.                    *)
CallersReread ==
  Rest /\ void \subseteq {"refresh"} /\ AllOk =>
    \A f \in Files : disk[f] # Gone => {e.to : e \in {x \in edges : x.from = f}} = disk[f].calls

===============================================================================
