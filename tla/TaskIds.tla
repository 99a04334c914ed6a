------------------------------- MODULE TaskIds -------------------------------
(***************************************************************************)
(* cos_task_create and the allocation of task ids, beside sync_all and its *)
(* pruning of rows without a file. A creator scans the directory for the   *)
(* highest number in use, reserves a number by inserting a row, reads the  *)
(* row back, writes the task's file under a name of id and slug, and syncs *)
(* it. Only the reserving INSERT and each DELETE batch are atomic.         *)
(***************************************************************************)
EXTENDS Naturals, FiniteSets, FiniteSetsExt

CONSTANTS
  Creators,    \* concurrent calls of cos_task_create
  Pruners,     \* concurrent runs of sync_all
  Slug,        \* the slug of the title each creator was given
  OldSlug,     \* the slug of the task there may be at first
  MaxId,       \* no instance allocates a higher number
  Reserving,   \* the placeholder path of a reserved row
  NoRow,       \* an id that has no row
  Faults       \* what may go wrong, a subset of FaultKinds

FaultKinds == {"crash", "remove"}

VARIABLES
  files,   \* the markdown files in docs/tasks
  rows,    \* the tasks table: per id its path and rowid, or NoRow
  cr,      \* each creator's call
  pr,      \* each pruner's run
  pruned   \* ids whose row a pruner deleted while in use (a ghost)

vars == <<files, rows, cr, pr, pruned>>

Ids == 1..MaxId

File == [id : Ids, slug : {Slug[c] : c \in Creators} \cup {OldSlug}]

Row == [path : File \cup {Reserving}, rid : Nat]

ASSUME IdsAssumption ==
  /\ MaxId \in Nat \ {0}
  /\ Faults \subseteq FaultKinds
  /\ NoRow \notin Row /\ Reserving \notin File

RowOf(path, rid) == [path |-> path, rid |-> rid]

NewCall == [phase |-> "scan", max |-> 0, id |-> 0, rid |-> 0]

NewRun == [phase |-> "list", seen |-> {}, todo |-> {}, gone |-> {}]

Call ==
  [phase : {"scan", "reserve", "readback", "check", "write", "sync", "done"},
   max : 0..MaxId, id : 0..MaxId, rid : Nat]

Run ==
  [phase : {"list", "sync", "delete"},
   seen : SUBSET File, todo : SUBSET File, gone : SUBSET Ids]

IdsTypeOK ==
  /\ files \subseteq File
  /\ rows \in [Ids -> {NoRow} \cup Row]
  /\ cr \in [Creators -> Call]
  /\ pr \in [Pruners -> Run]
  /\ pruned \subseteq Ids

(* A board with one task or none; a fresh clone has not synced it yet. *)
Init ==
  /\ files \in {{}, {[id |-> 1, slug |-> OldSlug]}}
  /\ rows \in [Ids -> {NoRow} \cup {RowOf(f, 1) : f \in files}]
  /\ \A n \in Ids : rows[n] # NoRow => rows[n].path.id = n
  /\ cr = [c \in Creators |-> NewCall]
  /\ pr = [p \in Pruners |-> NewRun]
  /\ pruned = {}

-------------------------------------------------------------------------------

UsedIds == {n \in Ids : rows[n] # NoRow}

(* SQLite gives a new row one more than the largest rowid in the table. *)
NextRid == Max({0} \cup {rows[n].rid : n \in UsedIds}) + 1

(* INSERT ... ON CONFLICT(task_id) DO UPDATE keeps the row and its rowid. *)
Upserted(f) ==
  [rows EXCEPT ![f.id] = RowOf(f, IF @ = NoRow THEN NextRid ELSE @.rid)]

(* fs_max, read without the lock. *)
ScanFiles(c) ==
  /\ cr[c].phase = "scan"
  /\ cr' = [cr EXCEPT ![c].phase = "reserve", ![c].max = Max({0} \cup {f.id : f \in files})]
  /\ UNCHANGED <<files, rows, pr, pruned>>

HighestFile(c) == cr[c].max

Highest(c) == Max(UsedIds \cup {cr[c].max})

(* One INSERT ... SELECT: max(db, fs) + 1 under the write lock. *)
Reserve(c) ==
  LET n == Highest(c) + 1 IN
  /\ cr[c].phase = "reserve"
  /\ n <= MaxId
  /\ rows' = [rows EXCEPT ![n] = RowOf(Reserving, NextRid)]
  /\ cr' = [cr EXCEPT ![c].phase = "readback", ![c].rid = NextRid]
  /\ UNCHANGED <<files, pr, pruned>>

(* The id is read back by rowid; a row that is gone makes the call fail,   *)
(* and a rowid that was given again leads to another creator's row.        *)
ReadBack(c) ==
  /\ cr[c].phase = "readback"
  /\ \/ \E n \in UsedIds :
          /\ rows[n].rid = cr[c].rid
          /\ cr' = [cr EXCEPT ![c].phase = "check", ![c].id = n]
     \/ /\ \A n \in UsedIds : rows[n].rid # cr[c].rid
        /\ cr' = [cr EXCEPT ![c].phase = "done"]
  /\ UNCHANGED <<files, rows, pr, pruned>>

NamedPastReserved(c) == [id |-> cr[c].id + 1, slug |-> Slug[c]]

Named(c) == [id |-> cr[c].id, slug |-> Slug[c]]

(* "file already exists" ends the call. *)
CheckFile(c) ==
  /\ cr[c].phase = "check"
  /\ cr' = [cr EXCEPT ![c].phase = IF Named(c) \in files THEN "done" ELSE "write"]
  /\ UNCHANGED <<files, rows, pr, pruned>>

WriteFile(c) ==
  /\ cr[c].phase = "write"
  /\ files' = files \cup {Named(c)}
  /\ cr' = [cr EXCEPT ![c].phase = "sync"]
  /\ UNCHANGED <<rows, pr, pruned>>

(* sync_one, if the file is still there. *)
SyncFile(c) ==
  /\ cr[c].phase = "sync"
  /\ rows' = IF Named(c) \in files THEN Upserted(Named(c)) ELSE rows
  /\ cr' = [cr EXCEPT ![c].phase = "done"]
  /\ UNCHANGED <<files, pr, pruned>>

Create(c) ==
  \/ ScanFiles(c) \/ Reserve(c) \/ ReadBack(c)
  \/ CheckFile(c) \/ WriteFile(c) \/ SyncFile(c)

(* The process of a creator dies; its reservation stays. *)
Crash(c) ==
  /\ "crash" \in Faults
  /\ cr[c].phase \notin {"scan", "done"}
  /\ cr' = [cr EXCEPT ![c].phase = "done"]
  /\ UNCHANGED <<files, rows, pr, pruned>>

(* A user or a checkout removes a task's file. *)
Remove(f) ==
  /\ "remove" \in Faults
  /\ files' = files \ {f}
  /\ UNCHANGED <<rows, cr, pr, pruned>>

-------------------------------------------------------------------------------

(* sync_all: the files there are now. *)
List(p) ==
  /\ pr[p].phase = "list"
  /\ pr' = [pr EXCEPT ![p].phase = "sync", ![p].seen = files, ![p].todo = files]
  /\ UNCHANGED <<files, rows, cr, pruned>>

(* Each of them is synced; one that has gone since ends the run. *)
SyncNext(p) ==
  /\ pr[p].phase = "sync"
  /\ \E f \in pr[p].todo :
       IF f \in files
         THEN /\ rows' = Upserted(f)
              /\ pr' = [pr EXCEPT ![p].todo = @ \ {f}]
         ELSE pr' = [pr EXCEPT ![p] = NewRun] /\ UNCHANGED rows
  /\ UNCHANGED <<files, cr, pruned>>

PrunesNever(p) == FALSE

(* "a zero-file scan must not wipe the board" *)
Prunes(p) == pr[p].seen # {}

(* _prune_missing_tasks: the rows whose path the walk did not see ... *)
SelectGone(p) ==
  /\ pr[p].phase = "sync" /\ pr[p].todo = {}
  /\ pr' = [pr EXCEPT ![p] =
       IF Prunes(p)
         THEN [@ EXCEPT !.phase = "delete",
                        !.gone = {n \in UsedIds : rows[n].path \notin pr[p].seen}]
         ELSE NewRun]
  /\ UNCHANGED <<files, rows, cr, pruned>>

(* ... and their deletion by id, whatever their path is by now. *)
DeleteGone(p) ==
  /\ pr[p].phase = "delete"
  /\ rows' = [n \in Ids |-> IF n \in pr[p].gone THEN NoRow ELSE rows[n]]
  /\ pruned' = pruned \cup
       {n \in pr[p].gone \cap UsedIds : rows[n].path \in files \cup {Reserving}}
  /\ pr' = [pr EXCEPT ![p] = NewRun]
  /\ UNCHANGED <<files, cr>>

SyncAll(p) == List(p) \/ SyncNext(p) \/ SelectGone(p) \/ DeleteGone(p)

Next ==
  \/ \E c \in Creators : Create(c) \/ Crash(c)
  \/ \E f \in files : Remove(f)
  \/ \E p \in Pruners : SyncAll(p)

Spec == Init /\ [][Next]_vars

(* A create is one synchronous call; the daemon keeps running sync_all. *)
FairSpec ==
  /\ Spec
  /\ \A c \in Creators : WF_vars(Create(c))
  /\ \A p \in Pruners : WF_vars(SyncAll(p))

-------------------------------------------------------------------------------

(* Two calls that hold a number hold different numbers, before any file is *)
(* written: the reservation alone keeps them apart, whoever crashes or     *)
(* removes files, until a sync_all prunes a number in use. From then on    *)
(* the number may be given again, and so may the rowid, which leads two    *)
(* creators to one row.                                                    *)
Holding == {c \in Creators : cr[c].phase \in {"check", "write"}}

DistinctReservations ==
  pruned = {} => \A c, d \in Holding : cr[c].id = cr[d].id => c = d

(* ... and so no two task files have one id.                               *)
DistinctIds ==
  pruned = {} => \A f, g \in files : f.id = g.id => f = g

(* However a pruner and the creators overtook each other, and whatever a   *)
(* crashed creator reserved, the table comes to hold the ids of the files  *)
(* that are there, and no other: unless no file is left at all.            *)
TableHeals ==
  <>[](files # {} => UsedIds = {f.id : f \in files})

===============================================================================
