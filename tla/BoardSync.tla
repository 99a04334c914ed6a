------------------------------ MODULE BoardSync ------------------------------
(***************************************************************************)
(* One task's markdown file and its row, and everybody who writes them:    *)
(* transition() under the database's write lock, the tools that read the   *)
(* file, change it and write it back without a lock (work log, edit,       *)
(* ready), the work-log hook that takes a lock of its own, and sync_one,   *)
(* which copies the file over the row and is run by all of them, by the    *)
(* edit hook and by the sync_all of the daemon.                            *)
(*                                                                         *)
(* Each agent performs one operation; syncers may run again and again. The *)
(* only sync_all the code repeats by itself is the daemon's, which is off  *)
(* by default and trusts the modification time; a forced one is a command. *)
(***************************************************************************)
EXTENDS BoardRules, Naturals

CONSTANTS
  Agents,     \* callers that write the file, one operation each
  Syncers,    \* runs of sync_all
  Roles,      \* the ways to give each agent its operation
  Forced,     \* syncers that pass force=True, or sync right after an edit
  NoOne,      \* nobody holds a lock
  Born,       \* statuses the task may have at first
  Reach       \* statuses a move of this instance may ask for

Jobs == {"move", "hook", "append", "edit", "ready"}

ASSUME SyncAssumption ==
  /\ Roles \subseteq [Agents -> Jobs]
  /\ Agents \cap Syncers = {} /\ NoOne \notin Agents \cup Syncers
  /\ Forced \subseteq Syncers
  /\ Born \subseteq Status /\ Reach \subseteq Status

VARIABLES
  job,     \* what each agent does
  file,    \* the text of the file and its modification time
  row,     \* the committed row of the task; torn is a ghost: whether the
           \* file was written between the two reads of the sync that stored it
  lock,    \* holder of SQLite's write lock
  flock,   \* holder of .coding-os/locks/<task>.lock
  pc,      \* where each actor stands
  mem      \* what each actor has read; seen is a ghost: the modification
           \* time the text had when a sync read it

vars == <<job, file, row, lock, flock, pc, mem>>

Actors == Agents \cup Syncers

(* A file without frontmatter has no status: parse_task returns None. *)
Text == [status : Status \cup {"none"}, ready : BOOLEAN, notes : SUBSET Agents]

Empty == [status |-> "none", ready |-> FALSE, notes |-> {}]

Readable(text) == text.status # "none"

(* Every write of the file gets a later modification time. *)
Stamps == Nat

SyncTypeOK ==
  /\ job \in Roles
  /\ file \in [text : Text, stamp : Stamps]
  /\ row \in [text : {x \in Text : Readable(x)}, stamp : Stamps, torn : BOOLEAN]
  /\ lock \in Agents \cup {NoOne} /\ flock \in Agents \cup {NoOne}
  /\ pc \in [Actors -> {"start", "gated", "locked", "read", "cut", "replaced",
                        "sync", "stat", "store", "done"}]
  /\ mem \in [Actors -> [text : Text, seen : Stamps, stamp : Stamps, old : Status, to : Status]]

NoMem == [text |-> Empty, seen |-> 0, stamp |-> 0, old |-> "icebox", to |-> "icebox"]

Init ==
  /\ job \in Roles
  /\ \E st \in Born : LET text == [Empty EXCEPT !.status = st] IN
       /\ file = [text |-> text, stamp |-> 1]
       /\ row = [text |-> text, stamp |-> 1, torn |-> FALSE]
  /\ lock = NoOne /\ flock = NoOne
  /\ pc = [a \in Actors |-> "start"]
  /\ mem = [a \in Actors |-> NoMem]

-------------------------------------------------------------------------------

Goto(a, label) == pc' = [pc EXCEPT ![a] = label]

(* The file is written: truncated, filled or replaced. *)
Write(text) == file' = [text |-> text, stamp |-> file.stamp + 1]

(* The actor's operation ends; the hook's lock goes with its process. *)
Finish(a) ==
  /\ Goto(a, IF a \in Syncers THEN "start" ELSE "done")
  /\ flock' = IF flock = a THEN NoOne ELSE flock
  /\ mem' = [mem EXCEPT ![a] = NoMem]

(* transition(): its lock-free part and gates, then BEGIN IMMEDIATE with   *)
(* the status read again. BoardWorkflow has the rest of its checks.        *)
MoveGated(a) ==
  /\ job[a] = "move" /\ pc[a] = "start"
  /\ \E to \in Reach :
       /\ <<row.text.status, to>> \in Edges
       /\ mem' = [mem EXCEPT ![a].old = row.text.status, ![a].to = to]
  /\ Goto(a, "gated")
  /\ UNCHANGED <<job, file, row, lock, flock>>

MoveEnter(a) ==
  /\ job[a] = "move" /\ pc[a] = "gated" /\ lock = NoOne
  /\ IF row.text.status = mem[a].old
       THEN lock' = a /\ Goto(a, "locked") /\ UNCHANGED <<flock, mem>>
       ELSE Finish(a) /\ UNCHANGED lock
  /\ UNCHANGED <<job, file, row>>

(* _write_status_to_frontmatter reads the file, whoever else writes it; a  *)
(* file without frontmatter makes the transition roll back.                *)
MoveRead(a) ==
  /\ job[a] = "move" /\ pc[a] = "locked"
  /\ IF Readable(file.text)
       THEN /\ mem' = [mem EXCEPT ![a].text = file.text]
            /\ Goto(a, "read") /\ UNCHANGED <<lock, flock>>
       ELSE lock' = NoOne /\ Finish(a)
  /\ UNCHANGED <<job, file, row>>

MoveReplace(a) ==
  /\ job[a] = "move" /\ pc[a] = "read"
  /\ Write([mem[a].text EXCEPT !.status = mem[a].to])
  /\ Goto(a, "replaced")
  /\ UNCHANGED <<job, row, lock, flock, mem>>

MoveCommitStamped(a) ==
  /\ job[a] = "move" /\ pc[a] = "replaced"
  /\ row' = [row EXCEPT !.text.status = mem[a].to, !.stamp = file.stamp]
  /\ lock' = NoOne
  /\ Finish(a)
  /\ UNCHANGED <<job, file>>

(* The row gets the status and not the file's new modification time. *)
MoveCommit(a) ==
  /\ job[a] = "move" /\ pc[a] = "replaced"
  /\ row' = [row EXCEPT !.text.status = mem[a].to]
  /\ lock' = NoOne
  /\ Finish(a)
  /\ UNCHANGED <<job, file>>

Move(a) ==
  MoveGated(a) \/ MoveEnter(a) \/ MoveRead(a) \/ MoveReplace(a) \/ MoveCommit(a)

FlockIgnored(a) == TRUE

(* work_log_append.py holds the task's flock from before the read to after *)
(* the sync; the tools themselves take no lock.                            *)
FlockTaken(a) == IF job[a] = "hook" THEN flock = NoOne ELSE TRUE

(* An edit or a label needs frontmatter; a label already there is a no-op. *)
NothingToDo(a) ==
  \/ job[a] \in {"edit", "ready"} /\ ~Readable(file.text)
  \/ job[a] = "ready" /\ row.text.ready

(* The tool reads the file. *)
ReadFile(a) ==
  /\ job[a] # "move" /\ pc[a] = "start"
  /\ FlockTaken(a)
  /\ IF NothingToDo(a)
       THEN Finish(a)
       ELSE /\ mem' = [mem EXCEPT ![a].text = file.text]
            /\ flock' = IF job[a] = "hook" THEN a ELSE flock
            /\ Goto(a, "read")
  /\ UNCHANGED <<job, file, row, lock>>

Changed(a) ==
  CASE job[a] \in {"hook", "append"} -> [mem[a].text EXCEPT !.notes = @ \cup {a}]
    [] job[a] = "ready"              -> [mem[a].text EXCEPT !.ready = TRUE]
    [] OTHER                         -> mem[a].text

(* write_text opens the file for writing, which empties it, then fills it. *)
Truncate(a) ==
  /\ job[a] \in {"hook", "append", "edit"} /\ pc[a] = "read"
  /\ Write(Empty)
  /\ Goto(a, "cut")
  /\ UNCHANGED <<job, row, lock, flock, mem>>

Fill(a) ==
  /\ pc[a] = "cut"
  /\ Write(Changed(a))
  /\ Goto(a, "sync")
  /\ UNCHANGED <<job, row, lock, flock, mem>>

(* _patch_labels_line writes a temporary file and renames it. *)
Rename(a) ==
  /\ job[a] = "ready" /\ pc[a] = "read"
  /\ Write(Changed(a))
  /\ Goto(a, "sync")
  /\ UNCHANGED <<job, row, lock, flock, mem>>

Rewrite(a) == ReadFile(a) \/ Truncate(a) \/ Fill(a) \/ Rename(a)

-------------------------------------------------------------------------------

(* sync_all skips a file whose modification time is the row's. *)
Due(s) == s \in Forced \/ row.stamp # file.stamp

SyncStart(s) ==
  /\ s \in Syncers /\ pc[s] = "start"
  /\ Due(s)
  /\ Goto(s, "sync")
  /\ UNCHANGED <<job, file, row, lock, flock, mem>>

SyncReadUnparsed(a) ==
  /\ pc[a] = "sync"
  /\ mem' = [mem EXCEPT ![a] = [@ EXCEPT !.text = file.text, !.seen = file.stamp]]
  /\ Goto(a, "stat")
  /\ UNCHANGED <<job, file, row, lock, flock>>

(* sync_one: the text, then the modification time. *)
SyncRead(a) ==
  /\ pc[a] = "sync"
  /\ IF Readable(file.text)
       THEN /\ mem' = [mem EXCEPT ![a] = [@ EXCEPT !.text = file.text, !.seen = file.stamp]]
            /\ Goto(a, "stat") /\ UNCHANGED flock
       ELSE Finish(a)
  /\ UNCHANGED <<job, file, row, lock>>

SyncStat(a) ==
  /\ pc[a] = "stat"
  /\ mem' = [mem EXCEPT ![a].stamp = file.stamp]
  /\ Goto(a, "store")
  /\ UNCHANGED <<job, file, row, lock, flock>>

(* The upsert and its commit, under the write lock. The history row that   *)
(* goes with a status other than the one fetched before is left out.       *)
SyncStore(a) ==
  /\ pc[a] = "store" /\ lock = NoOne
  /\ row' = [text |-> mem[a].text, stamp |-> mem[a].stamp,
             torn |-> mem[a].seen # mem[a].stamp]
  /\ Finish(a)
  /\ UNCHANGED <<job, file, lock>>

(* The write lock was not free within the busy timeout. *)
SyncBusy(a) ==
  /\ pc[a] = "store" /\ lock # NoOne
  /\ Finish(a)
  /\ UNCHANGED <<job, file, row, lock>>

Sync(a) == SyncRead(a) \/ SyncStat(a) \/ SyncStore(a) \/ SyncBusy(a)

Next ==
  \/ \E a \in Agents : Move(a) \/ Rewrite(a)
  \/ \E s \in Syncers : SyncStart(s)
  \/ \E a \in Actors : Sync(a)

Spec == Init /\ [][Next]_vars

-------------------------------------------------------------------------------

(* A note whose append has finished is in the file for good, whichever     *)
(* hook writes next and whoever syncs meanwhile, as long as only hooks     *)
(* write the file: the lock they take is one that no tool takes.           *)
NotesKept ==
  (\A a \in Agents : job[a] = "hook") =>
    \A a \in Agents :
      pc[a] = "done" => a \in file.text.notes \/ \E b \in Agents : pc[b] = "cut"

(* What sync_all skips as unchanged is unchanged: a row with the file's    *)
(* modification time says what the file says, whatever moves, tools, hooks *)
(* and syncs that were overtaken have done to both. A sync that read the   *)
(* file before a move and stores after it leaves an older time, so that    *)
(* the next one repairs the row. The one exception is a sync between whose *)
(* reads of the text and of the time the file was written.                 *)
SkippedIsCurrent == row.stamp = file.stamp /\ ~row.torn => row.text = file.text

===============================================================================
