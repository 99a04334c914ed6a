--------------------------- MODULE BoardSync_proofs ---------------------------
(***************************************************************************)
(* Proofs about BoardSync: its types, that hooks keep each other's notes,  *)
(* and that sync_all skips no file that differs from its row unless the    *)
(* sync that stored it was torn, for any agents, syncers, roles and moves. *)
(***************************************************************************)
EXTENDS BoardSync, TLAPS

Labels == {"start", "gated", "locked", "read", "cut", "replaced",
           "sync", "stat", "store", "done"}

Memory == [text : Text, seen : Stamps, stamp : Stamps, old : Status, to : Status]

(* What a sync is about to store was parsed. *)
ParsedInv == \A a \in Actors : pc[a] \in {"stat", "store"} => Readable(mem[a].text)

(* A hook at work holds the lock, has read every finished note, and has    *)
(* written its own by the time it syncs.                                   *)
Finished == {a \in Agents : pc[a] = "done"}

HookInv ==
  \A a \in Agents :
    /\ pc[a] \notin {"start", "done"} => flock = a
    /\ pc[a] \in {"read", "cut"} => Finished \subseteq mem[a].text.notes
    /\ pc[a] \in {"sync", "stat", "store"} => a \in file.text.notes

OnlyHooks == \A a \in Agents : job[a] = "hook"

SyncInv == SyncTypeOK /\ ParsedInv /\ (OnlyHooks => HookInv /\ NotesKept)

(* Nobody has seen a later modification time than the file has, and a text *)
(* read at that time is the file's.                                        *)
StampInv ==
  /\ row.stamp <= file.stamp
  /\ \A a \in Actors : pc[a] \in {"stat", "store"} =>
       /\ mem[a].seen <= file.stamp
       /\ mem[a].seen = file.stamp => mem[a].text = file.text
  /\ \A a \in Actors : pc[a] = "store" => mem[a].stamp <= file.stamp

(* A transition that has begun holds the write lock, and once the file is  *)
(* replaced its row's time is behind.                                      *)
AheadInv ==
  \A a \in Agents :
    /\ job[a] = "move" /\ pc[a] \in {"locked", "read", "replaced"} => lock = a
    /\ pc[a] = "replaced" => job[a] = "move" /\ row.stamp < file.stamp

CurrentInv == StampInv /\ AheadInv /\ SkippedIsCurrent

-------------------------------------------------------------------------------

(* The values operations write and remember are typed.                     *)
LEMMA TextTyped ==
  /\ Empty \in Text /\ ~Readable(Empty)
  /\ NoMem \in Memory
  /\ \A x \in Text, st \in Status : [x EXCEPT !.status = st] \in Text
  /\ \A x \in Text, st \in Status : Readable([x EXCEPT !.status = st])
BY DEF Text, Empty, Readable, NoMem, Memory, Stamps, Status

(* What a tool writes is typed. *)
LEMMA ChangedTyped ==
  ASSUME SyncTypeOK, NEW a \in Agents
  PROVE  Changed(a) \in Text
<1>1. mem[a].text \in Text
  BY DEF SyncTypeOK, Actors
<1>2. [mem[a].text EXCEPT !.notes = mem[a].text.notes \cup {a}] \in Text
  BY <1>1 DEF Text
<1>3. [mem[a].text EXCEPT !.ready = TRUE] \in Text
  BY <1>1 DEF Text
<1> QED
  BY <1>1, <1>2, <1>3 DEF Changed

(* Writing the file keeps its type. *)
LEMMA WriteTyped ==
  ASSUME SyncTypeOK, NEW text \in Text, Write(text)
  PROVE  file' \in [text : Text, stamp : Stamps] /\ file'.text = text
BY DEF SyncTypeOK, Write, Stamps

(* An operation that ends forgets what it read. *)
LEMMA FinishTyped ==
  ASSUME SyncTypeOK, ParsedInv, NEW a \in Actors, Finish(a)
  PROVE  /\ pc' \in [Actors -> Labels] /\ flock' \in Agents \cup {NoOne}
         /\ mem' \in [Actors -> Memory] /\ ParsedInv'
<1>1. pc' \in [Actors -> Labels] /\ pc'[a] \in {"start", "done"}
      /\ \A b \in Actors \ {a} : pc'[b] = pc[b]
  BY DEF SyncTypeOK, Finish, Goto, Labels
<1>2. mem' \in [Actors -> Memory] /\ \A b \in Actors \ {a} : mem'[b] = mem[b]
  BY TextTyped DEF SyncTypeOK, Finish, Memory
<1>3. flock' \in Agents \cup {NoOne}
  BY DEF SyncTypeOK, Finish
<1>4. ParsedInv'
  BY <1>1, <1>2 DEF ParsedInv
<1> QED
  BY <1>1, <1>2, <1>3, <1>4

(* One actor moves on. *)
LEMMA GotoTyped ==
  ASSUME SyncTypeOK, NEW a \in Actors, NEW l \in Labels, Goto(a, l)
  PROVE  /\ pc' \in [Actors -> Labels] /\ pc'[a] = l
         /\ \A b \in Actors \ {a} : pc'[b] = pc[b]
BY DEF SyncTypeOK, Goto, Labels

-------------------------------------------------------------------------------

(* Transitions keep the types. *)
LEMMA MoveTyped ==
  ASSUME SyncTypeOK, ParsedInv, NEW a \in Agents, Move(a)
  PROVE  SyncTypeOK' /\ ParsedInv'
<1> a \in Actors
  BY DEF Actors
<1>0. mem \in [Actors -> Memory] /\ mem[a] \in Memory
  BY DEF SyncTypeOK, Memory
<1>1. CASE MoveGated(a)
  <2>1. PICK to \in Reach : mem' = [mem EXCEPT ![a].old = row.text.status, ![a].to = to]
    BY <1>1 DEF MoveGated
  <2>2. row.text.status \in Status /\ to \in Status
    BY SyncAssumption DEF SyncTypeOK, Text, Readable
  <2>3. mem' \in [Actors -> Memory] /\ \A b \in Actors \ {a} : mem'[b] = mem[b]
    BY <1>0, <2>1, <2>2 DEF Memory
  <2>4. /\ pc' \in [Actors -> Labels] /\ pc'[a] = "gated"
        /\ \A b \in Actors \ {a} : pc'[b] = pc[b]
    BY <1>1, GotoTyped DEF MoveGated, Labels
  <2>5. ParsedInv'
    BY <2>3, <2>4 DEF ParsedInv
  <2> QED
    BY <1>1, <2>3, <2>4, <2>5 DEF MoveGated, SyncTypeOK, Memory, Labels
<1>2. CASE MoveEnter(a)
  <2>1. CASE lock' = a /\ Goto(a, "locked") /\ UNCHANGED <<flock, mem>>
    <3>1. /\ pc' \in [Actors -> Labels] /\ pc'[a] = "locked"
          /\ \A b \in Actors \ {a} : pc'[b] = pc[b]
      BY <2>1, GotoTyped DEF Labels
    <3>2. ParsedInv'
      BY <2>1, <3>1 DEF ParsedInv
    <3> QED
      BY <1>2, <2>1, <3>1, <3>2 DEF MoveEnter, SyncTypeOK, Labels
  <2>2. CASE Finish(a) /\ UNCHANGED lock
    BY <1>2, <2>2, FinishTyped DEF MoveEnter, SyncTypeOK, Memory, Labels
  <2> QED
    BY <1>2, <2>1, <2>2 DEF MoveEnter
<1>3. CASE MoveRead(a)
  <2>1. CASE Readable(file.text)
    <3>1. mem' = [mem EXCEPT ![a].text = file.text] /\ file.text \in Text
      BY <1>3, <2>1 DEF MoveRead, SyncTypeOK
    <3>2. mem' \in [Actors -> Memory] /\ \A b \in Actors \ {a} : mem'[b] = mem[b]
      BY <1>0, <3>1 DEF Memory
    <3>3. /\ pc' \in [Actors -> Labels] /\ pc'[a] = "read"
          /\ \A b \in Actors \ {a} : pc'[b] = pc[b]
      BY <1>3, <2>1, GotoTyped DEF MoveRead, Labels
    <3>4. ParsedInv'
      BY <3>2, <3>3 DEF ParsedInv
    <3> QED
      BY <1>3, <2>1, <3>2, <3>3, <3>4 DEF MoveRead, SyncTypeOK, Memory, Labels
  <2>2. CASE ~Readable(file.text)
    <3>1. lock' = NoOne /\ Finish(a) /\ UNCHANGED <<job, file, row>>
      BY <1>3, <2>2 DEF MoveRead
    <3> QED
      BY <3>1, FinishTyped DEF SyncTypeOK, Memory, Labels
  <2> QED
    BY <2>1, <2>2
<1>4. CASE MoveReplace(a)
  <2>1. [mem[a].text EXCEPT !.status = mem[a].to] \in Text
    BY <1>0, TextTyped DEF Memory
  <2>2. file' \in [text : Text, stamp : Stamps]
    BY <1>4, <2>1, WriteTyped DEF MoveReplace
  <2>3. /\ pc' \in [Actors -> Labels] /\ pc'[a] = "replaced"
        /\ \A b \in Actors \ {a} : pc'[b] = pc[b]
    BY <1>4, GotoTyped DEF MoveReplace, Labels
  <2>4. ParsedInv'
    BY <1>4, <2>3 DEF ParsedInv, MoveReplace
  <2> QED
    BY <1>4, <2>2, <2>3, <2>4 DEF MoveReplace, SyncTypeOK, Labels
<1>5. CASE MoveCommit(a)
  <2>1. row.text \in Text /\ mem[a].to \in Status /\ row.stamp \in Stamps
    BY <1>0 DEF SyncTypeOK, Memory
  <2> DEFINE x == [row.text EXCEPT !.status = mem[a].to]
  <2>2. x \in Text /\ Readable(x)
    BY <2>1, TextTyped
  <2>3. row' = [row EXCEPT !.text = x]
    BY <1>5 DEF MoveCommit, SyncTypeOK
  <2> HIDE DEF x
  <2>4. row' \in [text : {y \in Text : Readable(y)}, stamp : Stamps, torn : BOOLEAN]
    BY <2>2, <2>3 DEF SyncTypeOK
  <2>5. lock' = NoOne /\ Finish(a) /\ UNCHANGED <<job, file>>
    BY <1>5 DEF MoveCommit
  <2> QED
    BY <2>4, <2>5, FinishTyped DEF SyncTypeOK, Memory, Labels
<1> QED
  BY <1>1, <1>2, <1>3, <1>4, <1>5 DEF Move

(* Tools and hooks keep the types. *)
LEMMA RewriteTyped ==
  ASSUME SyncTypeOK, ParsedInv, NEW a \in Agents, Rewrite(a)
  PROVE  SyncTypeOK' /\ ParsedInv'
<1> a \in Actors
  BY DEF Actors
<1>0. mem \in [Actors -> Memory] /\ file.text \in Text
  BY DEF SyncTypeOK, Memory
<1>1. CASE ReadFile(a)
  <2>1. CASE NothingToDo(a)
    <3>1. Finish(a) /\ UNCHANGED <<job, file, row, lock>>
      BY <1>1, <2>1 DEF ReadFile
    <3> QED
      BY <3>1, FinishTyped DEF SyncTypeOK, Memory, Labels
  <2>2. CASE ~NothingToDo(a)
    <3>1. /\ mem' = [mem EXCEPT ![a].text = file.text] /\ Goto(a, "read")
          /\ flock' \in Agents \cup {NoOne} /\ UNCHANGED <<job, file, row, lock>>
      BY <1>1, <2>2 DEF ReadFile, SyncTypeOK
    <3>2. mem' \in [Actors -> Memory] /\ \A b \in Actors \ {a} : mem'[b] = mem[b]
      BY <1>0, <3>1 DEF Memory
    <3>3. /\ pc' \in [Actors -> Labels] /\ pc'[a] = "read"
          /\ \A b \in Actors \ {a} : pc'[b] = pc[b]
      BY <3>1, GotoTyped DEF Labels
    <3>4. ParsedInv'
      BY <3>2, <3>3 DEF ParsedInv
    <3> QED
      BY <3>1, <3>2, <3>3, <3>4 DEF SyncTypeOK, Memory, Labels
  <2> QED
    BY <2>1, <2>2
<1>2. CASE Truncate(a) \/ Fill(a) \/ Rename(a)
  <2>1. /\ Write(Empty) \/ Write(Changed(a))
        /\ Goto(a, "cut") \/ Goto(a, "sync")
        /\ UNCHANGED <<job, row, lock, flock, mem>>
    BY <1>2 DEF Truncate, Fill, Rename
  <2>2. file' \in [text : Text, stamp : Stamps]
    BY <2>1, TextTyped, ChangedTyped, WriteTyped DEF Truncate
  <2>3. /\ pc' \in [Actors -> Labels] /\ pc'[a] \in {"cut", "sync"}
        /\ \A b \in Actors \ {a} : pc'[b] = pc[b]
    BY <2>1, GotoTyped DEF Labels
  <2>4. ParsedInv'
    BY <2>1, <2>3 DEF ParsedInv
  <2> QED
    BY <2>1, <2>2, <2>3, <2>4 DEF SyncTypeOK, Labels
<1> QED
  BY <1>1, <1>2 DEF Rewrite

(* Syncs keep the types. *)
LEMMA SyncTyped ==
  ASSUME SyncTypeOK, ParsedInv, NEW a \in Actors, Sync(a) \/ SyncStart(a)
  PROVE  SyncTypeOK' /\ ParsedInv'
<1>0. mem \in [Actors -> Memory] /\ file.text \in Text /\ file.stamp \in Stamps
  BY DEF SyncTypeOK, Memory
<1>1. CASE SyncStart(a)
  <2>1. /\ pc' \in [Actors -> Labels] /\ pc'[a] = "sync"
        /\ \A b \in Actors \ {a} : pc'[b] = pc[b]
    BY <1>1, GotoTyped DEF SyncStart, Labels
  <2>2. ParsedInv'
    BY <1>1, <2>1 DEF ParsedInv, SyncStart
  <2> QED
    BY <1>1, <2>1, <2>2 DEF SyncStart, SyncTypeOK, Labels
<1>2. CASE SyncRead(a)
  <2>1. CASE Readable(file.text)
    <3>1. /\ mem' = [mem EXCEPT ![a] = [@ EXCEPT !.text = file.text, !.seen = file.stamp]]
          /\ Goto(a, "stat")
          /\ UNCHANGED <<job, file, row, lock, flock>>
      BY <1>2, <2>1 DEF SyncRead
    <3>2. /\ mem' \in [Actors -> Memory] /\ mem'[a].text = file.text
          /\ \A b \in Actors \ {a} : mem'[b] = mem[b]
      BY <1>0, <3>1 DEF Memory
    <3>3. /\ pc' \in [Actors -> Labels]
          /\ \A b \in Actors \ {a} : pc'[b] = pc[b]
      BY <3>1, GotoTyped DEF Labels
    <3>4. ParsedInv'
      BY <2>1, <3>2, <3>3 DEF ParsedInv
    <3> QED
      BY <3>1, <3>2, <3>3, <3>4 DEF SyncTypeOK, Memory, Labels
  <2>2. CASE ~Readable(file.text)
    <3>1. Finish(a) /\ UNCHANGED <<job, file, row, lock>>
      BY <1>2, <2>2 DEF SyncRead
    <3> QED
      BY <3>1, FinishTyped DEF SyncTypeOK, Memory, Labels
  <2> QED
    BY <2>1, <2>2
<1>3. CASE SyncStat(a)
  <2>1. /\ mem' = [mem EXCEPT ![a].stamp = file.stamp] /\ Goto(a, "store")
        /\ UNCHANGED <<job, file, row, lock, flock>> /\ pc[a] = "stat"
    BY <1>3 DEF SyncStat
  <2>2. /\ mem' \in [Actors -> Memory] /\ mem'[a].text = mem[a].text
        /\ \A b \in Actors \ {a} : mem'[b] = mem[b]
    BY <1>0, <2>1 DEF Memory
  <2>3. /\ pc' \in [Actors -> Labels]
        /\ \A b \in Actors \ {a} : pc'[b] = pc[b]
    BY <2>1, GotoTyped DEF Labels
  <2>4. ParsedInv'
    BY <2>1, <2>2, <2>3 DEF ParsedInv
  <2> QED
    BY <2>1, <2>2, <2>3, <2>4 DEF SyncTypeOK, Memory, Labels
<1>4. CASE SyncStore(a) \/ SyncBusy(a)
  <2>1. /\ Finish(a) /\ UNCHANGED <<job, file, lock>>
        /\ \/ row' = row
           \/ \E x \in BOOLEAN :
                row' = [text |-> mem[a].text, stamp |-> mem[a].stamp, torn |-> x]
        /\ pc[a] = "store"
    BY <1>4 DEF SyncStore, SyncBusy
  <2>2. mem[a].text \in Text /\ Readable(mem[a].text) /\ mem[a].stamp \in Stamps
    BY <1>0, <2>1 DEF Memory, ParsedInv
  <2>3. row' \in [text : {y \in Text : Readable(y)}, stamp : Stamps, torn : BOOLEAN]
    BY <2>1, <2>2 DEF SyncTypeOK
  <2> QED
    BY <2>1, <2>3, FinishTyped DEF SyncTypeOK, Memory, Labels
<1> QED
  BY <1>1, <1>2, <1>3, <1>4 DEF Sync

-------------------------------------------------------------------------------

(* Steps after which nobody's place, memory, lock or file differs but for  *)
(* the syncers keep what holds of the hooks.                               *)
LEMMA HooksUntouched ==
  ASSUME OnlyHooks, HookInv, NotesKept, file' = file, job' = job, flock' = flock,
         \A a \in Agents : pc'[a] = pc[a] /\ mem'[a] = mem[a]
  PROVE  HookInv' /\ NotesKept'
<1>1. Finished' = Finished
  BY DEF Finished
<1> QED
  BY <1>1 DEF HookInv, NotesKept, OnlyHooks

(* With the lock in nobody else's hands no other hook is at work.          *)
LEMMA HookAlone ==
  ASSUME SyncTypeOK, HookInv, NEW a \in Agents, flock \in {a, NoOne}
  PROVE  \A b \in Agents \ {a} : pc[b] \in {"start", "done"}
BY SyncAssumption DEF HookInv

(* A hook that finishes has written its note. *)
LEMMA HookFinishes ==
  ASSUME SyncTypeOK, OnlyHooks, HookInv, NotesKept, NEW a \in Agents,
         pc[a] \in {"sync", "stat", "store"}, Finish(a), file' = file, job' = job
  PROVE  HookInv' /\ NotesKept'
<1> a \in Actors /\ Agents \cap Syncers = {} /\ NoOne \notin Agents
  BY SyncAssumption DEF Actors
<1>1. /\ pc'[a] = "done" /\ \A b \in Agents \ {a} : pc'[b] = pc[b] /\ mem'[b] = mem[b]
  BY DEF SyncTypeOK, Finish, Goto, Actors
<1>2. flock = a /\ a \in file.text.notes
  BY DEF HookInv
<1>3. \A b \in Agents \ {a} : pc[b] \in {"start", "done"}
  BY <1>2, HookAlone
<1>4. HookInv'
  BY <1>1, <1>3 DEF HookInv
<1>5. \A b \in Agents : pc[b] = "done" => b \in file.text.notes
  BY <1>3 DEF NotesKept, OnlyHooks
<1>6. NotesKept'
  BY <1>1, <1>2, <1>5 DEF NotesKept
<1> QED
  BY <1>4, <1>6

(* A hook reads the file under its lock, when no other hook has it open. *)
LEMMA HookReads ==
  ASSUME SyncTypeOK, OnlyHooks, HookInv, NotesKept, NEW a \in Agents, ReadFile(a)
  PROVE  HookInv' /\ NotesKept'
<1> a \in Actors
  BY DEF Actors
<1>1. job[a] = "hook"
  BY DEF OnlyHooks
<1>2. /\ pc[a] = "start" /\ flock = NoOne /\ flock' = a /\ file' = file /\ job' = job
      /\ mem' = [mem EXCEPT ![a].text = file.text] /\ Goto(a, "read")
  BY <1>1 DEF ReadFile, FlockTaken, NothingToDo
<1>3. \A b \in Agents \ {a} : pc[b] \in {"start", "done"}
  BY <1>2, HookAlone
<1>4. /\ pc'[a] = "read" /\ mem'[a].text = file.text
      /\ \A b \in Agents \ {a} : pc'[b] = pc[b]
  BY <1>2 DEF SyncTypeOK, Goto, Actors
<1>5. Finished' = Finished
  BY <1>2, <1>4 DEF Finished
<1>6. Finished \subseteq file.text.notes
  BY <1>2, <1>3 DEF Finished, NotesKept, OnlyHooks
<1>7. HookInv'
  BY <1>2, <1>3, <1>4, <1>5, <1>6 DEF HookInv
<1>8. NotesKept'
  BY <1>2, <1>5, <1>6 DEF NotesKept, Finished
<1> QED
  BY <1>7, <1>8

(* While it is truncating the file it remembers the notes there were. *)
LEMMA HookWrites ==
  ASSUME SyncTypeOK, OnlyHooks, HookInv, NotesKept, NEW a \in Agents, Truncate(a) \/ Fill(a)
  PROVE  HookInv' /\ NotesKept'
<1> a \in Actors
  BY DEF Actors
<1>1. /\ job[a] = "hook" /\ pc[a] \in {"read", "cut"} /\ flock = a
      /\ Finished \subseteq mem[a].text.notes
  BY DEF OnlyHooks, Truncate, Fill, HookInv
<1>2. \A b \in Agents \ {a} : pc[b] \in {"start", "done"}
  BY <1>1, HookAlone
<1>3. CASE Truncate(a)
  <2>1. /\ pc'[a] = "cut" /\ mem' = mem /\ flock' = flock
        /\ \A b \in Agents \ {a} : pc'[b] = pc[b]
    BY <1>3 DEF SyncTypeOK, Truncate, Goto, Actors
  <2>2. Finished' = Finished
    BY <1>1, <2>1 DEF Finished
  <2>3. HookInv'
    BY <1>1, <1>2, <2>1, <2>2 DEF HookInv
  <2> QED
    BY <2>1, <2>3 DEF NotesKept
<1>4. CASE Fill(a)
  <2>1. /\ pc'[a] = "sync" /\ mem' = mem /\ flock' = flock
        /\ \A b \in Agents \ {a} : pc'[b] = pc[b]
    BY <1>4 DEF SyncTypeOK, Fill, Goto, Actors
  <2>2. Finished' = Finished
    BY <1>1, <2>1 DEF Finished
  <2>3. file'.text.notes = mem[a].text.notes \cup {a}
    <3>1. mem[a].text \in Text
      BY DEF SyncTypeOK
    <3>2. Changed(a) = [mem[a].text EXCEPT !.notes = mem[a].text.notes \cup {a}]
      BY <1>1 DEF Changed
    <3>3. Changed(a).notes = mem[a].text.notes \cup {a}
      BY <3>1, <3>2 DEF Text
    <3>4. file'.text = Changed(a)
      BY <1>4 DEF Fill, Write
    <3> QED
      BY <3>3, <3>4
  <2>4. HookInv'
    BY <1>1, <1>2, <2>1, <2>2, <2>3 DEF HookInv
  <2>5. NotesKept'
    BY <1>1, <2>2, <2>3 DEF NotesKept, Finished
  <2> QED
    BY <2>4, <2>5
<1> QED
  BY <1>3, <1>4

(* Every step keeps what holds of hooks. *)
LEMMA HookStep ==
  ASSUME SyncTypeOK, OnlyHooks, HookInv, NotesKept, [Next]_vars
  PROVE  HookInv' /\ NotesKept'
<1>1. ASSUME NEW a \in Agents, Move(a) \/ Rewrite(a)
      PROVE  HookInv' /\ NotesKept'
  <2>1. job[a] = "hook"
    BY DEF OnlyHooks
  <2> QED
    BY <1>1, <2>1, HookReads, HookWrites
       DEF Move, MoveGated, MoveEnter, MoveRead, MoveReplace, MoveCommit, Rewrite, Rename
<1>2. ASSUME NEW a \in Agents, Sync(a)
      PROVE  HookInv' /\ NotesKept'
  <2> a \in Actors
    BY DEF Actors
  <2>1. /\ pc[a] \in {"sync", "stat", "store"} /\ file' = file /\ job' = job
        /\ \/ Finish(a)
           \/ /\ flock' = flock /\ pc[a] \in {"sync", "stat"}
              /\ Goto(a, "stat") \/ Goto(a, "store")
    BY <1>2 DEF Sync, SyncRead, SyncStat, SyncStore, SyncBusy
  <2>2. CASE Finish(a)
    BY <2>1, <2>2, HookFinishes
  <2>3. CASE /\ flock' = flock /\ pc[a] \in {"sync", "stat"}
             /\ Goto(a, "stat") \/ Goto(a, "store")
    <3>1. /\ pc'[a] \in {"stat", "store"} /\ \A b \in Agents \ {a} : pc'[b] = pc[b]
      BY <2>3 DEF SyncTypeOK, Goto, Actors
    <3>2. Finished' = Finished
      BY <2>1, <3>1 DEF Finished
    <3>3. \A b \in Agents \ {a} : pc[b] \in {"start", "done"}
      BY <2>1, HookAlone DEF HookInv
    <3>4. HookInv'
      BY <2>1, <2>3, <3>1, <3>2, <3>3 DEF HookInv
    <3>5. NotesKept'
      BY <2>1, <3>1, <3>3 DEF NotesKept, OnlyHooks
    <3> QED
      BY <3>4, <3>5
  <2> QED
    BY <2>1, <2>2, <2>3
<1>3. ASSUME NEW a \in Syncers, Sync(a) \/ SyncStart(a)
      PROVE  HookInv' /\ NotesKept'
  <2>1. a \in Actors /\ a \notin Agents /\ a # NoOne /\ flock # a
    BY SyncAssumption DEF Actors, SyncTypeOK
  <2>2. /\ file' = file /\ job' = job /\ flock' = flock
        /\ \A b \in Actors \ {a} : pc'[b] = pc[b] /\ mem'[b] = mem[b]
    BY <1>3, <2>1 DEF Sync, SyncStart, SyncRead, SyncStat, SyncStore, SyncBusy,
                      Finish, Goto, SyncTypeOK
  <2> QED
    BY <2>1, <2>2, HooksUntouched DEF Actors
<1>4. CASE UNCHANGED vars
  BY <1>4, HooksUntouched DEF vars
<1> QED
  <2>1. \A s \in Syncers : SyncStart(s) => Sync(s) \/ SyncStart(s)
    OBVIOUS
  <2> QED
    BY <1>1, <1>2, <1>3, <1>4 DEF Next, Actors

-------------------------------------------------------------------------------

(* The file and its row start equal, and nobody has read anything. *)
LEMMA InitSync == Init => SyncInv
<1> SUFFICES ASSUME Init PROVE SyncInv
  OBVIOUS
<1>1. PICK st \in Born : LET text == [Empty EXCEPT !.status = st] IN
        file = [text |-> text, stamp |-> 1] /\ row = [text |-> text, stamp |-> 1, torn |-> FALSE]
  BY DEF Init
<1>2. [Empty EXCEPT !.status = st] \in Text /\ Readable([Empty EXCEPT !.status = st])
  BY TextTyped, SyncAssumption
<1>3. file \in [text : Text, stamp : Stamps]
      /\ row \in [text : {x \in Text : Readable(x)}, stamp : Stamps, torn : BOOLEAN]
  BY <1>1, <1>2 DEF Stamps
<1>4. mem \in [Actors -> Memory] /\ pc \in [Actors -> Labels]
      /\ \A a \in Actors : pc[a] = "start"
  BY TextTyped DEF Init, Labels
<1>5. SyncTypeOK /\ ParsedInv
  BY <1>3, <1>4 DEF Init, SyncTypeOK, ParsedInv, Memory, Labels
<1>6. HookInv /\ NotesKept
  BY <1>4 DEF HookInv, NotesKept, Actors
<1> QED
  BY <1>5, <1>6 DEF SyncInv

(* Every step keeps the invariant; no agent changes its operation. *)
LEMMA StepSync == SyncInv /\ [Next]_vars => SyncInv'
<1> SUFFICES ASSUME SyncInv, [Next]_vars PROVE SyncInv'
  OBVIOUS
<1>1. SyncTypeOK /\ ParsedInv
  BY DEF SyncInv
<1>2. SyncTypeOK' /\ ParsedInv'
  <2>1. CASE UNCHANGED vars
    BY <1>1, <2>1 DEF vars, SyncTypeOK, ParsedInv
  <2>2. CASE Next
    BY <1>1, <2>2, MoveTyped, RewriteTyped, SyncTyped DEF Next, Actors
  <2> QED
    BY <2>1, <2>2
<1>3. job' = job
  BY DEF Next, Move, MoveGated, MoveEnter, MoveRead, MoveReplace, MoveCommit, Rewrite, ReadFile,
         Truncate, Fill, Rename, SyncStart, Sync, SyncRead, SyncStat, SyncStore, SyncBusy, vars
<1>4. OnlyHooks' => HookInv' /\ NotesKept'
  <2> SUFFICES ASSUME OnlyHooks' PROVE HookInv' /\ NotesKept'
    OBVIOUS
  <2>1. OnlyHooks
    BY <1>3 DEF OnlyHooks
  <2> QED
    BY <1>1, <2>1, HookStep DEF SyncInv
<1> QED
  BY <1>2, <1>4 DEF SyncInv

(* Types, parsed syncs, and the hooks' lock.                               *)
THEOREM SyncCorrect == Spec => []SyncInv
BY InitSync, StepSync, PTL DEF Spec

(* File, row, locks and memories are typed, whoever truncates the file.    *)
THEOREM SyncTypeCorrect == Spec => []SyncTypeOK
<1>1. SyncInv => SyncTypeOK
  BY DEF SyncInv
<1> QED
  BY <1>1, SyncCorrect, PTL

(* Hooks lose none of each other's notes, however syncs interleave.        *)
THEOREM NotesSurvive == Spec => []NotesKept
<1>1. SyncInv => NotesKept
  BY DEF SyncInv, OnlyHooks, NotesKept
<1> QED
  BY <1>1, SyncCorrect, PTL

-------------------------------------------------------------------------------

(* At first the row has the file's time and says what it says.             *)
LEMMA InitCurrent == Init => CurrentInv
<1> SUFFICES ASSUME Init PROVE CurrentInv
  OBVIOUS
<1>1. row.stamp = file.stamp /\ row.text = file.text /\ file.stamp \in Nat
  BY DEF Init
<1>2. \A a \in Actors : pc[a] = "start"
  BY DEF Init
<1> QED
  BY <1>1, <1>2 DEF CurrentInv, StampInv, AheadInv, SkippedIsCurrent, Actors

(* Writing the file puts it ahead of its row and of whoever has read it.   *)
LEMMA WriteCurrent ==
  ASSUME SyncTypeOK, CurrentInv, NEW a \in Agents, NEW text, Write(text), NEW l,
         Goto(a, l), l \notin {"stat", "store"}, UNCHANGED <<job, row, lock, mem>>,
         l = "replaced" => job[a] = "move" /\ lock = a,
         l \in {"locked", "read"} => job[a] # "move"
  PROVE  CurrentInv'
<1>1. file'.stamp = file.stamp + 1 /\ file.stamp \in Nat /\ row.stamp \in Nat
  BY DEF Write, SyncTypeOK, Stamps
<1>2. /\ pc'[a] = l /\ \A b \in Actors \ {a} : pc'[b] = pc[b]
      /\ \A b \in Actors : mem[b].seen \in Nat /\ mem[b].stamp \in Nat
  BY DEF Goto, SyncTypeOK, Actors, Stamps
<1>3. StampInv'
  BY <1>1, <1>2 DEF CurrentInv, StampInv
<1>4. row.stamp < file'.stamp
  BY <1>1 DEF CurrentInv, StampInv
<1>5. AheadInv'
  BY <1>1, <1>2, <1>4 DEF CurrentInv, AheadInv, Actors
<1>6. SkippedIsCurrent'
  BY <1>1, <1>4 DEF SkippedIsCurrent
<1> QED
  BY <1>3, <1>5, <1>6 DEF CurrentInv

(* Moving on without writing file or row, to a place where nothing has     *)
(* been read and no lock is needed.                                        *)
LEMMA GotoCurrent ==
  ASSUME SyncTypeOK, CurrentInv, NEW a \in Actors, NEW l,
         pc' = [pc EXCEPT ![a] = l], UNCHANGED <<job, file, row>>,
         l \notin {"stat", "store", "replaced"},
         \A b \in Actors \ {a} : mem'[b] = mem[b],
         \A b \in Agents \ {a} : lock = b => lock' = b,
         a \in Agents /\ job[a] = "move" /\ l \in {"locked", "read"} => lock' = a
  PROVE  CurrentInv'
<1>1. pc'[a] = l /\ \A b \in Actors \ {a} : pc'[b] = pc[b]
  BY DEF SyncTypeOK
<1>2. StampInv'
  BY <1>1 DEF CurrentInv, StampInv
<1>3. AheadInv'
  BY <1>1 DEF CurrentInv, AheadInv, Actors
<1>4. SkippedIsCurrent'
  BY DEF CurrentInv, SkippedIsCurrent
<1> QED
  BY <1>2, <1>3, <1>4 DEF CurrentInv

(* Transitions keep it: while one is at work on the file nobody stores.    *)
LEMMA MoveCurrent ==
  ASSUME SyncTypeOK, CurrentInv, NEW a \in Agents, Move(a)
  PROVE  CurrentInv'
<1>0. a \in Actors /\ NoOne \notin Agents /\ a \notin Syncers /\ job[a] = "move"
  BY SyncAssumption DEF Actors, CurrentInv, AheadInv, Move, MoveGated, MoveEnter, MoveRead,
                        MoveReplace, MoveCommit
<1>1. ASSUME Finish(a), UNCHANGED <<job, file, row>>, lock' = lock \/ lock = a
      PROVE  CurrentInv'
  <2>1. /\ pc' = [pc EXCEPT ![a] = "done"] /\ \A b \in Actors \ {a} : mem'[b] = mem[b]
    BY <1>0, <1>1 DEF Finish, Goto, SyncTypeOK
  <2> QED
    BY <1>0, <1>1, <2>1, GotoCurrent
<1>2. CASE MoveGated(a)
  <2>1. /\ pc' = [pc EXCEPT ![a] = "gated"] /\ \A b \in Actors \ {a} : mem'[b] = mem[b]
    BY <1>0, <1>2 DEF MoveGated, Goto, SyncTypeOK
  <2> QED
    BY <1>0, <1>2, <2>1, GotoCurrent DEF MoveGated
<1>3. CASE MoveEnter(a)
  <2>1. CASE lock' = a /\ Goto(a, "locked") /\ UNCHANGED <<flock, mem>>
    <3>1. pc' = [pc EXCEPT ![a] = "locked"] /\ lock = NoOne
      BY <1>3, <2>1 DEF MoveEnter, Goto
    <3> QED
      BY <1>0, <1>3, <2>1, <3>1, GotoCurrent DEF MoveEnter
  <2>2. CASE Finish(a) /\ UNCHANGED lock
    BY <1>1, <1>3, <2>2 DEF MoveEnter
  <2> QED
    BY <1>3, <2>1, <2>2 DEF MoveEnter
<1>4. CASE MoveRead(a)
  <2>0. lock = a
    BY <1>0, <1>4 DEF MoveRead, CurrentInv, AheadInv
  <2>1. CASE Readable(file.text)
    <3>1. /\ pc' = [pc EXCEPT ![a] = "read"] /\ \A b \in Actors \ {a} : mem'[b] = mem[b]
          /\ UNCHANGED <<job, file, row, lock>>
      BY <1>0, <1>4, <2>1 DEF MoveRead, Goto, SyncTypeOK
    <3> QED
      BY <1>0, <2>0, <3>1, GotoCurrent
  <2>2. CASE ~Readable(file.text)
    BY <1>1, <1>4, <2>0, <2>2 DEF MoveRead
  <2> QED
    BY <2>1, <2>2
<1>5. CASE MoveReplace(a)
  <2>1. lock = a
    BY <1>0, <1>5 DEF MoveReplace, CurrentInv, AheadInv
  <2> QED
    BY <1>0, <1>5, <2>1, WriteCurrent DEF MoveReplace
<1>6. CASE MoveCommit(a)
  <2>1. /\ lock = a /\ row'.stamp = row.stamp /\ row.stamp < file.stamp
        /\ UNCHANGED <<job, file>>
    BY <1>0, <1>6 DEF MoveCommit, CurrentInv, AheadInv, SyncTypeOK
  <2>2. /\ pc'[a] = "done"
        /\ \A b \in Actors \ {a} : pc'[b] = pc[b] /\ mem'[b] = mem[b]
    BY <1>0, <1>6 DEF MoveCommit, Finish, Goto, SyncTypeOK
  <2>3. StampInv'
    BY <2>1, <2>2 DEF CurrentInv, StampInv
  <2>4. AheadInv'
    BY <1>0, <2>1, <2>2 DEF CurrentInv, AheadInv, Actors
  <2>5. SkippedIsCurrent'
    BY <2>1 DEF SkippedIsCurrent, SyncTypeOK, Stamps
  <2> QED
    BY <2>3, <2>4, <2>5 DEF CurrentInv
<1> QED
  BY <1>2, <1>3, <1>4, <1>5, <1>6 DEF Move

(* Tools and hooks keep it: each write makes the file newer than its row.  *)
LEMMA RewriteCurrent ==
  ASSUME SyncTypeOK, CurrentInv, NEW a \in Agents, Rewrite(a)
  PROVE  CurrentInv'
<1>0. a \in Actors /\ a \notin Syncers
  BY SyncAssumption DEF Actors
<1>1. CASE ReadFile(a)
  <2>1. PICK l \in {"read", "done"} : pc' = [pc EXCEPT ![a] = l]
    BY <1>0, <1>1 DEF ReadFile, Finish, Goto
  <2>2. /\ \A b \in Actors \ {a} : mem'[b] = mem[b]
        /\ UNCHANGED <<job, file, row, lock>> /\ job[a] # "move"
    BY <1>0, <1>1 DEF ReadFile, Finish, SyncTypeOK
  <2> QED
    BY <1>0, <2>1, <2>2, GotoCurrent
<1>2. CASE Truncate(a)
  <2>1. Goto(a, "cut") /\ Write(Empty) /\ UNCHANGED <<job, row, lock, mem>>
    BY <1>2 DEF Truncate
  <2> QED
    BY <2>1, WriteCurrent
<1>3. CASE Fill(a) \/ Rename(a)
  <2>1. Goto(a, "sync") /\ Write(Changed(a)) /\ UNCHANGED <<job, row, lock, mem>>
    BY <1>3 DEF Fill, Rename
  <2> QED
    BY <2>1, WriteCurrent
<1> QED
  BY <1>1, <1>2, <1>3 DEF Rewrite

(* Syncs keep it: what is stored with the time it was read at is the text  *)
(* of that time, and no transition has the write lock by then.             *)
LEMMA SyncCurrent ==
  ASSUME SyncTypeOK, CurrentInv, NEW a \in Actors,
         Sync(a) \/ (a \in Syncers /\ SyncStart(a))
  PROVE  CurrentInv'
<1>0. Agents \cap Syncers = {} /\ NoOne \notin Agents
  BY SyncAssumption
<1>1. ASSUME Finish(a), UNCHANGED <<job, file, row, lock>> PROVE CurrentInv'
  <2>1. PICK l \in {"start", "done"} : pc' = [pc EXCEPT ![a] = l]
    BY <1>1 DEF Finish, Goto
  <2>2. \A b \in Actors \ {a} : mem'[b] = mem[b]
    BY <1>1 DEF Finish, SyncTypeOK
  <2> QED
    BY <1>1, <2>1, <2>2, GotoCurrent
<1>2. CASE a \in Syncers /\ SyncStart(a)
  <2>1. pc' = [pc EXCEPT ![a] = "sync"] /\ UNCHANGED <<job, file, row, lock, mem>>
    BY <1>2 DEF SyncStart, Goto
  <2> QED
    BY <2>1, GotoCurrent
<1>3. CASE SyncRead(a) /\ Readable(file.text)
  <2>1. /\ mem' = [mem EXCEPT ![a] = [@ EXCEPT !.text = file.text, !.seen = file.stamp]]
        /\ Goto(a, "stat") /\ UNCHANGED <<job, file, row, lock>>
    BY <1>3 DEF SyncRead
  <2>2. /\ mem'[a].text = file.text /\ mem'[a].seen = file.stamp /\ pc'[a] = "stat"
        /\ \A b \in Actors \ {a} : pc'[b] = pc[b] /\ mem'[b] = mem[b]
    BY <2>1 DEF Goto, SyncTypeOK
  <2>3. StampInv'
    BY <2>1, <2>2 DEF CurrentInv, StampInv, SyncTypeOK, Stamps
  <2>4. AheadInv'
    BY <2>1, <2>2 DEF CurrentInv, AheadInv, Actors
  <2> QED
    BY <2>1, <2>3, <2>4 DEF CurrentInv, SkippedIsCurrent
<1>4. CASE SyncStat(a)
  <2>1. /\ mem' = [mem EXCEPT ![a].stamp = file.stamp] /\ pc[a] = "stat"
        /\ Goto(a, "store") /\ UNCHANGED <<job, file, row, lock>>
    BY <1>4 DEF SyncStat
  <2>2. /\ mem'[a].text = mem[a].text /\ mem'[a].seen = mem[a].seen
        /\ mem'[a].stamp = file.stamp /\ pc'[a] = "store"
        /\ \A b \in Actors \ {a} : pc'[b] = pc[b] /\ mem'[b] = mem[b]
    BY <2>1 DEF Goto, SyncTypeOK
  <2>3. StampInv'
    BY <2>1, <2>2 DEF CurrentInv, StampInv, SyncTypeOK, Stamps
  <2>4. AheadInv'
    BY <2>1, <2>2 DEF CurrentInv, AheadInv, Actors
  <2> QED
    BY <2>1, <2>3, <2>4 DEF CurrentInv, SkippedIsCurrent
<1>5. CASE SyncStore(a)
  <2>1. /\ row' = [text |-> mem[a].text, stamp |-> mem[a].stamp,
                   torn |-> mem[a].seen # mem[a].stamp]
        /\ pc[a] = "store" /\ lock = NoOne /\ Finish(a) /\ UNCHANGED <<job, file, lock>>
    BY <1>5 DEF SyncStore
  <2>2. /\ pc'[a] \in {"start", "done"}
        /\ \A b \in Actors \ {a} : pc'[b] = pc[b] /\ mem'[b] = mem[b]
    BY <2>1 DEF Finish, Goto, SyncTypeOK
  <2>3. \A b \in Agents : pc[b] # "replaced"
    BY <1>0, <2>1 DEF CurrentInv, AheadInv
  <2>4. StampInv'
    BY <2>1, <2>2 DEF CurrentInv, StampInv
  <2>5. AheadInv'
    BY <2>1, <2>2, <2>3 DEF CurrentInv, AheadInv, Actors
  <2>6. SkippedIsCurrent'
    BY <2>1 DEF CurrentInv, StampInv, SkippedIsCurrent
  <2> QED
    BY <2>4, <2>5, <2>6 DEF CurrentInv
<1> QED
  BY <1>1, <1>2, <1>3, <1>4, <1>5 DEF Sync, SyncRead, SyncBusy

(* What sync_all skips as unchanged says what its row says, unless the     *)
(* file was written between the two reads of the sync that stored it.      *)
THEOREM SkipsAreSound == Spec => []SkippedIsCurrent
<1>1. SyncInv /\ CurrentInv /\ [Next]_vars => CurrentInv'
  <2> SUFFICES ASSUME SyncInv, CurrentInv, [Next]_vars PROVE CurrentInv'
    OBVIOUS
  <2>1. SyncTypeOK
    BY DEF SyncInv
  <2>2. CASE UNCHANGED vars
    BY <2>2 DEF vars, CurrentInv, StampInv, AheadInv, SkippedIsCurrent
  <2> QED
    BY <2>1, <2>2, MoveCurrent, RewriteCurrent, SyncCurrent DEF Next, Actors
<1>2. CurrentInv => SkippedIsCurrent
  BY DEF CurrentInv
<1> QED
  BY <1>1, <1>2, InitCurrent, SyncCorrect, PTL DEF Spec

===============================================================================
