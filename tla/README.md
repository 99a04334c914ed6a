# A TLA+ model of coding-os

coding-os is a Python layer around coding agents. It keeps a kanban board of task files, a SQLite
database with memory and a code graph, an MCP server the agents call, a web Hub, a command line and
a set of editor hooks. Several agents, each with processes of its own, a daemon, the Hub and the
hooks share **one SQLite file and one directory of markdown files**, and nothing else. There is no
broker and no owner: whatever is correct is correct because of a transaction, a
compare-and-set, or the order of two writes. That is what this project models.

Paths below are relative to `src/src/core/`.

## 1. Inventory

| Component | State it keeps | Operations | What is hard |
|---|---|---|---|
| **Board workflow** `board_os/workflow.py`, `_workflow_*.py`, `_mcp_lifecycle.py` | `tasks` row, `task_status_history`, task file | `transition()` through `cos_task_move`, `cos_task_pick`, CLI, Hub | status and gates read before the lock; WIP count, row, file and audit row in one transaction although a file takes no part in a rollback; crash between file and commit |
| **Atomic claim** `_mcp_pick.py` | a list of candidates per call | `cos_task_claim_next` | the list is stale as soon as it is read; peers win candidates, cards lose label or row; when to stop |
| **Reclaim** `_mcp_stranded.py`, `_mcp_reclaim.py` | scan, presence files, label | `cos_task_reclaim`: before each pull, nightly, and as `cos task-reclaim` from the hook of every session start | evidence older than the forced move; owner returns; overlapping sweeps, on behalf of live sessions |
| **Sync** `sync.py`, `parser.py`, `_mcp_worklog.py`, `_mcp_edit.py`, hook `work_log_append.py` | file text, modification time, row | `sync_one`, `sync_all`, append, edit, ready label | unlocked read-modify-write; text, time and old status read in three steps |
| **Creation** `_mcp_create.py`, `_mcp_task_ids.py` | directory, reserved rows | allocate, write, sync, prune | concurrent allocation, crash with a reservation, pruning of reservations |
| **Cascade** `_mcp_lifecycle.py`, `_workflow_deps.py`, `_mcp_ready.py`, `_mcp_reposition.py` | `depends_on`, ready label | walk of the dependents after a completion | runs after the commit; two prerequisites completed at once; failing steps and swallowed exceptions; a second door (drag and drop) without it |
| **Capacity breaker** `thinking_os/supervision.py`, called by `dispatcher.py` | `adapter_health` row per scope | check, report, release, clear | late reports, leases that count from a clock read before the wait for the lock, stranded leases, busy database |
| **Database schema** `thinking_os/database.py`, `_db_migrations.py` | `schema_version`, and through it every table, column and trigger of the file | `init_db`, `run_migrations`: 55 versions in one transaction | every process migrates on open; waits in vain, errors taken for a resolved race, builds without FTS5, older releases on the same file, death between two versions |
| **Graph reindex** `graph_os/tools/reindex_dispatch.py`, `_reindex_layers.py`, `_reindex_state.py`, `cos graph-reindex`, hooks `_reindex_on_edit.sh` and `auto-graph-reconcile-shell.sh` | `graph_nodes`, `graph_edges_v12`, `file_index_state`, debounce markers, sentinel of a bulk walk | edit, shell command, walk; dispatch of one file and its dependents | one dispatch is a dozen transactions; detached workers overlap and die; errors are logged and passed over, files that cannot be read skipped; a changed file invalidates what its callers hold |
| Background indexer, Hub init jobs | a thread and its flags | start, stop, cancel | cancellation against completion |
| Transition gates, verify suites | none | text checks of a task body | pure |
| thinking_os memory and MCP server, graph_os queries and extractors, logging_os | database tables | queries, ranking, extraction | sequential |
| Other hooks, CLI, adapters, scripts, templates | lock files, generated files | test governor, PR workflow, install | look-then-create locks |
| Hub routes, board reports | caches | reads, calls of the tools above | staleness of caches |

How they interact: every board tool ends in `transition()` or `sync_one()`. Claim, reclaim, cascade
and drag call `transition()`; `transition()` writes the file that `sync_one()` reads back; creation
reserves a row that `sync_all` may prune; reclaim patches the ready label that claim filters on.
The breaker and the code graph share only the database with the board, and all of them rely on the
schema the migrations leave there.

## 2. Modules

```
BoardRules            statuses, edges, WIP columns, call modes        (config.py, _workflow_types.py)
  AtomicBoard         what the board promises: a transition is one step
    BoardWorkflow     transition() step by step, with faults          --implements--> AtomicBoard
    BoardClaim        cos_task_claim_next over atomic transitions     --implements--> AtomicBoard
      BoardReclaim    the reclaim sweep beside the claimers
    BoardCascade      completion cascade and drag over atomic transitions
  BoardSync           one file and its row under all their writers
TaskIds               creation, reservation, pruning
CapacityBreaker       adapter_health of one scope
SchemaLedger          the 55 migrations and what one does to a schema (_db_migrations.py)
  SchemaMigration     openers that migrate one database               --implements--> SchemaVersions
SchemaVersions        what the ledger promises: whole upgrades of the recorded version
GraphReindex          how the code graph follows the files
*_proofs              theorems: AtomicBoard, BoardWorkflow, BoardReclaim (and BoardClaim),
                      BoardCascade, BoardSync, TaskIds, GraphReindex, ThinkingOs
                      (CapacityBreaker, SchemaLedger and SchemaMigration)
MC*                   constants for TLC
```

`BoardClaim`, `BoardReclaim` and `BoardCascade` use one-step transitions (`AtomicBoard!Move`, with
the lock-free part of a claim or sweep a step of its own). `BoardWorkflow` justifies this: the run
`workflow_faults` checks, and theorem `Refinement` proves, that the step-by-step `transition()`
implements that step.

How the state corresponds to the code:

* `rows` is the `tasks` table (status, owning session, ready label) and `hist` the last committed
  row of `task_status_history` of each task.
* `BoardWorkflow`: `pc[d]` is where a call stands in `transition()`: `read` after the lock-free
  SELECT, `gated` after the gates, `locked` after `BEGIN IMMEDIATE` with its second read, WIP count
  and UPDATE, `written` after `os.replace` of the file, `undo` after a rollback that still owes the
  restore. `files` is the frontmatter. The uncommitted UPDATE is invisible to others, so `rows`
  changes at `Commit`. `call[d]` holds the arguments, the status of the first read and the backup.
* `BoardClaim`: `walk` is the candidate list and the current attempt, `mine` what claims returned,
  `gone` the tasks whose row a sync has pruned. Somebody may take labels off and remove files
  (`Unlabelled`, `Prunable`), and a transaction may find no lock or fail to write (`TxnFails`).
* `BoardReclaim`: `idle` and `present` are what the sweep reads of the history's age and of the
  presence files, `sweep` its scan and the session it acts for: the system's, or the one whose
  `cos task-reclaim` it is.
* `BoardSync`: `file` and `row` are texts with a modification time, `lock` is SQLite's write lock,
  `flock` the hook's, `mem` what each actor has read so far. The ghosts `seen` and `torn` tell a sync
  between whose reads of text and time the file was written.
* `BoardCascade`: `walk` is the rest of the cascade a caller owes; the ghost `lost` collects
  dependents whose cascade was cut short (an exception that is swallowed, a caller that died), whose
  unblocking or labelling failed, or whose cascade was never started (drag).
* `TaskIds`: `files` is the directory, `rows` the paths in the table, `cr` and `pr` the creators and
  the `sync_all` runs; the ghost `pruned` collects ids deleted while in use.
* `CapacityBreaker`: `row` is the health row with the ticks left to its deadlines, `call` each
  dispatch; the ghost `barred` is what is left of the cooldown of the last capacity report, unless a
  success or the operator has lifted it. `Lag` bounds the time from the clock a check reads, through
  its wait for the database, to the start of the dispatch it lets in.
* `SchemaMigration`: `db` is what is committed: `MAX(version)` of `schema_version`, the schema, which
  of the versions that differ by build were applied without FTS5 (`plain`), and whether
  `learned_patterns` has a locked row. `op` is where each opener stands in `init_db`, with the draft
  of its transaction while it migrates. A schema is its tables, the columns added later and its
  triggers. `Replay(v, P)` of `SchemaLedger` was compared with the schema SQLite has
  after running the repository's migrations, at each of the 55 versions, with and without FTS5.
* `GraphReindex`: `disk` is the tree, `nodes`, `edges` and `index` are the three tables (an edge that
  is not `bound` is a stub `code:external:...`), `marker` and `sentinel` the hooks' files, `job` each
  worker with the file it has read. The ghost `void` collects what has happened that only a forced
  walk repairs: overlapping workers, a kill, an error or a failed read that leaves no mark, a prune
  during a refresh.

Ghosts are written and never read by an action.

## 3. Runs

All runs exhaust their state space, most of them within a minute, `reindex_mixed` in about three. `CHECK_DEADLOCK FALSE` everywhere: agents
may stop asking, and one-shot callers finish.

| Run | Question | Instance and why it is enough |
|---|---|---|
| `workflow_core` | Do the caps, the checks under the lock, the agreement of file and row and the audit chain survive every interleaving? | 2 doors, 2 tasks, 2 sessions, caps of 1, failing file writes, `bypass_gates`. Two doors are what one writer lock distinguishes; with caps of 1 the second task is already the one too many. |
| `workflow_faults` | Does `transition()` with all faults and forced moves still implement the one-step board? | 2 doors, 1 task: the refinement is per task, two calls on it are the conflict. |
| `workflow_crash` | How far can a crash put the file ahead of the row? Does each call return? | crashes and vanishing files, no forced move, policy that blocks in_progress to complete. |
| `claim_race` | Distinct claims, one focus, why a walk gives up, does it end? | 2 claimers, 4 tasks: one waits for another, one is a stub, one may lose its label, one its row; transactions may fail. A lost candidate leaves others to go on to. |
| `reclaim_sweep` | Does a forced move start from the status the task has at its commit? Is every abandoned task taken back? | one agent that claims, falls silent and may come back at any point of a sweep, and sweeps one after another, for the system or for the agent; one task with evidence and one without, so both destinations occur; the agent moves tasks to testing, emergency and complete. The agent that comes back is the race with the sweep. That sweeps overlap, each beside many agents, is covered by the theorem `ReclaimAudited`: with two of each the state space is too large. |
| `sync_races` | Do hooks keep each other's notes? Is a row that a sync skips current? | every pair of the five file operations, with one sync that runs again and again; it is forced, so that it starts in every state a sync by modification time would and more. |
| `cascade_two` | Is a dependent forgotten between two walks? Are stubs labelled? | t3 waits for two prerequisites, t4 for one; callers also move t4 and drag cards; steps of a walk fail or raise, and callers die. |
| `ids_heal` | Is a number given twice? Does the table heal? | 2 creators with different titles, crashes, removed files, one pruner, with and without a task to start from; `MaxId` = 4 is never exhausted by 2 creators. |
| `breaker_pool` | Is anyone let in during the last reported cooldown, or beside a probe? Is a scope shut for good? | 3 dispatches: the late one, the probe and the intruder. Timeouts 1 and 3, cooldowns 1 to 3 and a provider's hint above the maximum; failures saturate at `FailCap`, from where the delay is the maximum. With `Lag` 1 a probe of the longest timeout starts a tick after its lease, and two of its ticks are still protected. |
| `schema_mixed` | Is the committed schema always that of the recorded version? Does every database catch up? | the newest release with FTS5, the newest without, and release 48, on databases of v8, v47, v49 and v54: before and after the versions that need FTS5, that a locked pattern refuses, and that the old release ends at. One death. |
| `reindex_mixed` | Is the graph that incremental work leaves the graph of the tree? Does every worker end? | 2 files that call each other, renames on both sides, removal, restoring, a checkout of both; 2 edits, commands or walks, and one kill, failing statement or failing read. Two workers are an overlap, and the second may be the walk that repairs the first. |

One run expects a violation:

* `reindex_refresh` / `CallersReread`, 3 files in a chain, no faults. A dispatch that prunes symbols
  reads the callers again, "so each stub comes back and relinks" (`_reindex_layers.py:169`). The
  callers are dispatched with `refresh_dependents=False` (`reindex_dispatch.py:325`). When one
  of them has itself been edited in between, its own outdated symbols are pruned and its callers'
  edges go with them; nobody reads those callers again, their rows still hit the cache, and the
  edges are missing until a forced walk.

Every property of a passing run has a mutant: a small defect of a mapped definition that makes TLC
find the property violated.

### Fairness

`FairSpec` of `BoardWorkflow`: a started call proceeds, for it is synchronous code and the wait for
the lock ends at the busy timeout (`EnterBusy`). `ClaimFair`: the same for the walk;
starting one is never fair. `ReclaimFair`: sweeps keep coming, as each pull, each session start and
the nightly job run one; sessions get no fairness. `TaskIds!FairSpec`: `sync_all` keeps running and
prunes, and a create runs to its end. What repeats `sync_all` unasked is the daemon only
(`thinking_os/background.py:324`), which is off unless `COS_BACKGROUND_INDEX` is set: `TableHeals` is
a promise for installations that run it, or sync by command again and again. (That sync is not
forced, but pruning does not depend on that, and a file without a row is never skipped.) `BoardSync`
and `BoardCascade` are checked for safety only. `BreakerFair`: time passes and a
dispatch returns by its timeout. `ReindexFair`: a worker that was started runs; edits, commands and
faults are not fair. `MigrationFair`: a migration under way is synchronous code. The newest release
on a build with FTS5 is opened again and again, as each session and hook opens the database. When it
waits for the lock it does not wait in vain every time: strong fairness of `Begin`, and a `Begin`
among infinitely many `Defer`s, for the lock is held only for a migration and two openers stand in
each other's way for the busy timeout at most. All other fairness is weak.

### Conditions built into properties

A few properties hold only under a condition, and say so in their definition:

* `FileAgrees` is about failing writes only; with a failing commit the restore of the file runs
  after the rollback has freed the lock (`workflow.py:378`) and can overwrite what a peer wrote.
* `NotesKept` speaks of runs in which every job is the hook. `cos_task_edit`, `cos_work_log_append`
  and `cos_task_ready` take no lock, so a note appended between their read and their write is lost.
* `NullMeansRefused` says which refusals end a walk with candidates left: the cap, a missing label, a
  Definition-of-Ready gap, a row that was pruned, a file that cannot be written. Any of them hides
  the candidates behind it (`_mcp_pick.py:175`), so a null does not mean that the session is full.
* `ClaimsImplementBoard` holds where no label is removed: the label is not looked at again in the
  transaction, so that a card may be pulled whose label went after the gates had seen it.
* `SkippedIsCurrent` exempts a row that a sync has stored between whose reads of the text and of the
  modification time the file was written (`sync.py:236`); such a row may say what an older text said,
  under the time of the newer one, and only a forced sync or the next write repairs it.
* `NoneForgotten` exempts dependents in `lost`, and tasks that callers move themselves.
* `DistinctReservations` and `DistinctIds` hold until a number in use is pruned
  (`pruned = {}`), see below.
* `IncrementalIsFull` is about quiet states with `void = {}` and no recorded error: no worker has
  overlapped another, been killed, met an error that leaves no mark in the row (of a statement that is
  only logged, of the link pass after a removal, or of a read of a file that exists), or pruned during a
  refresh (`reindex_refresh`) since the last forced walk. A forced walk resets `void` when it starts alone and
  the graph is `Rooted`, that is, has no nodes of a removed file without a row.
* `CatchesUp` leaves out a database below v50 with a locked pattern.
* `LastCooldownKept` is about the last capacity report: a later one replaces a cooldown that is still
  running, by a shorter one too when its provider gives a shorter hint (`supervision.py:191-210`).
* `ProbeUndisturbed` is about timeouts up to `maximum_seconds`, the clamp of the lease, and about a
  probe that has more than `Lag` ticks left of its timeout. The comment at `supervision.py:125-128`
  says that the lease must outlive the dispatch. It does not: it counts from a clock read before a
  wait for the lock of up to five seconds (`supervision.py:97-100`), and the run starts after that
  (`dispatcher.py:363`), so in the last moments of a full-length probe a second caller may enter.
* `Reopens` assumes that checks stop meeting a busy database: a dispatch let in blindly may cool
  the scope down again before it opens.

### Where else the code falls short of its statements

Met while modelling, most of it shown by TLC on other instances, and not kept as runs.

Board:

* A pull commits after its prerequisite has been reopened, since the dependency gate is read before
  the lock (`workflow.py:170`); a close commits ungated when the file vanishes after
  `cos_task_move` looked (`_workflow_gates.py:150`).
* A sync that read the file before a move stores the old status after it, with neither a history row
  nor the regression warning; and it can store old text under the modification time of newer text,
  which a `sync_all` that is not forced, such as the daemon's, then skips (`sync.py:236`, `303-311`).
* `_prune_missing_tasks` takes a reservation for a leftover row; the number is given again and two
  files have one id. The rowid may be given again as well, and then two creators read back one row.
* A completion by drag starts no cascade although `docs/governance/task-lifecycle.md` says every
  dependent is reconsidered; the unblocking move of the cascade names no expected status and can
  take an active card back to icebox (`_mcp_lifecycle.py:164`).
* A step of a cascade that fails is passed over, and an exception in it ends the walk and is swallowed
  (`_mcp_lifecycle.py:168-194`): those dependents are never looked at again.
* `hooks/reclaim-sweep.sh:12-15` says that a concurrently active peer's card is never yanked. The forced
  move names no expected status (`_mcp_stranded.py:293`): when the owner comes back, a session claims
  the emergency card, or another sweep has been faster and the card was claimed again, between the
  evidence and the move, the card is taken from a session at work.
* A sweep moves a testing card without evidence to in_progress in the name of the session it was
  called for (`_mcp_stranded.py:300`), and forced moves look at no cap: a live session may end up with
  one in_progress task more than it may claim (`workflow.py:286`).
* Nothing calls `validate_dependencies_no_cycle`, so tasks can wait for each other.

Breaker: a dispatch admitted before the cooldown fails for some other reason while a peer probes. Its
report sets the row to healthy, and a second caller joins the probe. A later capacity report cuts a
longer cooldown short, and a probe's lease ends before its longest run does (see above).

Schema: v49 and v50 update `learned_patterns`; a locked row makes them fail by its trigger, the
handler takes the `IntegrityError` for a "migration race resolved" (`database.py:298`), and the
database stays at v48 while every open looks fine.

Graph: workers that overlap on one file leave the symbols of both texts, or an older graph under the
newer hash. Errors of the edge reset, the prune and the link are logged and the file is recorded as
in order. A file that exists and cannot be read is reported and leaves no mark
(`reindex_dispatch.py:203-207`): a dependent whose refresh could not read it keeps a row that hits the cache
over edges that are gone. A failing link pass after a removal skips the refresh of all its dependents
(`_reindex_layers.py:59`). A walk links callers to nodes of a removed file that have no row, before its sweep deletes
them; its reconcile deletes a file that a worker indexed after the walk had listed the tree; and a
second bulk command within 30 s of the first is not followed at all.

Hooks: the test governor looks for its lock file and creates it in two steps
(`hooks/test-governor.sh:124`), so two runs can both start.

## 4. Proofs

Checked by TLAPS for every number of actors, tasks and sessions, every cap and every dependency
graph. Assumptions are those the modules declare (finite sets of tasks, caps that are numbers,
sentinels that are no values), which TLC evaluates on every run, and those a theorem names.

`AtomicBoard_proofs`: `BoardTypeCorrect`; `WipNeverExceeded` (no mode skips the cap): one move adds
at most one task to what is counted for one owner, and `HasRoom` left room for it; `AuditComplete`
and `AuditUnbroken`: a move changes a status and its audit row together. Its lemmas `MoveKeepsCaps`
and `MoveAudited`, about one recorded move, serve the modules of the callers.

`BoardWorkflow_proofs`:

* `TypeCorrect`, from one lemma per way a call moves on (`GotoTyped`, `ReturnTyped`, ...).
* `LockCorrect`, through the inductive invariant `IInv == TypeOK /\ CallInv /\ LockInv`. `LockInv`
  (one door in the transaction, whose checked status, room and label still hold) is not inductive
  alone: a door that enters the transaction relies on what its lock-free part found, its edge and
  the ready label, to be still true. `CallInv` says so; it is stable as no move changes a label.
* `Refinement`: under `IInv`, `Commit` is a `Move` of `AtomicBoard` and every other step leaves
  `rows` and `hist` alone. `WipHolds` and `AuditHolds` carry the theorems of `AtomicBoard` over.
* `FilesAgree` (faults within `{"write"}`), with `FileInv`: a replaced file says what its door will
  commit, and no restore is owed.
* `FileAhead` (no failing commit, no mode that skips edges), with `TornInv`: a file that differs
  from its row, be it of a door inside the transaction or of a crash, is one edge ahead.

`ThinkingOs_proofs`, of the breaker (any number of dispatches, any timeouts and policy; `BreakerAssumption`
also states that the powers in the backoff are numbers, since the provers have no theory of `^`):
`BreakerTypeCorrect`, `LastCooldownHolds` and `ProbeHolds`, from the inductive invariant
`BInv == BreakerTypeOK /\ BarredInv /\ IdleInv /\ ProbeInv`. `BarredInv` ties the ghost to the row:
a cooldown nobody lifted is at most the row's own. `ProbeInv` is what the lease is for: a running
probe nobody has ended finds its row half open and leased for at least its remaining time less `Lag`.
`AdmittedHow` shows that the breaker lets a caller in by two steps only, and each of them
contradicts the invariant when the property would fail.

`BoardReclaim_proofs`, of claiming alone (`ClaimTypeCorrect`, `ClaimsAreDistinct`, `FocusHolds`,
`NullIsRefused`), from `CInv == ClaimTypeOK /\ GatedInv /\ DistinctClaims /\ OneFocus`. A claim is won
by a step that finds the row still in the backlog, and counts the session's tasks in the same step;
so it can neither take what another claim returned nor be one too many. `GatedInv`: the attempt is
on the list.
`NullIsRefused` goes through the steps that leave `walking` or `gated` with a list that is not empty.
`ClaimsImplementBoard` (`Unlabelled = {} => (ClaimSpec => ImplementsBoard)`, with `LabelInv`: a listed
backlog card keeps its label) and `ClaimsKeepCaps` (whoever removes labels) follow: although the
label is read by the lock-free part of a claim and the status by the transaction, the winning
transaction is a plain `Move` of `AtomicBoard`. Sweeps and cascades also patch labels, which no step
of `AtomicBoard` does; what they inherit is proved directly: `ReclaimAudited` (a forced move starts
and is recorded from the status at its commit, however old the scan, for any number of sweeps,
whoever they act for and whoever comes back), `CascadesKeepCaps` and
`CascadesAudited`.

Of claims and sweeps together: `ReclaimTypeCorrect`, from `SweepInv == ReclaimTypeOK /\ WalkInv /\
MarkedInv`. That no agent exceeds its cap and that only abandoned tasks are taken is not proved: the code
does neither (section 3).

`TaskIds_proofs`: `IdsTypeCorrect`, `ReservationsDistinct` and `FilesDistinct`, from
`IdsInv == IdsTypeOK /\ NumberInv /\ (pruned = {} => SafeInv)`. The heart of `SafeInv` is ownership:
while no number in use has been pruned, a creator between its reservation and its file owns a row of
its own (`OwnInv`), which its rowid leads to and no other creator's does (`RidInv`, `ApartInv`), and
no file has that number. `ScanInv` closes the gap between the scan of the directory and the
INSERT: what the scan did not see has a row by then. Crashes and removed files only take owners and
files away. The greatest number of a finite set exists by way of its least upper bound.

`BoardCascade_proofs`: `CascadeTypeCorrect`, `NobodyForgotten` and `StubsUnlabelled`, from
`CascInv == CascadeTypeOK /\ WalkInv /\ BacklogInv /\ NoneForgotten`. A completion puts all its
dependents into the walk in the step that changes the row; a walk that finds a prerequisite open
leaves the dependent to a completion that has not happened yet, and thus to a later walk. Failing steps
and walks cut short put what they leave into `lost`.
`BacklogInv`: what only cascades move never leaves the backlog.

`BoardSync_proofs`: `SyncTypeCorrect`, `NotesSurvive` and `SkipsAreSound`. The first two from
`SyncInv == SyncTypeOK /\ ParsedInv /\ (OnlyHooks => HookInv /\ NotesKept)`. `HookInv`: a hook at
work holds the hook lock, has read every finished note before it cuts the file, and has written its
own by the time it syncs. `ParsedInv`: what a sync stores was a whole text, whoever truncated the file
since. `SkipsAreSound`, from `CurrentInv == StampInv /\ AheadInv /\ SkippedIsCurrent`: a text read at the time
the file still has is the file's, and once a transition has replaced the file under the write lock, the
time in the row is behind until the next sync.

`ThinkingOs_proofs`, of the schema: `MigrationCorrect`, `MigrationTypeCorrect`, `OpenStaysCurrent`,
`TriggersStayClosed` and `MigrationImplements`, from
`IInv == MigrationTypeOK /\ OneMigrator /\ DraftInv /\ RecordInv /\ OpenIsCurrent`. The draft of the one
migrator is the recorded schema, carried some versions towards its release; the commit is then one
`Upgrade` of `SchemaVersions`, and every other step changes nothing that is committed. Nothing about
the 55 bodies is assumed:

* `Replay` is a recursive function over versions. The induction theorems of the library take an
  operator and cannot be used, so `LeastExists` and `Counting` obtain induction over the naturals from
  the well-foundedness of `<`, for a set of numbers. `HistoryExists` and `HistoriesAgree` show with it
  that a history of the migrations exists and is unique, and `ReplaySteps` that `Replay` walks along
  it; `ReplayBody` and `ReplayLocal` are what the invariant needs of that.
* `SchemaInv(v, s)` is what every version leaves behind: each trigger is on a table that is there
  and writes one that is there too (`Closed`), what it writes is never dropped or is the mirror of the
  table it is on (`KnownTrigger`), and the tables that later triggers need exist (`HasTables`). `Closed`
  alone is not inductive: v55 drops `observations_fts`, which is safe because the only triggers that
  write it are on `observations`, dropped with it. `QuietVersions` and `SpecialVersions` read the 55
  entries: most add tables and columns only (`QuietKeeps`), the others are taken one by one
  (`SpecialKeeps`), with or without FTS5 (`WholeWithoutRebuild`, `RebuildKeeps`). `ReplaySound` is the
  induction.

`GraphReindex_proofs` (any files, texts, names, calls and workers, every kill and failing statement):
`ReindexCorrect`, `ReindexTypeCorrect` and `GraphFollows`. `IncrementalIsFull` speaks of states in
which nobody works; the inductive invariant has to say what holds in the middle of a dispatch that
makes a dozen commits. It is `ReindexInv == Sane /\ GoodInv`:

* `Sane` holds whatever fails and overlaps: `ReindexTypeOK`, the fields of a worker agree with where
  it stands (`ShapeInv`), the disk has texts the files can have (`DiskInv`), edges that are bound lead to
  nodes (`BoundInv`), no file has an edge to itself (`SelfInv`), and while `void` is empty at most one
  worker is at work (`OneActive`).
* `GoodInv`: while `void` is empty, the worker at work is good, and when nobody works nothing is left
  to do. `NodeGood` is about nodes: one without a row is of a file still to be dispatched (`RowInv`),
  and those of the file at hand are what the step reached says, the old text's, both or the new
  one's (`NameInv`, `DoneNames`). `GraphGood` is about edges: a row in order tells the truth about its
  file's nodes and calls, but for files in hand (`SoundInv`); the edges of the file at hand are none or
  all by the step reached, and callers of symbols about to be pruned are already owed a refresh
  (`CallInv`, `DoneCalls`); a stub whose symbol exists is about to be linked, and none stands beside
  its bound edge (`LinkInv`, `TwinInv`); whatever differs from the disk has a worker that will see
  it (`CoverInv`). A forced walk that has yet to list the tree makes up for all of that, so
  `GraphGood` is not asked before it lists.

There is one lemma per action. `RestIsFull` closes the argument: with nobody at work and every row in
order, `NodeGood` and `GraphGood` have no exceptions left, and nodes and edges are those of the whole
tree.

Every safety property of a passing run is proved. Model-checked only is all liveness (`CallsReturn`,
`ClaimsReturn`, `ZombiesHeal`, `TableHeals`, `Reopens`, `CatchesUp`,
`WorkersEnd`), which the provers do not cover. Proved only: `AuditEndsAtStatus`, and what `AtomicBoard`
promises of claims, sweeps and cascades.

## 5. Not modelled, and abstractions

* The texts the gates judge: a body is authored or not; the verdict of the body gate at a close is
  a free choice. Dates, sprints, tags, assignees, manual order and rendering are left out.
* A sync that moves a task over its cap: `WipRespected` is about `transition()`.
* `depends_on` is a constant; nothing calls `validate_dependencies_no_cycle`.
* The temporary file that concurrent label patches share (`_mcp_ready.py:57`): a write and its
  rename are one step.
* The last tick of a health check's refusals: its clock was read before it waited for the database,
  so the code refuses for up to `Lag` longer than the model. Leases and cooldowns do count from that clock.
* A file is looked for and read in one step. In the code a dependent may go between `is_file()` in
  `_refresh` and the read in `dispatch()`; it is then pruned, and its own dependents are not read again.
* The dispatcher's fall-back to further adapters, and the choice of the scope.
* The history row that `sync_one` adds when the file's status differs.
* Schema: rows (but for locked patterns), indexes, column types and the text of triggers; the eight
  columns v41 drops if it can; the rename of the legacy file; planner statistics.
* Graph: what an extractor finds is a constant (`Versions`), one extractor per file, calls from the
  top level of a file only. Left out: the docs layer with its marker and rows, callers that only
  import, link passes other than stub to symbol, the circuit breaker of a walk that meets a locked
  database again and again, and its parallel workers. The code retries a locked upsert three times, and reads once;
  the model bounds kills and failures by `MaxTroubles`.
* Gates validator, verify suites, reports, configuration, presence, memory and retrieval, graph
  queries, Hub routes, CLI, adapters and scripts: pure functions, read-only queries, I/O, or planned
  below. `PROJECT.json` gives the reason for each.

The modules stand for the code that several actors meet in: the board, the schema, the breaker and
the graph's upkeep. By lines that is a small share of the repository. The bulk of it turns one
text into another: extractors for a dozen languages, the ranking formulas of memory, renderers of
reports and pages, HTTP routes, installers. A model of those would repeat the
code line by line, and has no interleaving or failure to explore.

## 6. Plan

Done: the core (rules, one-step board, step-by-step transition, refinement, proofs); the compositions
over it (claim, reclaim, cascade); the file side, creation and the breaker; the schema ledger with
its abstract specification; the upkeep of the code graph; proofs of the safety properties of each.

Left, modules: Hub init jobs (cancel against completion of the child process); the temporary file
that label patches share, and edits of `depends_on`, in `BoardSync` and `BoardCascade`; the docs
layer in `GraphReindex`; presence files and their merge; the PR workflow's locks.

Left, theorems: a board whose steps include label patches, which sweeps and cascades would implement
as claims implement `AtomicBoard`; how far a crash between two commits of a dispatch can set the graph
back; how far a sweep that acts for a session can take it over its cap.
