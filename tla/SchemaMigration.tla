---------------------------- MODULE SchemaMigration ----------------------------
(***************************************************************************)
(* run_migrations and init_db (database.py): every process that opens the  *)
(* database brings it to the latest version of its own release, in one     *)
(* transaction taken with BEGIN IMMEDIATE before the version is read.      *)
(* Openers differ in release and in whether their SQLite has FTS5; they    *)
(* may wait in vain for the lock, fail in a body, and die at any step.     *)
(***************************************************************************)
EXTENDS SchemaLedger

CONSTANTS
  Openers,      \* processes that open the database
  Latest,       \* the last migration of each opener's release
  Fts5,         \* the openers whose SQLite build has FTS5
  Starts,       \* versions at which the database may be found
  MaxCrashes    \* bound: openers that die on the way

ASSUME MigrationAssumption ==
  /\ Last \in Nat /\ SearchVersions \subseteq 1..Last
  /\ Latest \in [Openers -> 0..Last]
  /\ Fts5 \subseteq Openers
  /\ Starts \subseteq 0..Last
  /\ MaxCrashes \in Nat

VARIABLES
  db,         \* what is committed
  op,         \* where each opener stands, and the draft of its transaction
  crashes

migrationVars == <<db, op, crashes>>

Phases == {"closed", "waiting", "migrating", "open"}

(* How run_migrations returned: with the ledger done, without the lock, or *)
(* by the handler of IntegrityError.                                       *)
Ways == {"none", "done", "deferred", "refused"}

Standing(phase, way) == [phase |-> phase, way |-> way, at |-> 0, plain |-> {}, schema |-> Blank]

MigrationTypeOK ==
  /\ db \in [version : 0..Last, plain : SUBSET SearchVersions, schema : Schema,
             locked : BOOLEAN]
  /\ op \in [Openers -> [phase : Phases, way : Ways, at : 0..Last,
                         plain : SUBSET SearchVersions, schema : Schema]]
  /\ crashes \in 0..MaxCrashes

(* A database as some release left it: applied by a build with FTS5 or by  *)
(* one without, with or without a locked pattern (a row learned_patterns   *)
(* can have from v7 on).                                                   *)
MigrationInit ==
  /\ \E v \in Starts, fts5 \in BOOLEAN, locked \in BOOLEAN :
       LET P == IF fts5 THEN {} ELSE SearchVersions \cap 1..v IN
       /\ locked => v \in 7..54
       /\ db = [version |-> v, plain |-> P, schema |-> Replay(v, P), locked |-> locked]
  /\ op = [o \in Openers |-> Standing("closed", "none")]
  /\ crashes = 0

-------------------------------------------------------------------------------

Free == \A o \in Openers : op[o].phase # "migrating"

Goto(o, phase) == op' = [op EXCEPT ![o] = Standing(phase, "none")]

Return(o, way) == op' = [op EXCEPT ![o] = Standing("open", way)]

(* get_connection and _ensure_version_table, whose table nothing can hold  *)
(* the migration lock without having.                                      *)
Connect(o) ==
  /\ op[o].phase = "closed"
  /\ Goto(o, "waiting")
  /\ UNCHANGED <<db, crashes>>

BeginUnlocked(o) ==
  /\ op[o].phase = "waiting"
  /\ op' = [op EXCEPT ![o] = [phase |-> "migrating", way |-> "none", at |-> db.version,
                              plain |-> db.plain, schema |-> db.schema]]
  /\ UNCHANGED <<db, crashes>>

(* BEGIN IMMEDIATE, and then the version. *)
Begin(o) ==
  /\ op[o].phase = "waiting" /\ Free
  /\ op' = [op EXCEPT ![o] = [phase |-> "migrating", way |-> "none", at |-> db.version,
                              plain |-> db.plain, schema |-> db.schema]]
  /\ UNCHANGED <<db, crashes>>

(* The lock is not free within the timeout: the open goes on without       *)
(* migrating.                                                              *)
Defer(o) ==
  /\ op[o].phase = "waiting" /\ ~Free
  /\ Return(o, "deferred")
  /\ UNCHANGED <<db, crashes>>

Owed(o) == op[o].at + 1

Pending(o) == op[o].phase = "migrating" /\ op[o].at < Latest[o]

BlockedOnAnyBuild(o) == NeedsSearch(Owed(o), op[o].schema)

Blocked(o) == o \notin Fts5 /\ NeedsSearch(Owed(o), op[o].schema)

MayBlock(o) == o \notin Fts5 /\ MayNeedSearch(Owed(o), op[o].schema)

LockedOut(o) == db.locked /\ RefusedByTrigger(Owed(o), op[o].schema)

(* The versions in plain once a version is applied too. *)
Plain(o, P, v) == IF o \in Fts5 THEN P ELSE P \cup ({v} \cap SearchVersions)

SkipVersion(o) ==
  /\ Pending(o)
  /\ op' = [op EXCEPT ![o].at = Owed(o),
                      ![o].plain = Plain(o, @, Owed(o))]
  /\ UNCHANGED <<db, crashes>>

(* One body, and its row in schema_version. *)
Apply(o) ==
  /\ Pending(o) /\ ~Blocked(o) /\ ~LockedOut(o)
  /\ op' = [op EXCEPT ![o].at = Owed(o),
                      ![o].schema = Body(Owed(o), @, o \in Fts5),
                      ![o].plain = Plain(o, @, Owed(o))]
  /\ UNCHANGED <<db, crashes>>

(* "no such module: fts5": the error is raised out of the open, and the    *)
(* transaction goes with the connection.                                   *)
Raise(o) ==
  /\ Pending(o)
  /\ Blocked(o) \/ MayBlock(o)
  /\ Goto(o, "closed")
  /\ UNCHANGED <<db, crashes>>

(* IntegrityError, "migration race resolved": everything is rolled back    *)
(* and the open goes on.                                                   *)
Refuse(o) ==
  /\ Pending(o) /\ LockedOut(o)
  /\ Return(o, "refused")
  /\ UNCHANGED <<db, crashes>>

FinishOneTooMany(o) ==
  /\ op[o].phase = "migrating" /\ ~Pending(o)
  /\ db' = [db EXCEPT !.version = op[o].at + 1, !.plain = op[o].plain,
                      !.schema = op[o].schema]
  /\ Return(o, "done")
  /\ UNCHANGED crashes

(* The commit of the loop; a database already at or above the release is   *)
(* left as it is.                                                          *)
Finish(o) ==
  /\ op[o].phase = "migrating" /\ ~Pending(o)
  /\ db' = [db EXCEPT !.version = op[o].at, !.plain = op[o].plain, !.schema = op[o].schema]
  /\ Return(o, "done")
  /\ UNCHANGED crashes

Close(o) ==
  /\ op[o].phase = "open"
  /\ Goto(o, "closed")
  /\ UNCHANGED <<db, crashes>>

Die(o) ==
  /\ crashes < MaxCrashes /\ op[o].phase \notin {"closed", "open"}
  /\ crashes' = crashes + 1
  /\ Goto(o, "closed")
  /\ UNCHANGED db

Migrate(o) == Apply(o) \/ Raise(o) \/ Refuse(o) \/ Finish(o)

OpenStep(o) == Begin(o) \/ Defer(o) \/ Migrate(o)

MigrationNext == \E o \in Openers : Connect(o) \/ OpenStep(o) \/ Close(o) \/ Die(o)

MigrationSpec == MigrationInit /\ [][MigrationNext]_migrationVars

(* init_db is synchronous code. The newest release, on a build with FTS5,  *)
(* is opened again and again (each session and hook opens the database),   *)
(* and when it waits for the lock it does not wait in vain every time.     *)
Newest == {o \in Fts5 : Latest[o] = Last}

MigrationFair ==
  /\ MigrationSpec
  /\ \A o \in Openers : WF_migrationVars(Migrate(o))
  /\ \A o \in Newest :
       /\ WF_migrationVars(Connect(o) \/ Close(o))
       /\ SF_migrationVars(Begin(o))
       /\ []<><<Defer(o)>>_migrationVars => []<><<Begin(o)>>_migrationVars

-------------------------------------------------------------------------------

(* The ledger implements what SchemaVersions promises, whatever the        *)
(* interleaving, the mix of releases and builds, and the deaths: no        *)
(* version is ever recorded without its effects, or half applied, and none *)
(* is taken back by an older release.                                      *)
Versions == INSTANCE SchemaVersions WITH
  Releases <- {Latest[o] : o \in Openers},
  version <- db.version, plain <- db.plain, schema <- db.schema

ImplementsVersions == Versions!VersionsSpec

(* run_migrations that returns having held the lock leaves a schema its    *)
(* release can work with, and no later opener takes it away.               *)
OpenIsCurrent ==
  \A o \in Openers : op[o].way = "done" => db.version >= Latest[o]

(* The trigger of a surviving table never writes to a table a migration    *)
(* has dropped: such a trigger would fail every write of its table.        *)
TriggersClosed ==
  \A g \in db.schema.triggers :
    g.on \in db.schema.tables /\ g.into \in db.schema.tables \cup {Abort}

(* "if it is still going the next open picks up the remainder": unless a   *)
(* locked pattern meets v49 or v50, every database ends at the last        *)
(* version.                                                                *)
CatchesUp == (db.locked => db.version >= 50) => <>(db.version = Last)

===============================================================================
