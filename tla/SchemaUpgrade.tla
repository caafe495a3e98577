--------------------------- MODULE SchemaUpgrade ----------------------------
(***************************************************************************)
(* Start-up of the collector's worker processes on one shared database:    *)
(* migrations.py: apply_migrations with its pre-migration backup, and the  *)
(* rotation of backup.py, which the scheduled backup service shares.       *)
(*                                                                         *)
(* Each migration is one BEGIN IMMEDIATE transaction; the version is read  *)
(* once before any lock and again under each.  A backup is a file: rolling *)
(* back the transaction does not undo it.  Workers die at any step and are *)
(* started again.                                                          *)
(***************************************************************************)
EXTENDS Integers, FiniteSets

CONSTANTS
  Workers,
  LatestOf,    \* LatestOf[w]: LATEST_SCHEMA_VERSION of the release w runs
  Versions,    \* versions a database may have at the first start
  Keep,        \* AEGIS_BACKUP_KEEP
  MaxDeaths,   \* bound: starts that fail or are killed
  MaxScheduled \* bound: runs of the backup service

Free == "free"   \* nobody holds the write lock

ASSUME UpgradeAssumption ==
  /\ Free \notin Workers
  /\ LatestOf \in [Workers -> Nat \ {0}]
  /\ Versions \subseteq Nat
  /\ Keep \in Nat \ {0}
  /\ {MaxDeaths, MaxScheduled} \subseteq Nat

VARIABLES
  version,   \* PRAGMA user_version
  ledger,    \* versions in schema_migrations
  schema,    \* the database has tables
  lock,      \* who holds the write lock
  files,     \* completed backup files
  worker,    \* worker[w]: where w is in apply_migrations
  deaths, scheduled,
  original,  \* history: version and schema of the database at the first start
  made,      \* history: number of backups ever completed
  applied    \* history: migrations committed, in order

vars == <<version, ledger, schema, lock, files, worker, deaths, scheduled,
          original, made, applied>>

(* A worker that checks, waits for the lock of migration  next,  or holds it. *)
Starting == [pc |-> "check", next |-> 0, seen |-> 0, backedUp |-> FALSE]

Init ==
  /\ version \in Versions
  /\ schema \in IF version = 0 THEN BOOLEAN ELSE {TRUE}   \* v0: empty or legacy
  /\ ledger = 1..version
  /\ lock = Free /\ files = {}
  /\ worker = [w \in Workers |-> Starting]
  /\ deaths = 0 /\ scheduled = 0
  /\ original = [version |-> version, schema |-> schema]
  /\ made = 0 /\ applied = {}

Move(w, to) == worker' = [worker EXCEPT ![w] = to]

(* The unlocked look at the version. *)
Check(w) ==
  /\ worker[w].pc = "check"
  /\ Move(w, [worker[w] EXCEPT
                !.seen = version,
                !.next = 1,
                !.pc = IF version > LatestOf[w] THEN "refused"
                       ELSE IF version = LatestOf[w] THEN "done" ELSE "wait"])
  /\ UNCHANGED <<version, ledger, schema, lock, files, deaths, scheduled,
                 original, made, applied>>

Advanced(w) ==
  [worker[w] EXCEPT !.next = @ + 1,
                    !.pc = IF worker[w].next = LatestOf[w] THEN "done" ELSE "wait"]

(* Variants with a suffix hold a plausible defect each; no definition uses them. *)
Begin_StopAtSkip(w) ==   \* a worker that finds the migration done is finished
  /\ worker[w].pc = "wait" /\ lock = Free
  /\ \/ /\ version >= worker[w].next
        /\ Move(w, [worker[w] EXCEPT !.pc = "done"])
        /\ UNCHANGED lock
     \/ /\ version < worker[w].next
        /\ Move(w, [worker[w] EXCEPT !.pc = "locked"])
        /\ lock' = w
  /\ UNCHANGED <<version, ledger, schema, files, deaths, scheduled, original, made, applied>>

Begin_NoRecheck(w) ==   \* trusts the version seen before the lock
  /\ worker[w].pc = "wait" /\ lock = Free
  /\ \/ /\ worker[w].seen >= worker[w].next
        /\ Move(w, Advanced(w))
        /\ UNCHANGED lock
     \/ /\ worker[w].seen < worker[w].next
        /\ Move(w, [worker[w] EXCEPT !.pc = "locked"])
        /\ lock' = w
  /\ UNCHANGED <<version, ledger, schema, files, deaths, scheduled, original, made, applied>>

(* BEGIN IMMEDIATE, and the version again: a migration already there is skipped. *)
Begin(w) ==
  /\ worker[w].pc = "wait" /\ lock = Free
  /\ \/ /\ version >= worker[w].next
        /\ Move(w, Advanced(w))
        /\ UNCHANGED lock
     \/ /\ version < worker[w].next
        /\ Move(w, [worker[w] EXCEPT !.pc = "locked"])
        /\ lock' = w
  /\ UNCHANGED <<version, ledger, schema, files, deaths, scheduled, original, made, applied>>

(* Only the Keep newest files stay, whoever made them. *)
Rotated(all) == {f \in all : Cardinality({g \in all : g.made > f.made}) < Keep}

File(kind, named) == [kind |-> kind, named |-> named, version |-> version, made |-> made + 1]

SaveFile(kind, named) ==
  /\ files' = Rotated(files \cup {File(kind, named)})
  /\ made' = made + 1

Backup_UnlockedName(w) ==   \* named after the version seen before the lock
  /\ worker[w].pc = "locked" /\ ~worker[w].backedUp
  /\ IF schema THEN SaveFile("migration", worker[w].seen) ELSE UNCHANGED <<files, made>>
  /\ Move(w, [worker[w] EXCEPT !.backedUp = TRUE])
  /\ UNCHANGED <<version, ledger, schema, lock, deaths, scheduled, original, applied>>

(* Under the lock, once per start, before the first change; an empty database
   has nothing to save. *)
Backup(w) ==
  /\ worker[w].pc = "locked" /\ ~worker[w].backedUp
  /\ IF schema THEN SaveFile("migration", version) ELSE UNCHANGED <<files, made>>
  /\ Move(w, [worker[w] EXCEPT !.backedUp = TRUE])
  /\ UNCHANGED <<version, ledger, schema, lock, deaths, scheduled, original, applied>>

(* The migration, its ledger row and the version commit together. *)
Apply(w) ==
  /\ worker[w].pc = "locked" /\ worker[w].backedUp
  /\ version' = worker[w].next
  /\ ledger' = ledger \cup {worker[w].next}
  /\ applied' = applied \cup {[migration |-> worker[w].next, on |-> version]}
  /\ schema' = TRUE
  /\ lock' = Free
  /\ Move(w, Advanced(w))
  /\ UNCHANGED <<files, deaths, scheduled, original, made>>

Die_KeepsLock(w) ==
  /\ worker[w].pc \in {"check", "wait", "locked"} /\ deaths < MaxDeaths
  /\ deaths' = deaths + 1
  /\ Move(w, [worker[w] EXCEPT !.pc = "dead"])
  /\ UNCHANGED <<version, ledger, schema, lock, files, scheduled, original, made, applied>>

(* The backup, a statement or the wait for the lock fails, or the process is
   killed: SQLite rolls back and the lock is free. *)
Die(w) ==
  /\ worker[w].pc \in {"check", "wait", "locked"} /\ deaths < MaxDeaths
  /\ deaths' = deaths + 1
  /\ Move(w, [worker[w] EXCEPT !.pc = "dead"])
  /\ lock' = IF lock = w THEN Free ELSE lock
  /\ UNCHANGED <<version, ledger, schema, files, scheduled, original, made, applied>>

(* Gunicorn or the container's restart policy starts it again. *)
Respawn(w) ==
  /\ worker[w].pc = "dead"
  /\ Move(w, Starting)
  /\ UNCHANGED <<version, ledger, schema, lock, files, deaths, scheduled, original,
                 made, applied>>

(* scripts/backup.py, in the same directory; it needs no write lock. *)
ScheduledBackup ==
  /\ scheduled < MaxScheduled
  /\ scheduled' = scheduled + 1
  /\ SaveFile("scheduled", version)
  /\ UNCHANGED <<version, ledger, schema, lock, worker, deaths, original, applied>>

Step(w) == Check(w) \/ Begin(w) \/ Backup(w) \/ Apply(w) \/ Respawn(w)

Next == (\E w \in Workers : Step(w) \/ Die(w)) \/ ScheduledBackup

(* A start that is not killed goes on: SQLite grants the lock once it is free
   (busy_timeout), and a dead worker is started again. *)
Spec == Init /\ [][Next]_vars /\ \A w \in Workers : WF_vars(Step(w))
-----------------------------------------------------------------------------
(***************************************************************************)
(* Concurrent starts apply every migration exactly once and in order, each *)
(* on the version before it, with its ledger row, whoever dies in between  *)
(* (OPERATIONS.md, database schema migrations).                            *)
(***************************************************************************)
AppliedInOrder ==
  /\ ledger = 1..version
  /\ applied = {[migration |-> v, on |-> v - 1] : v \in (original.version + 1)..version}

(* A worker serves only after the schema reached the version it needs. *)
DoneIsCurrent ==
  \A w \in Workers : worker[w].pc = "done" => version >= LatestOf[w]

(***************************************************************************)
(* Before the first migration changes a database with tables, a copy at    *)
(* the version it had is on file, and it stays there while no more than    *)
(* Keep backups were made since (OPERATIONS.md: a backup failure aborts    *)
(* startup before any schema change).  Every copy holds the version its    *)
(* name says, and rotation never leaves more than Keep files.              *)
(***************************************************************************)
FilesAreWhatTheySay ==
  /\ version > original.version /\ original.schema /\ made <= Keep =>
       \E f \in files : f.kind = "migration" /\ f.version = original.version
  /\ Cardinality(files) <= Keep
  /\ \A f \in files : f.named = f.version

(* Every worker comes through its start. *)
EveryWorkerStarts == \A w \in Workers : <>(worker[w].pc \in {"done", "refused"})
=============================================================================
