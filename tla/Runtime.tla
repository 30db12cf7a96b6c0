------------------------------- MODULE Runtime -------------------------------
(***************************************************************************)
(* The process: its startup (migrations, pool, sweep, scheduler), its jobs *)
(* and its end, by a shutdown that cancels the jobs or by a crash.  The    *)
(* database and the backup directory outlive it.  The backup job executes  *)
(* Backups; the bodies of the others are opaque here and may hang.         *)
(***************************************************************************)
EXTENDS Migrations, JobRunner, Backups

CONSTANT Backup   \* the job db_backup

ASSUME RuntimeAssumption == Backup \in Jobs

VARIABLE app   \* where the lifespan is

vars == <<migrationVars, jobVars, backupVars, app>>

TypeOK ==
  /\ MigrationsTypeOK /\ JobsTypeOK /\ BackupsTypeOK
  /\ app \in {"down", "migrating", "sweep", "schedule", "up", "jobless", "stopping"}

Init ==
  /\ MigrationsInit /\ JobsInit /\ BackupsInit
  /\ app = "down"

------------------------------------------------------------------------------
(* The lifespan.                                                            *)

Release ==
  /\ app = "down"
  /\ \E v \in Versions \ deployed : Deploy(v)
  /\ UNCHANGED <<jobVars, backupVars, app>>

Start ==
  /\ app = "down"
  /\ ReadApplied
  /\ app' = "migrating"
  /\ UNCHANGED <<jobVars, backupVars>>

Migrate ==
  /\ app = "migrating"
  /\ ApplyOne
  /\ UNCHANGED <<jobVars, backupVars, app>>

\* Then the pool, and clients that never stop the startup.
CreatePool ==
  /\ app = "migrating" /\ todo = {}
  /\ app' = "sweep"
  /\ UNCHANGED <<migrationVars, jobVars, backupVars>>

\* A migration or the pool fails.
StartupFails ==
  /\ app = "migrating"
  /\ MigrationsAbort
  /\ app' = "down"
  /\ UNCHANGED <<jobVars, backupVars>>

\* A sweep that fails is logged.
Sweep ==
  /\ app = "sweep"
  /\ SweepStranded \/ UNCHANGED jobVars
  /\ app' = "schedule"
  /\ UNCHANGED <<migrationVars, backupVars>>

\* Without a scheduler the pages are served and no job runs.
SetupScheduler ==
  /\ app = "schedule"
  /\ app' \in {"up", "jobless"}
  /\ UNCHANGED <<migrationVars, jobVars, backupVars>>

Shutdown ==
  /\ app \in {"up", "jobless"}
  /\ app' = "stopping"
  /\ UNCHANGED <<migrationVars, jobVars, backupVars>>

\* The process ends: killed at any point, or after its teardown.
Die ==
  /\ app # "down"
  /\ app' = "down"
  /\ MigrationsAbort
  /\ JobsDie
  /\ BackupDies

------------------------------------------------------------------------------
(* The jobs.                                                                *)

FireJob(j) ==
  /\ app = "up"
  /\ Fire(j)
  /\ UNCHANGED <<migrationVars, backupVars, app>>

LogStart(j) ==
  /\ InsertRow(j) \/ InsertFails(j)
  /\ UNCHANGED <<migrationVars, backupVars, app>>

LogEnd(j) ==
  /\ CloseRow(j) \/ CloseFails(j)
  /\ UNCHANGED <<migrationVars, backupVars, app>>

\* What the body of the backup job awaits, it awaits before the rename.
Awaits(j) == j = Backup => dump.pc # "renamed"

Made == IF dump.pc = "renamed" THEN dump.stamp ELSE 0

BackupStep ==
  /\ run[Backup].pc = "body"
  /\ OpenPart \/ StreamEnds \/ RenameDump
  /\ UNCHANGED <<migrationVars, jobVars, app>>

BackupEnds ==
  /\ RotateBackups
  /\ EndBody(Backup, "success", Made)
  /\ UNCHANGED <<migrationVars, app>>

DropOf(j) == IF j = Backup THEN DropDump ELSE UNCHANGED backupVars

\* The body raises, or reports that its source has failed.
JobFails(j) ==
  /\ Awaits(j)
  /\ EndBody(j, "failure", 0)
  /\ DropOf(j)
  /\ UNCHANGED <<migrationVars, app>>

JobSucceeds(j) ==
  /\ j # Backup
  /\ EndBody(j, "success", 0)
  /\ UNCHANGED <<migrationVars, backupVars, app>>

\* Mutant: the limit is set on logged runs only.
LimitedIfLogged(j) == run[j].pc = "body" /\ run[j].row # 0

Limited(j) == run[j].pc = "body"

TimeOut(j) ==
  /\ Limited(j) /\ Awaits(j)
  /\ EndBody(j, "failure", 0)
  /\ DropOf(j)
  /\ UNCHANGED <<migrationVars, app>>

\* The scheduler's shutdown cancels what is running, wherever it is.
CancelJob(j) ==
  /\ app = "stopping"
  /\ \/ CancelStatement(j) /\ UNCHANGED backupVars
     \/ Awaits(j) /\ EndBody(j, "cancelled", 0) /\ DropOf(j)
  /\ UNCHANGED <<migrationVars, app>>

------------------------------------------------------------------------------

Lifespan ==
  \/ Release \/ Start \/ Migrate \/ CreatePool \/ StartupFails
  \/ Sweep \/ SetupScheduler \/ Shutdown \/ Die

Job(j) ==
  \/ FireJob(j) \/ LogStart(j) \/ LogEnd(j)
  \/ JobFails(j) \/ JobSucceeds(j) \/ TimeOut(j) \/ CancelJob(j)

Next == Lifespan \/ BackupStep \/ BackupEnds \/ \E j \in Jobs : Job(j)

Spec == Init /\ [][Next]_vars

\* A body may hang.  Statements of the log end because each has a limit, bodies
\* because they are cut off, and the code after the rename awaits nothing.
FairSpec ==
  /\ Spec
  /\ \A j \in Jobs : WF_vars(LogStart(j)) /\ WF_vars(LogEnd(j)) /\ WF_vars(TimeOut(j))
  /\ WF_vars(BackupEnds)

------------------------------------------------------------------------------
(* Properties.                                                              *)

\* An application that got past its migrations has every file of the release in
\* its schema, each run exactly once, whatever failed or died before, and also
\* when a release brings a file with a number below those already applied.
ServesMigrated == app \notin {"down", "migrating"} => Migrated

\* A row of the log that says success speaks of a whole dump that is on disk,
\* unless as many newer ones are there as the rotation keeps; and no file under a
\* final name is a part of a dump.
BackupsSurvive ==
  /\ \A f \in dumps : f.whole
  /\ \A r \in 1..Len(rows) :
       LET made == rows[r].result IN
       rows[r].status = "success" /\ rows[r].job = Backup =>
         \/ \E f \in dumps : f.stamp = made
         \/ Cardinality({f \in dumps : f.stamp > made}) >= Keep

\* A job that hangs does not hold its slot: it is free again for the next fire.
SlotIsFreed == \A j \in Jobs : run[j] # Idle ~> run[j] = Idle
==============================================================================
