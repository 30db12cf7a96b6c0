---------------------------- MODULE RuntimeProofs ----------------------------
(***************************************************************************)
(* Proofs about Runtime, for any release, any jobs and any limits.         *)
(*                                                                         *)
(* The argument for ServesMigrated: while the files of a release are being *)
(* applied, each of them is recorded or still to do (NothingIsMissed), and *)
(* a file's statements and its record are committed together, so that what *)
(* is not recorded has never run (RecordsAreTrue).                         *)
(***************************************************************************)
EXTENDS Runtime, FiniteSetTheorems, WellFoundedInduction, TLAPS

\* A file has run once if it is recorded and never if it is not.
RecordsAreTrue ==
  /\ \A v \in Versions : ran[v] = IF v \in applied THEN 1 ELSE 0
  /\ todo \cap applied = {}

\* From the read of the records on, a file of the release is recorded or to do.
NothingIsMissed ==
  /\ app # "down" => deployed \subseteq applied \cup todo
  /\ app \notin {"down", "migrating"} => todo = {}

IInv == MigrationsTypeOK /\ RecordsAreTrue /\ NothingIsMissed

------------------------------------------------------------------------------
(* Types.                                                                   *)

\* What a body leaves behind is a run, and what it has made is a number.
LEMMA EndBodyTyped ==
  ASSUME JobsTypeOK, NEW j \in Jobs, NEW status \in Statuses \ {"running"}, NEW result \in Nat,
         EndBody(j, status, result)
  PROVE  JobsTypeOK'
<1>1. run[j] \in [pc : {"body"}, row : 0..MaxRows]
  BY DEF EndBody, JobsTypeOK, Runs, Idle
<1>2. Closing(j, status, result) \in Runs
  BY <1>1, JobsAssumption DEF Closing, Runs, JobsAssumption
<1>3. QED
  BY <1>2 DEF EndBody, JobsTypeOK

\* The log after a run has closed its row.
LEMMA ClosedTyped ==
  ASSUME JobsTypeOK, NEW j \in Jobs, run[j].pc = "close"
  PROVE  Closed(j) \in Seq(Rows) /\ Len(Closed(j)) = Len(rows)
<1>1. run[j].status \in Statuses /\ run[j].result \in Nat
  BY DEF JobsTypeOK, Runs, Idle
<1>2. rows \in [1..Len(rows) -> Rows] /\ Len(rows) \in Nat
  BY DEF JobsTypeOK
<1> DEFINE row == run[j].row
           closed == [rows[row] EXCEPT !.status = run[j].status, !.result = run[j].result]
<1>3. Closed(j) = [rows EXCEPT ![row] = closed]
  BY <1>2 DEF Closed, Rows
<1>4. row \in 1..Len(rows) => closed \in Rows
  BY <1>1, <1>2 DEF Rows
<1> HIDE DEF row, closed
<1>5. Closed(j) \in [1..Len(rows) -> Rows]
  BY <1>2, <1>3, <1>4
<1>6. QED
  BY <1>2, <1>5

LEMMA AppendTyped ==
  ASSUME JobsTypeOK, NEW j \in Jobs, Len(rows) < MaxRows
  PROVE  /\ Append(rows, NewRow(j)) \in Seq(Rows)
         /\ Len(Append(rows, NewRow(j))) = Len(rows) + 1
         /\ Len(rows) + 1 \in 1..MaxRows
<1>1. NewRow(j) \in Rows
  BY DEF NewRow, Rows, Statuses
<1>2. QED
  BY <1>1, JobsAssumption DEF JobsTypeOK, JobsAssumption

------------------------------------------------------------------------------
(* Migrations.                                                              *)

LEMMA InitHolds == Init => IInv
BY DEF Init, MigrationsInit, IInv, MigrationsTypeOK, RecordsAreTrue, NothingIsMissed

\* Applying a file moves it from the list to the records.
LEMMA ApplyKeeps ==
  ASSUME IInv, ApplyOne, app' = app
  PROVE  IInv'
<1>1. PICK v \in todo :
        /\ todo' = todo \ {v}
        /\ applied' = applied \cup {v}
        /\ ran' = [ran EXCEPT ![v] = @ + 1]
  BY DEF ApplyOne
<1>2. deployed' = deployed
  BY DEF ApplyOne
<1>3. v \in Versions /\ v \notin applied
  BY DEF IInv, MigrationsTypeOK, RecordsAreTrue
<1>4. MigrationsTypeOK'
  BY <1>1, <1>2, <1>3 DEF IInv, MigrationsTypeOK
<1>5. RecordsAreTrue'
  <2>1. \A w \in Versions : ran'[w] = IF w = v THEN ran[w] + 1 ELSE ran[w]
    BY <1>1 DEF IInv, MigrationsTypeOK
  <2>2. \A w \in Versions : ran'[w] = IF w \in applied' THEN 1 ELSE 0
    BY <1>1, <1>3, <2>1 DEF IInv, RecordsAreTrue
  <2>3. todo' \cap applied' = {}
    BY <1>1 DEF IInv, RecordsAreTrue
  <2>4. QED
    BY <2>2, <2>3 DEF RecordsAreTrue
<1>6. NothingIsMissed'
  BY <1>1, <1>2 DEF IInv, NothingIsMissed
<1>7. QED
  BY <1>4, <1>5, <1>6 DEF IInv

LEMMA StepKeeps == IInv /\ [Next]_vars => IInv'
<1> SUFFICES ASSUME IInv, [Next]_vars
             PROVE  IInv'
  OBVIOUS
<1> USE DEF IInv, MigrationsTypeOK, RecordsAreTrue, NothingIsMissed
<1>1. CASE Release
  BY <1>1 DEF Release, Deploy
<1>2. CASE Start
  BY <1>2 DEF Start, ReadApplied, Pending
<1>3. CASE Migrate
  BY <1>3, ApplyKeeps DEF Migrate
<1>4. CASE CreatePool
  BY <1>4 DEF CreatePool, migrationVars
<1>5. CASE StartupFails
  BY <1>5 DEF StartupFails, MigrationsAbort
<1>6. CASE Sweep
  BY <1>6 DEF Sweep, migrationVars
<1>7. CASE SetupScheduler
  BY <1>7 DEF SetupScheduler, migrationVars
<1>8. CASE Shutdown
  BY <1>8 DEF Shutdown, migrationVars
<1>9. CASE Die
  BY <1>9 DEF Die, MigrationsAbort
<1>10. ASSUME UNCHANGED <<migrationVars, app>>
       PROVE  IInv'
  BY <1>10 DEF migrationVars
<1>11. CASE BackupStep \/ BackupEnds
  BY <1>10, <1>11 DEF BackupStep, BackupEnds
<1>12. ASSUME NEW j \in Jobs, Job(j)
       PROVE  IInv'
  BY <1>10, <1>12 DEF Job, FireJob, LogStart, LogEnd, JobFails, JobSucceeds, TimeOut, CancelJob
<1>13. CASE UNCHANGED vars
  BY <1>10, <1>13 DEF vars
<1>14. QED
  BY <1>1, <1>2, <1>3, <1>4, <1>5, <1>6, <1>7, <1>8, <1>9, <1>11, <1>12, <1>13
     DEF Next, Lifespan

\* The application that serves has every file of its release in its schema, each
\* run exactly once, whatever failed or died before.
THEOREM ServesOnlyMigrated == Spec => []ServesMigrated
<1>1. IInv => ServesMigrated
  BY DEF IInv, MigrationsTypeOK, RecordsAreTrue, NothingIsMissed, ServesMigrated, Migrated
<1>2. QED
  BY <1>1, InitHolds, StepKeeps, PTL DEF Spec

------------------------------------------------------------------------------
(* Type correctness.                                                        *)

\* A step of the jobs keeps the types of the log.
LEMMA JobKeepsTypes ==
  ASSUME TypeOK, NEW j \in Jobs, Job(j)
  PROVE  TypeOK'
<1> USE DEF TypeOK
<1>0. Len(rows) \in Nat /\ MaxRows \in Nat
  BY JobsAssumption DEF JobsTypeOK, JobsAssumption
<1>1. BackupsTypeOK'
  <2>1. UNCHANGED backupVars => BackupsTypeOK'
    BY DEF BackupsTypeOK, backupVars
  <2>2. DropDump => BackupsTypeOK'
    BY DEF BackupsTypeOK, DropDump
  <2>3. QED
    BY <2>1, <2>2 DEF Job, FireJob, LogStart, LogEnd, JobFails, JobSucceeds, TimeOut, CancelJob, DropOf
<1>2. UNCHANGED <<migrationVars, app>>
  BY DEF Job, FireJob, LogStart, LogEnd, JobFails, JobSucceeds, TimeOut, CancelJob
<1>3. JobsTypeOK'
  <2>1. CASE Fire(j)
    BY <2>1 DEF Fire, JobsTypeOK, Runs
  <2>2. CASE InsertRow(j)
    <3>1. PICK row \in {0, Len(rows) + 1} : run' = [run EXCEPT ![j] = [pc |-> "body", row |-> row]]
      BY <2>2 DEF InsertRow
    <3>2. [pc |-> "body", row |-> row] \in Runs
      BY <2>2, <1>0, AppendTyped DEF InsertRow, Runs
    <3>3. QED
      BY <2>2, <1>0, <3>1, <3>2, AppendTyped DEF InsertRow, JobsTypeOK
  <2>3. CASE InsertFails(j)
    BY <2>3, <1>0 DEF InsertFails, JobsTypeOK, Runs
  <2>4. CASE CloseRow(j)
    BY <2>4, ClosedTyped DEF CloseRow, JobsTypeOK, Runs
  <2>5. CASE CloseFails(j)
    BY <2>5 DEF CloseFails, JobsTypeOK, Runs
  <2>6. ASSUME NEW status \in {"success", "failure", "cancelled"}, EndBody(j, status, 0)
        PROVE  JobsTypeOK'
    BY <2>6, EndBodyTyped DEF Statuses
  <2>7. CASE CancelStatement(j)
    <3>1. rows' \in Seq(Rows) /\ Len(rows') <= MaxRows
      BY <2>7, <1>0, AppendTyped, ClosedTyped DEF CancelStatement, JobsTypeOK
    <3>2. run' \in [Jobs -> Runs]
      BY <2>7 DEF CancelStatement, JobsTypeOK, Runs
    <3>3. QED
      BY <3>1, <3>2 DEF JobsTypeOK
  <2>8. CASE CancelJob(j)
    BY <2>8, <2>6, <2>7 DEF CancelJob
  <2>9. QED
    BY <2>1, <2>2, <2>3, <2>4, <2>5, <2>6, <2>8
       DEF Job, FireJob, LogStart, LogEnd, JobFails, JobSucceeds, TimeOut
<1>4. QED
  BY <1>1, <1>2, <1>3 DEF migrationVars, MigrationsTypeOK

\* A step of the lifespan.
LEMMA LifespanKeepsTypes ==
  ASSUME TypeOK, Lifespan
  PROVE  TypeOK'
<1> USE DEF TypeOK
<1>1. MigrationsTypeOK'
  <2>1. CASE Migrate
    <3>1. PICK v \in todo :
            /\ todo' = todo \ {v}
            /\ applied' = applied \cup {v}
            /\ ran' = [ran EXCEPT ![v] = @ + 1]
      BY <2>1 DEF Migrate, ApplyOne
    <3>2. QED
      BY <2>1, <3>1 DEF Migrate, ApplyOne, MigrationsTypeOK
  <2>2. CASE Release \/ Start \/ StartupFails \/ Die
    BY <2>2 DEF Release, Deploy, Start, ReadApplied, Pending, StartupFails, Die,
                MigrationsAbort, MigrationsTypeOK
  <2>3. CASE UNCHANGED migrationVars
    BY <2>3 DEF migrationVars, MigrationsTypeOK
  <2>4. QED
    BY <2>1, <2>2, <2>3 DEF Lifespan, CreatePool, Sweep, SetupScheduler, Shutdown
<1>2. JobsTypeOK'
  <2>1. CASE JobsDie
    BY <2>1 DEF JobsDie, JobsTypeOK, Runs
  <2>2. CASE SweepStranded
    <3>1. Len(rows) \in Nat /\ \A r \in 1..Len(rows) : rows[r] \in Rows
      BY DEF JobsTypeOK
    <3> DEFINE swept(r) == IF rows[r].status = "running"
                             THEN [rows[r] EXCEPT !.status = "failure"] ELSE rows[r]
    <3>2. \A r \in 1..Len(rows) : swept(r) \in Rows
      BY <3>1 DEF Rows, Statuses
    <3>3. rows' = [r \in 1..Len(rows) |-> swept(r)]
      BY <2>2 DEF SweepStranded
    <3> HIDE DEF swept
    <3>4. rows' \in [1..Len(rows) -> Rows]
      BY <3>2, <3>3
    <3>5. rows' \in Seq(Rows) /\ Len(rows') = Len(rows)
      BY <3>1, <3>4
    <3>6. QED
      BY <2>2, <3>5 DEF SweepStranded, JobsTypeOK
  <2>3. CASE UNCHANGED jobVars
    BY <2>3 DEF jobVars, JobsTypeOK
  <2>4. QED
    BY <2>1, <2>2, <2>3 DEF Lifespan, Release, Start, Migrate, CreatePool, StartupFails, Sweep,
                            SetupScheduler, Shutdown, Die
<1>3. BackupsTypeOK'
  <2>1. CASE BackupDies
    BY <2>1 DEF BackupDies, BackupsTypeOK
  <2>2. CASE UNCHANGED backupVars
    BY <2>2 DEF backupVars, BackupsTypeOK
  <2>3. QED
    BY <2>1, <2>2 DEF Lifespan, Release, Start, Migrate, CreatePool, StartupFails, Sweep,
                      SetupScheduler, Shutdown, Die
<1>4. app' \in {"down", "migrating", "sweep", "schedule", "up", "jobless", "stopping"}
  BY DEF Lifespan, Release, Start, Migrate, CreatePool, StartupFails, Sweep,
         SetupScheduler, Shutdown, Die
<1>5. QED
  BY <1>1, <1>2, <1>3, <1>4

\* A step of the dump.
LEMMA BackupKeepsTypes ==
  ASSUME TypeOK, BackupStep \/ BackupEnds
  PROVE  TypeOK'
<1> USE DEF TypeOK
<1>1. UNCHANGED <<migrationVars, app>>
  BY DEF BackupStep, BackupEnds
<1>2. JobsTypeOK'
  <2>1. CASE BackupStep
    BY <2>1 DEF BackupStep, jobVars, JobsTypeOK
  <2>2. CASE BackupEnds
    <3>1. Made \in Nat
      BY <2>2 DEF BackupEnds, RotateBackups, BackupsTypeOK, Made, NoDump, Stamps
    <3>2. QED
      BY <2>2, <3>1, EndBodyTyped, RuntimeAssumption DEF BackupEnds, RuntimeAssumption, Statuses
  <2>3. QED
    BY <2>1, <2>2
<1>3. BackupsTypeOK'
  <2> USE BackupsAssumption DEF BackupsAssumption, BackupsTypeOK, Stamps, NoDump
  <2>1. CASE OpenPart
    BY <2>1 DEF OpenPart
  <2>2. CASE StreamEnds
    BY <2>2 DEF StreamEnds
  <2>3. CASE RenameDump
    <3>1. ASSUME NEW whole \in BOOLEAN
          PROVE  [stamp |-> dump.stamp, whole |-> whole] \in [stamp : Stamps, whole : BOOLEAN]
      BY <2>3 DEF RenameDump
    <3>2. (dump.code = 0) \in BOOLEAN
      BY Zenon
    <3>3. [stamp |-> dump.stamp, whole |-> dump.code = 0] \in [stamp : Stamps, whole : BOOLEAN]
      BY <3>1, <3>2
    <3>4. dumps' \in SUBSET [stamp : Stamps, whole : BOOLEAN]
      BY <2>3, <3>3 DEF RenameDump
    <3>5. stamp' = stamp /\ parts' \in SUBSET Stamps
      BY <2>3 DEF RenameDump
    <3>6. dump' \in [pc : {"stream", "renamed"}, stamp : Stamps]
      BY <2>3 DEF RenameDump
    <3>7. QED
      BY <3>4, <3>5, <3>6
  <2>4. CASE RotateBackups
    BY <2>4 DEF RotateBackups
  <2>5. QED
    BY <2>1, <2>2, <2>3, <2>4 DEF BackupStep, BackupEnds
<1>4. QED
  BY <1>1, <1>2, <1>3 DEF migrationVars, MigrationsTypeOK

LEMMA StepKeepsTypes == TypeOK /\ [Next]_vars => TypeOK'
<1> SUFFICES ASSUME TypeOK, [Next]_vars
             PROVE  TypeOK'
  OBVIOUS
<1>1. CASE UNCHANGED vars
  BY <1>1 DEF vars, migrationVars, jobVars, backupVars, TypeOK, MigrationsTypeOK, JobsTypeOK,
              BackupsTypeOK
<1>2. QED
  BY <1>1, JobKeepsTypes, LifespanKeepsTypes, BackupKeepsTypes DEF Next

LEMMA InitIsTyped == Init => TypeOK
BY JobsAssumption, BackupsAssumption
   DEF Init, MigrationsInit, JobsInit, BackupsInit, TypeOK, MigrationsTypeOK, JobsTypeOK,
       BackupsTypeOK, Runs, JobsAssumption, BackupsAssumption

\* Every variable of the process, its log and its files stays in its type.
THEOREM TypeCorrect == Spec => []TypeOK
BY InitIsTyped, StepKeepsTypes, PTL DEF Spec

------------------------------------------------------------------------------
(* Backups.                                                                 *)

NewerThan(s) == {f \in dumps : f.stamp > s}

\* The dump of that time is on disk, or as many newer ones as are kept.
Covered(s) == (\E f \in dumps : f.stamp = s) \/ Cardinality(NewerThan(s)) >= Keep

\* The row of a run is one of its job.
RowsAreOwn ==
  \A j \in Jobs : run[j].pc \in {"body", "close"} /\ run[j].row # 0 =>
    run[j].row \in 1..Len(rows) /\ rows[run[j].row].job = j

RowsAreCovered ==
  \A r \in 1..Len(rows) : rows[r].status = "success" /\ rows[r].job = Backup => Covered(rows[r].result)

ResultIsCovered ==
  run[Backup].pc = "close" /\ run[Backup].status = "success" => Covered(run[Backup].result)

DumpsAreWhole == IsFiniteSet(dumps) /\ \A f \in dumps : f.whole

RenamedIsCovered == dump.pc = "renamed" => Covered(dump.stamp)

BInv ==
  TypeOK /\ RowsAreOwn /\ RowsAreCovered /\ ResultIsCovered /\ DumpsAreWhole /\ RenamedIsCovered

\* A set of numbers that is not empty has a least one.
LEMMA LeastNumber ==
  ASSUME NEW T \in SUBSET Nat, T # {}
  PROVE  \E x \in T : \A y \in T : x <= y
<1> DEFINE R == OpToRel(<, Nat)
<1>1. IsWellFoundedOn(R, Nat)
  BY NatLessThanWellFounded
<1>2. \A x, y \in Nat : x < y => <<x, y>> \in R
  BY DEF OpToRel
<1> HIDE DEF R
<1>3. PICK x \in T : \A y \in T : ~ (<<y, x>> \in R)
  BY <1>1, WFMin
<1>4. \A y \in T : ~ (y < x)
  BY <1>2, <1>3, Zenon
<1>5. QED
  BY <1>4

\* Of the dumps newer than s, if there are Keep, the rotation leaves Keep.
LEMMA NewestStay ==
  ASSUME BackupsTypeOK, IsFiniteSet(dumps), NEW s \in Nat, Cardinality(NewerThan(s)) >= Keep
  PROVE  Cardinality(NewerThan(s) \ Surplus) >= Keep
<1> DEFINE old == NewerThan(s) \cap Surplus
<1>1. /\ dumps \in SUBSET [stamp : 1..MaxDumps, whole : BOOLEAN]
      /\ MaxDumps \in Nat /\ Keep \in Nat
  BY BackupsAssumption DEF BackupsTypeOK, Stamps, BackupsAssumption
<1>2. CASE old = {}
  <2>1. NewerThan(s) \ Surplus = NewerThan(s)
    BY <1>2
  <2>2. QED
    BY <2>1
<1>3. CASE old # {}
  <2> DEFINE T == {MaxDumps - f.stamp : f \in old}
  <2>1. old \subseteq dumps
    BY DEF NewerThan
  <2>2. T \in SUBSET Nat
    BY <1>1, <2>1
  <2>3. T # {}
    BY <1>3
  <2>4. PICK x \in T : \A y \in T : x <= y
    BY <2>2, <2>3, LeastNumber
  <2>5. PICK g \in old : x = MaxDumps - g.stamp
    BY <2>4
  <2>6. \A f \in old : f.stamp <= g.stamp
    <3> SUFFICES ASSUME NEW f \in old
                 PROVE  f.stamp <= g.stamp
      OBVIOUS
    <3>1. MaxDumps - g.stamp <= MaxDumps - f.stamp
      BY <2>4, <2>5
    <3>2. f.stamp \in 1..MaxDumps /\ g.stamp \in 1..MaxDumps
      BY <1>1, <2>1
    <3>3. QED
      BY <1>1, <3>1, <3>2
  <2>7. Newer(g) \subseteq NewerThan(s) \ Surplus
    <3> SUFFICES ASSUME NEW f \in dumps, f.stamp > g.stamp
                 PROVE  f \in NewerThan(s) \ Surplus
      BY DEF Newer
    <3>1. f.stamp \in Nat /\ g.stamp \in Nat /\ g.stamp > s
      BY <1>1, <2>1 DEF NewerThan
    <3>2. f \in NewerThan(s)
      BY <3>1 DEF NewerThan
    <3>3. f \notin old
      BY <2>6, <3>1
    <3>4. QED
      BY <3>2, <3>3
  <2>8. Cardinality(Newer(g)) >= Keep
    BY DEF Surplus
  <2>9. IsFiniteSet(NewerThan(s) \ Surplus)
    BY FS_Subset DEF NewerThan
  <2>10. /\ Cardinality(Newer(g)) <= Cardinality(NewerThan(s) \ Surplus)
         /\ Cardinality(Newer(g)) \in Nat /\ Cardinality(NewerThan(s) \ Surplus) \in Nat
    BY <2>7, <2>9, FS_Subset, FS_CardinalityType
  <2>11. QED
    BY <1>1, <2>8, <2>10
<1>4. QED
  BY <1>2, <1>3

\* What is covered stays covered when a dump is added.
LEMMA AddingKeepsCovered ==
  ASSUME IsFiniteSet(dumps), NEW f, dumps' = dumps \cup {f}, NEW s \in Nat, Covered(s)
  PROVE  Covered(s)'
<1>1. CASE \E g \in dumps : g.stamp = s
  BY <1>1 DEF Covered
<1>2. CASE Cardinality(NewerThan(s)) >= Keep
  <2>1. IsFiniteSet(dumps')
    BY FS_AddElement
  <2>2. NewerThan(s) \subseteq NewerThan(s)' /\ NewerThan(s)' \subseteq dumps'
    BY DEF NewerThan
  <2>3. IsFiniteSet(NewerThan(s)')
    BY <2>1, <2>2, FS_Subset
  <2>4. /\ Cardinality(NewerThan(s)) <= Cardinality(NewerThan(s)')
        /\ Cardinality(NewerThan(s)) \in Nat /\ Cardinality(NewerThan(s)') \in Nat
    BY <2>2, <2>3, FS_Subset, FS_CardinalityType
  <2>5. Cardinality(NewerThan(s)') >= Keep
    BY <1>2, <2>4, BackupsAssumption DEF BackupsAssumption
  <2>6. QED
    BY <2>5 DEF Covered
<1>3. QED
  BY <1>1, <1>2 DEF Covered

\* And when the rotation deletes what it may.
LEMMA RotatingKeepsCovered ==
  ASSUME BackupsTypeOK, IsFiniteSet(dumps), NEW deleted \in SUBSET Surplus, dumps' = dumps \ deleted,
         NEW s \in Nat, Covered(s)
  PROVE  Covered(s)'
<1>1. CASE \E g \in dumps \ deleted : g.stamp = s
  BY <1>1 DEF Covered
<1>2. CASE ~ \E g \in dumps \ deleted : g.stamp = s
  <2>1. Cardinality(NewerThan(s)) >= Keep
    <3>1. CASE \E g \in dumps : g.stamp = s
      <4>1. PICK g \in dumps : g.stamp = s
        BY <3>1
      <4>2. g \in Surplus
        BY <1>2, <4>1
      <4>3. Newer(g) = NewerThan(s)
        BY <4>1 DEF Newer, NewerThan
      <4>4. QED
        BY <4>2, <4>3 DEF Surplus
    <3>2. QED
      BY <3>1 DEF Covered
  <2>2. Cardinality(NewerThan(s) \ Surplus) >= Keep
    BY <2>1, NewestStay
  <2>3. NewerThan(s) \ Surplus \subseteq NewerThan(s)' /\ NewerThan(s)' \subseteq dumps
    BY DEF NewerThan
  <2>4. IsFiniteSet(NewerThan(s)')
    BY <2>3, FS_Subset
  <2>5. /\ Cardinality(NewerThan(s) \ Surplus) <= Cardinality(NewerThan(s)')
        /\ Cardinality(NewerThan(s) \ Surplus) \in Nat /\ Cardinality(NewerThan(s)') \in Nat
    BY <2>3, <2>4, FS_Subset, FS_CardinalityType
  <2>6. Cardinality(NewerThan(s)') >= Keep
    BY <2>2, <2>5, BackupsAssumption DEF BackupsAssumption
  <2>7. QED
    BY <2>6 DEF Covered
<1>3. QED
  BY <1>1, <1>2

\* Every time that may be covered is a number.
LEMMA ResultsAreNumbers ==
  ASSUME TypeOK
  PROVE  /\ \A r \in 1..Len(rows) : rows[r].result \in Nat
         /\ run[Backup].pc = "close" => run[Backup].result \in Nat
         /\ dump.pc = "renamed" => dump.stamp \in Nat
<1>1. \A r \in 1..Len(rows) : rows[r].result \in Nat
  <2>1. \A r \in 1..Len(rows) : rows[r] \in Rows
    BY DEF TypeOK, JobsTypeOK
  <2>2. QED
    BY <2>1 DEF Rows
<1>2. run[Backup].pc = "close" => run[Backup].result \in Nat
  BY RuntimeAssumption DEF TypeOK, JobsTypeOK, Runs, Idle, RuntimeAssumption
<1>3. dump.pc = "renamed" => dump.stamp \in Nat
  BY DEF TypeOK, BackupsTypeOK, NoDump, Stamps
<1>4. QED
  BY <1>1, <1>2, <1>3

\* No step takes a dump from those it must keep, and none leaves a part of one.
LEMMA DumpsStay ==
  ASSUME BInv, [Next]_vars
  PROVE  /\ DumpsAreWhole' /\ RenamedIsCovered'
         /\ \A s \in Nat : Covered(s) => Covered(s)'
<1> USE DEF BInv, TypeOK
<1>1. ASSUME dumps' = dumps, dump' = dump \/ dump'.pc # "renamed"
      PROVE  /\ DumpsAreWhole' /\ RenamedIsCovered'
             /\ \A s \in Nat : Covered(s) => Covered(s)'
  BY <1>1 DEF DumpsAreWhole, RenamedIsCovered, Covered, NewerThan
<1>2. CASE UNCHANGED backupVars
  BY <1>1, <1>2 DEF backupVars
<1>3. CASE Lifespan
  <2>1. CASE Die
    BY <1>1, <2>1 DEF Die, BackupDies, NoDump
  <2>2. CASE ~ Die
    BY <1>2, <1>3, <2>2
       DEF Lifespan, Release, Start, Migrate, CreatePool, StartupFails, Sweep, SetupScheduler, Shutdown
  <2>3. QED
    BY <2>1, <2>2
<1>4. ASSUME NEW j \in Jobs, Job(j)
      PROVE  /\ DumpsAreWhole' /\ RenamedIsCovered'
             /\ \A s \in Nat : Covered(s) => Covered(s)'
  <2>1. CASE DropDump
    BY <1>1, <2>1 DEF DropDump, NoDump
  <2>2. QED
    BY <1>2, <1>4, <2>1
       DEF Job, FireJob, LogStart, LogEnd, JobFails, JobSucceeds, TimeOut, CancelJob, DropOf
<1>5. CASE BackupStep
  <2>1. CASE OpenPart
    BY <1>1, <2>1 DEF OpenPart
  <2>2. CASE StreamEnds
    BY <1>1, <2>2 DEF StreamEnds
  <2>3. CASE RenameDump
    <3> DEFINE made == [stamp |-> dump.stamp, whole |-> dump.code = 0]
    <3>1. dumps' = dumps \cup {made} /\ dump' = [pc |-> "renamed", stamp |-> dump.stamp] /\ dump.code = 0
      BY <2>3 DEF RenameDump, Renames
    <3>2. made.whole /\ made.stamp = dump.stamp
      BY <3>1, Zenon
    <3> HIDE DEF made
    <3>3. DumpsAreWhole'
      BY <3>1, <3>2, FS_AddElement DEF DumpsAreWhole
    <3>4. RenamedIsCovered'
      BY <3>1, <3>2 DEF RenamedIsCovered, Covered
    <3>5. \A s \in Nat : Covered(s) => Covered(s)'
      BY <3>1, AddingKeepsCovered DEF DumpsAreWhole
    <3>6. QED
      BY <3>3, <3>4, <3>5
  <2>4. QED
    BY <1>5, <2>1, <2>2, <2>3 DEF BackupStep
<1>6. CASE BackupEnds
  <2>1. PICK deleted \in SUBSET Surplus : dumps' = dumps \ deleted
    BY <1>6 DEF BackupEnds, RotateBackups
  <2>2. dump' = NoDump
    BY <1>6 DEF BackupEnds, RotateBackups
  <2>3. DumpsAreWhole'
    BY <2>1, FS_Subset DEF DumpsAreWhole
  <2>4. RenamedIsCovered'
    BY <2>2 DEF RenamedIsCovered, NoDump
  <2>5. \A s \in Nat : Covered(s) => Covered(s)'
    BY <2>1, RotatingKeepsCovered DEF DumpsAreWhole
  <2>6. QED
    BY <2>3, <2>4, <2>5
<1>7. QED
  BY <1>2, <1>3, <1>4, <1>5, <1>6 DEF Next, vars

\* A row that says success of a backup said so before, or its run just closed it.
RowsFrom ==
  \A r \in 1..Len(rows') : rows'[r].status = "success" /\ rows'[r].job = Backup =>
    \/ /\ r \in 1..Len(rows) /\ rows[r].status = "success" /\ rows[r].job = Backup
       /\ rows'[r].result = rows[r].result
    \/ /\ run[Backup].pc = "close" /\ run[Backup].status = "success"
       /\ rows'[r].result = run[Backup].result

\* The result of a backup that succeeded is the dump it has renamed.
ResultFrom ==
  run'[Backup].pc = "close" /\ run'[Backup].status = "success" =>
    \/ /\ run[Backup].pc = "close" /\ run[Backup].status = "success"
       /\ run'[Backup].result = run[Backup].result
    \/ dump.pc = "renamed" /\ run'[Backup].result = dump.stamp

LogStep == RowsAreOwn' /\ RowsFrom /\ ResultFrom

\* The rows of the log after a run has closed its own.
LEMMA ClosedRows ==
  ASSUME TypeOK, RowsAreOwn, NEW j \in Jobs, run[j].pc = "close"
  PROVE  /\ Len(Closed(j)) = Len(rows)
         /\ \A r \in 1..Len(rows) :
              /\ Closed(j)[r].job = rows[r].job
              /\ \/ Closed(j)[r] = rows[r]
                 \/ /\ rows[r].job = j /\ Closed(j)[r].status = run[j].status
                    /\ Closed(j)[r].result = run[j].result
<1>1. rows \in [1..Len(rows) -> Rows] /\ Len(rows) \in Nat
  BY DEF TypeOK, JobsTypeOK
<1>2. run[j].row \in 1..Len(rows) /\ rows[run[j].row].job = j
  <2>1. run[j].row # 0
    BY DEF TypeOK, JobsTypeOK, Runs, Idle
  <2>2. QED
    BY <2>1 DEF RowsAreOwn
<1> DEFINE closed == [rows[run[j].row] EXCEPT !.status = run[j].status, !.result = run[j].result]
<1>3. Closed(j) = [rows EXCEPT ![run[j].row] = closed]
  BY <1>1, <1>2 DEF Closed, Rows
<1>4. closed.job = j /\ closed.status = run[j].status /\ closed.result = run[j].result
  BY <1>1, <1>2 DEF Rows
<1> HIDE DEF closed
<1>5. Len(Closed(j)) = Len(rows)
  BY ClosedTyped DEF TypeOK
<1>6. \A r \in 1..Len(rows) : Closed(j)[r] = IF r = run[j].row THEN closed ELSE rows[r]
  BY <1>1, <1>3
<1>7. QED
  BY <1>2, <1>4, <1>5, <1>6

\* And after a start row was inserted.
LEMMA AppendedRows ==
  ASSUME TypeOK, NEW j \in Jobs, Len(rows) < MaxRows
  PROVE  /\ Len(Append(rows, NewRow(j))) = Len(rows) + 1
         /\ \A r \in 1..Len(rows) : Append(rows, NewRow(j))[r] = rows[r]
         /\ Append(rows, NewRow(j))[Len(rows) + 1] = NewRow(j)
BY AppendTyped DEF TypeOK, JobsTypeOK

\* Steps that leave the rows, and end runs at most.
LEMMA EndingRuns ==
  ASSUME BInv, rows' = rows, \A i \in Jobs : run'[i] = run[i] \/ run'[i].pc \in {"idle", "insert"}
  PROVE  LogStep
<1>1. RowsAreOwn'
  BY DEF BInv, RowsAreOwn
<1>2. RowsFrom
  BY DEF RowsFrom
<1>3. ResultFrom
  BY RuntimeAssumption DEF ResultFrom, RuntimeAssumption
<1>4. QED
  BY <1>1, <1>2, <1>3 DEF LogStep

\* The end of a body.
LEMMA EndingBody ==
  ASSUME BInv, NEW j \in Jobs, NEW status, NEW result, EndBody(j, status, result),
         j = Backup /\ status = "success" => dump.pc = "renamed" /\ result = dump.stamp
  PROVE  LogStep
<1>1. rows' = rows /\ run \in [Jobs -> Runs] /\ run[j].pc = "body"
  BY DEF EndBody, BInv, TypeOK, JobsTypeOK
<1>2. \A i \in Jobs : run'[i] = IF i = j THEN Closing(j, status, result) ELSE run[i]
  BY <1>1 DEF EndBody
<1>3. RowsAreOwn'
  BY <1>1, <1>2 DEF BInv, RowsAreOwn, Closing, Idle
<1>4. RowsFrom
  BY <1>1 DEF RowsFrom
<1>5. ResultFrom
  BY <1>1, <1>2, RuntimeAssumption DEF ResultFrom, Closing, Idle, RuntimeAssumption
<1>6. QED
  BY <1>3, <1>4, <1>5 DEF LogStep

\* A run whose row is closed by its last statement, or whose start row is inserted
\* and not seen.
LEMMA EndingStatement ==
  ASSUME BInv, NEW j \in Jobs, run' = [run EXCEPT ![j] = Idle],
         \/ run[j].pc = "insert" /\ Len(rows) < MaxRows /\ rows' \in {rows, Append(rows, NewRow(j))}
         \/ run[j].pc = "close" /\ rows' \in {rows, Closed(j)}
  PROVE  LogStep
<1>0. run \in [Jobs -> Runs] /\ Len(rows) \in Nat
  BY DEF BInv, TypeOK, JobsTypeOK
<1>1. \A i \in Jobs : run'[i] = IF i = j THEN Idle ELSE run[i]
  BY <1>0
<1>2. CASE rows' = rows
  BY <1>1, <1>2, EndingRuns DEF Idle
<1>3. ResultFrom
  BY <1>1, RuntimeAssumption DEF ResultFrom, Idle, RuntimeAssumption
<1>4. CASE Len(rows) < MaxRows /\ rows' = Append(rows, NewRow(j))
  <2>1. RowsAreOwn'
    BY <1>0, <1>1, <1>4, AppendedRows DEF BInv, RowsAreOwn, Idle
  <2>2. RowsFrom
    BY <1>0, <1>4, AppendedRows DEF BInv, RowsFrom, NewRow
  <2>3. QED
    BY <1>3, <2>1, <2>2 DEF LogStep
<1>5. CASE run[j].pc = "close" /\ rows' = Closed(j)
  <2>1. RowsAreOwn'
    BY <1>0, <1>1, <1>5, ClosedRows DEF BInv, RowsAreOwn, Idle
  <2>2. RowsFrom
    BY <1>0, <1>5, ClosedRows DEF BInv, RowsFrom
  <2>3. QED
    BY <1>3, <2>1, <2>2 DEF LogStep
<1>6. QED
  BY <1>2, <1>4, <1>5

\* A body that begins, with its row or without.
LEMMA BeginningBody ==
  ASSUME BInv, NEW j \in Jobs, InsertRow(j) \/ InsertFails(j)
  PROVE  LogStep
<1>0. run \in [Jobs -> Runs] /\ Len(rows) \in Nat
  BY DEF BInv, TypeOK, JobsTypeOK
<1>1. PICK row \in {0, Len(rows) + 1} : run' = [run EXCEPT ![j] = [pc |-> "body", row |-> row]]
  BY DEF InsertRow, InsertFails
<1>2. \A i \in Jobs : run'[i] = IF i = j THEN [pc |-> "body", row |-> row] ELSE run[i]
  BY <1>0, <1>1
<1>3. ResultFrom
  BY <1>2, RuntimeAssumption DEF ResultFrom, RuntimeAssumption
<1>4. CASE InsertRow(j)
  <2>1. rows' = Append(rows, NewRow(j)) /\ Len(rows) < MaxRows
    BY <1>4 DEF InsertRow
  <2>2. NewRow(j).job = j /\ NewRow(j).status = "running"
    BY DEF NewRow
  <2>3. RowsAreOwn'
    BY <1>0, <1>2, <2>1, <2>2, AppendedRows DEF BInv, RowsAreOwn
  <2>4. RowsFrom
    BY <1>0, <2>1, <2>2, AppendedRows DEF BInv, RowsFrom
  <2>5. QED
    BY <1>3, <2>3, <2>4 DEF LogStep
<1>5. CASE InsertFails(j)
  <2>1. rows' = rows /\ run' = [run EXCEPT ![j] = [pc |-> "body", row |-> 0]]
    BY <1>5 DEF InsertFails
  <2>2. \A i \in Jobs : run'[i] = IF i = j THEN [pc |-> "body", row |-> 0] ELSE run[i]
    BY <1>0, <2>1
  <2>3. RowsAreOwn'
    BY <2>1, <2>2 DEF BInv, RowsAreOwn
  <2>4. RowsFrom
    BY <2>1 DEF RowsFrom
  <2>5. QED
    BY <1>3, <2>3, <2>4 DEF LogStep
<1>6. QED
  BY <1>4, <1>5

\* Every step of the process.
LEMMA LogStays ==
  ASSUME BInv, [Next]_vars
  PROVE  LogStep
<1>1. CASE UNCHANGED jobVars
  BY <1>1, EndingRuns DEF jobVars
<1>2. CASE Lifespan
  <2>1. CASE Die
    BY <2>1, EndingRuns DEF Die, JobsDie, Idle
  <2>2. CASE SweepStranded
    <3>1. Len(rows) \in Nat /\ \A r \in 1..Len(rows) : rows[r] \in Rows
      BY DEF BInv, TypeOK, JobsTypeOK
    <3>2. run' = run /\ Len(rows') = Len(rows)
      BY <2>2, <3>1 DEF SweepStranded
    <3>3. \A r \in 1..Len(rows) :
            /\ rows'[r].job = rows[r].job
            /\ rows'[r].status = "success" => rows'[r] = rows[r]
      BY <2>2, <3>1 DEF SweepStranded, Rows
    <3>4. RowsAreOwn'
      BY <3>2, <3>3 DEF BInv, RowsAreOwn
    <3>5. RowsFrom
      BY <3>2, <3>3 DEF RowsFrom
    <3>6. ResultFrom
      BY <3>2 DEF ResultFrom
    <3>7. QED
      BY <3>4, <3>5, <3>6 DEF LogStep
  <2>3. QED
    BY <1>1, <1>2, <2>1, <2>2
       DEF Lifespan, Release, Start, Migrate, CreatePool, StartupFails, Sweep, SetupScheduler, Shutdown
<1>3. ASSUME NEW j \in Jobs, Job(j)
      PROVE  LogStep
  <2>0. run \in [Jobs -> Runs]
    BY DEF BInv, TypeOK, JobsTypeOK
  <2>1. CASE FireJob(j)
    BY <2>0, <2>1, EndingRuns DEF FireJob, Fire
  <2>2. CASE LogStart(j)
    BY <2>2, BeginningBody DEF LogStart
  <2>3. CASE CloseRow(j)
    BY <2>3, EndingStatement DEF CloseRow
  <2>4. CASE CloseFails(j)
    BY <2>4, EndingStatement DEF CloseFails
  <2>5. ASSUME NEW status \in {"failure", "cancelled"}, EndBody(j, status, 0)
        PROVE  LogStep
    BY <2>5, EndingBody
  <2>6. CASE JobSucceeds(j)
    BY <2>6, EndingBody DEF JobSucceeds
  <2>7. CASE CancelStatement(j)
    BY <2>7, EndingStatement DEF CancelStatement
  <2>8. CASE CancelJob(j)
    BY <2>5, <2>7, <2>8 DEF CancelJob
  <2>9. QED
    BY <1>3, <2>1, <2>2, <2>3, <2>4, <2>5, <2>6, <2>8 DEF Job, LogEnd, JobFails, TimeOut
<1>4. CASE BackupStep
  BY <1>1, <1>4 DEF BackupStep
<1>5. CASE BackupEnds
  <2>1. dump.pc = "renamed" /\ Made = dump.stamp
    BY <1>5 DEF BackupEnds, RotateBackups, Made
  <2>2. QED
    BY <1>5, <2>1, EndingBody, RuntimeAssumption DEF BackupEnds, RuntimeAssumption
<1>6. QED
  BY <1>1, <1>2, <1>3, <1>4, <1>5 DEF Next, vars

\* A backup that the log calls a success is on disk whole, or the rotation keeps as
\* many newer ones; and no part of a dump has a final name.
THEOREM BackupsAlwaysSurvive == Spec => []BackupsSurvive
<1>1. Init => BInv
  <2>1. Init => TypeOK
    BY InitIsTyped
  <2>2. ASSUME Init
        PROVE  RowsAreOwn /\ RowsAreCovered /\ ResultIsCovered /\ DumpsAreWhole /\ RenamedIsCovered
    BY <2>2, FS_EmptySet, RuntimeAssumption
       DEF Init, JobsInit, BackupsInit, RowsAreOwn, RowsAreCovered, ResultIsCovered, DumpsAreWhole,
           RenamedIsCovered, Idle, NoDump, RuntimeAssumption
  <2>3. QED
    BY <2>1, <2>2 DEF BInv
<1>2. BInv /\ [Next]_vars => BInv'
  <2> SUFFICES ASSUME BInv, [Next]_vars
               PROVE  BInv'
    OBVIOUS
  <2>1. TypeOK'
    BY StepKeepsTypes DEF BInv
  <2>2. DumpsAreWhole' /\ RenamedIsCovered'
    BY DumpsStay
  <2>3. RowsAreOwn' /\ RowsFrom /\ ResultFrom
    BY LogStays DEF LogStep
  <2>4. \A s \in Nat : Covered(s) => Covered(s)'
    BY DumpsStay
  <2>5. RowsAreCovered'
    <3>1. ASSUME NEW r \in 1..Len(rows'), rows'[r].status = "success", rows'[r].job = Backup
          PROVE  \E s \in Nat : s = rows'[r].result /\ Covered(s)
      BY <2>3, <3>1, ResultsAreNumbers DEF BInv, RowsAreCovered, ResultIsCovered, RowsFrom
    <3>2. ASSUME NEW r \in 1..Len(rows'), rows'[r].status = "success", rows'[r].job = Backup
          PROVE  \E s \in Nat : s = rows'[r].result /\ Covered(s)'
      BY <2>4, <3>1, <3>2
    <3>3. QED
      BY <3>2 DEF RowsAreCovered, Covered, NewerThan
  <2>6. ResultIsCovered'
    <3>1. ASSUME run'[Backup].pc = "close", run'[Backup].status = "success"
          PROVE  \E s \in Nat : s = run'[Backup].result /\ Covered(s)
      BY <2>3, <3>1, ResultsAreNumbers DEF BInv, RenamedIsCovered, ResultIsCovered, ResultFrom
    <3>2. ASSUME run'[Backup].pc = "close", run'[Backup].status = "success"
          PROVE  \E s \in Nat : s = run'[Backup].result /\ Covered(s)'
      BY <2>4, <3>1, <3>2
    <3>3. QED
      BY <3>2 DEF ResultIsCovered, Covered, NewerThan
  <2>7. QED
    BY <2>1, <2>2, <2>3, <2>5, <2>6 DEF BInv
<1>3. BInv => BackupsSurvive
  BY DEF BInv, DumpsAreWhole, RowsAreCovered, Covered, NewerThan, BackupsSurvive
<1>4. QED
  BY <1>1, <1>2, <1>3, PTL DEF Spec
==============================================================================
