------------------------------ MODULE JobRunner ------------------------------
(***************************************************************************)
(* Scheduled jobs and their log.  A run of a job inserts a row, executes   *)
(* the body under a time limit and closes the row; each statement waits    *)
(* for a connection for a bounded time and may fail, and the run goes on.  *)
(* At most one run of a job is alive: further fires are dropped.           *)
(***************************************************************************)
EXTENDS Integers, Sequences

CONSTANTS
  Jobs,     \* the scheduled jobs
  MaxRows   \* bound: rows of the log

ASSUME JobsAssumption == MaxRows \in Nat

VARIABLES
  rows,   \* job_executions, in the order of their ids
  run     \* the run of each job that is alive

jobVars == <<rows, run>>

Statuses == {"running", "success", "failure", "cancelled"}

\* result : what the body of the run has made, 0 for nothing (history).
Rows == [job : Jobs, status : Statuses, result : Nat]

Idle == [pc |-> "idle"]

\* row : id of its row, 0 if it has none.
Runs == {Idle} \cup [pc : {"insert"}] \cup [pc : {"body"}, row : 0..MaxRows]
        \cup [pc : {"close"}, row : 1..MaxRows, status : Statuses \ {"running"}, result : Nat]

JobsTypeOK ==
  /\ rows \in Seq(Rows) /\ Len(rows) <= MaxRows
  /\ run \in [Jobs -> Runs]

JobsInit ==
  /\ rows = << >>
  /\ run = [j \in Jobs |-> Idle]

------------------------------------------------------------------------------
(* One run.                                                                 *)

NewRow(j) == [job |-> j, status |-> "running", result |-> 0]

Fire(j) ==
  /\ run[j] = Idle
  /\ Len(rows) < MaxRows
  /\ run' = [run EXCEPT ![j] = [pc |-> "insert"]]
  /\ UNCHANGED rows

\* The id may not be seen: the answer comes after the limit.
InsertRow(j) ==
  /\ run[j].pc = "insert"
  /\ Len(rows) < MaxRows
  /\ rows' = Append(rows, NewRow(j))
  /\ \E row \in {0, Len(rows) + 1} : run' = [run EXCEPT ![j] = [pc |-> "body", row |-> row]]

\* The body is executed without a row.
InsertFails(j) ==
  /\ run[j].pc = "insert"
  /\ run' = [run EXCEPT ![j] = [pc |-> "body", row |-> 0]]
  /\ UNCHANGED rows

\* Mutant: also a run without a row closes one.
ClosingAlways(j, status, result) ==
  [pc |-> "close", row |-> run[j].row, status |-> status, result |-> result]

\* What follows a body that ended so.
Closing(j, status, result) ==
  IF run[j].row = 0 THEN Idle
  ELSE [pc |-> "close", row |-> run[j].row, status |-> status, result |-> result]

EndBody(j, status, result) ==
  /\ run[j].pc = "body"
  /\ run' = [run EXCEPT ![j] = Closing(j, status, result)]
  /\ UNCHANGED rows

Closed(j) == [rows EXCEPT ![run[j].row].status = run[j].status,
                          ![run[j].row].result = run[j].result]

CloseRow(j) ==
  /\ run[j].pc = "close"
  /\ rows' = Closed(j)
  /\ run' = [run EXCEPT ![j] = Idle]

\* Best effort: the row stays as it is.
CloseFails(j) ==
  /\ run[j].pc = "close"
  /\ run' = [run EXCEPT ![j] = Idle]
  /\ UNCHANGED rows

\* A run that is cancelled at a statement ends there, and the statement may have
\* reached the database.
CancelStatement(j) ==
  /\ \/ run[j].pc = "insert" /\ Len(rows) < MaxRows /\ rows' \in {rows, Append(rows, NewRow(j))}
     \/ run[j].pc = "close" /\ rows' \in {rows, Closed(j)}
  /\ run' = [run EXCEPT ![j] = Idle]

------------------------------------------------------------------------------
(* The process.                                                             *)

JobsDie ==
  /\ run' = [j \in Jobs |-> Idle]
  /\ UNCHANGED rows

\* Every row that is running is one of a dead process.
SweepStranded ==
  /\ rows' = [r \in 1..Len(rows) |->
                IF rows[r].status = "running" THEN [rows[r] EXCEPT !.status = "failure"] ELSE rows[r]]
  /\ UNCHANGED run
==============================================================================
