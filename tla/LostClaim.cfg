\* A crash between the claim and the submission.
SPECIFICATION FairCrashSpec
CONSTANTS
  Strategies = {s1}
  Proposals = {p1}
  NoStrategy = NoStrategy
  Executions = {e1}
  FirstExecution = e1
  ReplayAllowed = FALSE
  MaxAttempts = 1
PROPERTY ClaimIsExecuted
CHECK_DEADLOCK FALSE
