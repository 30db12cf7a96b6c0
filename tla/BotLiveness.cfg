\* Without crashes and database failures every approval is answered and every fill booked, although
\* a second execution of the proposal may win the claim and send the first one to the probe.
SPECIFICATION FairSpec
CONSTANTS
  Strategies = {}
  Proposals = {p1}
  NoStrategy = NoStrategy
  Executions = {e1, e2}
  FirstExecution = e1
  ReplayAllowed = TRUE
  MaxAttempts = 2
PROPERTIES ApprovalIsAnswered FillsAreRecorded
CHECK_DEADLOCK FALSE
