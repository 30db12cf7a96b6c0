\* Two executions of one proposal, which may name a strategy, race, time out, resubmit and crash.
SPECIFICATION Spec
CONSTANTS
  Strategies = {s1}
  Proposals = {p1}
  NoStrategy = NoStrategy
  Executions = {e1, e2}
  FirstExecution = e1
  ReplayAllowed = TRUE
  MaxAttempts = 2
INVARIANTS TypeOK AtMostOneOrderPerProposal OrdersAreApproved EveryOrderIsClaimed
PROPERTIES FilledStays ContractSpec
CHECK_DEADLOCK FALSE
