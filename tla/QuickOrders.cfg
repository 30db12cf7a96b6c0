SPECIFICATION FairSpec
CONSTANTS
  Orders = {q1}
  MaxAttempts = 3
INVARIANTS TypeOK FilledIsBooked StampedOrdersExist
PROPERTIES FillsAreBooked ContractSpec
CHECK_DEADLOCK FALSE
