SPECIFICATION Spec
CONSTANTS
  Orders = {q1}
  MaxAttempts = 2
PROPERTY FilledStays
CHECK_DEADLOCK FALSE
