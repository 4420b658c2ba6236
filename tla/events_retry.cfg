CONSTANTS
  MaxMessages = 1
  MaxRetry = 3
  MaxFaults = 1
  Sessions = {s1}
SPECIFICATION Spec
INVARIANTS RetryIsTried
CHECK_DEADLOCK FALSE
