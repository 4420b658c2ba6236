CONSTANTS
  MaxMessages = 2
  MaxRetry = 3
  MaxFaults = 1
  Sessions = {s1, s2}
SPECIFICATION FairSpec
INVARIANTS TypeOK HandledOnce IndexIsCurrent
PROPERTIES RoutedIsDecided LateIsHidden
CHECK_DEADLOCK FALSE
