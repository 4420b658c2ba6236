CONSTANTS
  Buyers = {b1, b2}
  Sessions = {s1, s2}
  Handlers = {c1, c2}
  Disputed = {d1}
  NoOne = none
  MaxFaults = 2
SPECIFICATION FairSpec
INVARIANTS ExecutedOnce ResolvedIsPaid UndecidedIsUnpaid
PROPERTIES FiledIsDecided
CHECK_DEADLOCK FALSE
