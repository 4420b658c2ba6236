CONSTANTS
  Clients = {c1, c2, c3}
  Timeout = 4
  NoOne = none
SPECIFICATION FairSpec
INVARIANTS TypeOK MutualExclusion
PROPERTIES OnlyTheHolderUnlocks LockComesFree
