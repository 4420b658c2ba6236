CONSTANTS
  Sessions = {s1, s2, s3}
  Amounts = {1500}
  Funds = 3000
  MaxApps = 4
  MaxOthers = 1
  MaxFaults = 1
SYMMETRY Symmetry
SPECIFICATION Spec
INVARIANTS TypeOK NoOverdraft RejectedIsReturned ApplicationsArePosted WalletNotBelowLog
CHECK_DEADLOCK FALSE
