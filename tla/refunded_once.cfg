CONSTANTS
  Creator = creator
  Buyers = {b1, b2}
  Requests = {r1, r2}
  Scheduler = scheduler
  Kinds = {"normal"}
  Ops = {"join", "quit", "refund"}
  Price = 1000
  TotalPeople = 2
  BuyerFunds = 1000
  TasksHaveRedis = FALSE
  OtherEscrow = 1000
  MaxBusy = 0
  MaxBroken = 0
  MaxCrashes = 0
SYMMETRY Symmetry
SPECIFICATION Spec
INVARIANT RefundedOnce

CHECK_DEADLOCK FALSE
