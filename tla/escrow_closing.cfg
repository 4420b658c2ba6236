CONSTANTS
  Creator = creator
  Buyers = {b1, b2}
  Requests = {r1, r2}
  Scheduler = scheduler
  Kinds = {"normal", "spot"}
  Ops = {"join", "refund", "disband", "delete", "mark", "settle", "auto", "expiry", "deadline", "withdraw"}
  Price = 1000
  TotalPeople = 2
  BuyerFunds = 1000
  TasksHaveRedis = FALSE
  OtherEscrow = 1000
  MaxBusy = 1
  MaxBroken = 0
  MaxCrashes = 1
SYMMETRY Symmetry
SPECIFICATION Spec
INVARIANTS NoOverdraft SeatIsPaidFor CodePaysOnce

CHECK_DEADLOCK FALSE
