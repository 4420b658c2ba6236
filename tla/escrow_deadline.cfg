CONSTANTS
  Creator = creator
  Buyers = {b1, b2}
  Requests = {r1, r2}
  Scheduler = scheduler
  Kinds = {"normal"}
  Ops = {"join", "quit", "refund", "auto", "deadline"}
  Price = 1000
  TotalPeople = 3
  BuyerFunds = 1000
  TasksHaveRedis = TRUE
  OtherEscrow = 0
  MaxBusy = 1
  MaxBroken = 0
  MaxCrashes = 0
SPECIFICATION FairSpec
PROPERTY ExpiredOrderCloses
CHECK_DEADLOCK FALSE
