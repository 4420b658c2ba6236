CONSTANTS
  Creator = creator
  Buyers = {b1, b2}
  Requests = {r1, r2}
  Scheduler = scheduler
  Kinds = {"normal"}
  Ops = {"join", "quit", "refund", "mark", "settle", "auto", "deadline"}
  Price = 1050
  TotalPeople = 2
  BuyerFunds = 1050
  TasksHaveRedis = TRUE
  OtherEscrow = 1050
  MaxBusy = 1
  MaxBroken = 1
  MaxCrashes = 1
SYMMETRY Symmetry
SPECIFICATION Spec
INVARIANTS TypeOK EscrowLeavesFirst WalletsMatchLog CreatorMatchesLog NoOversell EscrowCoversSeats
PROPERTY PromiseKept
CHECK_DEADLOCK FALSE
