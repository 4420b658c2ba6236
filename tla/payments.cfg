SPECIFICATION FairSpec
CONSTANTS
  Handlers = {h1, h2}
  Trades = {t1, t2}
  NoTrade = NoTrade
  Price = 100
  Total = 3
  Others = 1
  MaxFaults = 2
INVARIANTS EscrowMatchesPostings RecordIsTrue ReleasedIsReturned AnsweredIsSettled
PROPERTY PaidIsDecided
CHECK_DEADLOCK FALSE
