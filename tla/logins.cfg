CONSTANTS
  d1 = d1
  d2 = d2
  Devices = {d1, d2}
  HourlyLimit = 1
  IpLimit = 1
  Mixes = {{"send"}, {"password"}, {"code", "refresh"}}
  MaxFaults = 1
  MaxErrs = 2
  MaxVersion = 2
SPECIFICATION FairSpec
INVARIANTS FailuresAreBounded RejectedHasReason
PROPERTY RefusalEnds
CHECK_DEADLOCK FALSE
