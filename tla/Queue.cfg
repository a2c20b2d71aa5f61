SPECIFICATION FairSpec

CONSTANTS
  Producers = {p1, p2}
  Headers <- AllHeaders
  Rules <- CmdRules
  Filters <- RequestFilter
  ReplaceFlags = {TRUE, FALSE}
  Timeouts = {TRUE}
  MaxlenInit = 1
  MaxMsgs = 3

INVARIANTS
  RepliesNeverLost
  SignatureOrder
  LatestValueKept
  DataWithinMaxlen
  SleeperIsWoken

PROPERTIES
  TimedWaitDrains

CHECK_DEADLOCK FALSE
