SPECIFICATION FairSpec

CONSTANTS
  Modes = {"push", "pull"}
  RetryLimit = 1
  RingSize = 2
  Maxlen = 1
  MayLack = TRUE
  MaxCalls = 3
  MaxData = 2
  MaxFaults = 2

INVARIANTS
  TypeOK
  NoVainWait
  RoundHasData
  DataInOrder
  OneOutstanding
  SessionAgrees

PROPERTIES
  ReadReturns

CHECK_DEADLOCK FALSE
