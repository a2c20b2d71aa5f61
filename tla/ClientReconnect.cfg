SPECIFICATION Spec

CONSTANTS
  Modes = {"push", "pull"}
  RetryLimit = 1
  RingSize = 2
  Maxlen = 2
  MayLack = FALSE
  MaxCalls = 3
  MaxData = 2
  MaxFaults = 1

INVARIANTS
  NoVainWaitReconnected

CHECK_DEADLOCK FALSE
