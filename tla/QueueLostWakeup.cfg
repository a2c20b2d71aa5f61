SPECIFICATION Spec

CONSTANTS
  Producers = {p1}
  Headers <- DataHeader
  Rules = {}
  Filters = {}
  ReplaceFlags = {FALSE}
  Timeouts = {FALSE}
  MaxlenInit = 2
  MaxMsgs = 2

INVARIANTS
  NoSleepOverMessage

CHECK_DEADLOCK FALSE
