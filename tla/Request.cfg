SPECIFICATION FairSpec

CONSTANTS
  Subtypes = {1, 2}
  Calls <- AllCalls
  MaxRequests = 3
  MaxData = 1
  MaxFlips = 2

INVARIANTS
  RepliesMatch

PROPERTIES
  RequestReturns

CHECK_DEADLOCK FALSE
