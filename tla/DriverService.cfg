SPECIFICATION FairSpec

CONSTANTS
  Callers = {c1, c2}
  Threads = {t1, t2}
  Nobody = Nobody
  Terminators = {c1}
  SetupMayFail = FALSE
  MainMayReturn = FALSE
  LateSubscribers = FALSE
  MaxSubs = 2

INVARIANTS
  SubscribedIsServed

PROPERTIES
  DocumentedLifecycle
  ServedEventually
  TerminateReturns

CHECK_DEADLOCK FALSE
