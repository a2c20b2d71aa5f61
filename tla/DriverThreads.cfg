SPECIFICATION Spec

CONSTANTS
  Callers = {c1, c2, c3}
  Threads = {t1, t2, t3}
  Nobody = Nobody
  Terminators = {c1}
  SetupMayFail = TRUE
  MainMayReturn = TRUE
  LateSubscribers = FALSE
  MaxSubs = 2

SYMMETRY ThreadSymmetry

INVARIANTS
  TypeOK
  OneThread
  MainBracketed
  CancelTargetsLiveThread
  PromiseHasThread
  BarrierAssert
  TerminateWaits

CHECK_DEADLOCK FALSE
