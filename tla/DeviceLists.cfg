SPECIFICATION Spec

SYMMETRY Clients

CHECK_DEADLOCK FALSE

CONSTANTS
  Subscribers = {s1, s2, s3}
  AlwaysOn = s3
  Nobody = Nobody
  Wild = Wild
  Strangers = {}
  HookResults <- FailingHook
  UnhookResults <- FailingHook
  SetupResults <- FailingSetup
  ShutdownResults = {0}
  MaxSubs = 2

INVARIANTS
  CountMatchesSlots
  ShutdownOnlyByLast
  ShutdownByLast
  PublishReachesSteady
  NothingPushedToStrangers
