SPECIFICATION Spec

CONSTANTS
  MaxConns = 3
  MaxUsers = 2
  MaxSubs = 2
  Sharing = FALSE

INVARIANTS
  TableSound
  KillFlagAgrees
  OnlyPolledAreRead
  CountMatchesTable
  OneReplyEach

PROPERTIES
  UselessIsClosed
