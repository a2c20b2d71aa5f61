SPECIFICATION Spec

CONSTANTS
  MaxConns = 3
  MaxUsers = 2
  MaxSubs = 1
  Sharing = TRUE

INVARIANT
  TableSound
