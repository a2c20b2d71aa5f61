SPECIFICATION FairSpec

CONSTANTS
  Fds = {3, 4, 5, 6}
  Peers = {p1}
  Ports = {u1}
  MaxDatagrams = 1

INVARIANTS
  WatchesMatchFiles
  WatchListBounded

PROPERTIES
  PeersAccepted
