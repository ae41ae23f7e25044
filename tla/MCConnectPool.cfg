\* Two connections made at a time, one of three beyond the array, a channel for one of them,
\* two clients.
SPECIFICATION FairSpec
CONSTANTS
  Conns = {c1, c2, c3}
  Beyond = {c3}
  Clients = {g1, g2}
  MinIdle = 1
  AddOnce = 2
  MaxLive = 3
  ChanCap = 1
  MaxOpenFails = 1
  MaxDoubled = 1
  None = None
INVARIANTS CountersExact HeldOnce
PROPERTIES AcquireReturns RoundsEnd
