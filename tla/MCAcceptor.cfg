\* Two acceptors of one address, four clients, descriptors for two of them.
SPECIFICATION AccFairSpec
CONSTANTS
  Acceptors = {a1, a2}
  Clients = {c1, c2, c3, c4}
  listenBacklog = 4
  MaxConns = 2
  MaxAddFails = 1
INVARIANT WatchedOrTimed
PROPERTY BacklogServed
CHECK_DEADLOCK FALSE
