\* Two producers, three pushes each, two items per OnRead: every push can meet every
\* phase of OnRead, and readq can hold items when OnRead returns.
SPECIFICATION FairSpec
CONSTANTS
  Producers = {p1, p2}
  MaxPush = 3
  Batch = 2
INVARIANTS TypeOK FifoInv OneWakeup WorkKeepsEfdReadable
PROPERTIES HandoffSpec CasWinnerServed
CHECK_DEADLOCK FALSE
