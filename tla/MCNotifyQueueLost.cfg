\* The promise of AsyncWrite that the code does not keep.
SPECIFICATION FairSpec
CONSTANTS
  Producers = {p1, p2}
  MaxPush = 1
  Batch = 1
PROPERTY EveryPushServed
CHECK_DEADLOCK FALSE
