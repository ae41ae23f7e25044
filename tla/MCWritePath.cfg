\* Buffers of one and three units against a socket that holds two: writes that fit,
\* that are cut, and that find the socket full; two connections of one handler.
SPECIFICATION FairSpec
CONSTANTS
  SockCap = 2
  Lens = {1, 3}
  MaxBufs = 3
  MaxConns = 2
INVARIANTS StreamOrder QueuedIsArmed SizeIsExact BuffersAccounted
PROPERTY QueueDrains
CHECK_DEADLOCK FALSE
