\* Two lengths of one class, one of them its size, the largest class of kbPool,
\* and a length too large for the pools; a class counts as active from two
\* allocations on, so that it is switched off and on again.
SPECIFICATION BPSpec
CONSTANTS
  Clients = {g1, g2}
  Lengths = {129, 256, 1047551, 16777217}
  Buffers = {b1, b2, b3}
  ActiveTimes = 2
  MaxAllocs = 3
  None = None
SYMMETRY ClientBufferSymmetry
INVARIANTS BPTypeOK NoPanic PoolsHoldClassSize
