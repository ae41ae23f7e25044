\* Nodes with two children, so that four items make a heap of three levels; two
\* handlers, cancelled items staying behind; delays and intervals beyond ErrorVal.
SPECIFICATION FairSpec
CONSTANTS
  Handlers = {h1, h2}
  Items = {1, 2, 3, 4}
  Delays = {2, 4}
  Intervals = {0, 2}
  Arity = 2
  ErrorVal = 1
  MaxTime = 7
  MaxCancels = 2
  None = None
INVARIANTS HeapOrder TimersAccounted OnTimeUnlessCancelled
PROPERTIES TimersRunUnlessCancelled OnReadReturns
CHECK_DEADLOCK FALSE
