\* Two evPolls, a descriptor of the first, two goroutines, three calls.
SPECIFICATION Spec
CONSTANTS
  evPollNum = 2
  Fds = {2}
  Goroutines = {m, g}
  Main = m
  MaxCalls = 3
  None = None
INVARIANTS
  RunOutlivesPolls
  CachesAgreeUnlessMixed
  ReadsWholeAndForward
  MasksAgreeUnlessRaced
CHECK_DEADLOCK FALSE
