\* Two connects whose descriptors lie in the array, one beyond it.
SPECIFICATION FairSpec
CONSTANTS
  Attempts = {c1, c2, c3}
  Beyond = {c3}
INVARIANTS OutcomeOnce DescriptorOwned
PROPERTY EveryConnectReported
CHECK_DEADLOCK FALSE
