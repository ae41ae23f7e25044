\* Two descriptors with an array slot, one beyond the array, four connections, so
\* that each number is reused while entries of an older batch are pending.
SPECIFICATION Spec
CONSTANTS
  Handlers = {h1, h2, h3, h4}
  Fds = {1, 2, 3}
  ArrSize = 3
  Setups <- SoundSetups
  None = None
SYMMETRY HandlerSymmetry
INVARIANTS NoCallbackAfterClose RegistryAgrees OwnEventsUnlessExpiring
