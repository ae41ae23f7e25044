\* Every stream of up to three frames, cut into reads in every way.
SPECIFICATION WSSpec
CONSTANTS
  FrameTypes <- SomeFrames
  MaxFrames = 3
  maxFramePayloadSize = 3
INVARIANT NoFrameWaits
PROPERTY FramesSpec
CHECK_DEADLOCK FALSE
