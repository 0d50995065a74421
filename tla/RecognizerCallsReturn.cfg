\* A PutAudio that overflows the ring, while the application advances.
CONSTANTS
  StackSize = 5
  BlockLen = 3
  Windback = 1
  Capacity = 5
  FrameSize = 2
  BgSniff = 2
  UtteranceTimeout = 3
  HoldOff = 1
  GatedModes <- MCGatedOnly
  StartFaults <- MCNoFaults
  PutSizes <- MCPutSizes
  MaxFrames = 3
SPECIFICATION Spec
PROPERTY CallsReturn
CHECK_DEADLOCK FALSE
