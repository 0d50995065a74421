\* The last buffer of one recognition, put while the next one is started.
CONSTANTS
  StackSize = 5
  BlockLen = 3
  Windback = 1
  Capacity = 5
  FrameSize = 2
  BgSniff = 2
  UtteranceTimeout = 3
  HoldOff = 1
  GatedModes <- MCGatedOnly
  StartFaults <- MCNoFaults
  PutSizes <- MCPutSizes
  MaxFrames = 3
SPECIFICATION Spec
INVARIANT LastFrameBelongs
CHECK_DEADLOCK FALSE
