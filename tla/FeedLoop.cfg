\* Gated mode with the proportions of config/en.us/baseline.par: the wind-back
\* covers the frames the background needs, the hold-off covers the wind-back,
\* and the ring is as small as it may be: one unit less and it overflows.
CONSTANTS
  StackSize = 5
  BlockLen = 3
  Windback = 2
  Capacity = 8
  FrameSize = 2
  BgSniff = 2
  UtteranceTimeout = 5
  HoldOff = 2
  GatedModes <- MCGatedOnly
  StartFaults <- MCNoFaults
  PutSizes <- MCPutSizes
  MaxFrames = 8
SPECIFICATION FeedSpec
INVARIANTS NeverOverflows LastFrameBelongs FreshRing
PROPERTIES FeedReturns FlushEnds
