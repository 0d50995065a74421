\* Both modes, every fault of Start, two threads.  The ring overflows after two
\* and a half frames, the wind-back crosses the hold-off, speech may time out.
\* A PutAudio that overflows keeps the lock for good: then both threads stop.
CONSTANTS
  StackSize = 5
  BlockLen = 3
  Windback = 1
  Capacity = 5
  FrameSize = 2
  BgSniff = 2
  UtteranceTimeout = 3
  HoldOff = 1
  GatedModes <- MCBothModes
  StartFaults <- MCStartFaults
  PutSizes <- MCPutSizes
  MaxFrames = 5
SPECIFICATION Spec
INVARIANTS TypeOK RunningMatchesState CollectingMatchesState FramesAccounted AdvanceNeverFails ListeningKeepsUp
CHECK_DEADLOCK FALSE
PROPERTY LastFrameEndsUtterance
