\* The shipped proportions: wind-back and background as long as the hold-off,
\* the window longer, a ring that five frames overflow and whose size is no
\* multiple of a buffer.
CONSTANTS
  StackSize = 6
  BlockLen = 4
  Windback = 2
  Capacity = 19
  FrameSize = 2
  PerFrame = 2
  WindbackRoom = 8
  BosComfort = 1
  EosComfort = 1
  BgSniff = 2
  UtteranceTimeout = 4
  HoldOff = 2
  MaxHeard = 16
SPECIFICATION Spec
INVARIANTS WaveformWasRecorded
