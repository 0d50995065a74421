\* A stack of five slots keeping three frames: the pointers wrap, pushes block
\* on the reader and on the kept frames, seeks cross the hold-off.
CONSTANTS
  StackSize = 5
  BlockLen = 3
  Windback = 1
  HoldOffs <- MCHoldOffs
  UttTimeout = 1
  MaxQuiet = 2
  None = None
SPECIFICATION Spec
INVARIANTS TypeOK PointersInOrder KeepsAtMostBlockLen FixupResumesInWindow
PROPERTY ImplementsWindow
