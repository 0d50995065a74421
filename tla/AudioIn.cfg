\* Fragments that do not divide the FIFO, so that chunks wrap and overrun it
\* at every alignment; a recording longer than the FIFO and one fragment.
CONSTANTS
  Size = 3
  HighWater = 2
  Fragment = 2
  MaxRecorded = 5
SPECIFICATION Spec
INVARIANTS TypeOK IdleWhileClosed ReadsOpenDevice RecordingInOrder CallbackInOrder
PROPERTIES WaitingCloseReturns OpenStartsReading
