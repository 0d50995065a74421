\* The smallest instance: the lost signal needs no samples.
CONSTANTS
  Size = 2
  HighWater = 1
  Fragment = 1
  MaxRecorded = 1
SPECIFICATION Spec
PROPERTIES CloseReturns
