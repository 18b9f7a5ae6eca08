\* Two levels, two days, files of two entries, one number; a second start, and
\* two faults of any kind.
SPECIFICATION FairSpec
CONSTANTS
  Levels = {2, 4}
  level = 4
  SingleFiles = {TRUE, FALSE}
  LenOf <- MCLenOf
  FileSize = 2
  Cap = 1
  MaxPos = 1
  Days = 2
  MaxPush = 3
  MaxStart = 2
  MaxFault = 2
INVARIANTS Inv Accounted
PROPERTIES Progress
CHECK_DEADLOCK FALSE
