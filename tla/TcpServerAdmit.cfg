\* Admission and placement while connections come and go.
SPECIFICATION FairSpec
CONSTANTS
  N = 3
  MaxConn = 4
  MaxPeers = 6
INVARIANTS Inv AdmittedPlaced
PROPERTIES BacklogServed
CHECK_DEADLOCK FALSE
