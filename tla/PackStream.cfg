\* Three requests in pieces of two bytes, or two byte by byte.
SPECIFICATION MCSpec
CONSTANTS
  H = 2
  Cap = 5
  Kinds <- MCKinds
  Pieces = {2}
  Claims = {3, 4}
  Workers = 2
  MaxReq = 3
INVARIANTS Inv AloneServed OwnAnswer
CHECK_DEADLOCK FALSE
