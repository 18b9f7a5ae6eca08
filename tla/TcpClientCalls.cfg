\* Four calls over up to three connections; packets of two bytes, and a
\* kernel buffer of three, so that a second request may be written in parts.
SPECIFICATION FairSpec
CONSTANTS
  PktLen = 2
  SndCap = 3
  BufCap = 4
  MaxCalls = 4
  MaxConns = 3
INVARIANTS Inv OwnAnswer SafeUnlessLost
PROPERTIES CallReturns
CHECK_DEADLOCK FALSE
