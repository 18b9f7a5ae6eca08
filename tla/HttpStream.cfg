\* Messages of up to some forty symbols, cut anywhere; a buffer some of them
\* fill; a small ULLONG_MAX, so that lengths overflow.
SPECIFICATION Spec
CONSTANTS
  U = 99
  MaxHeader = 40
  Cap = 36
  Servers <- MCServers
  Pieces = {1, 3}
  Routes <- MCRoutes
  BigFiles <- MCBigFiles
  Talks <- MCTalks
INVARIANTS Inv CutIndependent RequestFaithful GoodServedUnlessSpoiled
CHECK_DEADLOCK FALSE
