\* The library's own use of the queue: three consumers, a fair scheduler.
SPECIFICATION FairSpec
CONSTANTS
  c1 = c1
  c2 = c2
  c3 = c3
  Callers <- MCCallers3
  Kinds = {"pop_front"}
  Notifies = {TRUE}
  Caps = {}
  Batches = {2}
  Fronts = FALSE
  Reuses = FALSE
  MaxPush = 2
  MaxNotify = 1
INVARIANTS FifoOrder NoLostWakeup
PROPERTIES NotifyReleases
