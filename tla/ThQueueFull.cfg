\* Every operation, in any mix, including pushes that do not notify.
SPECIFICATION Spec
CONSTANTS
  c1 = c1
  c2 = c2
  c3 = c3
  Callers <- MCCallers2
  Kinds = {"pop_front", "swap", "wait"}
  Notifies = {TRUE, FALSE}
  Caps = {1}
  Batches = {2}
  Fronts = TRUE
  Reuses = TRUE
  MaxPush = 3
  MaxNotify = 1
SYMMETRY MCSymmetry
INVARIANTS Inv SleepersAreCurrent
