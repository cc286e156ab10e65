SPECIFICATION Spec
CONSTANTS
  Order = {o1}
  Request = {r1, r2}
  Loop = loop
  Deferred = TRUE
  MaxAttempts = 2
  MaxLost = 1
  MaxCrashes = 0
SYMMETRY Symmetry
CHECK_DEADLOCK FALSE
INVARIANT
  DispatchedOnce
