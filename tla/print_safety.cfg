SPECIFICATION Spec
CONSTANTS
  Order = {o1}
  Request = {r1, r2}
  Loop = loop
  Deferred = TRUE
  MaxAttempts = 2
  MaxLost = 0
  MaxCrashes = 1
SYMMETRY Symmetry
CHECK_DEADLOCK FALSE
INVARIANTS
  TypeOK
  PrintedOnce
  OneSlip
  EndedTicketIsStopped
PROPERTIES
  SlipMissedInThreeWays
