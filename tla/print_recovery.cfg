SPECIFICATION FairSpec
CONSTANTS
  Order = {o1}
  Request = {r1}
  Loop = loop
  Deferred = TRUE
  MaxAttempts = 2
  MaxLost = 1
  MaxCrashes = 1
CHECK_DEADLOCK FALSE
INVARIANT
  PrintStateIsTrue
PROPERTIES
  
  SendingIsDecided
