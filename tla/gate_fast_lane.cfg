SPECIFICATION Spec
CONSTANTS
  Order = {o1}
  Caller = {a}
  Nobody = Nobody
  MaxEntries = 1
  Ttl = 4
  SecondTry = 2
  ThirdTry = 3
  MinCooldown = 4
  MaxCooldown = 4
  MaxTime = 6
CHECK_DEADLOCK FALSE
PROPERTY
  FastLaneOnSchedule
