SPECIFICATION Spec
CONSTANTS
  Order = {o1, o2, o3}
  Caller = {a, b}
  Nobody = Nobody
  MaxEntries = 1
  Ttl = 3
  SecondTry = 1
  ThirdTry = 2
  MinCooldown = 3
  MaxCooldown = 3
  MaxTime = 4
SYMMETRY Symmetry
CHECK_DEADLOCK FALSE
INVARIANTS
  FlightIsRunning
  EntriesBounded
PROPERTIES
  QueriesSpaced
  ImplementsSingleQuery
