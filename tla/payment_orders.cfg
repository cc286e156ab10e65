SPECIFICATION Spec
CONSTANTS
  Order = {o1, o2}
  Coupon = {c1}
  NoCoupon = NoCoupon
  Request = {r1}
  Cleaner = cleaner
  InitStock = 1
  PrintFirst = TRUE
  MaxCrashes = 0
SYMMETRY Symmetry
CHECK_DEADLOCK FALSE
INVARIANTS
  TypeOK
  NoStrandedCoupon
  NoStockLost
