SPECIFICATION Spec
CONSTANTS
  Order = {o1}
  Coupon = {}
  NoCoupon = NoCoupon
  Request = {r1, r2}
  Cleaner = cleaner
  InitStock = 1
  PrintFirst = FALSE
  MaxCrashes = 0
SYMMETRY Symmetry
CHECK_DEADLOCK FALSE
INVARIANTS
  UnpaidNeverFulfilled
  PaidMeansCaptured
  RefundBackedByProvider
  KitchenOrderIsCredited
PROPERTIES
  OnlyStaleCopiesMislead
  ImplementsLedger
  ImplementsGate
