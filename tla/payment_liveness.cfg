SPECIFICATION FairSpec
CONSTANTS
  Order = {o1}
  Coupon = {c1}
  NoCoupon = NoCoupon
  Request = {r1}
  Cleaner = cleaner
  InitStock = 1
  PrintFirst = TRUE
  MaxCrashes = 2
CHECK_DEADLOCK FALSE
PROPERTIES
  PendingPaymentEnds
  LoopBooksThePayment
  CapturedIsBooked
  LatePaymentIsSentBack
  JoinersAreAnswered
