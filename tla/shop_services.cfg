SPECIFICATION ServicesSpec
CONSTANTS
  NoSitting = NoSitting
  NoOrder = NoOrder
  NoRequest = NoRequest
  NoAssisted = NoAssisted
  NoHandoff = NoHandoff
  NoScanner = NoScanner
  NoVisitor = NoVisitor
  NoType = NoType
  NoCoupon = NoCoupon
  NoInvoice = NoInvoice
  NoPayment = NoPayment
  Sitting = {a1, a2}
  TableOrder = {b1, b2}
  Request = {b1, b2}
  Guest = {c1, c2}
  Waiter = {w1}
  Till = {c1, c2}
  Assisted = {w1}
  Handoff = {b1, b2}
  Scanner = {a1, a2}
  Server = {c1, c2}
  QueueType = {w1}
  Ticket = {a1, a2}
  Visitor = {w1}
  Kiosk = {b1, b2}
  FrontDesk = {c1, c2}
  SecondsPerDay = 2
  LastSecond = 2
  Attempts = 2
  Coupon = {a1, a2}
  Counter = {b1, b2}
  Invoice = {a1, a2}
  Payment = {b1, b2}
  Biller = {c1, c2}
  Cashier = {d1, d2}
  Plan = {"STANDARD", "PRO"}
  Provider = {"MANUAL", "FAKE"}
  Period = 1
  Term = 1
  Hold = 1
  MaxDay = 1
SYMMETRY Symmetry
CHECK_DEADLOCK FALSE
INVARIANTS
  ServicesTypeOK
  NoMealEscapesTheBill
  BilledOnce
  OneOrderPerRequest
  OneActiveHandoff
  PaidLeavesNoHandoff
  NumbersRunOn
  OneSuccessPerInvoice
  EarnedInsideTheTerm
  SettledOnce
  RewardedOnce
  VerifiedOnce
PROPERTIES
  CalledInTurn
