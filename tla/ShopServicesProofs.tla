-------------------------- MODULE ShopServicesProofs --------------------------
(***************************************************************************)
(* The types of the five services in the composition that the run checks.  *)
(***************************************************************************)
EXTENDS ShopServices, ShopFloorProofs, MerchantMoneyProofs

\* What is proved of a service holds of the composition, by the way it is built:
\* NextServices runs one service and leaves the variables of the others alone.
LEMMA ServicesAreApart ==
  ServicesSpec => TableSpec /\ HandoffSpec /\ QueueSpec /\ CouponSpec /\ BillingSpec
  <1>1. InitServices => InitTable /\ InitHandoff /\ InitQueue /\ InitCoupon /\ InitBilling
    BY DEF InitServices
  <1>2. [NextServices]_servicesVars => [NextTable]_tableVars
    BY DEF NextServices, servicesVars
  <1>3. [NextServices]_servicesVars => [NextHandoff]_handoffVars
    BY DEF NextServices, servicesVars
  <1>4. [NextServices]_servicesVars => [NextQueue]_queueVars
    BY DEF NextServices, servicesVars
  <1>5. [NextServices]_servicesVars => [NextCoupon]_couponVars
    BY DEF NextServices, servicesVars
  <1>6. [NextServices]_servicesVars => [NextBilling]_billingVars
    BY DEF NextServices, servicesVars
  <1> QED
    BY <1>1, <1>2, <1>3, <1>4, <1>5, <1>6, PTL
    DEF ServicesSpec, TableSpec, HandoffSpec, QueueSpec, CouponSpec, BillingSpec

\* Every row and every open request of each service has its type.
THEOREM ServicesTypeCorrect == ServicesSpec => []ServicesTypeOK
  <1>1. /\ TableInv => TableTypeOK
        /\ HandoffInv => HandoffTypeOK
        /\ QueueInv => QueueTypeOK
        /\ CouponInv => CouponTypeOK
        /\ BillingInv => BillingTypeOK
    BY DEF TableInv, HandoffInv, QueueInv, CouponInv, BillingInv
  <1>2. /\ TableTypeOK /\ HandoffTypeOK /\ QueueTypeOK /\ CouponTypeOK /\ BillingTypeOK
           => ServicesTypeOK
    BY DEF ServicesTypeOK
  <1> QED
    BY <1>1, <1>2, ServicesAreApart, TableInvHolds, HandoffInvHolds, QueueInvHolds,
       CouponInvHolds, BillingInvHolds, PTL
=============================================================================
