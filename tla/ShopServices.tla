----------------------------- MODULE ShopServices -----------------------------
(***************************************************************************)
(* The services around an order, checked in one run: a behaviour runs one  *)
(* of them and leaves the others at rest.  Each module has its own orders  *)
(* or coupons, with the columns of the row that this service uses; what    *)
(* two services do to one row at the same time is not modelled here.       *)
(***************************************************************************)
EXTENDS TableService, PaymentHandoff, QueueTickets, CouponRewards, PlatformBilling

VARIABLE running      \* the service this behaviour runs

servicesVars == <<running, tableVars, handoffVars, queueVars, couponVars, billingVars>>

Service == {"table", "handoff", "queue", "coupon", "billing"}

InitServices ==
  /\ running \in Service
  /\ InitTable /\ InitHandoff /\ InitQueue /\ InitCoupon /\ InitBilling
  \* a service that does not run starts in one of its initial states
  /\ running # "table" => printFirst
  /\ running # "handoff" => \A o \in Assisted : ~assisted[o].free
  /\ running # "coupon" => byStaff
  /\ running # "billing" => subs = <<>>

NextServices ==
  /\ UNCHANGED running
  /\ \/ /\ running = "table" /\ NextTable
        /\ UNCHANGED <<handoffVars, queueVars, couponVars, billingVars>>
     \/ /\ running = "handoff" /\ NextHandoff
        /\ UNCHANGED <<tableVars, queueVars, couponVars, billingVars>>
     \/ /\ running = "queue" /\ NextQueue
        /\ UNCHANGED <<tableVars, handoffVars, couponVars, billingVars>>
     \/ /\ running = "coupon" /\ NextCoupon
        /\ UNCHANGED <<tableVars, handoffVars, queueVars, billingVars>>
     \/ /\ running = "billing" /\ NextBilling
        /\ UNCHANGED <<tableVars, handoffVars, queueVars, couponVars>>

ServicesSpec == InitServices /\ [][NextServices]_servicesVars

\* Every row and every open request of each service has its type.
ServicesTypeOK == TableTypeOK /\ HandoffTypeOK /\ QueueTypeOK /\ CouponTypeOK /\ BillingTypeOK
=============================================================================
