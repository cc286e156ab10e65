--------------------------- MODULE MCOrderPayment ---------------------------
(* OrderPayment on small instances. *)
EXTENDS OrderPayment, TLC

\* Orders, coupons and request sessions are interchangeable: no definition
\* names one of them.  (The stale-order loop is not a request session.)
Symmetry == Permutations(Order) \cup Permutations(Coupon) \cup Permutations(Request)
=============================================================================
