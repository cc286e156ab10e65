------------------------------ MODULE MoneyLedger ------------------------------
(***************************************************************************)
(* What the payment code promises about money, with no sessions, locks,    *)
(* callbacks or provider queries: a payment is captured by the provider,   *)
(* then booked by the shop; the kitchen works on booked orders only, and   *)
(* only a booked payment is ever sent back, at most once.                  *)
(***************************************************************************)
CONSTANT Order

VARIABLES
  captured,  \* the provider holds the customer's money
  booked,    \* the shop knows it (payment_status = 'paid')
  kitchen,   \* the order is in the kitchen or was served
  returned   \* the provider was asked to send the money back

vars == <<captured, booked, kitchen, returned>>

Init == captured = {} /\ booked = {} /\ kitchen = {} /\ returned = {}

Capture(o) ==
  /\ captured' = captured \cup {o}
  /\ UNCHANGED <<booked, kitchen, returned>>

\* Booking an order may hand it to the kitchen in the same transaction.
Book(o) ==
  /\ o \in captured
  /\ booked' = booked \cup {o}
  /\ kitchen' \in {kitchen, kitchen \cup {o}}
  /\ UNCHANGED <<captured, returned>>

Cook(o) ==
  /\ o \in booked
  /\ kitchen' = kitchen \cup {o}
  /\ UNCHANGED <<captured, booked, returned>>

Stop(o) ==
  /\ kitchen' = kitchen \ {o}
  /\ UNCHANGED <<captured, booked, returned>>

Return(o) ==
  /\ o \in booked \ returned
  /\ returned' = returned \cup {o}
  /\ UNCHANGED <<captured, booked, kitchen>>

Next == \E o \in Order : Capture(o) \/ Book(o) \/ Cook(o) \/ Stop(o) \/ Return(o)

Spec == Init /\ [][Next]_vars
=============================================================================
