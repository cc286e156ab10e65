--------------------------- MODULE PaymentHandoff ---------------------------
(* A waiter orders for a guest and hands the payment over by a code the     *)
(* guest scans: payment_handoff_service, its API, and the places in         *)
(* order_payment_service that end a handoff.  Creating a handoff and paying *)
(* an order lock the order before the handoffs; claiming locks them in the  *)
(* opposite order, so that the database may have to roll one back; whoever  *)
(* looks a handoff up locks nothing and writes what its copies say.         *)
EXTENDS Naturals, FiniteSets

CONSTANTS
  Assisted,        \* orders a waiter placed for a guest, to be paid before cooking
  Handoff,         \* handoff rows, each with the code it was made for
  Scanner,         \* customers that scan a code
  Server,          \* requests that run at the same time
  NoAssisted, NoHandoff, NoScanner

ASSUME HandoffAssumption ==
  /\ NoAssisted \notin Assisted /\ NoHandoff \notin Handoff /\ NoScanner \notin Scanner
  /\ IsFiniteSet(Handoff)

VARIABLES
  assisted,        \* order -> its row
  handoff,         \* handoff -> its row
  serving          \* server -> the transaction it has open

handoffVars == <<assisted, handoff, serving>>

NoHandoffRow == [status |-> "none", order |-> NoAssisted, at |-> 0, claimedBy |-> NoScanner,
                 lapsed |-> FALSE]
NotServing == [pc |-> "idle", order |-> NoAssisted, handoff |-> NoHandoff, customer |-> NoScanner,
               paid |-> FALSE]

InitHandoff ==
  /\ assisted \in [Assisted -> [status : {"pending_payment"}, paid : {FALSE}, free : BOOLEAN,
                                customer : {NoScanner}]]
  /\ handoff = [h \in Handoff |-> NoHandoffRow]
  /\ serving = [p \in Server |-> NotServing]

ActiveStatuses == {"PENDING_SCAN", "CLAIMED"}
HandoffsOf(o) == {h \in Handoff : handoff[h].order = o}
ActiveHandoffs(o) == {h \in HandoffsOf(o) : handoff[h].status \in ActiveStatuses}
NewestActive(o) == {h \in ActiveHandoffs(o) : \A x \in ActiveHandoffs(o) : handoff[x].at <= handoff[h].at}
OrderLocked(o) == \E p \in Server : serving[p].order = o /\ serving[p].pc \in {"creating", "paying"}
RowLocked(h) == \E p \in Server : serving[p].handoff = h /\ serving[p].pc = "claiming"
Payable(order) == order.status = "pending_payment" /\ ~order.paid

\* The waiter asks for a code: the order is locked and must still be unpaid.
BeginCreate(p, o) ==
  /\ serving[p].pc = "idle" /\ ~OrderLocked(o) /\ Payable(assisted[o])
  /\ serving' = [serving EXCEPT ![p] = [NotServing EXCEPT !.pc = "creating", !.order = o]]
  /\ UNCHANGED <<assisted, handoff>>

\* Mutant: the older codes stay.
AddHandoff(p, h) ==
  /\ serving[p].pc = "creating" /\ handoff[h].status = "none"
  /\ handoff' = [handoff EXCEPT ![h] = [NoHandoffRow EXCEPT !.status = "PENDING_SCAN",
       !.order = serving[p].order, !.at = Cardinality(HandoffsOf(serving[p].order)) + 1]]
  /\ serving' = [serving EXCEPT ![p] = NotServing]
  /\ UNCHANGED assisted

\* The older codes of the order are cancelled, the new one is written.
CreateHandoff(p, h) ==
  LET o == serving[p].order IN
  /\ serving[p].pc = "creating" /\ handoff[h].status = "none"
  /\ \A x \in ActiveHandoffs(o) : ~RowLocked(x)
  /\ handoff' = [x \in Handoff |->
       IF x = h THEN [NoHandoffRow EXCEPT !.status = "PENDING_SCAN", !.order = o,
                                          !.at = Cardinality(HandoffsOf(o)) + 1]
       ELSE IF x \in ActiveHandoffs(o) THEN [handoff[x] EXCEPT !.status = "CANCELLED"]
       ELSE handoff[x]]
  /\ serving' = [serving EXCEPT ![p] = NotServing]
  /\ UNCHANGED assisted

\* A guest that logged in claims the code it scanned: the handoff is locked first.
BeginClaim(p, h, c) ==
  /\ serving[p].pc = "idle" /\ handoff[h].status # "none" /\ ~RowLocked(h)
  /\ serving' = [serving EXCEPT ![p] =
       [NotServing EXCEPT !.pc = "claiming", !.handoff = h, !.customer = c]]
  /\ UNCHANGED <<assisted, handoff>>

\* A handoff is over when its order is paid, or when its ten minutes are.
Expired(row, paid) == row.status \in ActiveStatuses /\ ~paid /\ row.lapsed
MayClaim(row, order, c) ==
  /\ row.status # "EXPIRED" /\ ~Expired(row, order.paid)
  /\ row.status # "CANCELLED" /\ Payable(order)
  /\ row.claimedBy \in {NoScanner, c}
  /\ order.customer \in {NoScanner, c}

\* The order is locked second.  The customer becomes the order's; a guest that asked
\* to pay an order that costs nothing has paid it with that.
ClaimHandoff(p, pay) ==
  LET h == serving[p].handoff
      o == handoff[h].order
      c == serving[p].customer
      settles == pay /\ assisted[o].free
  IN
  /\ serving[p].pc = "claiming" /\ ~OrderLocked(o)
  /\ serving' = [serving EXCEPT ![p] = NotServing]
  /\ IF MayClaim(handoff[h], assisted[o], c)
     THEN /\ assisted' = [assisted EXCEPT
               ![o].customer = c,
               ![o].paid = settles,
               ![o].status = IF settles THEN "pending" ELSE @]
          /\ handoff' = [handoff EXCEPT
               ![h].status = IF settles THEN "PAID" ELSE "CLAIMED",
               ![h].claimedBy = c]
     ELSE UNCHANGED <<assisted, handoff>>       \* refused: all is rolled back

\* A payment is confirmed for an order: by a notification or a query, which come
\* again, and only after somebody could ask for the payment.
BeginPay(p, o) ==
  /\ serving[p].pc = "idle" /\ ~OrderLocked(o)
  /\ assisted[o].customer # NoScanner /\ ~assisted[o].free /\ ~assisted[o].paid
  /\ serving' = [serving EXCEPT ![p] = [NotServing EXCEPT !.pc = "paying", !.order = o]]
  /\ UNCHANGED <<assisted, handoff>>

\* Mutant: a late payment leaves the handoffs alone.
PayOrderOnly(p) ==
  LET o == serving[p].order
      inTime == assisted[o].status = "pending_payment"
      over == IF inTime THEN NewestActive(o) ELSE {}
  IN
  /\ serving[p].pc = "paying"
  /\ \A h \in over : ~RowLocked(h)
  /\ assisted' = [assisted EXCEPT ![o].paid = TRUE, ![o].status = IF inTime THEN "pending" ELSE @]
  /\ handoff' = [h \in Handoff |-> IF h \in over THEN [handoff[h] EXCEPT !.status = "PAID"] ELSE handoff[h]]
  /\ serving' = [serving EXCEPT ![p] = NotServing]

\* It pays the order and its newest open handoff; for an order that was cancelled
\* meanwhile it records the money and cancels the handoffs.
PayHandoff(p) ==
  LET o == serving[p].order
      inTime == assisted[o].status = "pending_payment"
      over == IF inTime THEN NewestActive(o) ELSE ActiveHandoffs(o)
  IN
  /\ serving[p].pc = "paying"
  /\ \A h \in over : ~RowLocked(h)
  /\ assisted' = [assisted EXCEPT ![o].paid = TRUE, ![o].status = IF inTime THEN "pending" ELSE @]
  /\ handoff' = [h \in Handoff |->
       IF h \in over THEN [handoff[h] EXCEPT !.status = IF inTime THEN "PAID" ELSE "CANCELLED"]
       ELSE handoff[h]]
  /\ serving' = [serving EXCEPT ![p] = NotServing]

\* The transaction fails: a lost connection, a restart, or the database ends a
\* deadlock of a claim with a creation or a payment.
RollBack(p) ==
  /\ serving[p].pc \in {"creating", "claiming", "paying"}
  /\ serving' = [serving EXCEPT ![p] = NotServing]
  /\ UNCHANGED <<assisted, handoff>>

\* A guest looks a code up, or the waiter's page asks for the newest one.  Of the
\* copies it reads, only those of an open handoff can make it write.
LookUp(p, h) ==
  /\ serving[p].pc = "idle" /\ handoff[h].status \in ActiveStatuses
  /\ serving' = [serving EXCEPT ![p] =
       [NotServing EXCEPT !.pc = "looking", !.handoff = h, !.paid = assisted[handoff[h].order].paid]]
  /\ UNCHANGED <<assisted, handoff>>

\* expire_if_needed: what the copies say, over whatever the row says by now.
WriteBack(p) ==
  LET h == serving[p].handoff IN
  /\ serving[p].pc = "looking" /\ ~RowLocked(h)
  /\ handoff' = [handoff EXCEPT ![h].status =
       IF serving[p].paid THEN "PAID" ELSE IF handoff[h].lapsed THEN "EXPIRED" ELSE @]
  /\ serving' = [serving EXCEPT ![p] = NotServing]
  /\ UNCHANGED assisted

\* Ten minutes pass.
Lapse(h) ==
  /\ handoff[h].status # "none" /\ ~handoff[h].lapsed
  /\ handoff' = [handoff EXCEPT ![h].lapsed = TRUE]
  /\ UNCHANGED <<assisted, serving>>

\* The order ends without payment: cancelled by the waiter or timed out.
EndUnpaid(o) ==
  /\ ~OrderLocked(o) /\ Payable(assisted[o])
  /\ assisted' = [assisted EXCEPT ![o].status = "cancelled"]
  /\ UNCHANGED <<handoff, serving>>

NextHandoff ==
  \/ \E p \in Server, o \in Assisted : BeginCreate(p, o) \/ BeginPay(p, o)
  \/ \E p \in Server, h \in Handoff : CreateHandoff(p, h) \/ LookUp(p, h)
  \/ \E p \in Server, h \in Handoff, c \in Scanner : BeginClaim(p, h, c)
  \/ \E p \in Server, pay \in BOOLEAN : ClaimHandoff(p, pay)
  \/ \E p \in Server : PayHandoff(p) \/ RollBack(p) \/ WriteBack(p)
  \/ \E h \in Handoff : Lapse(h)
  \/ \E o \in Assisted : EndUnpaid(o)

HandoffSpec == InitHandoff /\ [][NextHandoff]_handoffVars

-----------------------------------------------------------------------------
HandoffRow == [status : ActiveStatuses \cup {"none", "PAID", "CANCELLED", "EXPIRED"},
               order : Assisted \cup {NoAssisted}, at : Nat,
               claimedBy : Scanner \cup {NoScanner}, lapsed : BOOLEAN]

AssistedRow == [status : {"pending_payment", "pending", "cancelled"}, paid : BOOLEAN,
                free : BOOLEAN, customer : Scanner \cup {NoScanner}]
ServingRow == [pc : {"idle", "creating", "claiming", "paying", "looking"},
               order : Assisted \cup {NoAssisted}, handoff : Handoff \cup {NoHandoff},
               customer : Scanner \cup {NoScanner}, paid : BOOLEAN]

\* Every row and every open request holds what its columns can hold.
HandoffTypeOK ==
  /\ assisted \in [Assisted -> AssistedRow]
  /\ handoff \in [Handoff -> HandoffRow]
  /\ serving \in [Server -> ServingRow]

\* However often the waiter asks for a code, and whoever scans an older one
\* meanwhile, an order has one code that can be paid.
OneActiveHandoff == \A o \in Assisted : Cardinality(ActiveHandoffs(o)) <= 1

\* Once the money is there no code for the order can be claimed any more, also when
\* it came late, or while a new code was being made.
PaidLeavesNoHandoff == \A o \in Assisted : assisted[o].paid => ActiveHandoffs(o) = {}

\* The customer an order's payment is asked from and credited to never changes: a
\* second guest cannot take over an order, by an old code or by a new one.
CustomerIsKept ==
  [][\A o \in Assisted : assisted[o].customer # NoScanner
                           => assisted'[o].customer = assisted[o].customer]_handoffVars

=============================================================================
