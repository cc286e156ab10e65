-------------------------- MODULE PlatformBilling --------------------------
(* What a merchant pays the platform: invoices, payment attempts that a     *)
(* human confirms or a provider reports, the subscription a paid invoice    *)
(* extends, the channel partner's commission on it and its settlement.      *)
(* Of billing_service, subscription_service, channel_commission_service,    *)
(* channel_settlement_service and channel_partner_service, for one tenant.  *)
(* A payment is booked by one transaction that takes the payment row, the   *)
(* invoice, the channel binding and the tenant, in this order; its ordinary *)
(* reads see the database as it was at the first of them.  Uncommitted      *)
(* writes live in the transaction's record and are published by its commit. *)
EXTENDS Naturals, Sequences, FiniteSets

CONSTANTS
  Invoice, Payment,
  Biller,          \* requests that book a payment, at the same time
  Cashier,         \* requests that settle commissions
  NoInvoice, NoPayment,
  Plan,            \* the plans a merchant can buy
  Provider,        \* the payment providers that are switched on
  Period,          \* days a purchase adds
  Term,            \* days a channel binding earns commission
  Hold,            \* days until a commission can be settled
  MaxDay           \* bound: the last day explored

ASSUME BillingAssumption ==
  /\ NoInvoice \notin Invoice /\ NoPayment \notin Payment
  /\ Provider \subseteq {"MANUAL", "FAKE"}
  /\ {"TRIAL", "ADDON", "OTHER", "none"} \cap Plan = {}
  /\ Period \in Nat \ {0} /\ Term \in Nat \ {0} /\ Hold \in Nat /\ MaxDay \in Nat

VARIABLES
  day,             \* the clock
  charge,          \* invoice -> what it is for, "none" before it is created
  invoice,         \* invoice -> status
  payment,         \* payment -> its row
  binding,         \* the tenant's channel binding
  ledger,          \* invoice -> the commission (EARN) entry it gave rise to
  subs,            \* the tenant's subscription rows, oldest first
  booking,         \* biller -> its open transaction
  settling,        \* cashier -> the entries its open transaction holds
  items            \* invoice -> settlement items written for its entry

billingVars == <<day, charge, invoice, payment, binding, ledger, subs, booking, settling, items>>

Charge == Plan \cup {"ADDON", "OTHER"}
Eligible == Plan \cup {"ADDON"}
NoRow == [plan |-> "none", of |-> NoInvoice, ends |-> 0]
Idle == [pc |-> "idle", payment |-> NoPayment, paidAt |-> 0, seen |-> NoRow,
         earns |-> FALSE, starts |-> FALSE]
NoPaymentRow ==
  [invoice |-> NoInvoice, provider |-> "none", status |-> "none", review |-> "none",
   anomaly |-> FALSE, paidAt |-> 0]
NoBinding == [status |-> "none", started |-> FALSE, start |-> 0, ends |-> 0]
NoEntry == [status |-> "none", payment |-> NoPayment, earnedAt |-> 0]

NothingHeld == [chosen |-> {}, due |-> {}]

InitBilling ==
  /\ day = 0
  /\ charge = [i \in Invoice |-> "none"]
  /\ invoice = [i \in Invoice |-> "none"]
  /\ payment = [p \in Payment |-> NoPaymentRow]
  /\ binding = NoBinding
  /\ ledger = [i \in Invoice |-> NoEntry]
  \* a tenant that registered itself starts on a trial of one of the plans
  /\ subs \in {<<>>} \cup {<<[plan |-> "TRIAL", of |-> NoInvoice, ends |-> Period]>>}
  /\ booking = [b \in Biller |-> Idle]
  /\ settling = [c \in Cashier |-> NothingHeld]
  /\ items = [i \in Invoice |-> 0]

PaymentLocked(p) == \E b \in Biller : booking[b].payment = p
InvoiceLocked(i) ==
  \E b \in Biller : booking[b].pc \in {"invoice", "bound", "unbound"} /\ payment[booking[b].payment].invoice = i
BindingLocked == \E b \in Biller : booking[b].pc = "bound"
EntryUnlocked(i) == FALSE    \* Mutant: the selects of a settlement do not lock.
EntryLocked(i) == \E c \in Cashier : i \in settling[c].chosen \cup settling[c].due
LastRow(rows) == IF rows = <<>> THEN NoRow ELSE rows[Len(rows)]

\* A paid plan that has not run out yet blocks every other plan.
CrossPlan(row, plan, at) == row.plan \in Plan /\ row.ends > at /\ row.plan # plan
\* A purchase extends whichever is later: what the tenant has, or today.
Extended(row, at) == (IF row.ends > at THEN row.ends ELSE at) + Period

CreateInvoice(i, c) ==
  /\ invoice[i] = "none"
  /\ c \in Plan => ~CrossPlan(LastRow(subs), c, day)
  /\ charge' = [charge EXCEPT ![i] = c]
  /\ invoice' = [invoice EXCEPT ![i] = "PENDING"]
  /\ UNCHANGED <<day, payment, binding, ledger, subs, booking, settling, items>>

CreatePayment(p, i, provider) ==
  /\ payment[p].status = "none"
  /\ ~InvoiceLocked(i) /\ invoice[i] = "PENDING"
  /\ payment' = [payment EXCEPT ![p] =
       [NoPaymentRow EXCEPT !.invoice = i, !.provider = provider, !.status = "PENDING"]]
  /\ UNCHANGED <<day, charge, invoice, binding, ledger, subs, booking, settling, items>>

\* The merchant says it has paid: this is a claim and books nothing.
ClaimPayment(p) ==
  /\ ~PaymentLocked(p)
  /\ payment[p].provider = "MANUAL" /\ payment[p].status = "PENDING"
  /\ payment[p].review # "WAITING"
  /\ payment' = [payment EXCEPT ![p].review = "WAITING"]
  /\ UNCHANGED <<day, charge, invoice, binding, ledger, subs, booking, settling, items>>

RejectPayment(p) ==
  /\ ~PaymentLocked(p)
  /\ payment[p].provider = "MANUAL" /\ payment[p].status = "PENDING"
  /\ payment[p].review = "WAITING"
  /\ payment' = [payment EXCEPT ![p].review = "REJECTED"]
  /\ UNCHANGED <<day, charge, invoice, binding, ledger, subs, booking, settling, items>>

\* A super admin confirms, or the provider reports, that payment p arrived: the
\* transaction locks its row.  The paid time is the time of the request.  (The
\* review becomes CONFIRMED in the same transaction, see BookPayment.)
MayBook(p) ==
  \/ payment[p].provider = "MANUAL" /\ payment[p].status = "PENDING" /\ payment[p].review = "WAITING"
  \/ payment[p].provider = "FAKE"      \* a report may come again: BeginBooking, then DropDuplicate
BeginBooking(b, p) ==
  /\ booking[b].pc = "idle" /\ ~PaymentLocked(p) /\ MayBook(p)
  /\ booking' = [booking EXCEPT ![b] =
       [Idle EXCEPT !.pc = "payment", !.payment = p, !.paidAt = day]]
  /\ UNCHANGED <<day, charge, invoice, payment, binding, ledger, subs, settling, items>>

\* The row a payment becomes when it is booked.
Booked(b, anomaly) ==
  LET row == payment[booking[b].payment]
  IN  [row EXCEPT !.status = "PAID", !.paidAt = booking[b].paidAt, !.anomaly = anomaly,
                  !.review = IF row.provider = "MANUAL" THEN "CONFIRMED" ELSE @]

\* Mutant: a duplicate is not told from the payment of the invoice.
DropDuplicateUnmarked(b) ==
  /\ booking[b].pc = "payment"
  /\ LET p == booking[b].payment
         i == payment[p].invoice
     IN  /\ ~InvoiceLocked(i)
         /\ \/ payment[p].status = "PAID" /\ UNCHANGED payment
            \/ /\ payment[p].status # "PAID" /\ invoice[i] = "PAID"
               /\ payment' = [payment EXCEPT ![p] = Booked(b, FALSE)]
  /\ booking' = [booking EXCEPT ![b] = Idle]
  /\ UNCHANGED <<day, charge, invoice, binding, ledger, subs, settling, items>>

\* With the invoice locked: a payment that is PAID already is left alone, one
\* for an invoice that is PAID already is recorded as a duplicate.
DropDuplicate(b) ==
  /\ booking[b].pc = "payment"
  /\ LET p == booking[b].payment
         i == payment[p].invoice
     IN  /\ ~InvoiceLocked(i)
         /\ \/ payment[p].status = "PAID" /\ UNCHANGED payment
            \/ /\ payment[p].status # "PAID" /\ invoice[i] = "PAID"
               /\ payment' = [payment EXCEPT ![p] = Booked(b, TRUE)]
  /\ booking' = [booking EXCEPT ![b] = Idle]
  /\ UNCHANGED <<day, charge, invoice, binding, ledger, subs, settling, items>>

\* Otherwise the success is processed.  The look-up of an earlier commission is
\* the transaction's first ordinary read: from here on it sees these rows only.
LockInvoice(b) ==
  /\ booking[b].pc = "payment"
  /\ LET p == booking[b].payment
         i == payment[p].invoice
     IN  ~InvoiceLocked(i) /\ payment[p].status # "PAID" /\ invoice[i] # "PAID"
  /\ booking' = [booking EXCEPT ![b].pc = "invoice", ![b].seen = LastRow(subs)]
  /\ UNCHANGED <<day, charge, invoice, payment, binding, ledger, subs, settling, items>>

\* The first commission starts the term; later ones must fall inside it.
TermWithoutEnd(at) ==    \* Mutant: the term's end is not written.
  [binding EXCEPT !.started = TRUE, !.start = at]
TermFrom(at) == [binding EXCEPT !.started = TRUE, !.start = at, !.ends = at + Term]
InTerm(at) == binding.started => (binding.start <= at /\ at < binding.ends)

\* handle_billing_payment_success: the binding is locked and decides whether the
\* partner earns on this payment.  No binding, or a charge that earns nothing:
\* nothing to lock.
LockBinding(b) ==
  /\ booking[b].pc = "invoice"
  /\ LET i == payment[booking[b].payment].invoice
         asks == charge[i] \in Eligible /\ ledger[i].status = "none" /\ binding.status = "ACTIVE"
     IN  /\ asks => ~BindingLocked
         /\ booking' = [booking EXCEPT ![b].pc = IF asks THEN "bound" ELSE "unbound",
                                       ![b].earns = asks /\ InTerm(booking[b].paidAt),
                                       ![b].starts = asks /\ ~binding.started]
  /\ UNCHANGED <<day, charge, invoice, payment, binding, ledger, subs, settling, items>>

\* The tenant is locked, the purchase applied and everything committed: the
\* review, the payment, the invoice, the binding's term, the commission entry
\* and the subscription row.  The row extends the one this transaction saw.
BookPayment(b) ==
  /\ booking[b].pc \in {"bound", "unbound"}
  /\ LET p == booking[b].payment
         i == payment[p].invoice
         at == booking[b].paidAt
         earns == booking[b].earns
     IN  /\ charge[i] \in Plan => ~CrossPlan(booking[b].seen, charge[i], at)
         /\ payment' = [payment EXCEPT ![p] = Booked(b, FALSE)]
         /\ invoice' = [invoice EXCEPT ![i] = "PAID"]
         /\ binding' = IF booking[b].starts THEN TermFrom(at) ELSE binding
         /\ ledger' = IF earns
                      THEN [ledger EXCEPT ![i] = [status |-> "PENDING", payment |-> p, earnedAt |-> at]]
                      ELSE ledger
         /\ subs' = IF charge[i] \in Plan
                    THEN Append(subs, [plan |-> charge[i], of |-> i,
                                       ends |-> Extended(booking[b].seen, at)])
                    ELSE subs
  /\ booking' = [booking EXCEPT ![b] = Idle]
  /\ UNCHANGED <<day, charge, settling, items>>

\* The other plan is still running: the purchase is refused and the whole
\* transaction rolled back, the confirmation with it.  A crash does the same.
AbandonBooking(b) ==
  /\ booking[b].pc # "idle"
  /\ booking' = [booking EXCEPT ![b] = Idle]
  /\ UNCHANGED <<day, charge, invoice, payment, binding, ledger, subs, settling, items>>

\* convert_lead_to_tenant_binding: a won lead binds the tenant, once.
BindChannel ==
  /\ binding.status = "none"
  /\ binding' = [binding EXCEPT !.status = "ACTIVE"]
  /\ UNCHANGED <<day, charge, invoice, payment, ledger, subs, booking, settling, items>>

\* promote_available: entries past their holding time can be settled.
Due == {i \in Invoice : ledger[i].status = "PENDING" /\ ledger[i].earnedAt + Hold <= day}
Marked(entries, status) ==
  [i \in Invoice |-> IF i \in entries THEN [ledger[i] EXCEPT !.status = status] ELSE ledger[i]]
PromoteAvailable ==
  /\ \A i \in Due : ~EntryLocked(i)
  /\ ledger' = Marked(Due, "AVAILABLE")
  /\ UNCHANGED <<day, charge, invoice, payment, binding, subs, booking, settling, items>>

\* create_manual_settlement locks the due entries (it promotes them) and the
\* chosen ones; every chosen one must then be available and in no settlement.
LockEntries(c, chosen) ==
  /\ settling[c] = NothingHeld /\ chosen # {}
  /\ \A i \in chosen : ledger[i].status # "none"
  /\ \A i \in chosen \cup Due : ~EntryLocked(i)
  /\ settling' = [settling EXCEPT ![c] = [chosen |-> chosen, due |-> Due]]
  /\ UNCHANGED <<day, charge, invoice, payment, binding, ledger, subs, booking, items>>

SettleEntries(c) ==
  LET chosen == settling[c].chosen
      due == settling[c].due
  IN  /\ chosen # {}
      /\ \A i \in chosen : items[i] = 0 /\ (i \in due \/ ledger[i].status = "AVAILABLE")
      /\ ledger' = [i \in Invoice |->
           IF i \in chosen THEN [ledger[i] EXCEPT !.status = "SETTLED"]
           ELSE Marked(due, "AVAILABLE")[i]]
      /\ items' = [i \in Invoice |-> IF i \in chosen THEN items[i] + 1 ELSE items[i]]
      /\ settling' = [settling EXCEPT ![c] = NothingHeld]
      /\ UNCHANGED <<day, charge, invoice, payment, binding, subs, booking>>

\* One chosen entry cannot be settled, or the process dies: nothing is written.
AbandonSettlement(c) ==
  /\ settling[c] # NothingHeld
  /\ settling' = [settling EXCEPT ![c] = NothingHeld]
  /\ UNCHANGED <<day, charge, invoice, payment, binding, ledger, subs, booking, items>>

PassDay ==
  /\ day < MaxDay /\ day' = day + 1
  /\ UNCHANGED <<charge, invoice, payment, binding, ledger, subs, booking, settling, items>>

NextBilling ==
  \/ \E i \in Invoice, c \in Charge : CreateInvoice(i, c)
  \/ \E p \in Payment, i \in Invoice, provider \in Provider : CreatePayment(p, i, provider)
  \/ \E p \in Payment : ClaimPayment(p) \/ RejectPayment(p)
  \/ \E b \in Biller, p \in Payment : BeginBooking(b, p)
  \/ \E b \in Biller : DropDuplicate(b) \/ LockInvoice(b) \/ LockBinding(b)
                       \/ BookPayment(b) \/ AbandonBooking(b)
  \/ BindChannel \/ PromoteAvailable \/ PassDay
  \/ \E c \in Cashier : SettleEntries(c) \/ AbandonSettlement(c)
  \/ \E c \in Cashier, chosen \in SUBSET Invoice : LockEntries(c, chosen)

BillingSpec == InitBilling /\ [][NextBilling]_billingVars

-----------------------------------------------------------------------------
SubscriptionRow == [plan : Plan \cup {"TRIAL", "none"}, of : Invoice \cup {NoInvoice}, ends : Nat]
PaymentRow ==
  [invoice : Invoice \cup {NoInvoice}, provider : {"none", "MANUAL", "FAKE"},
   status : {"none", "PENDING", "PAID"}, anomaly : BOOLEAN, paidAt : Nat,
   review : {"none", "WAITING", "REJECTED", "CONFIRMED"}]
BindingRow == [status : {"none", "ACTIVE"}, started : BOOLEAN, start : Nat, ends : Nat]
EntryRow ==
  [status : {"none", "PENDING", "AVAILABLE", "SETTLED"}, payment : Payment \cup {NoPayment},
   earnedAt : Nat]
BookingRow ==
  [pc : {"idle", "payment", "invoice", "bound", "unbound"}, payment : Payment \cup {NoPayment},
   paidAt : Nat, seen : SubscriptionRow, earns : BOOLEAN, starts : BOOLEAN]

\* Every row and every open transaction holds what it can hold.
BillingTypeOK ==
  /\ day \in Nat
  /\ charge \in [Invoice -> Charge \cup {"none"}]
  /\ invoice \in [Invoice -> {"none", "PENDING", "PAID"}]
  /\ payment \in [Payment -> PaymentRow]
  /\ binding \in BindingRow
  /\ ledger \in [Invoice -> EntryRow]
  /\ subs \in Seq(SubscriptionRow)
  /\ booking \in [Biller -> BookingRow]
  /\ settling \in [Cashier -> [chosen : SUBSET Invoice, due : SUBSET Invoice]]
  /\ items \in [Invoice -> Nat]

\* An invoice that is paid was paid by exactly one payment (further money is
\* recorded as a duplicate), extended the subscription exactly once if it was
\* for a plan, and gave rise to no commission but that payment's; one that is
\* not paid did nothing, whatever was claimed, refused or half done.
Payers(i) == {p \in Payment : payment[p].invoice = i /\ payment[p].status = "PAID" /\ ~payment[p].anomaly}
RowsOf(i) == {k \in DOMAIN subs : subs[k].of = i}
OneSuccessPerInvoice ==
  \A i \in Invoice :
    IF invoice[i] = "PAID"
    THEN \E p \in Payment :
           /\ Payers(i) = {p}
           /\ ledger[i].status # "none" => ledger[i].payment = p
           /\ IF charge[i] \in Plan THEN \E k \in DOMAIN subs : RowsOf(i) = {k} ELSE RowsOf(i) = {}
    ELSE Payers(i) = {} /\ RowsOf(i) = {} /\ ledger[i].status = "none"

\* A partner earns only while its term runs: every commission was earned on or
\* after the day the first one started the term and before the day it ends.
EarnedInsideTheTerm ==
  \A i \in Invoice : ledger[i].status # "none" =>
    binding.started /\ binding.start <= ledger[i].earnedAt /\ ledger[i].earnedAt < binding.ends

\* A commission is paid out once, whichever of two cashiers that chose it, or that
\* promoted it on the way, commits first, and not before its holding time is over.
SettledOnce ==
  \A i \in Invoice :
    /\ items[i] = IF ledger[i].status = "SETTLED" THEN 1 ELSE 0
    /\ ledger[i].status = "SETTLED" => ledger[i].earnedAt + Hold <= day
=============================================================================
