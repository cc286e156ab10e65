----------------------------- MODULE OrderPayment -----------------------------
(***************************************************************************)
(* Prepay orders, their coupons, their stock and their money.              *)
(*                                                                         *)
(* Every request (customer, merchant, provider callback) and the           *)
(* stale-order loop run in a database session of their own, a Worker here. *)
(* A session first selects the order without a lock, may then ask the      *)
(* payment provider whether it was paid (through the in-process recovery   *)
(* gate), and only then selects the row FOR UPDATE and decides.            *)
(*                                                                         *)
(* The second select does not refresh an object the session already holds: *)
(* no query of the application asks for populate_existing, and the session *)
(* is created with expire_on_commit=False, so only a rollback makes the    *)
(* ORM reload it.  `seen' is that held copy, `fresh' says it was expired.  *)
(* An UPDATE writes only the columns whose value changed, so a decision    *)
(* made on a stale copy still leaves the other columns alone.              *)
(***************************************************************************)
EXTENDS Integers, FiniteSets

CONSTANTS
  Order,        \* order ids
  Coupon,       \* coupon ids
  NoCoupon,     \* an order without a coupon
  Request,      \* sessions of HTTP requests and of the reconcile loop
  Cleaner,      \* the session of the stale-order loop (one task, main.py)
  InitStock,    \* units of the one dish every order takes one of
  PrintFirst,   \* the store's fulfilment mode is PRINT_FIRST
  MaxCrashes    \* bound on process restarts

ASSUME CouponAssumption == NoCoupon \notin Coupon
ASSUME WorkerAssumption == Cleaner \notin Request
ASSUME StockAssumption == InitStock \in Nat
ASSUME ModeAssumption == PrintFirst \in BOOLEAN
ASSUME CrashAssumption == MaxCrashes \in Nat

Worker == Request \cup {Cleaner}

VARIABLES
  row,       \* the orders table
  coupon,    \* the coupons table: status of each coupon
  stock,     \* menu_items.stock of the dish
  points,    \* point_ledger: consumption rows of each order
  reversal,  \* point_ledger: the order has a refund_reversal row
  wx,        \* provider: the payment transaction of each order
  rf,        \* provider: the refund RF{order.id} of each order
  worker,    \* what each session is doing
  crashes

vars == <<row, coupon, stock, points, reversal, wx, rf, worker, crashes>>
assets == <<points, reversal>>
provider == <<wx, rf>>

Terminal == {"cancelled", "rejected"}
Kitchen == {"pending", "preparing", "done", "settled"}
Status == {"absent", "pending_payment"} \cup Kitchen \cup Terminal
Refund == {"none", "processing", "success", "failed"}
CouponStatus == {"UNUSED", "LOCKED", "USED"}

Row == [st : Status, pay : {"unpaid", "paid"}, refund : Refund,
        coup : Coupon \cup {NoCoupon}]
NoRow == [st |-> "absent", pay |-> "unpaid", refund |-> "none", coup |-> NoCoupon]

\* Mutant: an unpaid order may be accepted.
AllowedUnpaid(s) == IF s = "pending_payment" THEN {"cancelled", "preparing"} ELSE {}

\* ORDER_ALLOWED_TRANSITIONS; a status without an entry allows nothing.
Allowed(s) ==
  CASE s = "pending_payment" -> {"cancelled"}
    [] s = "pending" -> {"preparing", "rejected", "cancelled"}
    [] s = "preparing" -> {"done"}
    [] s = "done" -> {"settled"}
    [] OTHER -> {}

\* What a session was asked to do.  A merchant update is named by its target.
MerchantOp == {"preparing", "done", "settled", "rejected", "cancelled"}
RequestOp == MerchantOp \cup {"customer_cancel", "recover", "prepay"}
Op == RequestOp \cup {"stale_cleanup", "notify", "refund"}

PC == {"idle", "gate", "join", "query", "apply", "ready", "opening",
       "refund", "reversed"}

Job == [op : Op, o : Order, pc : PC \ {"idle"}, seen : Row,
        cseen : CouponStatus \cup {"none"}, fresh : BOOLEAN]
Idle == [pc |-> "idle"]

TypeOK ==
  /\ row \in [Order -> Row]
  /\ coupon \in [Coupon -> CouponStatus]
  /\ stock \in Nat
  /\ points \in [Order -> Nat]
  /\ reversal \in [Order -> BOOLEAN]
  /\ wx \in [Order -> {"none", "open", "paid"}]
  /\ rf \in [Order -> Refund]
  /\ worker \in [Worker -> Job \cup {Idle}]
  /\ crashes \in 0..MaxCrashes

Init ==
  /\ row = [o \in Order |-> NoRow]
  /\ coupon = [c \in Coupon |-> "UNUSED"]
  /\ stock = InitStock
  /\ points = [o \in Order |-> 0]
  /\ reversal = [o \in Order |-> FALSE]
  /\ wx = [o \in Order |-> "none"]
  /\ rf = [o \in Order |-> "none"]
  /\ worker = [w \in Worker |-> Idle]
  /\ crashes = 0

-----------------------------------------------------------------------------
(* The database and the session *)

At(w, pc) == worker[w].pc = pc
Busy(w) == worker[w].pc # "idle"

\* The attributes the locked select of session w hands to the code.
Loaded(w) == IF worker[w].fresh THEN row[worker[w].o] ELSE worker[w].seen

CouponNow(c) == IF c = NoCoupon THEN "none" ELSE coupon[c]

\* Mutant: the snapshot is kept although the rollback ended it.
CouponSnapshotKept(w) == worker[w].cseen

\* db.get(Coupon): a plain read, answered from the transaction's snapshot.
CouponSnapshot(w) ==
  IF worker[w].fresh THEN CouponNow(row[worker[w].o].coup) ELSE worker[w].cseen

\* The coupons table after c, if there is one, is set to s.
CouponSet(c, s) == [d \in Coupon |-> IF d = c THEN s ELSE coupon[d]]

-----------------------------------------------------------------------------
(* The recovery gate, as its callers see it *)

\* The session whose provider query for order o is in flight.
Executing(w, o) ==
  /\ Busy(w)
  /\ worker[w].o = o
  /\ \/ worker[w].pc \in {"query", "apply"}
     \/ worker[w].op = "recover" /\ worker[w].pc \in {"refund", "reversed"}
InFlight(o) == \E w \in Worker : Executing(w, o)

\* Mutant: the future of a running query is not resolved.
AnswerForgetsJoiners(w, job, recovered) == worker' = [worker EXCEPT ![w] = job]

\* The executor w goes on as job; whoever joined its query gets the answer.
\* Only the stale-order loop looks at it: the other callers lock and decide.
Answer(w, job, recovered) ==
  worker' = [v \in Worker |->
    IF v = w THEN job
    ELSE IF At(v, "join") /\ worker[v].o = worker[w].o
         THEN IF recovered /\ worker[v].op = "stale_cleanup"
              THEN Idle ELSE [worker[v] EXCEPT !.pc = "ready"]
         ELSE worker[v]]

\* Mutant: the stale-order loop skips the order whatever the answer was.
ResumeSkips(w, recovered, seen, fresh) ==
  IF worker[w].op \in {"recover", "stale_cleanup"} THEN Idle
  ELSE [worker[w] EXCEPT !.pc = "ready", !.fresh = fresh, !.seen = seen]

\* What an executor does with its own answer.
Resume(w, recovered, seen, fresh) ==
  IF worker[w].op = "recover" \/ (worker[w].op = "stale_cleanup" /\ recovered)
  THEN Idle
  ELSE [worker[w] EXCEPT !.pc = "ready", !.fresh = fresh, !.seen = seen,
                         !.cseen = IF fresh THEN "none" ELSE @]

Finish(w) ==
  IF worker[w].op = "recover" THEN Answer(w, Idle, TRUE)
  ELSE worker' = [worker EXCEPT ![w] = Idle]

-----------------------------------------------------------------------------
(* Creating and paying an order *)

\* Mutant: stock is deducted without looking at it.
InStockUnchecked == TRUE

\* A dish with a stock of its own is sold while it lasts.
InStock == stock > 0

\* create_order: takes one unit and locks the coupon with the new row.
CreateOrder(o, c) ==
  /\ row[o].st = "absent"
  /\ InStock
  /\ c # NoCoupon => coupon[c] = "UNUSED"
  /\ row' = [row EXCEPT ![o] = [st |-> "pending_payment", pay |-> "unpaid",
                                refund |-> "none", coup |-> c]]
  /\ coupon' = CouponSet(c, "LOCKED")
  /\ stock' = stock - 1
  /\ UNCHANGED <<assets, provider, worker, crashes>>

\* create_wxpay_order commits before it calls the provider, so the transaction
\* may be opened for an order that was cancelled meanwhile.
OpenPayment(w) ==
  /\ At(w, "opening")
  /\ wx' = [wx EXCEPT ![worker[w].o] = IF @ = "none" THEN "open" ELSE @]
  /\ worker' = [worker EXCEPT ![w] = Idle]
  /\ UNCHANGED <<row, coupon, stock, assets, rf, crashes>>

\* The customer pays.  Nothing in the application ever closes a transaction.
CustomerPays(o) ==
  /\ wx[o] = "open"
  /\ wx' = [wx EXCEPT ![o] = "paid"]
  /\ UNCHANGED <<row, coupon, stock, assets, rf, worker, crashes>>

-----------------------------------------------------------------------------
(* The unlocked select a request starts with, and the recovery gate *)

\* A paid order may be ended only by rejecting it while it is pending.
MerchantMay(b, target) ==
  /\ target \in Allowed(b.st)
  /\ ~ (PrintFirst /\ b.st = "pending" /\ target = "preparing")
  /\ target \in Terminal /\ b.pay = "paid" => b.st = "pending" /\ target = "rejected"

\* Mutant: a paid order may be cancelled too.
CustomerMayAlways(b) == b.st \in {"pending_payment", "pending"}

CustomerMay(b) == b.pay # "paid" /\ b.st \in {"pending_payment", "pending"}

\* Whether a request goes on to change the order it has loaded as b.
Accepts(op, b) ==
  IF op = "customer_cancel" THEN CustomerMay(b) ELSE MerchantMay(b, op)

Gated(op, r) ==
  \/ op \in {"recover", "stale_cleanup"}
  \/ /\ op \in {"customer_cancel", "cancelled", "rejected"}
     /\ r.st = "pending_payment" /\ r.pay # "paid"

FirstPC(op, r) ==
  CASE op = "prepay" -> "opening" [] Gated(op, r) -> "gate" [] OTHER -> "ready"

\* Only these two read the coupon without a lock.
SnapshotOp == {"customer_cancel", "stale_cleanup"}

\* A request whose first copy already forbids what it asks for, and that will
\* not reload it, only reads: such requests are left out.
Discover(w, op, o) ==
  /\ ~ Busy(w)
  /\ IF w = Cleaner THEN op = "stale_cleanup" ELSE op \in RequestOp
  /\ row[o].st # "absent"
  /\ op \in {"prepay", "stale_cleanup"} => row[o].st = "pending_payment"
  /\ FirstPC(op, row[o]) = "ready" => Accepts(op, row[o])
  /\ worker' = [worker EXCEPT ![w] =
       [op |-> op, o |-> o, pc |-> FirstPC(op, row[o]), seen |-> row[o],
        cseen |-> IF op \in SnapshotOp THEN CouponNow(row[o].coup) ELSE "none",
        fresh |-> FALSE]]
  /\ UNCHANGED <<row, coupon, stock, assets, provider, crashes>>

\* Mutant: nobody forces a fresh query, and who is turned away goes on to decide.
SkipUnforced(w) ==
  /\ At(w, "gate")
  /\ worker' = [worker EXCEPT ![w] = Resume(w, FALSE, worker[w].seen, worker[w].fresh)]
  /\ UNCHANGED <<row, coupon, stock, assets, provider, crashes>>

\* A caller that is not destructive gives up on a cooldown or a running query (a
\* client's poll waits for the answer, but does nothing with it).
SkipRecovery(w) ==
  /\ At(w, "gate") /\ worker[w].op = "recover"
  /\ worker' = [worker EXCEPT ![w] = Idle]
  /\ UNCHANGED <<row, coupon, stock, assets, provider, crashes>>

\* force_fresh never duplicates a running query, it waits for its answer.
JoinRecovery(w) ==
  /\ At(w, "gate") /\ worker[w].op # "recover"
  /\ InFlight(worker[w].o)
  /\ worker' = [worker EXCEPT ![w].pc = "join"]
  /\ UNCHANGED <<row, coupon, stock, assets, provider, crashes>>

StartQuery(w) ==
  /\ At(w, "gate")
  /\ ~ InFlight(worker[w].o)
  /\ worker' = [worker EXCEPT ![w].pc = "query"]
  /\ UNCHANGED <<row, coupon, stock, assets, provider, crashes>>

\* Mutant: trade_state is not compared with SUCCESS.
ConfirmedWhenOpened(o) == wx[o] # "none"

\* _validate_confirmed_wx_payment: the provider says SUCCESS, for this amount.
Confirmed(o) == wx[o] = "paid"

\* query_order_by_out_trade_no returns None: no rollback, the copy stays.
QueryFails(w) ==
  /\ At(w, "query")
  /\ Answer(w, Resume(w, FALSE, worker[w].seen, worker[w].fresh), FALSE)
  /\ UNCHANGED <<row, coupon, stock, assets, provider, crashes>>

\* NOTPAY fails the validation of the fact; its rollback expires the session.
QueryNotPaid(w) ==
  /\ At(w, "query")
  /\ wx[worker[w].o] # "none" /\ ~ Confirmed(worker[w].o)
  /\ Answer(w, Resume(w, FALSE, NoRow, TRUE), FALSE)
  /\ UNCHANGED <<row, coupon, stock, assets, provider, crashes>>

QuerySucceeds(w) ==
  /\ At(w, "query") /\ Confirmed(worker[w].o)
  /\ worker' = [worker EXCEPT ![w].pc = "apply"]
  /\ UNCHANGED <<row, coupon, stock, assets, provider, crashes>>

-----------------------------------------------------------------------------
(* Applying a confirmed payment *)

\* _on_payment_success on a copy b: the coupon is read under a lock and spent
\* when it is LOCKED, dropped from the order when it is free again; status and
\* payment_status are written and the consumption is credited.
KeptCoupon(o, b) ==
  IF CouponNow(b.coup) = "UNUSED" THEN NoCoupon ELSE row[o].coup

PaymentSuccess(o, b) ==
  /\ coupon' = IF CouponNow(b.coup) = "LOCKED" THEN CouponSet(b.coup, "USED")
               ELSE coupon
  /\ row' = [row EXCEPT ![o].st = "pending", ![o].pay = "paid",
                        ![o].coup = KeptCoupon(o, b)]
  /\ points' = [points EXCEPT ![o] = @ + 1]
  /\ UNCHANGED <<stock, reversal>>

\* Mutant: a late payment brings the order back.
RecordLatePaymentResurrects(o) ==
  /\ row' = [row EXCEPT ![o].pay = "paid", ![o].st = "pending"]
  /\ UNCHANGED <<coupon, stock, assets>>

\* Mutant: a payment of an ended order is ignored.
RecordLatePaymentIgnored(o) == UNCHANGED <<row, coupon, stock, assets>>

\* _reconcile_confirmed_payment_for_terminal_order: only the payment is written.
RecordLatePayment(o) ==
  /\ row' = [row EXCEPT ![o].pay = "paid"]
  /\ UNCHANGED <<coupon, stock, assets>>

\* Mutant: nothing sends the captured money back.
ToRefundForgotten(w, op, o, b) == Idle

\* The session keeps its copy across its own commit; a rollback, when there was
\* nothing to write, expires it.
ToRefund(w, op, o, b) ==
  [op |-> op, o |-> o, pc |-> "refund",
   seen |-> IF b.pay = "paid" THEN NoRow ELSE [b EXCEPT !.pay = "paid"],
   cseen |-> "none", fresh |-> b.pay = "paid"]

ApplyTerminal(w) ==
  LET o == worker[w].o
      b == Loaded(w)
  IN /\ At(w, "apply")
     /\ b.st \in Terminal
     /\ RecordLatePayment(o)
     /\ worker' = [worker EXCEPT ![w] = ToRefund(w, worker[w].op, o, b)]
     /\ UNCHANGED <<provider, crashes>>

ApplyAlreadyPaid(w) ==
  LET b == Loaded(w)
  IN /\ At(w, "apply")
     /\ b.st \notin Terminal /\ b.pay = "paid"
     /\ Answer(w, Resume(w, TRUE, NoRow, TRUE), TRUE)
     /\ UNCHANGED <<row, coupon, stock, assets, provider, crashes>>

\* The effects after the commit may raise too: the payment is then booked, and
\* the caller is told that it is not.
ApplyPayment(w) ==
  LET o == worker[w].o
      b == Loaded(w)
      own == [b EXCEPT !.st = "pending", !.pay = "paid", !.coup = KeptCoupon(o, b)]
  IN /\ At(w, "apply")
     /\ b.st = "pending_payment" /\ b.pay # "paid"
     /\ PaymentSuccess(o, b)
     /\ \/ Answer(w, Resume(w, TRUE, own, FALSE), TRUE)
        \/ Answer(w, Resume(w, FALSE, NoRow, TRUE), FALSE)
     /\ UNCHANGED <<provider, crashes>>

\* An exception before the commit (the reward, the refresh, the database) rolls
\* everything back and counts as "not recovered".
ApplyFails(w) ==
  /\ At(w, "apply")
  /\ Answer(w, Resume(w, FALSE, NoRow, TRUE), FALSE)
  /\ UNCHANGED <<row, coupon, stock, assets, provider, crashes>>

\* wxpay_notify: one locked select, so it always decides on the current row.
\* The provider repeats a notification, hence the duplicate that does nothing.
Notify(w, o) ==
  /\ w # Cleaner /\ ~ Busy(w)
  /\ Confirmed(o)
  /\ \/ /\ row[o].st = "pending_payment" /\ row[o].pay # "paid"
        /\ PaymentSuccess(o, row[o])
        /\ UNCHANGED worker
     \/ /\ row[o].st \in Terminal
        /\ RecordLatePayment(o)
        /\ worker' = [worker EXCEPT ![w] = ToRefund(w, "notify", o, row[o])]
  /\ UNCHANGED <<provider, crashes>>

-----------------------------------------------------------------------------
(* Ending an order *)

\* Mutant: the unit is not given back.
TerminateKeepsStock(o, s) ==
  /\ row' = [row EXCEPT ![o].st = s]
  /\ UNCHANGED stock

\* _restore_order_stock gives the unit back in the same transaction.
Terminate(o, s) ==
  /\ row' = [row EXCEPT ![o].st = s]
  /\ stock' = stock + 1

CustomerCancels(w) ==
  LET o == worker[w].o
      b == Loaded(w)
  IN /\ At(w, "ready") /\ worker[w].op = "customer_cancel"
     /\ CustomerMay(b)
     /\ Terminate(o, "cancelled")
     /\ coupon' = IF CouponSnapshot(w) = "LOCKED" THEN CouponSet(b.coup, "UNUSED")
                  ELSE coupon
     /\ worker' = [worker EXCEPT ![w] = Idle]
     /\ UNCHANGED <<assets, provider, crashes>>

\* The locked select of the stale-order loop also asks the database for
\* status = 'pending_payment', which a stale copy cannot fool.
StaleOrderCancels(w) ==
  LET o == worker[w].o
      b == Loaded(w)
  IN /\ At(w, "ready") /\ worker[w].op = "stale_cleanup"
     /\ row[o].st = "pending_payment" /\ b.pay # "paid"
     /\ Terminate(o, "cancelled")
     /\ coupon' = IF CouponSnapshot(w) = "LOCKED" THEN CouponSet(b.coup, "UNUSED")
                  ELSE coupon
     /\ worker' = [worker EXCEPT ![w] = Idle]
     /\ UNCHANGED <<assets, provider, crashes>>

MerchantEnds(w) ==
  LET o == worker[w].o
      b == Loaded(w)
      target == worker[w].op
  IN /\ At(w, "ready") /\ target \in Terminal
     /\ MerchantMay(b, target)
     /\ Terminate(o, target)
     /\ coupon' = IF b.pay # "paid" /\ CouponNow(b.coup) = "LOCKED"
                  THEN CouponSet(b.coup, "UNUSED") ELSE coupon
     /\ worker' = [worker EXCEPT ![w] = Idle]
     /\ UNCHANGED <<assets, provider, crashes>>

MerchantAdvances(w) ==
  LET o == worker[w].o
      b == Loaded(w)
      target == worker[w].op
  IN /\ At(w, "ready") /\ target \in MerchantOp \ Terminal
     /\ MerchantMay(b, target)
     /\ row' = [row EXCEPT ![o].st = target]
     /\ coupon' = IF target = "settled" /\ CouponNow(b.coup) = "LOCKED"
                  THEN CouponSet(b.coup, "USED") ELSE coupon
     /\ worker' = [worker EXCEPT ![w] = Idle]
     /\ UNCHANGED <<stock, assets, provider, crashes>>

\* Every early return after the locked select: 4xx, or nothing to do.
Refused(w) ==
  LET b == Loaded(w)
      op == worker[w].op
  IN /\ At(w, "ready")
     /\ IF op = "stale_cleanup"
        THEN b.pay = "paid" \/ row[worker[w].o].st # "pending_payment"
        ELSE ~ Accepts(op, b)
     /\ worker' = [worker EXCEPT ![w] = Idle]
     /\ UNCHANGED <<row, coupon, stock, assets, provider, crashes>>

-----------------------------------------------------------------------------
(* Refunds.  The row stays locked while the provider is called. *)

\* Mutant: an ended order is refunded whether or not it was paid.
MayRefundUnpaid(b) == b.st \in Terminal /\ b.refund # "success"

MayRefund(b) == b.st \in Terminal /\ b.pay = "paid" /\ b.refund # "success"

\* The refund a provider holding r may hold after it is asked to refund: the
\* number RF{order.id} makes every later request the same refund.
Accepted(r) == IF r = "none" THEN {"processing", "success"} ELSE {r}

\* Mutant: an accepted refund counts as a finished one.
OutcomesOptimistic(r) == {<<s, "success">> : s \in Accepted(r)}

\* What _refund_order_payment may learn: the answer of its query of an existing
\* refund; else (nothing there, or no answer) the answer of a submission; or an
\* error, whether or not the provider took the submission.
Outcomes(r) ==
  {<<s, s>> : s \in Accepted(r)} \cup {<<s, "failed">> : s \in Accepted(r) \cup {r}}

\* _apply_refund_success frees the coupon and reverses the consumption;
\* reverse_consumption commits the first time, before refund_status is set.
RefundSucceeds(w, op, o, b) ==
  /\ coupon' = IF CouponNow(b.coup) \in {"LOCKED", "USED"}
               THEN CouponSet(b.coup, "UNUSED") ELSE coupon
  /\ reversal' = [reversal EXCEPT ![o] = TRUE]
  /\ IF reversal[o]
     THEN /\ row' = [row EXCEPT ![o].refund = "success"]
          /\ IF Busy(w) THEN Finish(w) ELSE UNCHANGED worker
     ELSE /\ worker' = [worker EXCEPT ![w] =
                          [op |-> op, o |-> o, pc |-> "reversed", seen |-> b,
                           cseen |-> "none", fresh |-> FALSE]]
          /\ UNCHANGED row

\* Only a refund_status that differs from the loaded one is written.
RefundUnfinished(w, o, b, answer) ==
  /\ row' = IF answer = b.refund THEN row ELSE [row EXCEPT ![o].refund = answer]
  /\ IF Busy(w) THEN Finish(w) ELSE UNCHANGED worker
  /\ UNCHANGED <<coupon, reversal>>

RefundPayment(w, op, o, b) ==
  /\ MayRefund(b)
  /\ \E out \in Outcomes(rf[o]) :
       /\ rf' = [rf EXCEPT ![o] = out[1]]
       /\ IF out[2] = "success" THEN RefundSucceeds(w, op, o, b)
          ELSE RefundUnfinished(w, o, b, out[2])
  /\ UNCHANGED <<stock, points, wx, crashes>>

\* POST /orders/{id}/refund
MerchantRefunds(w, o) ==
  /\ w # Cleaner /\ ~ Busy(w)
  /\ RefundPayment(w, "refund", o, row[o])

\* Query only: an inconclusive answer leaves the refund processing.
ReconcilesRefund(w, o) ==
  /\ w # Cleaner /\ ~ Busy(w)
  /\ MayRefund(row[o]) /\ row[o].refund = "processing"
  /\ IF rf[o] = "success" THEN RefundSucceeds(w, "refund", o, row[o])
     ELSE RefundUnfinished(w, o, row[o], rf[o])
  /\ UNCHANGED <<stock, points, provider, crashes>>

\* The refund that follows a late payment, in a transaction of its own.
RefundsLatePayment(w) ==
  /\ At(w, "refund")
  /\ RefundPayment(w, worker[w].op, worker[w].o, Loaded(w))

NoRefundNeeded(w) ==
  /\ At(w, "refund") /\ ~ MayRefund(Loaded(w))
  /\ Finish(w)
  /\ UNCHANGED <<row, coupon, stock, assets, provider, crashes>>

\* The commit after reverse_consumption's own commit.
RecordsRefund(w) ==
  /\ At(w, "reversed")
  /\ row' = [row EXCEPT ![worker[w].o].refund = "success"]
  /\ Finish(w)
  /\ UNCHANGED <<coupon, stock, assets, provider, crashes>>

\* The provider ends a refund it has in progress.
ProviderEndsRefund(o) ==
  /\ rf[o] = "processing"
  /\ \E s \in {"success", "failed"} : rf' = [rf EXCEPT ![o] = s]
  /\ UNCHANGED <<row, coupon, stock, assets, wx, worker, crashes>>

\* The process restarts: sessions, and the gate with them, are gone.  A refund
\* that was being submitted may have reached the provider.
Crash ==
  /\ crashes < MaxCrashes
  /\ crashes' = crashes + 1
  /\ worker' = [w \in Worker |-> Idle]
  /\ \/ UNCHANGED rf
     \/ \E o \in Order : /\ MayRefund(row[o])
                         /\ rf[o] = "none"
                         /\ \E s \in Accepted(rf[o]) : rf' = [rf EXCEPT ![o] = s]
  /\ UNCHANGED <<row, coupon, stock, assets, wx>>

-----------------------------------------------------------------------------

\* What session w does next with the job it has.
Step(w) ==
  \/ OpenPayment(w)
  \/ SkipRecovery(w) \/ JoinRecovery(w) \/ StartQuery(w)
  \/ QueryFails(w) \/ QueryNotPaid(w) \/ QuerySucceeds(w)
  \/ ApplyTerminal(w) \/ ApplyAlreadyPaid(w) \/ ApplyPayment(w) \/ ApplyFails(w)
  \/ CustomerCancels(w) \/ StaleOrderCancels(w)
  \/ MerchantEnds(w) \/ MerchantAdvances(w) \/ Refused(w)
  \/ RefundsLatePayment(w) \/ NoRefundNeeded(w) \/ RecordsRefund(w)

Next ==
  \/ \E o \in Order :
       \/ \E c \in Coupon \cup {NoCoupon} : CreateOrder(o, c)
       \/ CustomerPays(o) \/ ProviderEndsRefund(o)
       \/ \E w \in Worker :
            \/ \E op \in Op : Discover(w, op, o)
            \/ Notify(w, o) \/ MerchantRefunds(w, o) \/ ReconcilesRefund(w, o)
  \/ \E w \in Worker : Step(w)
  \/ Crash

Spec == Init /\ [][Next]_vars

\* A session that has a job goes on with it (queries time out, locks are
\* released); the stale-order loop of main.py comes round for ever.  Callbacks
\* may never come.
Fairness ==
  /\ \A w \in Worker : WF_vars(Step(w))
  /\ \A o \in Order : WF_vars(Discover(Cleaner, "stale_cleanup", o))

FairSpec == Spec /\ Fairness

-----------------------------------------------------------------------------
(* What must hold of the books *)

\* An order the kitchen works on, or worked on, was paid for, and an unpaid
\* order is open or cancelled: no interleaving of merchant updates on stale
\* copies (update_order_status) moves an unpaid prepay order forward.
UnpaidNeverFulfilled ==
  \A o \in Order : row[o].pay = "unpaid" =>
    row[o].st \in {"absent", "pending_payment", "cancelled"}

\* payment_status = 'paid' is only ever written with a capture behind it,
\* whichever of callback, recovery query and late reconciliation wrote it.
PaidMeansCaptured ==
  \A o \in Order : row[o].pay = "paid" => wx[o] = "paid"

\* refund_status = 'success' is never claimed without a provider success,
\* across retries, lost answers, restarts and reconciliation.
RefundBackedByProvider ==
  \A o \in Order : row[o].refund = "success" => rf[o] = "success"

\* An order that reached the kitchen has its consumption credited: the payment
\* effects commit with the status (_on_payment_success), never after it.
KitchenOrderIsCredited ==
  \A o \in Order : row[o].st \in Kitchen => points[o] > 0

\* A LOCKED coupon is held by an open order, so it cannot be lost to the
\* customer by a cancel, a payment or a refund that forgot it.
NoStrandedCoupon ==
  \A c \in Coupon : coupon[c] = "LOCKED" =>
    \E o \in Order : row[o].st = "pending_payment" /\ row[o].coup = c

\* Every unit taken is in stock again or belongs to an order that is not ended:
\* no cancel, reject or timeout forgets to give it back.
OpenOrders == {o \in Order : row[o].st \notin {"absent"} \cup Terminal}
NoStockLost == InitStock <= stock + Cardinality(OpenOrders)

\* A caller waiting for another session's provider query waits for a query
\* that is running (attempt_recovery never leaves a future unresolved).
JoinersAreAwaited ==
  \A w \in Worker : At(w, "join") => InFlight(worker[w].o)

\* A booked payment is never forgotten by a session that read the row before
\* it was booked: updates write changed columns, not whole rows.
PaidNeverLost ==
  [][\A o \in Order : row[o].pay = "paid" => row'[o].pay = "paid"]_vars

\* The places that decide right after a locked select.
Decides(w) == worker[w].pc \in {"apply", "ready", "refund"}

\* The copy the select handed back is not the row it locked.
HoldsStale(w, o) ==
  Decides(w) /\ worker[w].o = o /\ ~ worker[w].fresh /\ worker[w].seen # row[o]

ActsOnStale(o) == \E w \in Worker : HoldsStale(w, o) /\ Step(w)

Follows(s) == Allowed(s) \cup
  CASE s = "absent" -> {"pending_payment"} [] s = "pending_payment" -> {"pending"}
    [] OTHER -> {}

Misled(o) ==
  \/ row'[o].st \notin Follows(row[o].st) \cup {row[o].st}
  \/ points'[o] > points[o] /\ points[o] > 0
  \/ row[o].pay = "paid" /\ row[o].st \notin Terminal /\ row'[o].st = "cancelled"
  \/ row[o].refund = "success" /\ row'[o].refund # "success"

StockInvented == stock' > stock /\ OpenOrders' = OpenOrders

\* Where the books go wrong, one thing has happened: the session that takes the
\* step decides on a copy that differs from the row it has locked.  Without such
\* a copy an order moves along ORDER_ALLOWED_TRANSITIONS only, a payment is
\* credited once, a paid order is not cancelled, a refund that succeeded is not
\* forgotten and no order gives its unit back twice, in whatever order callbacks,
\* queries, cancellations and refunds come.
OnlyStaleCopiesMislead ==
  [][/\ \A o \in Order : Misled(o) => ActsOnStale(o)
     /\ StockInvented => \E o \in Order : ActsOnStale(o)]_vars

\* An order nobody pays does not hold its coupon and its unit of stock for ever,
\* whatever the provider answers and however often the loop is restarted.
PendingPaymentEnds ==
  \A o \in Order : row[o].st = "pending_payment" ~> row[o].st # "pending_payment"

\* The customer has paid, nothing is booked, and no session has been told yet
\* that the order is unpaid.
Findable(o) ==
  /\ wx[o] = "paid" /\ row[o].st = "pending_payment"
  /\ ~ \E w \in Worker : At(w, "ready") /\ worker[w].o = o

\* The stale-order loop finds a payment whose callback never comes, in its
\* cooldown too (the comment on force_fresh in main.py): as long as no query and
\* no booking fails, such an order is booked, and nobody may decide to cancel it.
LoopBooksThePayment ==
  /\ \A o \in Order : Findable(o) ~> ~ Findable(o)
  /\ [][\A o \in Order : Findable(o) /\ ~ Findable(o)' =>
          row'[o].pay = "paid"
            \/ \E w \in Worker : QueryFails(w) \/ ApplyFails(w)]_vars

\* The provider repeats the notification of o until it was answered with success,
\* and it is answered so only after a late payment's refund was tried.
CallbackComes(o) == SF_vars(\E w \in Request : row[o].refund = "none" /\ Notify(w, o))

\* Captured money is booked, also when a query that failed, or one that was too
\* early, let the order be cancelled: then only the callback can, so it must come.
CapturedIsBooked ==
  \A o \in Order : CallbackComes(o) => (wx[o] = "paid" ~> row[o].pay = "paid")

\* A payment booked on an order that had already ended (its effects were never
\* applied) gets a refund attempt, across a crash between the two commits, if
\* the callback that was not answered comes again; or a session with a stale
\* copy takes the order out of its end (OnlyStaleCopiesMislead).
LatePaymentIsSentBack ==
  \A o \in Order : CallbackComes(o) =>
    (row[o].pay = "paid" /\ row[o].st \in Terminal /\ points[o] = 0
       ~> row[o].refund # "none" \/ row[o].st \notin Terminal)

\* Whoever waits for another session's provider query gets an answer.
JoinersAreAnswered == \A w \in Worker : At(w, "join") ~> ~ At(w, "join")

\* The detailed system keeps the promises of MoneyLedger.
Ledger == INSTANCE MoneyLedger WITH
  captured <- {o \in Order : wx[o] = "paid"},
  booked <- {o \in Order : row[o].pay = "paid"},
  kitchen <- {o \in Order : row[o].st \in Kitchen},
  returned <- {o \in Order : rf[o] # "none"}
ImplementsLedger == Ledger!Spec

\* Of the recovery gate the sessions assume what SingleQuery promises, and so
\* what wxpay_recovery_gate.py keeps (RecoveryGate): one query per order, whose
\* end sends everybody who joined it on.  A late payment's refund belongs to it.
Running == [o \in Order |-> {w \in Worker : Executing(w, o)}]
Joined == [o \in Order |-> {w \in Worker : At(w, "join") /\ worker[w].o = o}]
Gate == INSTANCE SingleQuery WITH Caller <- Worker, runs <- Running, waits <- Joined
ImplementsGate == Gate!Spec

-----------------------------------------------------------------------------
(* The inductive invariant behind them *)

\* A payment sent back was booked; a row that is not there, or still open, is
\* unpaid.
RowsAreConsistent ==
  \A o \in Order :
    /\ rf[o] # "none" => row[o].pay = "paid"
    /\ row[o].st \in {"absent", "pending_payment"} => row[o].pay = "unpaid"

\* A stale copy b of order o is a past of the row, or the session's own write.
CopyBacked(o, b) ==
  /\ b.pay = "paid" => row[o].pay = "paid"
  /\ b.pay = "unpaid" => b.st \in {"pending_payment", "cancelled"}
  /\ b.st \in Kitchen => points[o] > 0
  /\ b.st # "pending_payment" => row[o].st # "pending_payment"

JobBacked(j) ==
  j.pc # "idle" =>
    /\ row[j.o].st # "absent"
    /\ ~ j.fresh => CopyBacked(j.o, j.seen)
    /\ j.pc = "apply" => wx[j.o] = "paid"
    /\ j.pc = "reversed" => rf[j.o] = "success"

JobsAreBacked == \A w \in Worker : JobBacked(worker[w])

\* The open order o holds coupon c, and every copy of o knows it.
Knows(j, c) ==
  /\ ~ j.fresh => j.seen.coup = c
  /\ ~ j.fresh /\ j.op \in SnapshotOp => j.cseen = "LOCKED"

Holds(o, c) ==
  /\ row[o].st = "pending_payment" /\ row[o].coup = c
  /\ \A w \in Worker : Busy(w) /\ worker[w].o = o => Knows(worker[w], c)

LocksAreHeld ==
  \A c \in Coupon : coupon[c] = "LOCKED" => \E o \in Order : Holds(o, c)

Inv ==
  /\ TypeOK
  /\ UnpaidNeverFulfilled /\ PaidMeansCaptured /\ RefundBackedByProvider
  /\ KitchenOrderIsCredited
  /\ RowsAreConsistent /\ JobsAreBacked /\ LocksAreHeld

-----------------------------------------------------------------------------
(* What the documents say and the code does not keep *)

\* test_p0_06: however the recovery query and the callback interleave, a payment
\* is applied once (consumption and points are credited once).
PaymentAppliedOnce == \A o \in Order : points[o] <= 1

\* refund_paid_order and test_p0_09: a paid order is never cancelled, only a
\* payment that arrives after the cancellation finds it so.
PaidOrderNotCancelled ==
  [][\A o \in Order : row[o].pay = "paid" /\ row[o].st \notin Terminal
                        => row'[o].st # "cancelled"]_vars

\* _apply_refund_success rolls back what the payment of this order credited:
\* an order that credited nothing has nothing reversed.
ReversalHasConsumption == \A o \in Order : reversal[o] => points[o] > 0
=============================================================================
