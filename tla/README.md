# TLA+ models of the xiao-saas order core

This directory holds TLA+ specifications of the part of "开心点单" where money,
stock and kitchen paper meet: the order service of `saas-base/` (FastAPI and
SQLAlchemy, async, one uvicorn process, MySQL at REPEATABLE READ), and of the
services around an order where requests compete for the same rows: tables,
payment codes, the waiting queue, coupons and rewards, the platform's billing.  TLC checks
them on small instances, TLAPS proves the main theorems for every value of the
constants.  `PROJECT.json` maps every definition to the lines it stands for.

    tlc -workers 2 -config payment_safety.cfg MCOrderPayment
    tlapm OrderPaymentInvariance.tla

## 1. The system

Three Vue clients (`admin-h5`, `channel-h5`, `member-mini-client`) call the API
under `saas-base/app/api/v1`.  The services behind it share one database, one
process-wide recovery gate and three background loops (`main.py`): the
stale-order loop, the pending-payment reconcile loop and the print recovery
loop.  External parties are WeChat Pay and two receipt-printer clouds.

| Component | State | Operations | Talks to | What is hard | What makes it correct |
|---|---|---|---|---|---|
| order_payment | `orders.payment_status`, `refund_status`, point ledger, coupon; WeChat's transaction and refund | create payment, callback, recovery query, late payment, refund, refund reconcile | WeChat Pay, gate, coupons, membership, printing | callbacks, queries and cancellations of one order in any order; lost answers; restarts between two commits | booked money was captured; captured money is booked; a refund is never invented; a payment is applied once |
| order_lifecycle | `orders.status`, coupon, stock | customer cancel, merchant update, refund command, note, pickup number, settle table | payment, printing, stock, pickup | every operation reads first, waits for a provider query, then locks | an unpaid order never reaches the kitchen; a paid one is not cancelled |
| stale-order / reconcile loops | none | query each pending order, cancel the old ones | gate, payment, stock | they race with every request | unpaid orders end, paid ones do not |
| wxpay_recovery_gate | a dictionary of entries: cooldown, attempts, the future in flight | attempt_recovery, eviction, sweep | callers and the query | cancellation, failure and eviction while others wait | one query per order, everybody waiting is answered, queries are spaced |
| order_print | `orders.print_status` and a record inside `merchant_note` | initial ticket, retry, quarantine, parking, reprint, cancel slip | printer clouds, pickup numbers, payment | five triggers, lost answers, restarts, edits that write the record back | one ticket, one slip, a state that is true |
| order_stock | `menu_items.stock` | deduct, restore | order creation and every ending | several endings racing | no unit is lost or sold twice |
| coupon | `coupons.status` | lock, use, release | payment, cancel, refund | read through a snapshot | a LOCKED coupon belongs to an open order |
| membership and points | point ledger, levels, balance | credit a consumption, reverse it | payment, refund | it commits by itself in the middle of a refund | reversals match credits |
| pickup_no | numbers of open orders, leases of sessions | assign, clear | printing, lifecycle | numbers checked before they are taken | a number belongs to one open order |
| dining_session, settle_table | sessions of a table, orders placed in them | scan, order, expire, settle the table | lifecycle, membership | several phones, several tills and the kitchen at one table; a session that expires while somebody orders | every meal is on a bill, a bill is collected once |
| payment_handoff | handoff rows, each a code for one order | create, look up, claim, pay, cancel, expire | payment | two locks in two orders, look-ups that write without a lock | one open code per order, none for a paid one, one customer |
| queue | tickets of a day and a table size | take, call, seat, skip | printer, reminders | several kiosks and desks at once | numbers without gaps or repetitions, parties called once and in turn |
| coupon_verification, commission (rewards) | coupons, commission records, reward coupons | verify, use, revoke, recall, reward | orders and payment lock and use the same coupons | a use and its reward are separate commits; two coupons of one customer at once | a use counts once, a first visit is rewarded once |
| subscription_and_billing, commission (channel) | invoices, payment attempts, subscription rows, binding and commission entries, settlements | create, claim, confirm, report, bind, promote, settle | the channel partner | reports that come again, two attempts of one invoice, two invoices at once | an invoice has its effect once; commissions are earned in the term and settled once |
| channel records, accounts, marketing, wework, demo, plugins, printer clients, clients | their own tables | administration, reports, external calls | | | |

Components of the last row have no protocol between concurrent requests; they
are listed in `PROJECT.json` as not modelled, with the reason.

### Why copies are stale

Most hazards come from one pattern.  A handler selects the order without a lock,
awaits something, then selects it again `FOR UPDATE`.  SQLAlchemy finds the
object in the session's identity map and hands back *the attributes it already
has*: no query of the application sets `populate_existing`, and
`core/database.py` creates sessions with `expire_on_commit=False`, so only a
rollback makes them reload.  The lock is fresh, the decision is not.  An UPDATE
then writes only the columns whose value changed against that copy.  The models
keep both facts: `seen`/`fresh` in `OrderPayment` are the held copy and its
expiry, and every action writes single columns.  The print service is the
exception: it calls `db.refresh` after it locked, so `PrintDispatch` reads the
current row in every locked step and stale copies only where the code has them.

## 2. Modules

| Module | Models | Kind |
|---|---|---|
| `MoneyLedger` | what a customer may rely on: money captured, booked, order in the kitchen, money returned | abstract specification |
| `SingleQuery` | what a caller of the recovery gate may rely on: one query per order, its end answers everybody who joined | abstract specification |
| `OrderPayment` | prepay orders: `order_payment_service`, `order_lifecycle_service`, the stale-order loop, coupon, stock, points, and the gate as its callers see it | system |
| `MCOrderPayment` | symmetry for TLC | instance |
| `OrderPaymentProofs` | type correctness, joiners, stock | proofs |
| `OrderPaymentInvariance` | the inductive invariant, the safety theorems, stale copies as the cause of what goes wrong | proofs |
| `OrderPaymentRefinement` | `OrderPayment` implements `MoneyLedger`, and uses the gate as `SingleQuery` | proofs |
| `RecoveryGate`, `MCRecoveryGate` | `wxpay_recovery_gate.py` from the inside | system, instance |
| `RecoveryGateProofs` | one query per order, waiters, the gate implements `SingleQuery` | proofs |
| `PrintDispatch`, `MCPrintDispatch` | `order_print_service.py`, with the edits of `update_merchant_note` and `pickup_no_service` | system, instance |
| `PrintDispatchProofs` | one ticket, one slip, true states, who is told of an ended order and who is not | proofs |
| `TableService` | one table: `dining_session_service`, the ordering of `api/v1/orders.py`, `update_order_status` and `settle_table` | system |
| `PaymentHandoff` | `payment_handoff_service` and the places that end a handoff | system |
| `QueueTickets` | `queue_service` | system |
| `ShopFloorProofs` | tables: every meal on a bill, a bill once, a request one order; codes: one open, none for a paid order, one customer; queue: numbers without gaps, calls in turn | proofs |
| `CouponRewards` | `verify_service`, `record_after_verify`, coupons of orders | system |
| `PlatformBilling` | `billing_service`, `apply_paid_purchase`, channel commission and settlement | system |
| `MerchantMoneyProofs` | coupons used and rewarded once; invoices, terms and settlements | proofs |
| `ShopServices`, `MCShopServices` | the five services above, one in each behaviour, on small instances | collection for one run, instance |
| `ShopServicesProofs` | the types of all five | proofs |

### OrderPayment

A `Worker` is a database session: a request, a callback, or the stale-order loop
(`Cleaner`).  Its job has a program counter: `Discover` is the unlocked select,
`gate`/`join`/`query`/`apply` are the recovery, `ready` is the point before the
locked select, `opening` the provider call of a new payment, `refund` and
`reversed` the two commits of a refund.  One action is what runs under one row
lock; a handler that awaits or commits in the middle is several actions.

`row` keeps `status`, `payment_status`, `refund_status`, `coupon_id`; `wx` and
`rf` are the transaction and the refund at WeChat; `points` and `reversal` count
ledger rows.  The provider is modelled by what the code can observe: a query
that answers, denies or fails, a refund that is accepted with or without the
answer arriving.  The refund number `RF{order.id}` is the same in every
submission, so the provider keeps one refund per order.

Requests that only read (their first copy already forbids the change, and no
rollback can refresh it) are left out of `Discover`: they change nothing.  So
is what the effects after the commit of a payment do (printing is
`PrintDispatch`) and the refresh of the session's copy that follows them: the
session ends without deciding anything on it.  That they may raise is modelled.
`_recover_wxpay_order_if_paid` answers every exception with a rollback and "not
recovered": before the commit (the reward inside `_on_payment_success`, the
database) nothing is booked, which is `ApplyFails`; after it (the printing, the
coupon data) the payment is booked and the caller is told that it is not, which
is the second disjunct of `ApplyPayment`.

`MoneyLedger` says what the detail is for: money is captured, then booked; the
kitchen works on booked orders only; money is returned only when it was booked;
none of it is undone.  `Ledger` in `OrderPayment` is the refinement mapping.

`Gate` in `OrderPayment` maps the sessions to `SingleQuery`: who runs the query
of an order (from `query` to the step that decides), and who joined it.

### RecoveryGate

Every action is what one coroutine does between two awaits, which is what
asyncio interleaves: `Join`, `SkipCooldown` and `Start` are the three ways the
synchronous prefix of `attempt_recovery` ends (lookup with its sweep and
eviction included), `Recovered`, `NotRecovered` and `Aborted` the three ways the
query does.  The gate forgets an order itself when it was recovered (line 338,
part of `Recovered`); no other code calls `forget`.  The clock is an integer,
`Tick` advances it, and the constants are the fast-lane and cooldown delays.

`SingleQuery` is where the two meet.  `RecoveryGate` implements it (callers that
query run, callers that wait for a future wait), and what `OrderPayment`'s
sessions do is a behaviour of it: the gate promises what the sessions assume,
and `OrderPayment` needs no dictionary, no clock and no future.

### PrintDispatch

`row.col` is the column `print_status`, `row.meta` the record kept in
`merchant_note`.  An attempt is claimed and committed as SENDING, sent, and its
result recorded, in three steps of one session; `paper` counts the sheets that
really came out.  `lost` names the orders whose print record an unlocked edit
wrote over: the comment of a property says when it excludes them, and
`print_once` shows what happens to them.

Abstractions: SUCCESS of a reprint or a slip stands for UNKNOWN too, the code
treats them alike; the quarantine may come at any time (the code waits for the
claim to become old: every behaviour of the code is one of the model); the
cooldown after FAILED is dropped in the same way; the pickup edit is that of an
order without a dining session, the one nothing locks, and changing a number for
another is left out, because it rewrites the number's column only and nothing is
printed again; the list of up to five `manual_reprints` is one state, that of the
last one, because every reprint takes the same steps.

### TableService

`sitting` are the sessions of one table, `ordered` the orders in them.  The row
of the open session is the lock of the table: a guest that orders
(`EnterSession`, `OpenAndEnter`, until `CreateOrder` or `AbandonPost`) and a till
that settles (`ReadTable` until `SettleTable`) hold it, and `TableLocked` makes
the others wait.  What a guest writes about the session stays in its
transaction (`posting[g].table`) until it commits.  A status update
(`DiscoverOrder`, `UpdateStatus`) locks the order only and decides on the copy
it read before, so it passes through a settlement; `bill[t].rows` are the
unlocked copies that the settlement writes from.  A merchant may therefore
reject an order that a till is settling, and the last writer wins: this is why
`NoMealEscapesTheBill` speaks of orders that were ended *at some time*.
`printFirst` is the fulfilment mode, in which a pending order may be settled.

### PaymentHandoff

`serving[p]` is the transaction a request has open and the row locks it holds.
Creating a code and paying lock the order first, claiming locks the code first
and then waits for the order; the wait can be a deadlock, which `RollBack` ends.
A look-up (`LookUp`, `WriteBack`) locks nothing and writes what its copies say,
over whatever the row says by then.  An order that costs nothing is paid by the
claim itself.  A cancellation (`EndUnpaid`) is one step under the order's lock;
that it may decide on an old copy is the subject of `OrderPayment`, and is not
repeated here.

### QueueTickets, CouponRewards, PlatformBilling

`QueueTickets`: the number is read in `AskTicket`, the unique index decides in
`CreateTicket`, `RetryTicket` reads again.  `created_at` has whole seconds, so
which of two tickets of one second comes first is left open.  A call is three
steps: it looks, without a lock, for a called party (`BeginCall`), its locking
select takes the row of the first ticket that waits, after waiting itself for
another call that holds that row (`LockNext`), and it commits (`CallNext`).
Parties come between any two of them, and are seated or skipped unless their row
is locked (`RowIsFree`), since the UPDATE of `mark_status` waits for the lock.

`CouponRewards`: a verification is five commits or locks (`HoldCoupon`,
`UseCoupon`, `HoldCustomer`, `RecordReward`, `IssueReward`/`SettleReward`) and
may stop after each (`StopVerifying`); a payment does the same in one
transaction (`PayWithCoupon`).  What the rules reward is chosen when they are read
(`Rules`): amounts are computed then, and the merchant may switch rewards on and
off at any time.  The UPDATE of the customer's row serialises them.

`PlatformBilling`: `booking[b]` is the transaction that books a payment, with
the locks it holds (payment, invoice, binding, tenant, in this order) and the
subscription row it saw; all its writes are published by `BookPayment`.  The
snapshot is opened by the first ordinary read, in `LockInvoice`.

## 3. Runs

All bounds are constants of the `.cfg`.  Deadlock is not checked: a system whose
orders have all ended really stops.

| Run | Instance | Shows |
|---|---|---|
| `payment_safety` | 1 order, no coupon, 2 requests + loop | an unpaid order is never fulfilled, paid means captured, refunds are backed, kitchen orders are credited; the books go wrong only in the step of a session that decides on a stale copy; `MoneyLedger` is implemented, the gate is used as `SingleQuery` |
| `payment_orders` | 2 orders, 1 coupon, 1 unit of stock, 1 request + loop | types (stock never negative), no stranded coupon, no lost unit |
| `payment_liveness` | 1 order, 1 request + loop, 2 restarts | without any callback: unpaid orders end, joiners are answered, the loop books a payment it finds unless a query fails; if the callback comes: captured money is booked, late payments are sent back |
| `gate_single_flight` | 3 orders, 2 callers, table of 1 entry | a flight runs while its entry says so, the table is bounded, queries are spaced, `SingleQuery` is implemented |
| `print_safety` | 1 order, 2 requests + loop, 2 attempts, 1 restart, no overwritten record | one ticket, one slip, a rejected order is stopped, a slip is missed in three ways only |
| `print_recovery` | 1 order, 1 request + loop, 2 attempts, 1 restart, 1 overwritten record | print states are true, pending tickets are tried, SENDING is decided |
| `shop_services` | one service at a time, each with two rows of a kind and two requests (below) | meals are billed, bills, requests, codes, invoices, rewards, uses and settlements count once, numbers run on, parties are called in turn |
| `payment_applied_twice`, `payment_paid_cancel`, `payment_phantom_reversal`, `gate_fast_lane`, `print_once` | as above | findings, section 5 |

Why these bounds are enough to be interesting.  Each order has a row lock, so
steps of different orders interact only through the shared coupon, the stock and
the gate's dictionary: two orders compete for one coupon and one unit, three
orders for a table of one entry, and everything else needs one order.  Two
requests and the loop give the three concurrent sessions of every hazard listed
(one holds a copy, one commits, one joins).  `payment_safety` has no coupon: no
guard of an order's status, payment or refund reads one, and `payment_orders`
has one for two orders.  Two print attempts are a try and a retry; two restarts hit a late payment before and after its booking.  Nothing
else is bounded, except: the clock of the gate (`MaxTime`, beyond which `Tick`
stops), one overwriting edit per order in `MaxLost` orders (`GivesUp`), and one
reprint that may have come out.  `MaxLost` is 0 in `print_safety`, whose
properties say nothing of an order whose record was overwritten.  Symmetry is
over orders, coupons, requests and callers, never in a run with liveness.

`shop_services` runs one of five services in each behaviour (`running`).  This
is a way to check five modules in one run and says nothing of how the services
meet: in the code tables, codes and coupons work on the same rows of orders and
coupons.  Each module therefore has the orders or coupons of its own with the
columns its service uses, and, as steps of its own, what others do to them: the
kitchen and the payment in `TableService`, payment and cancellation in
`PaymentHandoff`, the orders that lock, use and free a coupon in
`CouponRewards`.  A behaviour in which two of these services work on one row is
not explored beyond that.  The services at rest start in one of their initial
states, and the sets of different services share their values so that one
symmetry serves all.  Two sessions of a table are one that
closes or expires and the next one; two orders, two request ids and two guests
are a pair that races, one of them a repetition; two tills settle at once.  Two
codes are the old and the new one of an order, two scanners the first and the
second guest.  Two tickets, two kiosks and two desks race for a number and for a
call, and three seconds are two days of two.  Two coupons and two counters race
for one reward.  Two invoices, two attempts and two billers pay one invoice
twice or two invoices at once; two cashiers choose overlapping sets of entries
and promote others on the way.  Days and
seconds stop at their bounds and rows are used up, which is why the run may
deadlock.

Each property has a mutant, a plausible bug put into one mapped definition
(operators commented `Mutant:`), and TLC finds the property violated by it.

### Fairness

* `WF(Step(w))`: a session goes on.  Provider and printer calls have timeouts,
  locks are released at commit, the process is restarted by its supervisor.
* `WF(Discover(Cleaner, "stale_cleanup", o))`, `WF(Trigger(Loop, o))`,
  `WF(Quarantine(o))`: `while True` loops of `main.py` whose body catches every
  exception.
* Restarts are bounded by `MaxCrashes`, otherwise no progress is due.

No fairness is assumed of customers, merchants, or of the provider's answers, and
none of callbacks: `PendingPaymentEnds`, `JoinersAreAnswered` and
`LoopBooksThePayment` hold when no callback ever comes.  `LoopBooksThePayment`
is what the loop promises then (the comment on `force_fresh` in `main.py`): an
order the customer has paid for, and of which no session has been told that it
is unpaid, is booked, and only a query or a booking that fails can let a session
decide otherwise.  If one does fail, or was too early, the order may be cancelled,
and no loop asks about a cancelled order again.  From there on only the callback
can book the money, so `CapturedIsBooked` and `LatePaymentIsSentBack` have it as
a hypothesis of their own, `CallbackComes`: a notification is repeated until it
is answered with success (the code answers so only after the refund of a late
payment was tried), as strong fairness because the sessions that receive it may
be busy.  Without the hypothesis TLC finds both violated, as they should be.

## 4. Proofs

TLAPS checks every theorem for all finite or infinite sets of orders, coupons
and sessions, from the named assumptions on the constants (the gate's callers
are finitely many, because the bound of its dictionary counts them).

`OrderPaymentProofs`: `TypeCorrect`, one step per action.  `JoinersHaveAQuery`:
an executor stays one until it answers, because a session that is in the gate
for anything but a recovery holds a `pending_payment` copy
(`CopiesArePending`), so only a recovery goes on to a refund with its query
still unanswered; an answer frees whoever joined (`AwaitInv` is the invariant).  `NoUnitIsLost`: a step that
takes a unit adds the order it takes it for, one that ends an order gives a unit
back (also when the order had ended before), the others end none; the open
orders stay finitely many, so they can be counted.

`OrderPaymentInvariance`: the safety invariants are not inductive by themselves,
because a session acts on a *copy*.  `Inv` adds what is true of copies.
`RowsAreConsistent`: money sent back was booked, an open row is unpaid.
`JobsAreBacked`: whatever copy a session holds is a past of the row or its own
write (`CopyBacked`): if the copy is paid the row is, if the copy is unpaid it is
still open or was cancelled, and once a copy has left `pending_payment` the row
has too.  `LocksAreHeld`: a LOCKED coupon has an open order and *every copy of
that order knows it*, which is why an ending on a stale copy still frees it.
The proof shows that each action grows what copies may rely on (`Grows`), keeps
the rows consistent (`Kept`), leaves its own session informed (`Informed`) and
keeps the holders (`Holds`).  The theorems `UnpaidIsNeverFulfilled`,
`BookedIsCaptured`, `RefundIsBacked`, `KitchenIsCredited` and
`LockedCouponIsHeld` follow from `Invariance`, `BookingIsKept` from the
invariant and the step.

`StaleCopiesAreTheCause` explains what `Inv` does not forbid: an illegal status,
a second credit, a paid order cancelled, a refund that succeeded forgotten, a
unit of stock given back twice.  All of them happen in the model (findings 1 and
2 are two of them), and each step that does one is the step of a session that
decides, after its locked select, on a copy that differs from the row
(`ActsOnStale`).  The proof sets that session aside: the copy is then the row
(`StaleOrTrue`), what the handler tests of its copy is true of the row, and a
payment is credited to an order that is still `pending_payment`, which has no
credit yet (`NotCreditedYet`).  `TrueCopiesSuffice` is the other side: if no
session decides on a stale copy, each payment is applied once, no paid order is
cancelled, and the stock plus the open orders is always exactly `InitStock`.
The hypothesis speaks of the three places that decide after a locked select and
of nothing else: callbacks, queries, lost answers and restarts come as they
like, and a session may hold a stale copy as long as it reads the row again
when it has locked it.  A locked select with `populate_existing` establishes it.

`OrderPaymentRefinement`: `Implements` maps initial states to initial states and
every step to a ledger step or a stutter.  `AssumesSingleQuery` does the same for
the gate: who joins has an executor (`AwaitInv`), an executor is the only one of
its order, its end sends exactly the joined sessions on.
`RecoveryGateProofs!GateIsSingleQuery` is the other half: the two models meet in
one specification.

`RecoveryGateProofs`: the entry of an order names the caller that queries for it
and no other does, hence `FlightsAreRunning`, `WaitersHaveAQuery` and
`OneQueryPerOrder`.  A new entry takes the place of a dropped one unless there
is room or all entries are in flight; then no two belong to one caller, hence
`DictionaryIsBounded`.  For `QueriesAreSpaced`, `Spaced` says that an entry is
touched no earlier than its order was asked about, so one that outlived its TTL
is older than any cooldown (`MaxCooldown <= Ttl` is an assumption), and that an
entry at rest with its attempts used up is not due before the cooldown.
`GateIsSingleQuery`: an entry that is dropped, evicted or overwritten is at
rest, so it is nobody's query; the end of a query resolves the future that all
waiters of the order hold, because there is one query (`OneQueryPerOrder`).

`PrintDispatchProofs`: for an order whose record stands, one session at most is
between the claim of the ticket and the record of its result, the record then
says SENDING or UNKNOWN, and `Claimable` refuses both (`TicketClaimed`); a
ticket whose state may be sent again did not come out (`TicketCounted`).  The
slip goes the same way, and `RowsAreThere` says that a rejected order stays
ended, so no claim can follow the check of `MerchantEnds`.  Most steps write
none of this: `QuietKeeps` deals with them at once, the lemmas after it with the
steps that claim, send and record.  The theorems hold for any number of
overwritten records, restarts and attempts.

`SlipsAreMissedInThreeWays` covers all ends of an order, a customer's too.  An
order is *untold* when it has ended, its ticket may be in the kitchen, no slip
was tried, and no session is about to try one.  A step leaves an order told if
it does not end it, does not make a slip needed and takes no slip back (`Told`).
Of the other steps, a claim needs an open order, the record of a result finds
SENDING and so a slip was needed before it, a merchant's end refreshes the row
and leaves a task behind; only `AsksOldCopy`, `ReprintsEnded` and a restart
remain, and TLC finds a behaviour for each of the three.

`ShopFloorProofs`, tables: `TableInv` says who is alone at the table
(`OneAtTheTable`), that what a guest is going to write about the sessions leaves
every meal accounted for or in the one open session (`PostsAreTrue`,
`SoundTable`), and that a till's session stays open, each of its orders settled
by the till's copies or accounted for already, the copies right about who has
paid (`BillsAreTrue`).  A status update on a stale copy changes statuses only:
an order that was paid or ended once stays accounted for.  So a session closes
only with each of its orders settled now or accounted for, and expires only
without an unfinished one.

`ShopFloorProofs`, queue: `NumbersAreDense` says that the numbers of a day are
1 to the last one, `RequestsAreNumbered` that all below a number that was read
were given out.  So a number that the index accepts is the next one, however old
the reading is, and `createdAt` orders tickets as their numbers do.  `HeldIsNext`
says that a locked ticket is held by one desk and stays the first that waits:
who comes later is younger, and nobody writes a locked row.

`ShopFloorProofs`, codes: while a code is being made nobody can pay or cancel its
order (`RequestsAreTrue`, `OneHolder`), a code that was paid has a paid order
(`RowsAreTrue`), so a code that may be claimed is the order's open one.

`MerchantMoneyProofs`: for coupons, one counter at most holds a coupon, and one
at most holds the customer's row or issues rewards (`OneCounter`); as long as
one holds the row nothing is on record (`VerificationsAreTrue`), and records
belong to one coupon (`OneFirstVisit`).  For billing, what an
open transaction read under its locks stays true until it ends
(`BookingsAreTrue`, `SettlementsAreTrue`), one transaction at most holds an
invoice or the binding (`OneBooking`), and an AVAILABLE entry is past its
holding time (`EntriesAreTrue`).

`ShopServicesProofs`: `ServicesTypeCorrect` puts the type invariants together
for the composition that the run checks.  That the composition changes no
service's steps (the lemma `ServicesAreApart`) holds by the way it is built and
is no statement about the code.

Every safety property of a passing run is proved, and the three refinements;
of `LoopBooksThePayment` the part that is an action property is model-checked
only, together with its liveness.  `CustomerStays` is proved and not run.
Proved and not run, because a property that is run implies them:
`JoinersAreAwaited`, `SingleFlight` and `WaitsForRunning` (by `SingleQuery`) and
`PaidNeverLost` (by `MoneyLedger`); `ColumnAgrees`, which the column's users rely
on, is a conjunct of the invariant of `PrintDispatch`.  Only model-checked: the
liveness properties, because fairness and ENABLED are beyond the prover.  The
models declare no RECURSIVE operator, so nothing is left out for that reason.

## 5. Findings

Each is the counterexample of a run.

1. `payment_applied_twice`: a callback that commits between the two selects of
   `_recover_wxpay_order_if_paid` is not seen; the consumption is credited twice.
2. `payment_paid_cancel`: `cancel_order` tests `payment_status` on the copy from
   before the lock and cancels a paid order.  The money is booked and the order
   refundable, nothing is lost silently, but the comment promises a fresh read.
3. `payment_phantom_reversal`: the refund of a late payment reverses a
   consumption nobody credited.
4. `gate_fast_lane`: the gate adds a delay computed after the query to the time
   before it, so the next query is allowed too early.
5. `print_once`: `update_merchant_note` writes the print record it read back
   over a committed claim; the ticket is sent again.

Findings 1 and 2 have one cause, by `StaleCopiesAreTheCause`, and one repair, by
`TrueCopiesSuffice`.

Seen in the models, without a run of its own.

* `SubscriptionService.apply_paid_purchase`: the comment at
  `subscription_service.py:518-523` says that the second of two purchases reads
  the first one's `ends_at` after the tenant's lock.  The read is an ordinary
  one, in a transaction whose snapshot was opened earlier, by the look-up of
  `channel_commission_service.py:71-76`, so under REPEATABLE READ it sees the old
  row.  In `PlatformBilling` two invoices pass `LockInvoice` and are booked one
  after the other, and both subscription rows end on the same day: one paid
  period is lost.  The same snapshot lets a purchase pass the check against
  another plan.
* An ended order may keep its ticket in the kitchen without a cancel slip:
  `cancel_order` asks its old copy, a reprint checks the status before the lock,
  and a slip is only a task in memory.  `SlipMissedInThreeWays` shows that there
  is no fourth way (as long as no edit writes the record back, finding 5).
* The stale copies of findings 1 and 2 also let two sessions give a unit of
  stock back twice, and a refund's success be written over
  (`OnlyStaleCopiesMislead`).
* `_expire_if_needed` may write EXPIRED over CLAIMED or PAID, from a look-up's
  copies; the order is not affected.
* Two desks that both saw no called party call one each, so two parties of a
  queue are called at a time; a customer that asks twice at once gets two
  tickets.
* A till that settles may overwrite a rejection, and a rejection a settlement.

## 6. Not modelled

Of the modelled components: free orders, mock and balance payment, the offline
payment of postpay orders outside a table's settlement (the same session
pattern, other columns); pricing, amounts and validation; errors of the database
itself; order requests without a request id, and orders without a session, which
a settlement finds by their table; consumption rows, written after the commit;
the scan memo and batch limits of the print loop; route freezing and plan
capabilities; rendering and printer formats; the clean-up inside `create_order`;
the pickup numbers that sessions lease; issuing of coupons and templates; the
reversal of a channel commission, which nothing calls; super admin grants.

Of the repository: the map covers a small share of its lines because most of
them are Vue clients' API handlers, reports, seed data, scripts, clients of
external services and administrative records.  They read or write single rows
in one transaction and have nothing for a model checker to interleave.  The
hazards of `PROJECT.json` that no property covers carry a note saying why.

## 7. Plan

In order of importance.

1. *Done*: `OrderPayment` with `MoneyLedger`, `RecoveryGate`, `PrintDispatch`,
   and their proofs.
2. *Done*: `TableService`, `PaymentHandoff`, `QueueTickets`, `CouponRewards`,
   `PlatformBilling`, and their proofs.
3. A run for the subscription period that two purchases lose, with the repair
   (a locking read) shown to keep every period.
4. *Partly done* (`SlipMissedInThreeWays`): extend `PrintDispatch` with errors of
   the database while a result is recorded, and count the sheets of reprints.
5. The clean-up of `create_order` that shares the session; stock of several
   dishes.  *Done*: the upper bound of stock (`OnlyStaleCopiesMislead`,
   `TrueCopiesSuffice`).
6. Pickup numbers leased by sessions, checked before they are taken.
7. *Done*: `RecoveryGate` as an implementation of the gate that `OrderPayment`
   assumes (`SingleQuery`).
