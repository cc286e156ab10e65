--------------------------- MODULE CouponRewards ---------------------------
(* The coupons of one invited customer: verified at the counter, locked and *)
(* used by orders, revoked and recalled, and the reward that the customer's *)
(* first use gives to the customer and to whoever invited it.  Of           *)
(* verify_service, commission_service.record_after_verify, the coupon part  *)
(* of _on_payment_success and of the order's end, and recall_coupon.        *)
(* The counter commits the use first and the reward afterwards, step by     *)
(* step, and stops wherever a step fails; a payment does all in one         *)
(* transaction.  The customer's row serialises the rewards.                 *)
EXTENDS Integers, FiniteSets

CONSTANTS
  Coupon,          \* the customer's coupons
  Counter,         \* requests that verify a coupon, at the same time
  NoCoupon

ASSUME CouponAssumption == NoCoupon \notin Coupon

VARIABLES
  coupon,          \* coupon -> its row, with the uses that were not revoked
  byStaff,         \* the customer was invited by staff
  reward,          \* coupon -> level -> status of the commission record it gave rise to
  sent,            \* level -> reward coupons issued
  counter          \* counter -> the verification it has open

couponVars == <<coupon, byStaff, reward, sent, counter>>

Level == {1, 2}      \* 1: the inviter, 2: the customer
\* The levels the rules may reward when they are read: computed each time, and the
\* merchant switches them off and on at any time.
Rules == SUBSET Level
NotVerifying == [pc |-> "idle", coupon |-> NoCoupon, levels |-> {}, issued |-> {}]

InitCoupon ==
  /\ coupon = [c \in Coupon |-> [status |-> "UNUSED", lapsed |-> FALSE, uses |-> 0]]
  /\ byStaff \in BOOLEAN
  /\ reward = [c \in Coupon |-> [l \in Level |-> "none"]]
  /\ sent = [l \in Level |-> 0]
  /\ counter = [d \in Counter |-> NotVerifying]

CouponHeld(c) == \E d \in Counter : counter[d].coupon = c /\ counter[d].pc = "held"
CustomerHeld == \E d \in Counter : counter[d].pc = "rewarding"
Rewarded == \E c \in Coupon, l \in Level : reward[c][l] # "none"
\* Staff are paid by hand, everybody else by a coupon.
ByCoupon(levels) == IF byStaff THEN levels \ {1} ELSE levels

Used(c) == [coupon EXCEPT ![c].status = "USED", ![c].uses = @ + 1]

\* Mutant: the coupon is not locked.
HoldCouponUnlocked(d, c) ==
  /\ counter[d].pc = "idle" /\ coupon[c].status = "UNUSED" /\ ~coupon[c].lapsed
  /\ counter' = [counter EXCEPT ![d] = [NotVerifying EXCEPT !.pc = "held", !.coupon = c]]
  /\ UNCHANGED <<coupon, byStaff, reward, sent>>

\* The counter scans a code: the coupon is locked and must be unused and in date.
HoldCoupon(d, c) ==
  /\ counter[d].pc = "idle" /\ ~CouponHeld(c)
  /\ coupon[c].status = "UNUSED" /\ ~coupon[c].lapsed
  /\ counter' = [counter EXCEPT ![d] = [NotVerifying EXCEPT !.pc = "held", !.coupon = c]]
  /\ UNCHANGED <<coupon, byStaff, reward, sent>>

\* One that is out of date is marked, also when an order holds it.
ExpireCoupon(c) ==
  /\ ~CouponHeld(c) /\ coupon[c].lapsed /\ coupon[c].status \notin {"USED", "REVOKED"}
  /\ coupon' = [coupon EXCEPT ![c].status = "EXPIRED"]
  /\ UNCHANGED <<byStaff, reward, sent, counter>>

UseCoupon(d) ==
  /\ counter[d].pc = "held"
  /\ coupon' = Used(counter[d].coupon)
  /\ counter' = [counter EXCEPT ![d].pc = "used"]
  /\ UNCHANGED <<byStaff, reward, sent>>

\* Mutant: the customer is not locked.
HoldCustomerUnlocked(d, levels) ==
  /\ counter[d].pc = "used"
  /\ counter' = [counter EXCEPT ![d] =
       IF Rewarded \/ levels = {} THEN NotVerifying
       ELSE [@ EXCEPT !.pc = "rewarding", !.levels = levels]]
  /\ UNCHANGED <<coupon, byStaff, reward, sent>>

\* record_after_verify locks the customer's row, and stops when a first use was
\* rewarded before or the rules reward nobody.
HoldCustomer(d, levels) ==
  /\ counter[d].pc = "used" /\ ~CustomerHeld
  /\ counter' = [counter EXCEPT ![d] =
       IF Rewarded \/ levels = {} THEN NotVerifying
       ELSE [@ EXCEPT !.pc = "rewarding", !.levels = levels]]
  /\ UNCHANGED <<coupon, byStaff, reward, sent>>

Recorded(c, levels, settled) ==
  [reward EXCEPT ![c] =
     [l \in Level |-> IF l \in settled THEN "SETTLED" ELSE IF l \in levels THEN "PENDING" ELSE @[l]]]

\* The records are committed, which frees the customer's row, before a coupon is sent.
RecordReward(d) ==
  /\ counter[d].pc = "rewarding"
  /\ reward' = Recorded(counter[d].coupon, counter[d].levels, {})
  /\ counter' = [counter EXCEPT ![d].pc = "issuing", ![d].levels = ByCoupon(@)]
  /\ UNCHANGED <<coupon, byStaff, sent>>

IssueReward(d, l, ok) ==
  /\ counter[d].pc = "issuing" /\ l \in counter[d].levels
  /\ sent' = IF ok THEN [sent EXCEPT ![l] = @ + 1] ELSE sent
  /\ counter' = [counter EXCEPT ![d].levels = @ \ {l}, ![d].issued = IF ok THEN @ \cup {l} ELSE @]
  /\ UNCHANGED <<coupon, byStaff, reward>>

SettleReward(d) ==
  /\ counter[d].pc = "issuing" /\ counter[d].levels = {}
  /\ reward' = Recorded(counter[d].coupon, {}, counter[d].issued)
  /\ counter' = [counter EXCEPT ![d] = NotVerifying]
  /\ UNCHANGED <<coupon, byStaff, sent>>

\* The daily limit refuses, an error is swallowed, or the process dies.
StopVerifying(d) ==
  /\ counter[d].pc # "idle"
  /\ counter' = [counter EXCEPT ![d] = NotVerifying]
  /\ UNCHANGED <<coupon, byStaff, reward, sent>>

\* The merchant takes a use back; the reward stays.
RevokeUse(c) ==
  /\ ~CouponHeld(c) /\ coupon[c].status = "USED"
  /\ coupon' = [coupon EXCEPT ![c].status = "UNUSED", ![c].uses = @ - 1]
  /\ UNCHANGED <<byStaff, reward, sent, counter>>

RecallCoupon(c) ==
  /\ ~CouponHeld(c) /\ coupon[c].status = "UNUSED"
  /\ coupon' = [coupon EXCEPT ![c].status = "REVOKED"]
  /\ UNCHANGED <<byStaff, reward, sent, counter>>

\* An order takes the coupon when it is placed, and lets go of it when it ends.
LockCoupon(c) ==
  /\ ~CouponHeld(c) /\ coupon[c].status = "UNUSED" /\ ~coupon[c].lapsed
  /\ coupon' = [coupon EXCEPT ![c].status = "LOCKED"]
  /\ UNCHANGED <<byStaff, reward, sent, counter>>

SetIfLocked(c, status) ==
  /\ ~CouponHeld(c) /\ coupon[c].status = "LOCKED"
  /\ coupon' = IF status = "USED" THEN Used(c) ELSE [coupon EXCEPT ![c].status = status]
  /\ UNCHANGED <<byStaff, reward, sent, counter>>

\* The order is paid: the use, the records and the reward coupons in one transaction.
PayWithCoupon(c, levels, issued) ==
  /\ ~CouponHeld(c) /\ coupon[c].status = "LOCKED" /\ ~CustomerHeld
  /\ coupon' = Used(c)
  /\ issued \subseteq ByCoupon(levels)
  /\ IF Rewarded
     THEN levels = {} /\ UNCHANGED <<reward, sent>>      \* the rules are not read
     ELSE /\ reward' = Recorded(c, levels, issued)
          /\ sent' = [l \in Level |-> sent[l] + (IF l \in issued THEN 1 ELSE 0)]
  /\ UNCHANGED <<byStaff, counter>>

\* The merchant marks a record as paid out.
SettleByHand(c, l) ==
  /\ reward[c][l] # "none"
  /\ reward' = [reward EXCEPT ![c][l] = "SETTLED"]
  /\ UNCHANGED <<coupon, byStaff, sent, counter>>

CouponLapses(c) ==
  /\ ~coupon[c].lapsed
  /\ coupon' = [coupon EXCEPT ![c].lapsed = TRUE]
  /\ UNCHANGED <<byStaff, reward, sent, counter>>

NextCoupon ==
  \/ \E d \in Counter, c \in Coupon : HoldCoupon(d, c)
  \/ \E d \in Counter : \/ UseCoupon(d) \/ RecordReward(d)
                        \/ SettleReward(d) \/ StopVerifying(d)
  \/ \E d \in Counter, levels \in Rules : HoldCustomer(d, levels)
  \/ \E d \in Counter, l \in Level, ok \in BOOLEAN : IssueReward(d, l, ok)
  \/ \E c \in Coupon : ExpireCoupon(c) \/ RevokeUse(c) \/ RecallCoupon(c) \/ LockCoupon(c) \/ CouponLapses(c)
  \/ \E c \in Coupon, status \in {"UNUSED", "USED"} : SetIfLocked(c, status)
  \/ \E c \in Coupon, levels \in Rules, issued \in SUBSET Level : PayWithCoupon(c, levels, issued)
  \/ \E c \in Coupon, l \in Level : SettleByHand(c, l)

CouponSpec == InitCoupon /\ [][NextCoupon]_couponVars

-----------------------------------------------------------------------------
CouponRow == [status : {"UNUSED", "LOCKED", "USED", "EXPIRED", "REVOKED"}, lapsed : BOOLEAN, uses : Int]
CounterRow == [pc : {"idle", "held", "used", "rewarding", "issuing"}, coupon : Coupon \cup {NoCoupon},
               levels : SUBSET Level, issued : SUBSET Level]

\* Every row and every open verification holds what it can hold.
CouponTypeOK ==
  /\ coupon \in [Coupon -> CouponRow]
  /\ byStaff \in BOOLEAN
  /\ reward \in [Coupon -> [Level -> {"none", "PENDING", "SETTLED"}]]
  /\ sent \in [Level -> Nat]
  /\ counter \in [Counter -> CounterRow]

\* Whichever coupons are verified, revoked, verified again or used by paid orders, and
\* at the same time: the first visit rewards each side once, on record and in coupons.
RewardedOnce ==
  \A l \in Level : Cardinality({c \in Coupon : reward[c][l] # "none"}) <= 1 /\ sent[l] <= 1

\* A coupon is used once until that use is taken back, at the counters and by orders
\* together.
VerifiedOnce == \A c \in Coupon : coupon[c].uses = (IF coupon[c].status = "USED" THEN 1 ELSE 0)

=============================================================================
