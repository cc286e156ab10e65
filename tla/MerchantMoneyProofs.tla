-------------------------- MODULE MerchantMoneyProofs --------------------------
(***************************************************************************)
(* What a merchant gives and pays, for any coupons, counters, invoices,    *)
(* payments and requests.                                                  *)
(*                                                                         *)
(* Coupons: a first visit is rewarded once.  While a counter holds the     *)
(* customer's row nothing is on record (VerificationsAreTrue), and what is *)
(* on record belongs to one coupon (OneFirstVisit).                        *)
(*                                                                         *)
(* Billing: an invoice is paid once, a commission is earned inside the     *)
(* term and settled once (BillingInv, below).                              *)
(***************************************************************************)
EXTENDS CouponRewards, PlatformBilling, FiniteSetTheorems, TLAPS

OnRecord(c) == \E l \in Level : reward[c][l] # "none"

\* What an open verification found or wrote still holds.
VerificationsAreTrue ==
  \A d \in Counter :
    /\ counter[d].pc # "idle" => counter[d].coupon \in Coupon
    /\ counter[d].pc = "held" => coupon[counter[d].coupon].status = "UNUSED"
    /\ counter[d].pc = "rewarding" => ~Rewarded /\ counter[d].levels # {}
    /\ counter[d].pc = "issuing" =>
         /\ OnRecord(counter[d].coupon)
         /\ \A l \in counter[d].levels : sent[l] = 0 /\ reward[counter[d].coupon][l] # "none"
         /\ \A l \in counter[d].issued : reward[counter[d].coupon][l] # "none"
    /\ counter[d].pc # "issuing" => counter[d].issued = {}

\* A coupon is held, the customer's row is held, and rewards are issued, by one counter.
OneCounter ==
  \A d1, d2 \in Counter : counter[d1].pc = counter[d2].pc =>
    /\ counter[d1].pc = "held" /\ counter[d1].coupon = counter[d2].coupon => d1 = d2
    /\ counter[d1].pc \in {"rewarding", "issuing"} => d1 = d2

OneFirstVisit ==
  /\ \A c1, c2 \in Coupon : OnRecord(c1) /\ OnRecord(c2) => c1 = c2
  /\ \A l \in Level : sent[l] \in {0, 1} /\ (sent[l] # 0 => Rewarded)

CouponInv == CouponTypeOK /\ VerificationsAreTrue /\ OneCounter /\ OneFirstVisit /\ VerifiedOnce

\* A counter's record, and a coupon's, keep their types.
LEMMA CounterTypes ==
  /\ NotVerifying \in CounterRow
  /\ \A c \in Coupon : [NotVerifying EXCEPT !.pc = "held", !.coupon = c] \in CounterRow
  BY DEF NotVerifying, CounterRow

LEMMA GoingOnTypes ==
  ASSUME NEW row \in CounterRow, NEW levels \in SUBSET Level, NEW issued \in SUBSET Level
  PROVE  /\ [row EXCEPT !.pc = "used"] \in CounterRow
         /\ [row EXCEPT !.pc = "rewarding", !.levels = levels] \in CounterRow
         /\ [row EXCEPT !.pc = "issuing", !.levels = levels] \in CounterRow
         /\ [row EXCEPT !.levels = levels, !.issued = issued] \in CounterRow
  BY DEF CounterRow

LEMMA CouponTypes ==
  ASSUME NEW row \in CouponRow
  PROVE  /\ \A st \in {"UNUSED", "LOCKED", "USED", "EXPIRED", "REVOKED"} :
              [row EXCEPT !.status = st] \in CouponRow
         /\ [row EXCEPT !.status = "USED", !.uses = @ + 1] \in CouponRow
         /\ [row EXCEPT !.status = "UNUSED", !.uses = @ - 1] \in CouponRow
         /\ [row EXCEPT !.lapsed = TRUE] \in CouponRow
  <1>1. row.uses \in Int /\ row.uses + 1 \in Int /\ row.uses - 1 \in Int
    BY DEF CouponRow
  <1> QED
    BY <1>1 DEF CouponRow

LEMMA RecordTypes ==
  ASSUME CouponTypeOK, NEW c \in Coupon, NEW levels, NEW settled
  PROVE  /\ Recorded(c, levels, settled) \in [Coupon -> [Level -> {"none", "PENDING", "SETTLED"}]]
         /\ \A l \in Level : Recorded(c, levels, settled)[c][l] =
              IF l \in settled THEN "SETTLED" ELSE IF l \in levels THEN "PENDING" ELSE reward[c][l]
         /\ \A x \in Coupon \ {c} : Recorded(c, levels, settled)[x] = reward[x]
  BY DEF Recorded, CouponTypeOK

-----------------------------------------------------------------------------
\* Every request leaves coupons, records and verifications their types.
LEMMA CouponTypeKept ==
  ASSUME CouponInv, [NextCoupon]_couponVars
  PROVE  CouponTypeOK'
  <1>a. CouponTypeOK /\ VerificationsAreTrue
    BY DEF CouponInv
  <1> USE <1>a DEF CouponTypeOK
  <1>u. ASSUME NEW c \in Coupon, NEW row \in CouponRow
        PROVE  [coupon EXCEPT ![c] = row] \in [Coupon -> CouponRow]
    OBVIOUS
  <1>k. ASSUME NEW d \in Counter, NEW row \in CounterRow
        PROVE  [counter EXCEPT ![d] = row] \in [Counter -> CounterRow]
    OBVIOUS
  <1>1. ASSUME NEW d \in Counter, NEW c \in Coupon, HoldCoupon(d, c)
        PROVE  CouponTypeOK'
    BY <1>1, CounterTypes DEF HoldCoupon
  <1>2. ASSUME NEW d \in Counter, UseCoupon(d)
        PROVE  CouponTypeOK'
    <2> DEFINE c == counter[d].coupon
    <2>1. c \in Coupon /\ coupon[c] \in CouponRow
      BY <1>2 DEF UseCoupon, VerificationsAreTrue
    <2>2. coupon' = [coupon EXCEPT ![c] = [coupon[c] EXCEPT !.status = "USED", !.uses = @ + 1]]
      BY <1>2 DEF UseCoupon, Used
    <2>3. counter' = [counter EXCEPT ![d] = [counter[d] EXCEPT !.pc = "used"]]
      BY <1>2 DEF UseCoupon
    <2>4. counter[d] \in CounterRow
      OBVIOUS
    <2>5. counter' \in [Counter -> CounterRow]
      BY <2>3, <2>4, GoingOnTypes
    <2>6. coupon' \in [Coupon -> CouponRow]
      BY <2>1, <2>2, CouponTypes
    <2> QED
      BY <1>2, <2>5, <2>6 DEF UseCoupon
  <1>3. ASSUME NEW d \in Counter, NEW levels \in Rules, HoldCustomer(d, levels)
        PROVE  CouponTypeOK'
    <2>1. [counter[d] EXCEPT !.pc = "rewarding", !.levels = levels] \in CounterRow
      BY GoingOnTypes DEF Rules
    <2>2. counter' = [counter EXCEPT ![d] = NotVerifying]
          \/ counter' = [counter EXCEPT ![d] = [counter[d] EXCEPT !.pc = "rewarding", !.levels = levels]]
      BY <1>3 DEF HoldCustomer
    <2>3. counter' \in [Counter -> CounterRow]
      BY <2>1, <2>2, CounterTypes
    <2> QED
      BY <1>3, <2>3 DEF HoldCustomer
  <1>4. ASSUME NEW d \in Counter, RecordReward(d)
        PROVE  CouponTypeOK'
    <2>1. counter[d].coupon \in Coupon /\ ByCoupon(counter[d].levels) \in SUBSET Level
      BY <1>4 DEF RecordReward, VerificationsAreTrue, ByCoupon, CounterRow
    <2>2. [counter[d] EXCEPT !.pc = "issuing", !.levels = ByCoupon(counter[d].levels)] \in CounterRow
      BY <2>1, GoingOnTypes
    <2>3. counter' = [counter EXCEPT ![d] =
            [counter[d] EXCEPT !.pc = "issuing", !.levels = ByCoupon(counter[d].levels)]]
      BY <1>4 DEF RecordReward
    <2>4. counter' \in [Counter -> CounterRow]
      BY <2>2, <2>3
    <2>5. reward' \in [Coupon -> [Level -> {"none", "PENDING", "SETTLED"}]]
      BY <1>4, <2>1, RecordTypes DEF RecordReward
    <2> QED
      BY <1>4, <2>4, <2>5 DEF RecordReward
  <1>5. ASSUME NEW d \in Counter, NEW l \in Level, NEW ok \in BOOLEAN, IssueReward(d, l, ok)
        PROVE  CouponTypeOK'
    <2>1. sent' \in [Level -> Nat]
      BY <1>5 DEF IssueReward
    <2>2. counter' \in [Counter -> CounterRow]
      <3> DEFINE levels == counter[d].levels \ {l}
                 issued == IF ok THEN counter[d].issued \cup {l} ELSE counter[d].issued
      <3>1. levels \in SUBSET Level /\ issued \in SUBSET Level
        BY DEF CounterRow
      <3>2. counter' = [counter EXCEPT ![d] = [counter[d] EXCEPT !.levels = levels, !.issued = issued]]
        BY <1>5 DEF IssueReward
      <3> HIDE DEF levels, issued
      <3>3. [counter[d] EXCEPT !.levels = levels, !.issued = issued] \in CounterRow
        BY <3>1, GoingOnTypes
      <3> QED
        BY <3>2, <3>3
    <2> QED
      BY <1>5, <2>1, <2>2 DEF IssueReward
  <1>6. ASSUME NEW d \in Counter, SettleReward(d)
        PROVE  CouponTypeOK'
    <2>1. counter[d].coupon \in Coupon
      BY <1>6 DEF SettleReward, VerificationsAreTrue
    <2> QED
      <3>1. reward' \in [Coupon -> [Level -> {"none", "PENDING", "SETTLED"}]]
        BY <1>6, <2>1, RecordTypes DEF SettleReward
      <3>2. counter' \in [Counter -> CounterRow]
        BY <1>6, CounterTypes DEF SettleReward
      <3> QED
        BY <1>6, <3>1, <3>2 DEF SettleReward
  <1>7. ASSUME NEW d \in Counter, StopVerifying(d)
        PROVE  CouponTypeOK'
    BY <1>7, CounterTypes DEF StopVerifying
  <1>8. ASSUME NEW c \in Coupon, ExpireCoupon(c) \/ RevokeUse(c) \/ RecallCoupon(c) \/ LockCoupon(c)
                                 \/ CouponLapses(c)
        PROVE  CouponTypeOK'
    <2>1. PICK row \in CouponRow : coupon' = [coupon EXCEPT ![c] = row]
      <3>1. coupon[c] \in CouponRow
        OBVIOUS
      <3> QED
        BY <1>8, <3>1, CouponTypes DEF ExpireCoupon, RevokeUse, RecallCoupon, LockCoupon, CouponLapses
    <2>2. UNCHANGED <<byStaff, reward, sent, counter>>
      BY <1>8 DEF ExpireCoupon, RevokeUse, RecallCoupon, LockCoupon, CouponLapses
    <2> QED
      BY <1>u, <2>1, <2>2
  <1>9. ASSUME NEW c \in Coupon, NEW st \in {"UNUSED", "USED"}, SetIfLocked(c, st)
        PROVE  CouponTypeOK'
    <2>1. PICK row \in CouponRow : coupon' = [coupon EXCEPT ![c] = row]
      <3>1. coupon[c] \in CouponRow
        OBVIOUS
      <3> QED
        BY <1>9, <3>1, CouponTypes DEF SetIfLocked, Used
    <2> QED
      BY <1>9, <1>u, <2>1 DEF SetIfLocked
  <1>10. ASSUME NEW c \in Coupon, NEW levels \in Rules, NEW issued \in SUBSET Level,
                PayWithCoupon(c, levels, issued)
         PROVE  CouponTypeOK'
    <2>1. coupon' = [coupon EXCEPT ![c] = [coupon[c] EXCEPT !.status = "USED", !.uses = @ + 1]]
      BY <1>10 DEF PayWithCoupon, Used
    <2>2. coupon' \in [Coupon -> CouponRow]
      BY <1>u, <2>1, CouponTypes
    <2>3. sent' \in [Level -> Nat]
      BY <1>10 DEF PayWithCoupon
    <2>4. reward' \in [Coupon -> [Level -> {"none", "PENDING", "SETTLED"}]]
      BY <1>10, RecordTypes DEF PayWithCoupon
    <2> QED
      BY <1>10, <2>2, <2>3, <2>4 DEF PayWithCoupon
  <1>11. ASSUME NEW c \in Coupon, NEW l \in Level, SettleByHand(c, l)
         PROVE  CouponTypeOK'
    BY <1>11 DEF SettleByHand
  <1>12. CASE UNCHANGED couponVars
    BY <1>12 DEF couponVars
  <1> QED
    BY <1>1, <1>2, <1>3, <1>4, <1>5, <1>6, <1>7, <1>8, <1>9, <1>10, <1>11, <1>12 DEF NextCoupon

-----------------------------------------------------------------------------
CouponSound == VerificationsAreTrue /\ OneCounter /\ OneFirstVisit /\ VerifiedOnce

\* A step that changes no record and no held coupon.
LEMMA CouponOnly ==
  ASSUME CouponInv, NEW c \in Coupon, ~CouponHeld(c), UNCHANGED <<reward, sent, counter>>,
         \A x \in Coupon \ {c} : coupon'[x] = coupon[x],
         coupon'[c].uses = IF coupon'[c].status = "USED" THEN 1 ELSE 0
  PROVE  CouponSound'
  <1> USE DEF CouponInv
  <1>1. VerificationsAreTrue'
    BY DEF VerificationsAreTrue, CouponHeld, Rewarded, OnRecord
  <1>2. OneCounter' /\ OneFirstVisit'
    BY DEF OneCounter, OneFirstVisit, OnRecord, Rewarded
  <1>3. VerifiedOnce'
    BY DEF VerifiedOnce
  <1> QED
    BY <1>1, <1>2, <1>3 DEF CouponSound

\* A counter that goes on without touching a row.
LEMMA CounterOnly ==
  ASSUME CouponInv, NEW d \in Counter, UNCHANGED <<coupon, reward, sent>>,
         \A x \in Counter \ {d} : counter'[x] = counter[x],
         counter'[d].pc # "idle" => counter'[d].coupon \in Coupon, counter'[d].issued = {},
         \/ counter'[d].pc = "idle"
         \/ counter'[d].pc = "held" /\ ~CouponHeld(counter'[d].coupon)
              /\ coupon[counter'[d].coupon].status = "UNUSED"
         \/ counter'[d].pc = "rewarding" /\ ~CustomerHeld /\ ~Rewarded /\ counter'[d].levels # {}
  PROVE  CouponSound'
  <1> USE DEF CouponInv
  <1>1. VerificationsAreTrue'
    BY DEF VerificationsAreTrue, Rewarded, OnRecord
  <1>2. OneCounter'
    BY DEF OneCounter, CouponHeld, CustomerHeld
  <1>3. OneFirstVisit' /\ VerifiedOnce'
    BY DEF OneFirstVisit, OnRecord, Rewarded, VerifiedOnce
  <1> QED
    BY <1>1, <1>2, <1>3 DEF CouponSound

LEMMA UseKeeps ==
  ASSUME CouponInv, NEW d \in Counter, UseCoupon(d)
  PROVE  CouponSound'
  <1> USE DEF CouponInv
  <1> DEFINE c == counter[d].coupon
  <1>1. /\ c \in Coupon /\ counter[d].pc = "held" /\ coupon[c].status = "UNUSED" /\ coupon[c].uses = 0
        /\ UNCHANGED <<reward, sent>>
        /\ counter'[d].pc = "used" /\ counter'[d].coupon = c /\ counter'[d].issued = {}
        /\ \A x \in Counter \ {d} : counter'[x] = counter[x]
    BY DEF UseCoupon, VerificationsAreTrue, VerifiedOnce, CouponTypeOK, CounterRow
  <1>2. /\ coupon'[c].status = "USED" /\ coupon'[c].uses = 1
        /\ \A x \in Coupon \ {c} : coupon'[x] = coupon[x]
    BY <1>1 DEF UseCoupon, Used, CouponTypeOK, CouponRow
  <1> HIDE DEF c
  <1>3. VerificationsAreTrue'
    <2>1. \A x \in Counter \ {d} : counter[x].pc = "held" => counter[x].coupon # c
      BY <1>1 DEF OneCounter, c
    <2> QED
      BY <1>1, <1>2, <2>1 DEF VerificationsAreTrue, Rewarded, OnRecord
  <1>4. OneCounter'
    BY <1>1 DEF OneCounter
  <1>5. OneFirstVisit' /\ VerifiedOnce'
    BY <1>1, <1>2 DEF OneFirstVisit, OnRecord, Rewarded, VerifiedOnce
  <1> QED
    BY <1>3, <1>4, <1>5 DEF CouponSound

\* Nothing was on record, so no other counter issues and nothing was sent.
LEMMA RecordKeeps ==
  ASSUME CouponInv, NEW d \in Counter, RecordReward(d)
  PROVE  CouponSound'
  <1> USE DEF CouponInv
  <1> DEFINE c == counter[d].coupon
             levels == counter[d].levels
  <1>1. /\ c \in Coupon /\ counter[d].pc = "rewarding" /\ ~Rewarded /\ levels # {} /\ levels \subseteq Level
        /\ UNCHANGED <<coupon, sent>>
        /\ counter'[d].pc = "issuing" /\ counter'[d].coupon = c
        /\ counter'[d].levels = ByCoupon(levels) /\ counter'[d].issued = counter[d].issued
        /\ \A x \in Counter \ {d} : counter'[x] = counter[x]
    BY DEF RecordReward, VerificationsAreTrue, CouponTypeOK, CounterRow
  <1>2. /\ \A l \in Level : reward[c][l] = "none" /\ sent[l] = 0
        /\ \A x \in Coupon, l \in Level : reward[x][l] = "none"
        /\ \A x \in Counter : counter[x].pc # "issuing"
        /\ \A x \in Counter \ {d} : counter[x].pc # "rewarding"
    BY <1>1 DEF Rewarded, VerificationsAreTrue, OnRecord, OneFirstVisit, OneCounter
  <1>3. /\ \A l \in levels : reward'[c][l] # "none"
        /\ \A x \in Coupon \ {c} : reward'[x] = reward[x]
    BY <1>1, RecordTypes DEF RecordReward
  <1>4. counter[d].issued = {} /\ ByCoupon(levels) \subseteq levels
    BY <1>1 DEF VerificationsAreTrue, ByCoupon
  <1> HIDE DEF c, levels
  <1>5. /\ \E l \in Level : reward'[c][l] # "none"
        /\ \A x \in Coupon \ {c}, l \in Level : reward'[x][l] = "none"
    BY <1>1, <1>2, <1>3
  <1>6. VerificationsAreTrue'
    BY <1>1, <1>2, <1>3, <1>4, <1>5 DEF VerificationsAreTrue, OnRecord
  <1>7. OneCounter'
    BY <1>1, <1>2 DEF OneCounter
  <1>8. OneFirstVisit'
    BY <1>1, <1>2, <1>5 DEF OneFirstVisit, OnRecord
  <1>9. VerifiedOnce'
    BY <1>1 DEF VerifiedOnce
  <1> QED
    BY <1>6, <1>7, <1>8, <1>9 DEF CouponSound

LEMMA IssueKeeps ==
  ASSUME CouponInv, NEW d \in Counter, NEW l \in Level, NEW ok \in BOOLEAN, IssueReward(d, l, ok)
  PROVE  CouponSound'
  <1> USE DEF CouponInv
  <1> DEFINE c == counter[d].coupon
  <1>1. /\ c \in Coupon /\ counter[d].pc = "issuing" /\ l \in counter[d].levels
        /\ UNCHANGED <<coupon, reward>>
        /\ counter'[d].pc = "issuing" /\ counter'[d].coupon = c
        /\ counter'[d].levels = counter[d].levels \ {l}
        /\ counter'[d].issued \subseteq counter[d].issued \cup {l}
        /\ \A x \in Counter \ {d} : counter'[x] = counter[x]
    BY DEF IssueReward, VerificationsAreTrue, CouponTypeOK, CounterRow
  <1>2. /\ sent[l] = 0 /\ sent'[l] \in {0, 1}
        /\ \A x \in Level \ {l} : sent'[x] = sent[x]
    BY <1>1 DEF IssueReward, VerificationsAreTrue, CouponTypeOK
  <1>3. reward[c][l] # "none"
    BY <1>1 DEF VerificationsAreTrue
  <1>4. \A x \in Counter \ {d} : counter[x].pc # "issuing"
    BY <1>1 DEF OneCounter
  <1> HIDE DEF c
  <1>5. VerificationsAreTrue'
    <2>1. counter[d].levels \subseteq Level
      BY DEF CouponTypeOK, CounterRow
    <2>2. OnRecord(c)
      BY <1>1, <1>3 DEF OnRecord
    <2>3. \A x \in counter[d].levels \cup counter[d].issued : reward[c][x] # "none"
      BY <1>1 DEF VerificationsAreTrue, c
    <2>4. \A x \in counter'[d].levels : sent'[x] = 0
      BY <1>1, <1>2, <2>1 DEF VerificationsAreTrue
    <2> QED
      BY <1>1, <1>3, <1>4, <2>2, <2>3, <2>4 DEF VerificationsAreTrue, Rewarded, OnRecord
  <1>6. OneCounter'
    BY <1>1 DEF OneCounter
  <1>7. Rewarded
    BY <1>1, <1>3 DEF Rewarded
  <1>8. OneFirstVisit' /\ VerifiedOnce'
    BY <1>1, <1>2, <1>7 DEF OneFirstVisit, OnRecord, Rewarded, VerifiedOnce
  <1> QED
    BY <1>5, <1>6, <1>8 DEF CouponSound

\* Which records are there does not change: a step that settles some of them.
LEMMA Settling ==
  ASSUME CouponInv, UNCHANGED <<coupon, sent>>,
         \A c \in Coupon, l \in Level : reward'[c][l] = "none" <=> reward[c][l] = "none",
         \A d \in Counter : counter'[d] = counter[d] \/ (counter'[d].pc = "idle" /\ counter'[d].issued = {})
  PROVE  CouponSound'
  <1> USE DEF CouponInv
  <1>1. Rewarded' = Rewarded /\ \A c \in Coupon : OnRecord(c)' = OnRecord(c)
    BY DEF Rewarded, OnRecord
  <1>2. \A d \in Counter : counter[d].levels \subseteq Level /\ counter[d].issued \subseteq Level
    BY DEF CouponTypeOK, CounterRow
  <1>3. VerificationsAreTrue'
    BY <1>1, <1>2 DEF VerificationsAreTrue
  <1>4. OneCounter'
    BY DEF OneCounter
  <1>5. OneFirstVisit' /\ VerifiedOnce'
    BY <1>1 DEF OneFirstVisit, VerifiedOnce
  <1> QED
    BY <1>3, <1>4, <1>5 DEF CouponSound

\* A paid order uses its coupon, and rewards when nothing is on record: then no
\* counter holds the customer or issues.
LEMMA PayKeeps ==
  ASSUME CouponInv, NEW c \in Coupon, NEW levels \in Rules, NEW issued \in SUBSET Level,
         PayWithCoupon(c, levels, issued)
  PROVE  CouponSound'
  <1> USE DEF CouponInv
  <1>1. /\ ~CouponHeld(c) /\ ~CustomerHeld /\ UNCHANGED counter
        /\ coupon'[c].status = "USED" /\ coupon'[c].uses = 1
        /\ \A x \in Coupon \ {c} : coupon'[x] = coupon[x]
    BY DEF PayWithCoupon, Used, VerifiedOnce, CouponTypeOK, CouponRow
  <1>2. CASE Rewarded
    <2>1. UNCHANGED <<reward, sent>>
      BY <1>2 DEF PayWithCoupon
    <2> QED
      BY <1>1, <2>1, CouponOnly
  <1>3. CASE ~Rewarded
    <2>1. /\ issued \subseteq levels /\ levels \subseteq Level
          /\ reward' = Recorded(c, levels, issued)
          /\ \A l \in Level : sent'[l] = sent[l] + (IF l \in issued THEN 1 ELSE 0)
      BY <1>3 DEF PayWithCoupon, ByCoupon, Rules
    <2>2. /\ \A l \in Level : sent[l] = 0
          /\ \A x \in Coupon, l \in Level : reward[x][l] = "none"
          /\ \A d \in Counter : counter[d].pc \notin {"rewarding", "issuing"}
      BY <1>1, <1>3 DEF Rewarded, VerificationsAreTrue, OnRecord, OneFirstVisit, CustomerHeld
    <2>3. /\ \A l \in levels : reward'[c][l] # "none"
          /\ \A x \in Coupon \ {c} : reward'[x] = reward[x]
      BY <2>1, RecordTypes
    <2>4. VerificationsAreTrue'
      BY <1>1, <2>2 DEF VerificationsAreTrue, CouponHeld
    <2>5. OneCounter'
      BY <1>1 DEF OneCounter
    <2>6. OneFirstVisit'
      <3>1. \A x \in Coupon \ {c}, l \in Level : reward'[x][l] = "none"
        BY <2>2, <2>3
      <3>2. \A l \in Level : sent'[l] = IF l \in issued THEN 1 ELSE 0
        BY <2>1, <2>2
      <3> QED
        BY <2>1, <2>3, <3>1, <3>2 DEF OneFirstVisit, OnRecord, Rewarded
    <2>7. VerifiedOnce'
      BY <1>1 DEF VerifiedOnce
    <2> QED
      BY <2>4, <2>5, <2>6, <2>7 DEF CouponSound
  <1> QED
    BY <1>2, <1>3

-----------------------------------------------------------------------------
LEMMA CouponInvKept ==
  ASSUME CouponInv, [NextCoupon]_couponVars
  PROVE  CouponInv'
  <1>t. CouponTypeOK'
    BY CouponTypeKept
  <1> SUFFICES CouponSound'
    BY <1>t DEF CouponInv, CouponSound
  <1>a. CouponTypeOK /\ VerificationsAreTrue /\ VerifiedOnce
    BY DEF CouponInv
  <1> USE <1>a
  <1>1. ASSUME NEW d \in Counter, NEW c \in Coupon, HoldCoupon(d, c)
        PROVE  CouponSound'
    <2>1. /\ UNCHANGED <<coupon, reward, sent>> /\ ~CouponHeld(c) /\ coupon[c].status = "UNUSED"
          /\ counter'[d].pc = "held" /\ counter'[d].coupon = c /\ counter'[d].issued = {}
          /\ \A x \in Counter \ {d} : counter'[x] = counter[x]
      BY <1>1 DEF HoldCoupon, CouponTypeOK, NotVerifying
    <2> QED
      BY <2>1, CounterOnly
  <1>2. ASSUME NEW d \in Counter, NEW levels \in Rules, HoldCustomer(d, levels)
        PROVE  CouponSound'
    <2>1. /\ UNCHANGED <<coupon, reward, sent>> /\ ~CustomerHeld
          /\ \A x \in Counter \ {d} : counter'[x] = counter[x]
          /\ \/ counter'[d].pc = "idle" /\ counter'[d].issued = {}
             \/ /\ counter'[d].pc = "rewarding" /\ counter'[d].coupon = counter[d].coupon
                /\ counter'[d].issued = counter[d].issued
                /\ ~Rewarded /\ counter'[d].levels # {} /\ counter[d].pc = "used"
      BY <1>2 DEF HoldCustomer, CouponTypeOK, NotVerifying, CounterRow
    <2>2. counter[d].pc = "used" => counter[d].issued = {} /\ counter[d].coupon \in Coupon
      BY DEF VerificationsAreTrue
    <2> QED
      BY <2>1, <2>2, CounterOnly
  <1>3. ASSUME NEW d \in Counter, StopVerifying(d)
        PROVE  CouponSound'
    <2>1. /\ UNCHANGED <<coupon, reward, sent>>
          /\ counter'[d].pc = "idle" /\ counter'[d].issued = {}
          /\ \A x \in Counter \ {d} : counter'[x] = counter[x]
      BY <1>3 DEF StopVerifying, CouponTypeOK, NotVerifying
    <2> QED
      BY <2>1, CounterOnly
  <1>4. ASSUME NEW d \in Counter, SettleReward(d)
        PROVE  CouponSound'
    <2> DEFINE c == counter[d].coupon
    <2>1. c \in Coupon /\ counter[d].pc = "issuing" /\ UNCHANGED <<coupon, sent>>
            /\ reward' = Recorded(c, {}, counter[d].issued)
            /\ counter'[d].pc = "idle" /\ counter'[d].issued = {}
            /\ \A x \in Counter \ {d} : counter'[x] = counter[x]
      BY <1>4 DEF SettleReward, VerificationsAreTrue, CouponTypeOK, NotVerifying
    <2>2. \A x \in Coupon, l \in Level : reward'[x][l] = "none" <=> reward[x][l] = "none"
      <3>1. \A l \in counter[d].issued : reward[c][l] # "none"
        BY <2>1 DEF VerificationsAreTrue
      <3> HIDE DEF c
      <3>2. \A l \in Level : reward'[c][l] = IF l \in counter[d].issued THEN "SETTLED" ELSE reward[c][l]
        BY <2>1, RecordTypes
      <3>3. \A x \in Coupon \ {c} : reward'[x] = reward[x]
        BY <2>1, RecordTypes
      <3> QED
        BY <3>1, <3>2, <3>3
    <2> QED
      BY <2>1, <2>2, Settling
  <1>5. ASSUME NEW c \in Coupon, NEW l \in Level, SettleByHand(c, l)
        PROVE  CouponSound'
    BY <1>5, Settling DEF SettleByHand, CouponTypeOK
  <1>6. ASSUME NEW c \in Coupon, ExpireCoupon(c) \/ RevokeUse(c) \/ RecallCoupon(c) \/ LockCoupon(c)
        PROVE  CouponSound'
    <2>1. /\ ~CouponHeld(c) /\ UNCHANGED <<reward, sent, counter>>
          /\ \A x \in Coupon \ {c} : coupon'[x] = coupon[x]
          /\ coupon'[c].uses = IF coupon'[c].status = "USED" THEN 1 ELSE 0
      BY <1>6 DEF ExpireCoupon, RevokeUse, RecallCoupon, LockCoupon, VerifiedOnce, CouponTypeOK, CouponRow
    <2> QED
      BY <2>1, CouponOnly
  <1>7. ASSUME NEW c \in Coupon, NEW st \in {"UNUSED", "USED"}, SetIfLocked(c, st)
        PROVE  CouponSound'
    <2>1. /\ ~CouponHeld(c) /\ UNCHANGED <<reward, sent, counter>>
          /\ \A x \in Coupon \ {c} : coupon'[x] = coupon[x]
          /\ coupon'[c].uses = IF coupon'[c].status = "USED" THEN 1 ELSE 0
      BY <1>7 DEF SetIfLocked, Used, VerifiedOnce, CouponTypeOK, CouponRow
    <2> QED
      BY <2>1, CouponOnly
  <1>8. ASSUME NEW c \in Coupon, CouponLapses(c)
        PROVE  CouponSound'
    <2>1. /\ UNCHANGED <<reward, sent, counter>>
          /\ \A x \in Coupon : coupon'[x].status = coupon[x].status /\ coupon'[x].uses = coupon[x].uses
      BY <1>8 DEF CouponLapses, CouponTypeOK, CouponRow
    <2> QED
      BY <2>1 DEF CouponInv, CouponSound, VerificationsAreTrue, OneCounter, OneFirstVisit, VerifiedOnce,
        OnRecord, Rewarded
  <1>9. CASE UNCHANGED couponVars
    BY <1>9 DEF couponVars, CouponInv, CouponSound, VerificationsAreTrue, OneCounter,
      OneFirstVisit, VerifiedOnce, OnRecord, Rewarded
  <1> QED
    BY <1>1, <1>2, <1>3, <1>4, <1>5, <1>6, <1>7, <1>8, <1>9, UseKeeps, RecordKeeps, IssueKeeps, PayKeeps
      DEF NextCoupon

LEMMA CouponInvInit == InitCoupon => CouponInv
  <1> SUFFICES ASSUME InitCoupon PROVE CouponInv
    OBVIOUS
  <1>1. /\ \A d \in Counter : counter[d].pc = "idle" /\ counter[d].issued = {}
        /\ \A c \in Coupon : coupon[c].status = "UNUSED" /\ coupon[c].uses = 0
        /\ \A c \in Coupon, l \in Level : reward[c][l] = "none"
        /\ \A l \in Level : sent[l] = 0
    BY DEF InitCoupon, NotVerifying
  <1>2. CouponTypeOK
    <2>1. [status |-> "UNUSED", lapsed |-> FALSE, uses |-> 0] \in CouponRow
      BY DEF CouponRow
    <2>2. coupon \in [Coupon -> CouponRow] /\ counter \in [Counter -> CounterRow]
      BY <2>1, CounterTypes DEF InitCoupon
    <2> QED
      BY <2>2 DEF InitCoupon, CouponTypeOK
  <1> QED
    BY <1>1, <1>2 DEF CouponInv, VerificationsAreTrue, OneCounter, OneFirstVisit, VerifiedOnce, OnRecord

\* Types, locks and the rest: the invariant the results on coupons rest on.
THEOREM CouponInvHolds == CouponSpec => []CouponInv
  BY CouponInvInit, CouponInvKept, PTL DEF CouponSpec

\* The first visit rewards each side once, on record and in coupons, whichever
\* coupons are verified, revoked, verified again or used by paid orders.
THEOREM FirstVisitRewardedOnce == CouponSpec => []RewardedOnce
  <1>1. CouponInv => RewardedOnce
    <2> SUFFICES ASSUME CouponInv, NEW l \in Level
                 PROVE  Cardinality({c \in Coupon : reward[c][l] # "none"}) <= 1 /\ sent[l] <= 1
      BY DEF RewardedOnce
    <2> DEFINE S == {c \in Coupon : reward[c][l] # "none"}
    <2>1. sent[l] \in {0, 1}
      BY DEF CouponInv, OneFirstVisit
    <2>2. CASE S = {}
      BY <2>1, <2>2, FS_EmptySet
    <2>3. CASE S # {}
      <3>1. \E c \in S : S = {c}
        BY <2>3 DEF CouponInv, OneFirstVisit, OnRecord
      <3> QED
        BY <2>1, <3>1, FS_Singleton
    <2> QED
      BY <2>2, <2>3
  <1> QED
    BY <1>1, CouponInvHolds, PTL

\* A coupon is used once until that use is taken back.
THEOREM CouponUsedOnce == CouponSpec => []VerifiedOnce
  BY CouponInvHolds, PTL DEF CouponInv

-----------------------------------------------------------------------------
(***************************************************************************)
(* Billing: one success per invoice, one term per binding, one payout per  *)
(* commission.  A transaction that holds an invoice found it unpaid and it *)
(* stays so (BookingsAreTrue, OneBooking); what a settlement holds nobody  *)
(* else changes (SettlementsAreTrue).                                      *)
(***************************************************************************)
HoldsInvoice(b) == booking[b].pc \in {"invoice", "bound", "unbound"}
BookedInvoice(b) == payment[booking[b].payment].invoice

PaymentsAreTrue ==
  \A p \in Payment : IF payment[p].status = "none" THEN payment[p].provider = "none"
                    ELSE payment[p].invoice \in Invoice

BookingIsTrue(b) ==
  /\ booking[b].pc # "idle" =>
       /\ booking[b].payment \in Payment /\ payment[booking[b].payment].status # "none"
       /\ booking[b].paidAt <= day
  /\ HoldsInvoice(b) => payment[booking[b].payment].status # "PAID" /\ invoice[BookedInvoice(b)] # "PAID"
  /\ booking[b].pc # "bound" => ~booking[b].earns /\ ~booking[b].starts
  /\ booking[b].pc = "bound" =>
       /\ booking[b].starts <=> ~binding.started
       /\ booking[b].earns => InTerm(booking[b].paidAt)
BookingsAreTrue == \A b \in Biller : BookingIsTrue(b)

NoClash(b1, b2) ==
  booking[b1].pc # "idle" /\ booking[b2].pc # "idle" =>
    /\ booking[b1].payment # booking[b2].payment
    /\ ~(HoldsInvoice(b1) /\ HoldsInvoice(b2) /\ BookedInvoice(b1) = BookedInvoice(b2))
    /\ ~(booking[b1].pc = "bound" /\ booking[b2].pc = "bound")
OneBooking == \A b1, b2 \in Biller : b1 # b2 => NoClash(b1, b2)

Held(c) == settling[c].chosen \cup settling[c].due
SettlementsAreTrue ==
  /\ \A c \in Cashier :
       /\ \A i \in settling[c].chosen : ledger[i].status # "none"
       /\ \A i \in settling[c].due : ledger[i].status = "PENDING" /\ ledger[i].earnedAt + Hold <= day
  /\ \A c1, c2 \in Cashier : c1 # c2 => Held(c1) \cap Held(c2) = {}

EntriesAreTrue ==
  \A i \in Invoice : ledger[i].status = "AVAILABLE" => ledger[i].earnedAt + Hold <= day

BillingInv ==
  /\ BillingTypeOK /\ PaymentsAreTrue /\ BookingsAreTrue /\ OneBooking /\ SettlementsAreTrue
  /\ EntriesAreTrue /\ OneSuccessPerInvoice /\ EarnedInsideTheTerm /\ SettledOnce

\* Rows at rest, and rows that are written, have their types.
LEMMA BillingRowTypes ==
  ASSUME BillingTypeOK
  PROVE  /\ NoRow \in SubscriptionRow /\ Idle \in BookingRow /\ NoPaymentRow \in PaymentRow
         /\ NoBinding \in BindingRow /\ NoEntry \in EntryRow
         /\ LastRow(subs) \in SubscriptionRow
         /\ NothingHeld \in [chosen : SUBSET Invoice, due : SUBSET Invoice]
  <1>1. NoRow \in SubscriptionRow
    BY DEF NoRow, SubscriptionRow
  <1>2. LastRow(subs) \in SubscriptionRow
    <2>1. CASE subs = <<>>
      BY <1>1, <2>1 DEF LastRow
    <2>2. CASE subs # <<>>
      <3>1. subs[Len(subs)] \in SubscriptionRow
        BY <2>2 DEF BillingTypeOK
      <3> QED
        BY <2>2, <3>1 DEF LastRow
    <2> QED
      BY <2>1, <2>2
  <1>3. Idle \in BookingRow
    BY <1>1 DEF Idle, BookingRow
  <1> QED
    BY <1>1, <1>2, <1>3 DEF NoPaymentRow, PaymentRow, NoBinding, BindingRow, NoEntry, EntryRow, NothingHeld

LEMMA PaymentRowTypes ==
  ASSUME NEW row \in PaymentRow
  PROVE  /\ \A r \in {"none", "WAITING", "REJECTED", "CONFIRMED"} : [row EXCEPT !.review = r] \in PaymentRow
         /\ \A at \in Nat, a \in BOOLEAN, r \in {"none", "WAITING", "REJECTED", "CONFIRMED"} :
              [row EXCEPT !.status = "PAID", !.paidAt = at, !.anomaly = a, !.review = r] \in PaymentRow
  BY DEF PaymentRow

LEMMA ReviewOnly ==
  ASSUME NEW row \in PaymentRow, NEW r
  PROVE  /\ [row EXCEPT !.review = r].status = row.status
         /\ [row EXCEPT !.review = r].anomaly = row.anomaly
  BY DEF PaymentRow

LEMMA BookedTypes ==
  ASSUME BillingTypeOK, NEW b \in Biller, booking[b].payment \in Payment, NEW a \in BOOLEAN
  PROVE  /\ Booked(b, a) \in PaymentRow
         /\ Booked(b, a).status = "PAID" /\ Booked(b, a).anomaly = a
         /\ Booked(b, a).invoice = BookedInvoice(b)
  <1> DEFINE row == payment[booking[b].payment]
  <1>1. row \in PaymentRow /\ booking[b].paidAt \in Nat
    BY DEF BillingTypeOK, BookingRow
  <1>2. (IF row.provider = "MANUAL" THEN "CONFIRMED" ELSE row.review)
          \in {"none", "WAITING", "REJECTED", "CONFIRMED"}
    BY <1>1 DEF PaymentRow
  <1> DEFINE r == IF row.provider = "MANUAL" THEN "CONFIRMED" ELSE row.review
             at == booking[b].paidAt
  <1>3. Booked(b, a) = [row EXCEPT !.status = "PAID", !.paidAt = at, !.anomaly = a, !.review = r]
    BY DEF Booked
  <1>r. r \in {"none", "WAITING", "REJECTED", "CONFIRMED"} /\ at \in Nat
    BY <1>1, <1>2
  <1> HIDE DEF row, r, at
  <1>4. Booked(b, a) \in PaymentRow
    <2>1. \A x \in Nat, y \in BOOLEAN, z \in {"none", "WAITING", "REJECTED", "CONFIRMED"} :
            [row EXCEPT !.status = "PAID", !.paidAt = x, !.anomaly = y, !.review = z] \in PaymentRow
      BY <1>1, PaymentRowTypes
    <2>2. [row EXCEPT !.status = "PAID", !.paidAt = at, !.anomaly = a, !.review = r] \in PaymentRow
      BY <1>r, <2>1
    <2> QED
      BY <1>3, <2>2
  <1>5. Booked(b, a).status = "PAID" /\ Booked(b, a).anomaly = a /\ Booked(b, a).invoice = row.invoice
    BY <1>1, <1>3 DEF PaymentRow
  <1> QED
    BY <1>4, <1>5 DEF BookedInvoice, row

LEMMA ExtendedIsADay ==
  ASSUME NEW row \in SubscriptionRow, NEW at \in Nat
  PROVE  Extended(row, at) \in Nat
  <1>1. row.ends \in Nat /\ Period \in Nat
    BY BillingAssumption DEF SubscriptionRow
  <1> QED
    BY <1>1 DEF Extended

LEMMA EntryTypes ==
  ASSUME BillingTypeOK, NEW entries, NEW status \in {"PENDING", "AVAILABLE", "SETTLED"}
  PROVE  /\ Marked(entries, status) \in [Invoice -> EntryRow]
         /\ \A i \in Invoice :
              /\ Marked(entries, status)[i].payment = ledger[i].payment
              /\ Marked(entries, status)[i].earnedAt = ledger[i].earnedAt
              /\ Marked(entries, status)[i].status = IF i \in entries THEN status ELSE ledger[i].status
  <1>1. \A i \in Invoice : ledger[i] \in EntryRow
    BY DEF BillingTypeOK
  <1>2. \A i \in Invoice : [ledger[i] EXCEPT !.status = status] \in EntryRow
    BY <1>1 DEF EntryRow
  <1> QED
    BY <1>1, <1>2 DEF Marked, EntryRow

-----------------------------------------------------------------------------
\* Every request leaves the rows and the transactions their types.
LEMMA BillingTypeKept ==
  ASSUME BillingInv, [NextBilling]_billingVars
  PROVE  BillingTypeOK'
  <1>a. BillingTypeOK /\ BookingsAreTrue /\ PaymentsAreTrue
    BY DEF BillingInv
  <1> USE <1>a, BillingRowTypes DEF BillingTypeOK
  <1>1. ASSUME NEW i \in Invoice, NEW c \in Charge, CreateInvoice(i, c)
        PROVE  BillingTypeOK'
    BY <1>1 DEF CreateInvoice
  <1>2. ASSUME NEW p \in Payment, NEW i \in Invoice, NEW provider \in Provider, CreatePayment(p, i, provider)
        PROVE  BillingTypeOK'
    <2>1. provider \in {"MANUAL", "FAKE"}
      BY BillingAssumption
    <2>2. [NoPaymentRow EXCEPT !.invoice = i, !.provider = provider, !.status = "PENDING"] \in PaymentRow
      BY <2>1 DEF NoPaymentRow, PaymentRow
    <2> QED
      BY <1>2, <2>2 DEF CreatePayment
  <1>3. ASSUME NEW p \in Payment, ClaimPayment(p) \/ RejectPayment(p)
        PROVE  BillingTypeOK'
    <2>1. /\ [payment[p] EXCEPT !.review = "WAITING"] \in PaymentRow
          /\ [payment[p] EXCEPT !.review = "REJECTED"] \in PaymentRow
      <3>1. payment[p] \in PaymentRow
        OBVIOUS
      <3> QED
        BY <3>1 DEF PaymentRow
    <2>2. payment' \in [Payment -> PaymentRow]
      BY <1>3, <2>1 DEF ClaimPayment, RejectPayment
    <2> QED
      BY <1>3, <2>2 DEF ClaimPayment, RejectPayment
  <1>4. ASSUME NEW b \in Biller, NEW p \in Payment, BeginBooking(b, p)
        PROVE  BillingTypeOK'
    <2>1. [Idle EXCEPT !.pc = "payment", !.payment = p, !.paidAt = day] \in BookingRow
      BY DEF BookingRow, Idle
    <2> QED
      BY <1>4, <2>1 DEF BeginBooking
  <1>5. ASSUME NEW b \in Biller, DropDuplicate(b)
        PROVE  BillingTypeOK'
    <2>1. booking[b].payment \in Payment
      BY <1>5 DEF DropDuplicate, BookingsAreTrue, BookingIsTrue
    <2>2. payment' \in [Payment -> PaymentRow]
      BY <1>5, <2>1, BookedTypes DEF DropDuplicate
    <2> QED
      BY <1>5, <2>2 DEF DropDuplicate
  <1>6. ASSUME NEW b \in Biller, LockInvoice(b)
        PROVE  BillingTypeOK'
    <2>1. \A row \in BookingRow : [row EXCEPT !.pc = "invoice", !.seen = LastRow(subs)] \in BookingRow
      BY DEF BookingRow
    <2> QED
      BY <1>6, <2>1 DEF LockInvoice
  <1>7. ASSUME NEW b \in Biller, LockBinding(b)
        PROVE  BillingTypeOK'
    <2>1. \A row \in BookingRow, e, s \in BOOLEAN, pc \in {"bound", "unbound"} :
            [row EXCEPT !.pc = pc, !.earns = e, !.starts = s] \in BookingRow
      BY DEF BookingRow
    <2>2. PICK e, s \in BOOLEAN, pc \in {"bound", "unbound"} :
            booking' = [booking EXCEPT ![b] = [booking[b] EXCEPT !.pc = pc, !.earns = e, !.starts = s]]
      <3> DEFINE i == payment[booking[b].payment].invoice
                 asks == charge[i] \in Eligible /\ ledger[i].status = "none" /\ binding.status = "ACTIVE"
                 pc == IF asks THEN "bound" ELSE "unbound"
                 e == asks /\ InTerm(booking[b].paidAt)
                 s == asks /\ ~binding.started
      <3>1. e \in BOOLEAN /\ s \in BOOLEAN /\ pc \in {"bound", "unbound"}
        OBVIOUS
      <3>2. booking' = [booking EXCEPT ![b] = [booking[b] EXCEPT !.pc = pc, !.earns = e, !.starts = s]]
        BY <1>7 DEF LockBinding
      <3> HIDE DEF e, s, pc
      <3> QED
        BY <3>1, <3>2
    <2>3. booking' \in [Biller -> BookingRow]
      BY <2>1, <2>2
    <2> QED
      BY <1>7, <2>3 DEF LockBinding
  <1>8. ASSUME NEW b \in Biller, BookPayment(b)
        PROVE  BillingTypeOK'
    <2> DEFINE p == booking[b].payment
               i == payment[p].invoice
               at == booking[b].paidAt
    <2>1. p \in Payment /\ i \in Invoice /\ at \in Nat /\ booking[b].seen \in SubscriptionRow
      BY <1>8 DEF BookPayment, BookingsAreTrue, BookingIsTrue, PaymentsAreTrue, BookingRow
    <2>2. payment' \in [Payment -> PaymentRow]
      BY <1>8, <2>1, BookedTypes DEF BookPayment
    <2>3. binding' \in BindingRow
      <3>1. at + Term \in Nat
        BY <2>1, BillingAssumption
      <3>2. TermFrom(at) \in BindingRow
        BY <2>1, <3>1 DEF TermFrom, BindingRow
      <3> QED
        BY <1>8, <3>2 DEF BookPayment
    <2>4. ledger' \in [Invoice -> EntryRow]
      <3>1. [status |-> "PENDING", payment |-> p, earnedAt |-> at] \in EntryRow
        BY <2>1 DEF EntryRow
      <3> QED
        BY <1>8, <2>1, <3>1 DEF BookPayment
    <2>5. subs' \in Seq(SubscriptionRow)
      <3>1. Extended(booking[b].seen, at) \in Nat
        BY <2>1, ExtendedIsADay
      <3>2. charge[i] \in Plan =>
              [plan |-> charge[i], of |-> i, ends |-> Extended(booking[b].seen, at)] \in SubscriptionRow
        BY <2>1, <3>1 DEF SubscriptionRow
      <3> QED
        BY <1>8, <3>2 DEF BookPayment
    <2>6. invoice' \in [Invoice -> {"none", "PENDING", "PAID"}]
      BY <1>8, <2>1 DEF BookPayment
    <2>7. booking' \in [Biller -> BookingRow]
      BY <1>8 DEF BookPayment
    <2> QED
      BY <1>8, <2>2, <2>3, <2>4, <2>5, <2>6, <2>7 DEF BookPayment
  <1>9. ASSUME NEW b \in Biller, AbandonBooking(b)
        PROVE  BillingTypeOK'
    BY <1>9 DEF AbandonBooking
  <1>10. CASE BindChannel
    BY <1>10 DEF BindChannel, BindingRow
  <1>11. CASE PromoteAvailable
    BY <1>11, EntryTypes DEF PromoteAvailable
  <1>12. ASSUME NEW c \in Cashier, NEW chosen \in SUBSET Invoice, LockEntries(c, chosen)
         PROVE  BillingTypeOK'
    BY <1>12 DEF LockEntries, Due
  <1>13. ASSUME NEW c \in Cashier, SettleEntries(c)
         PROVE  BillingTypeOK'
    <2> DEFINE chosen == settling[c].chosen
               due == settling[c].due
    <2>1. ledger' = [i \in Invoice |-> IF i \in chosen THEN [ledger[i] EXCEPT !.status = "SETTLED"]
                                       ELSE Marked(due, "AVAILABLE")[i]]
      BY <1>13 DEF SettleEntries
    <2>2. \A i \in Invoice : [ledger[i] EXCEPT !.status = "SETTLED"] \in EntryRow
      BY DEF EntryRow
    <2>3. ledger' \in [Invoice -> EntryRow]
      BY <2>1, <2>2, EntryTypes
    <2>4. items' \in [Invoice -> Nat]
      BY <1>13 DEF SettleEntries
    <2> QED
      BY <1>13, <2>3, <2>4 DEF SettleEntries
  <1>14. ASSUME NEW c \in Cashier, AbandonSettlement(c)
         PROVE  BillingTypeOK'
    BY <1>14 DEF AbandonSettlement
  <1>15. CASE PassDay
    BY <1>15 DEF PassDay
  <1>16. CASE UNCHANGED billingVars
    BY <1>16 DEF billingVars
  <1> QED
    BY <1>1, <1>2, <1>3, <1>4, <1>5, <1>6, <1>7, <1>8, <1>9, <1>10, <1>11, <1>12, <1>13, <1>14, <1>15, <1>16
      DEF NextBilling

\* A payment keeps its invoice from the moment it is created; a new one waits.
PaymentsGrow ==
  \A p \in Payment :
    /\ payment[p].status # "none" =>
         payment'[p].status # "none" /\ payment'[p].invoice = payment[p].invoice
    /\ payment[p].status = "none" /\ payment'[p].status # "none" =>
         payment'[p].status = "PENDING" /\ payment'[p].invoice \in Invoice
    /\ payment'[p].status = "none" => payment'[p].provider = payment[p].provider

LEMMA PaymentStep ==
  ASSUME BillingInv, [NextBilling]_billingVars
  PROVE  PaymentsGrow
  <1>a. payment \in [Payment -> PaymentRow] /\ BillingTypeOK /\ BookingsAreTrue
    BY DEF BillingInv, BillingTypeOK
  <1> USE <1>a DEF PaymentsGrow
  <1>1. CASE UNCHANGED payment
    BY <1>1
  <1>2. ASSUME NEW p \in Payment, NEW i \in Invoice, NEW provider \in Provider, CreatePayment(p, i, provider)
        PROVE  PaymentsGrow
    BY <1>2 DEF CreatePayment, NoPaymentRow
  <1>3. ASSUME NEW p \in Payment, ClaimPayment(p) \/ RejectPayment(p)
        PROVE  PaymentsGrow
    <2>1. \A q \in Payment : /\ payment'[q].status = payment[q].status
                            /\ payment'[q].invoice = payment[q].invoice
                            /\ payment'[q].provider = payment[q].provider
      BY <1>3 DEF ClaimPayment, RejectPayment, PaymentRow
    <2> QED
      BY <2>1
  <1>4. ASSUME NEW b \in Biller, NEW a \in BOOLEAN, booking[b].pc # "idle",
               payment' = [payment EXCEPT ![booking[b].payment] = Booked(b, a)]
        PROVE  PaymentsGrow
    <2>1. booking[b].payment \in Payment /\ payment[booking[b].payment].status # "none"
      BY <1>4 DEF BookingsAreTrue, BookingIsTrue
    <2>2. Booked(b, a).status = "PAID" /\ Booked(b, a).invoice = BookedInvoice(b)
      BY <2>1, BookedTypes
    <2> QED
      BY <1>4, <2>1, <2>2 DEF BookedInvoice
  <1>5. ASSUME NEW b \in Biller, DropDuplicate(b)
        PROVE  PaymentsGrow
    BY <1>1, <1>4, <1>5 DEF DropDuplicate
  <1>6. ASSUME NEW b \in Biller, BookPayment(b)
        PROVE  PaymentsGrow
    BY <1>4, <1>6 DEF BookPayment
  <1> QED
    BY <1>1, <1>2, <1>3, <1>5, <1>6
      DEF NextBilling, CreateInvoice, BeginBooking, LockInvoice, LockBinding, AbandonBooking,
          BindChannel, PromoteAvailable, LockEntries, SettleEntries, AbandonSettlement, PassDay, billingVars

LEMMA PaymentsKept ==
  ASSUME BillingInv, [NextBilling]_billingVars
  PROVE  PaymentsAreTrue'
  BY PaymentStep DEF BillingInv, PaymentsAreTrue, PaymentsGrow

\* The transactions that a step does not touch stay true and apart.
LEMMA BookingStays ==
  ASSUME BillingInv, [NextBilling]_billingVars, NEW b \in Biller,
         booking'[b] = booking[b], day' >= day,
         booking[b].pc # "idle" /\ payment'[booking[b].payment].status = "PAID" =>
           payment[booking[b].payment].status = "PAID",
         HoldsInvoice(b) /\ invoice'[BookedInvoice(b)] = "PAID" => invoice[BookedInvoice(b)] = "PAID",
         booking[b].pc = "bound" =>
           binding'.started = binding.started /\ binding'.start = binding.start /\ binding'.ends = binding.ends
  PROVE  BookingIsTrue(b)'
  <1>1. BookingIsTrue(b) /\ booking[b] \in BookingRow /\ day \in Nat /\ day' \in Nat
    BY BillingTypeKept DEF BillingInv, BookingsAreTrue, BillingTypeOK
  <1>2. booking[b].paidAt \in Nat
    BY <1>1 DEF BookingRow
  <1>3. booking[b].pc # "idle" =>
          /\ booking[b].payment \in Payment /\ payment'[booking[b].payment].status # "none"
          /\ payment'[booking[b].payment].invoice = BookedInvoice(b)
    BY <1>1, PaymentStep DEF BookingIsTrue, PaymentsGrow, BookedInvoice
  <1>4. HoldsInvoice(b) => booking[b].pc # "idle"
    BY DEF HoldsInvoice
  <1>5. HoldsInvoice(b)' = HoldsInvoice(b) /\ (booking[b].pc # "idle" => BookedInvoice(b)' = BookedInvoice(b))
    BY <1>3 DEF HoldsInvoice, BookedInvoice
  <1>6. booking[b].pc = "bound" => InTerm(booking[b].paidAt)' = InTerm(booking[b].paidAt)
    BY DEF InTerm
  <1>7. booking'[b].pc # "idle" =>
          /\ booking'[b].payment \in Payment /\ payment'[booking'[b].payment].status # "none"
          /\ booking'[b].paidAt <= day'
    BY <1>1, <1>2, <1>3 DEF BookingIsTrue
  <1>8. HoldsInvoice(b)' => payment'[booking'[b].payment].status # "PAID" /\ invoice'[BookedInvoice(b)'] # "PAID"
    BY <1>1, <1>4, <1>5 DEF BookingIsTrue
  <1>9. /\ booking'[b].pc # "bound" => ~booking'[b].earns /\ ~booking'[b].starts
        /\ booking'[b].pc = "bound" =>
             /\ booking'[b].starts <=> ~binding'.started
             /\ booking'[b].earns => InTerm(booking[b].paidAt)'
    BY <1>1, <1>6 DEF BookingIsTrue
  <1> QED
    BY <1>7, <1>8, <1>9 DEF BookingIsTrue, InTerm

LEMMA ClashStays ==
  ASSUME BillingInv, [NextBilling]_billingVars, NEW b1 \in Biller, NEW b2 \in Biller, b1 # b2,
         booking'[b1] = booking[b1], booking'[b2] = booking[b2]
  PROVE  NoClash(b1, b2)'
  <1>1. BookingIsTrue(b1) /\ BookingIsTrue(b2) /\ NoClash(b1, b2)
    BY DEF BillingInv, BookingsAreTrue, OneBooking
  <1>2. \A b \in {b1, b2} : booking[b].pc # "idle" => BookedInvoice(b)' = BookedInvoice(b)
    BY <1>1, PaymentStep DEF BookingIsTrue, PaymentsGrow, BookedInvoice
  <1> QED
    BY <1>1, <1>2 DEF NoClash, HoldsInvoice

\* A step that touches no transaction leaves them all as true as they were.
LEMMA BookingsFrame ==
  ASSUME BillingInv, [NextBilling]_billingVars, UNCHANGED booking, day' >= day,
         \A p \in Payment : payment'[p].status = "PAID" => payment[p].status = "PAID",
         \A i \in Invoice : invoice'[i] = "PAID" => invoice[i] = "PAID",
         binding'.started = binding.started /\ binding'.start = binding.start /\ binding'.ends = binding.ends
  PROVE  BookingsAreTrue' /\ OneBooking'
  <1>1. \A b \in Biller : BookingIsTrue(b)'
    <2> SUFFICES ASSUME NEW b \in Biller
                 PROVE  BookingIsTrue(b)'
      OBVIOUS
    <2>1. booking[b].pc # "idle" =>
            booking[b].payment \in Payment /\ payment[booking[b].payment].status # "none"
      BY DEF BillingInv, BookingsAreTrue, BookingIsTrue
    <2>2. HoldsInvoice(b) => booking[b].pc # "idle"
      BY DEF HoldsInvoice
    <2>3. HoldsInvoice(b) => BookedInvoice(b) \in Invoice
      BY <2>1, <2>2 DEF BillingInv, PaymentsAreTrue, BookedInvoice
    <2> QED
      BY <2>1, <2>3, BookingStays
  <1>2. \A b1, b2 \in Biller : b1 # b2 => NoClash(b1, b2)'
    BY ClashStays
  <1> QED
    BY <1>1, <1>2 DEF BookingsAreTrue, OneBooking

\* A step of one transaction: the others stay true, and it has to be seen to.
LEMMA BookingStep ==
  ASSUME BillingInv, [NextBilling]_billingVars, NEW b \in Biller,
         \A other \in Biller : other # b => booking'[other] = booking[other],
         UNCHANGED day,
         \A p \in Payment : p # booking[b].payment => payment'[p].status = payment[p].status,
         \A i \in Invoice : invoice'[i] = "PAID" =>
           invoice[i] = "PAID" \/ (HoldsInvoice(b) /\ i = BookedInvoice(b)),
         booking[b].pc # "bound" => UNCHANGED binding,
         booking[b].pc = "idle" => UNCHANGED payment,
         BookingIsTrue(b)',
         \A other \in Biller : other # b => NoClash(b, other)'
  PROVE  BookingsAreTrue' /\ OneBooking'
  <1>1. \A other \in Biller : other # b => BookingIsTrue(other)'
    <2> SUFFICES ASSUME NEW other \in Biller, other # b
                 PROVE  BookingIsTrue(other)'
      OBVIOUS
    <2>1. /\ NoClash(other, b)
          /\ booking[other].pc # "idle" =>
               booking[other].payment \in Payment /\ payment[booking[other].payment].status # "none"
      BY DEF BillingInv, BookingsAreTrue, BookingIsTrue, OneBooking
    <2>2. HoldsInvoice(other) => booking[other].pc # "idle"
      BY DEF HoldsInvoice
    <2>3. HoldsInvoice(b) => booking[b].pc # "idle"
      BY DEF HoldsInvoice
    <2>4. HoldsInvoice(other) => BookedInvoice(other) \in Invoice
      BY <2>1, <2>2 DEF BillingInv, PaymentsAreTrue, BookedInvoice
    <2>5. booking[other].pc # "idle" =>
            payment'[booking[other].payment].status = payment[booking[other].payment].status
      BY <2>1 DEF NoClash
    <2>6. HoldsInvoice(other) /\ invoice'[BookedInvoice(other)] = "PAID" => invoice[BookedInvoice(other)] = "PAID"
      BY <2>1, <2>2, <2>3, <2>4 DEF NoClash
    <2>7. booking[other].pc = "bound" => UNCHANGED binding
      BY <2>1 DEF NoClash
    <2>8. day' >= day
      BY DEF BillingInv, BillingTypeOK
    <2> QED
      BY <2>5, <2>6, <2>7, <2>8, BookingStays
  <1>2. \A b1, b2 \in Biller : b1 # b2 => NoClash(b1, b2)'
    <2>1. \A b1, b2 \in Biller : b1 # b2 /\ b1 # b /\ b2 # b => NoClash(b1, b2)'
      BY ClashStays
    <2>2. \A b1, b2 \in Biller : NoClash(b1, b2)' => NoClash(b2, b1)'
      BY DEF NoClash
    <2> QED
      BY <2>1, <2>2
  <1> QED
    BY <1>1, <1>2 DEF BookingsAreTrue, OneBooking

\* A transaction that ends is true and clashes with none.
LEMMA BookingEnds ==
  ASSUME BillingTypeOK, NEW b \in Biller, booking' = [booking EXCEPT ![b] = Idle]
  PROVE  BookingIsTrue(b)' /\ \A other \in Biller : NoClash(b, other)'
  <1>1. booking'[b] = Idle
    BY DEF BillingTypeOK
  <1> QED
    BY <1>1 DEF BookingIsTrue, NoClash, HoldsInvoice, Idle

LEMMA BookingsKept ==
  ASSUME BillingInv, [NextBilling]_billingVars
  PROVE  BookingsAreTrue' /\ OneBooking'
  <1>a. BillingTypeOK /\ BookingsAreTrue /\ OneBooking /\ PaymentsAreTrue
    BY DEF BillingInv
  <1>b. booking \in [Biller -> BookingRow] /\ payment \in [Payment -> PaymentRow] /\ day \in Nat
        /\ invoice \in [Invoice -> {"none", "PENDING", "PAID"}] /\ binding \in BindingRow
    BY <1>a DEF BillingTypeOK
  <1>1. ASSUME NEW i \in Invoice, NEW c \in Charge, CreateInvoice(i, c)
        PROVE  BookingsAreTrue' /\ OneBooking'
    <2>1. UNCHANGED <<day, payment, booking, binding>> /\ \A j \in Invoice : invoice'[j] = "PAID" => invoice[j] = "PAID"
      BY <1>1, <1>b DEF CreateInvoice
    <2> QED
      BY <2>1, <1>b, BookingsFrame
  <1>2. ASSUME NEW p \in Payment, NEW i \in Invoice, NEW provider \in Provider, CreatePayment(p, i, provider)
        PROVE  BookingsAreTrue' /\ OneBooking'
    <2>1. UNCHANGED <<day, invoice, booking, binding>> /\ \A q \in Payment : payment'[q].status = "PAID" => payment[q].status = "PAID"
      BY <1>2, <1>b DEF CreatePayment, NoPaymentRow
    <2> QED
      BY <2>1, <1>b, BookingsFrame
  <1>3. ASSUME NEW p \in Payment, ClaimPayment(p) \/ RejectPayment(p)
        PROVE  BookingsAreTrue' /\ OneBooking'
    <2>1. UNCHANGED <<day, invoice, booking, binding>> /\ \A q \in Payment : payment'[q].status = payment[q].status
      BY <1>3, <1>b DEF ClaimPayment, RejectPayment, PaymentRow
    <2> QED
      BY <2>1, <1>b, BookingsFrame
  <1>4. ASSUME NEW b \in Biller, NEW p \in Payment, BeginBooking(b, p)
        PROVE  BookingsAreTrue' /\ OneBooking'
    <2>1. /\ booking'[b] = [Idle EXCEPT !.pc = "payment", !.payment = p, !.paidAt = day]
          /\ \A other \in Biller : other # b => booking'[other] = booking[other]
          /\ UNCHANGED <<day, invoice, payment, binding>>
          /\ booking[b].pc = "idle"
      BY <1>4, <1>b DEF BeginBooking
    <2>2. /\ booking'[b].pc = "payment" /\ booking'[b].payment = p /\ booking'[b].paidAt = day
          /\ booking'[b].earns = FALSE /\ booking'[b].starts = FALSE
      BY <2>1 DEF Idle
    <2>3. payment[p].status # "none"
      BY <1>4, <1>a DEF BeginBooking, MayBook, PaymentsAreTrue
    <2>4. BookingIsTrue(b)'
      BY <2>1, <2>2, <2>3, <1>b DEF BookingIsTrue, HoldsInvoice
    <2>5. \A other \in Biller : other # b => NoClash(b, other)'
      BY <1>4, <2>1, <2>2 DEF BeginBooking, PaymentLocked, NoClash, HoldsInvoice
    <2> QED
      BY <2>1, <2>4, <2>5, BookingStep
  <1>5. ASSUME NEW b \in Biller, DropDuplicate(b)
        PROVE  BookingsAreTrue' /\ OneBooking'
    <2>1. /\ booking' = [booking EXCEPT ![b] = Idle] /\ booking[b].pc = "payment"
          /\ UNCHANGED <<day, invoice, binding>>
          /\ \A q \in Payment : q # booking[b].payment => payment'[q] = payment[q]
      BY <1>5, <1>b DEF DropDuplicate
    <2>2. \A other \in Biller : other # b => booking'[other] = booking[other]
      BY <2>1, <1>b
    <2> QED
      BY <2>1, <2>2, <1>a, BookingEnds, BookingStep
  <1>6. ASSUME NEW b \in Biller, LockInvoice(b)
        PROVE  BookingsAreTrue' /\ OneBooking'
    <2>1. /\ booking' = [booking EXCEPT ![b] = [booking[b] EXCEPT !.pc = "invoice", !.seen = LastRow(subs)]]
          /\ booking[b].pc = "payment"
          /\ UNCHANGED <<day, invoice, payment, binding>>
      BY <1>6 DEF LockInvoice
    <2>2. \A other \in Biller : other # b => booking'[other] = booking[other]
      BY <2>1, <1>b
    <2>3. /\ booking'[b].pc = "invoice" /\ booking'[b].payment = booking[b].payment
          /\ booking'[b].paidAt = booking[b].paidAt
          /\ booking'[b].earns = booking[b].earns /\ booking'[b].starts = booking[b].starts
      BY <2>1, <1>b DEF BookingRow
    <2>4. BookingIsTrue(b)'
      <3>1. payment[booking[b].payment].status # "PAID" /\ invoice[BookedInvoice(b)] # "PAID"
        BY <1>6 DEF LockInvoice, BookedInvoice
      <3>2. BookingIsTrue(b)
        BY <1>a DEF BookingsAreTrue
      <3> QED
        BY <2>1, <2>3, <3>1, <3>2 DEF BookingIsTrue, BookedInvoice
    <2>5. \A other \in Biller : other # b => NoClash(b, other)'
      <3>1. \A other \in Biller : HoldsInvoice(other) => BookedInvoice(other) # BookedInvoice(b)
        BY <1>6 DEF LockInvoice, InvoiceLocked, HoldsInvoice, BookedInvoice
      <3>2. \A other \in Biller : other # b => NoClash(b, other)
        BY <1>a DEF OneBooking
      <3> QED
        BY <2>1, <2>2, <2>3, <3>1, <3>2 DEF NoClash, HoldsInvoice, BookedInvoice
    <2> QED
      BY <2>1, <2>2, <2>4, <2>5, BookingStep
  <1>7. ASSUME NEW b \in Biller, LockBinding(b)
        PROVE  BookingsAreTrue' /\ OneBooking'
    <2> DEFINE i == payment[booking[b].payment].invoice
               asks == charge[i] \in Eligible /\ ledger[i].status = "none" /\ binding.status = "ACTIVE"
    <2>1. /\ booking[b].pc = "invoice" /\ UNCHANGED <<day, invoice, payment, binding>>
          /\ \A other \in Biller : other # b => booking'[other] = booking[other]
          /\ asks => ~BindingLocked
      BY <1>7, <1>b DEF LockBinding
    <2>2. /\ booking'[b].payment = booking[b].payment /\ booking'[b].paidAt = booking[b].paidAt
          /\ booking'[b].pc = IF asks THEN "bound" ELSE "unbound"
          /\ booking'[b].earns <=> asks /\ InTerm(booking[b].paidAt)
          /\ booking'[b].starts <=> asks /\ ~binding.started
      BY <1>7, <1>b DEF LockBinding, BookingRow
    <2> HIDE DEF asks
    <2>3. BookingIsTrue(b)'
      <3>1. BookingIsTrue(b)
        BY <1>a DEF BookingsAreTrue
      <3>2. HoldsInvoice(b) /\ (InTerm(booking[b].paidAt)' <=> InTerm(booking[b].paidAt))
        BY <2>1, <2>2 DEF HoldsInvoice, InTerm
      <3> QED
        BY <2>1, <2>2, <3>1, <3>2 DEF BookingIsTrue, BookedInvoice
    <2>4. \A other \in Biller : other # b => NoClash(b, other)'
      <3>1. asks => \A other \in Biller : booking[other].pc # "bound"
        BY <2>1 DEF BindingLocked
      <3>2. \A other \in Biller : other # b => NoClash(b, other)
        BY <1>a DEF OneBooking
      <3> QED
        BY <2>1, <2>2, <3>1, <3>2 DEF NoClash, HoldsInvoice, BookedInvoice
    <2> QED
      BY <2>1, <2>3, <2>4, BookingStep
  <1>8. ASSUME NEW b \in Biller, BookPayment(b)
        PROVE  BookingsAreTrue' /\ OneBooking'
    <2>1. /\ booking' = [booking EXCEPT ![b] = Idle] /\ HoldsInvoice(b) /\ booking[b].pc # "idle"
          /\ UNCHANGED day
          /\ \A q \in Payment : q # booking[b].payment => payment'[q] = payment[q]
          /\ \A j \in Invoice : j # BookedInvoice(b) => invoice'[j] = invoice[j]
          /\ ~booking[b].starts => UNCHANGED binding
      BY <1>8, <1>b DEF BookPayment, HoldsInvoice, BookedInvoice
    <2>2. \A other \in Biller : other # b => booking'[other] = booking[other]
      BY <2>1, <1>b
    <2>3. booking[b].pc # "bound" => UNCHANGED binding
      BY <2>1, <1>a DEF BookingsAreTrue, BookingIsTrue
    <2>4. BookingIsTrue(b)' /\ \A other \in Biller : NoClash(b, other)'
      BY <2>1, <1>a, BookingEnds
    <2> QED
      BY <2>1, <2>2, <2>3, <2>4, BookingStep
  <1>9. ASSUME NEW b \in Biller, AbandonBooking(b)
        PROVE  BookingsAreTrue' /\ OneBooking'
    <2>1. /\ booking' = [booking EXCEPT ![b] = Idle] /\ booking[b].pc # "idle"
          /\ UNCHANGED <<day, invoice, payment, binding>>
      BY <1>9 DEF AbandonBooking
    <2>2. \A other \in Biller : other # b => booking'[other] = booking[other]
      BY <2>1, <1>b
    <2> QED
      BY <2>1, <2>2, <1>a, BookingEnds, BookingStep
  <1>10. CASE BindChannel
    <2>1. /\ UNCHANGED <<day, invoice, payment, booking>>
          /\ binding'.started = binding.started /\ binding'.start = binding.start /\ binding'.ends = binding.ends
      BY <1>10, <1>b DEF BindChannel, BindingRow
    <2> QED
      BY <2>1, <1>b, BookingsFrame
  <1>11. CASE PassDay
    <2>1. day' >= day /\ UNCHANGED <<invoice, payment, booking, binding>>
      BY <1>11, <1>b DEF PassDay
    <2> QED
      BY <2>1, BookingsFrame
  <1>12. CASE UNCHANGED <<day, invoice, payment, booking, binding>>
    BY <1>12, <1>b, BookingsFrame
  <1> QED
    BY <1>1, <1>2, <1>3, <1>4, <1>5, <1>6, <1>7, <1>8, <1>9, <1>10, <1>11, <1>12
      DEF NextBilling, PromoteAvailable, LockEntries, SettleEntries, AbandonSettlement, billingVars

-----------------------------------------------------------------------------
\* A payment that is booked earns, and extends, for the first time.
LEMMA NothingBookedYet ==
  ASSUME BillingInv, NEW b \in Biller, HoldsInvoice(b)
  PROVE  /\ booking[b].payment \in Payment /\ BookedInvoice(b) \in Invoice
         /\ invoice[BookedInvoice(b)] # "PAID" /\ payment[booking[b].payment].status # "PAID"
         /\ booking[b].paidAt \in Nat /\ booking[b].paidAt <= day
         /\ ledger[BookedInvoice(b)].status = "none"
         /\ Payers(BookedInvoice(b)) = {} /\ RowsOf(BookedInvoice(b)) = {}
  <1>1. booking[b].pc # "idle" /\ BookingIsTrue(b)
    BY DEF BillingInv, BookingsAreTrue, HoldsInvoice
  <1>2. booking[b].payment \in Payment /\ BookedInvoice(b) \in Invoice
    BY <1>1 DEF BookingIsTrue, BillingInv, PaymentsAreTrue, BookedInvoice
  <1>3. booking[b].paidAt \in Nat /\ booking[b].paidAt <= day
    BY <1>1 DEF BookingIsTrue, BillingInv, BillingTypeOK, BookingRow
  <1>4. invoice[BookedInvoice(b)] # "PAID" /\ payment[booking[b].payment].status # "PAID"
    BY <1>1 DEF BookingIsTrue
  <1> QED
    BY <1>2, <1>3, <1>4 DEF BillingInv, OneSuccessPerInvoice

\* What a booking does to the commissions: at most one new entry, today's.
LEMMA BookingEarns ==
  ASSUME BillingInv, NEW b \in Biller, BookPayment(b)
  PROVE  /\ HoldsInvoice(b)
         /\ \A i \in Invoice : i # BookedInvoice(b) => ledger'[i] = ledger[i]
         /\ ledger'[BookedInvoice(b)].status # "none" =>
              /\ booking[b].earns
              /\ ledger'[BookedInvoice(b)].status = "PENDING"
              /\ ledger'[BookedInvoice(b)].payment = booking[b].payment
              /\ ledger'[BookedInvoice(b)].earnedAt = booking[b].paidAt
  <1>1. HoldsInvoice(b)
    BY DEF BookPayment, HoldsInvoice
  <1>2. ledger \in [Invoice -> EntryRow]
    BY DEF BillingInv, BillingTypeOK
  <1>3. BookedInvoice(b) \in Invoice /\ ledger[BookedInvoice(b)].status = "none"
    BY <1>1, NothingBookedYet
  <1>4. CASE booking[b].earns
    <2>1. ledger' = [ledger EXCEPT ![BookedInvoice(b)] =
                       [status |-> "PENDING", payment |-> booking[b].payment, earnedAt |-> booking[b].paidAt]]
      BY <1>4 DEF BookPayment, BookedInvoice
    <2> QED
      BY <1>1, <1>2, <1>3, <1>4, <2>1
  <1>5. CASE ~booking[b].earns
    <2>1. ledger' = ledger
      BY <1>5 DEF BookPayment
    <2> QED
      BY <1>1, <1>3, <2>1
  <1> QED
    BY <1>4, <1>5

\* Every other step leaves a commission on record, with its payment and time.
EntriesStay ==
  \A i \in Invoice : /\ ledger'[i].status = "none" <=> ledger[i].status = "none"
                     /\ ledger'[i].payment = ledger[i].payment
                     /\ ledger'[i].earnedAt = ledger[i].earnedAt

\* What a settlement writes.
LEMMA SettledEntries ==
  ASSUME BillingInv, NEW c \in Cashier, SettleEntries(c)
  PROVE  \A i \in Invoice :
           /\ ledger'[i].payment = ledger[i].payment /\ ledger'[i].earnedAt = ledger[i].earnedAt
           /\ ledger'[i].status = IF i \in settling[c].chosen THEN "SETTLED"
                                  ELSE IF i \in settling[c].due THEN "AVAILABLE" ELSE ledger[i].status
           /\ items'[i] = IF i \in settling[c].chosen THEN 1 ELSE items[i]
           /\ i \in settling[c].chosen =>
                i \in settling[c].due \/ ledger[i].status = "AVAILABLE"
  <1> DEFINE chosen == settling[c].chosen
             due == settling[c].due
  <1>1. ledger' = [i \in Invoice |-> IF i \in chosen THEN [ledger[i] EXCEPT !.status = "SETTLED"]
                                     ELSE Marked(due, "AVAILABLE")[i]]
    BY DEF SettleEntries
  <1>2. /\ items' = [i \in Invoice |-> IF i \in chosen THEN items[i] + 1 ELSE items[i]]
        /\ \A i \in chosen : items[i] = 0 /\ (i \in due \/ ledger[i].status = "AVAILABLE")
    BY DEF SettleEntries
  <1>3. \A i \in Invoice : ledger[i] \in EntryRow
    BY DEF BillingInv, BillingTypeOK
  <1> SUFFICES ASSUME NEW i \in Invoice
               PROVE  /\ ledger'[i].payment = ledger[i].payment /\ ledger'[i].earnedAt = ledger[i].earnedAt
                      /\ ledger'[i].status = IF i \in chosen THEN "SETTLED"
                                             ELSE IF i \in due THEN "AVAILABLE" ELSE ledger[i].status
                      /\ items'[i] = IF i \in chosen THEN 1 ELSE items[i]
                      /\ i \in chosen => i \in due \/ ledger[i].status = "AVAILABLE"
    OBVIOUS
  <1> HIDE DEF chosen, due
  <1>4. items'[i] = IF i \in chosen THEN 1 ELSE items[i]
    BY <1>2
  <1>5. CASE i \in chosen
    <2>1. ledger'[i] = [ledger[i] EXCEPT !.status = "SETTLED"]
      BY <1>1, <1>5
    <2> QED
      BY <1>2, <1>3, <1>4, <1>5, <2>1 DEF EntryRow
  <1>6. CASE i \notin chosen
    <2>1. ledger'[i] = Marked(due, "AVAILABLE")[i]
      BY <1>1, <1>6
    <2>2. BillingTypeOK
      BY DEF BillingInv
    <2> QED
      BY <1>4, <1>6, <2>1, <2>2, EntryTypes
  <1> QED
    BY <1>5, <1>6

LEMMA EntryStep ==
  ASSUME BillingInv, [NextBilling]_billingVars
  PROVE  EntriesStay \/ \E b \in Biller : BookPayment(b)
  <1>1. CASE UNCHANGED ledger
    BY <1>1 DEF EntriesStay
  <1>2. CASE PromoteAvailable
    <2>1. ledger' = Marked(Due, "AVAILABLE") /\ BillingTypeOK
      BY <1>2 DEF PromoteAvailable, BillingInv
    <2>2. \A i \in Due : ledger[i].status # "none"
      BY DEF Due
    <2> QED
      BY <2>1, <2>2, EntryTypes DEF EntriesStay
  <1>3. ASSUME NEW c \in Cashier, SettleEntries(c)
        PROVE  EntriesStay
    <2>1. \A i \in settling[c].chosen \cup settling[c].due : ledger[i].status # "none"
      BY DEF BillingInv, SettlementsAreTrue
    <2> QED
      BY <1>3, <2>1, SettledEntries DEF EntriesStay
  <1> QED
    BY <1>1, <1>2, <1>3
      DEF NextBilling, CreateInvoice, CreatePayment, ClaimPayment, RejectPayment, BeginBooking, DropDuplicate,
          LockInvoice, LockBinding, AbandonBooking, BindChannel, LockEntries, AbandonSettlement, PassDay, billingVars

LEMMA EarnedKept ==
  ASSUME BillingInv, [NextBilling]_billingVars
  PROVE  EarnedInsideTheTerm'
  <1>a. EarnedInsideTheTerm /\ binding \in BindingRow
    BY DEF BillingInv, BillingTypeOK
  <1>1. ASSUME NEW b \in Biller, BookPayment(b)
        PROVE  EarnedInsideTheTerm'
    <2> DEFINE i == BookedInvoice(b)
               at == booking[b].paidAt
    <2>1. /\ HoldsInvoice(b) /\ at \in Nat
          /\ \A j \in Invoice : j # i => ledger'[j] = ledger[j]
          /\ ledger'[i].status # "none" => booking[b].earns /\ ledger'[i].earnedAt = at
      BY <1>1, BookingEarns, NothingBookedYet
    <2>2. booking[b].starts => booking[b].pc = "bound" /\ ~binding.started
      BY DEF BillingInv, BookingsAreTrue, BookingIsTrue
    <2>3. booking[b].earns => booking[b].pc = "bound" /\ (booking[b].starts <=> ~binding.started) /\ InTerm(at)
      BY DEF BillingInv, BookingsAreTrue, BookingIsTrue
    <2>4. CASE booking[b].starts
      <3>1. binding' = TermFrom(at)
        BY <1>1, <2>4 DEF BookPayment
      <3>2. binding'.started /\ binding'.start = at /\ binding'.ends = at + Term
        BY <3>1, <1>a DEF TermFrom, BindingRow
      <3>3. \A j \in Invoice : ledger[j].status = "none"
        BY <2>2, <2>4, <1>a DEF EarnedInsideTheTerm
      <3>4. at <= at /\ at < at + Term
        BY <2>1, BillingAssumption
      <3> QED
        BY <2>1, <3>2, <3>3, <3>4 DEF EarnedInsideTheTerm
    <2>5. CASE ~booking[b].starts
      <3>1. binding' = binding
        BY <1>1, <2>5 DEF BookPayment
      <3>2. booking[b].earns => binding.started /\ binding.start <= at /\ at < binding.ends
        BY <2>3, <2>5 DEF InTerm
      <3> QED
        BY <1>a, <2>1, <3>1, <3>2 DEF EarnedInsideTheTerm
    <2> QED
      BY <2>4, <2>5
  <1>2. CASE BindChannel
    <2>1. /\ UNCHANGED ledger /\ binding'.started = binding.started
          /\ binding'.start = binding.start /\ binding'.ends = binding.ends
      BY <1>2, <1>a DEF BindChannel, BindingRow
    <2> QED
      BY <1>a, <2>1 DEF EarnedInsideTheTerm
  <1>3. CASE EntriesStay /\ UNCHANGED binding
    BY <1>3, <1>a DEF EarnedInsideTheTerm, EntriesStay
  <1> QED
    BY <1>1, <1>2, <1>3, EntryStep
      DEF NextBilling, CreateInvoice, CreatePayment, ClaimPayment, RejectPayment, BeginBooking, DropDuplicate,
          LockInvoice, LockBinding, AbandonBooking, PromoteAvailable, LockEntries, SettleEntries,
          AbandonSettlement, PassDay, billingVars

\* What a settlement holds stays as it found it; what is settled was held long enough.
LEMMA SettlementsKept ==
  ASSUME BillingInv, [NextBilling]_billingVars
  PROVE  SettlementsAreTrue' /\ EntriesAreTrue' /\ SettledOnce'
  <1>a. SettlementsAreTrue /\ EntriesAreTrue /\ SettledOnce /\ BillingTypeOK
    BY DEF BillingInv
  <1>b. /\ day \in Nat /\ Hold \in Nat /\ \A i \in Invoice : ledger[i] \in EntryRow /\ ledger[i].earnedAt \in Nat
        /\ settling \in [Cashier -> [chosen : SUBSET Invoice, due : SUBSET Invoice]]
    BY <1>a, BillingAssumption DEF BillingTypeOK, EntryRow
  <1>1. ASSUME NEW b \in Biller, BookPayment(b)
        PROVE  SettlementsAreTrue' /\ EntriesAreTrue' /\ SettledOnce'
    <2> DEFINE i == BookedInvoice(b)
    <2>1. /\ \A j \in Invoice : j # i => ledger'[j] = ledger[j]
          /\ ledger[i].status = "none" /\ i \in Invoice
          /\ ledger'[i].status # "none" => ledger'[i].status = "PENDING"
          /\ UNCHANGED <<day, settling, items>>
      BY <1>1, BookingEarns, NothingBookedYet DEF BookPayment
    <2> HIDE DEF i
    <2>2. \A c \in Cashier : i \notin settling[c].chosen /\ i \notin settling[c].due
      BY <2>1, <1>a DEF SettlementsAreTrue
    <2>3. SettlementsAreTrue'
      BY <2>1, <2>2, <1>a, <1>b DEF SettlementsAreTrue, Held
    <2>4. EntriesAreTrue'
      BY <2>1, <1>a DEF EntriesAreTrue
    <2>5. SettledOnce'
      BY <2>1, <1>a DEF SettledOnce
    <2> QED
      BY <2>3, <2>4, <2>5
  <1>2. CASE PromoteAvailable
    <2>1. /\ ledger' = Marked(Due, "AVAILABLE") /\ UNCHANGED <<day, settling, items>>
          /\ \A i \in Due, c \in Cashier : i \notin settling[c].chosen /\ i \notin settling[c].due
      BY <1>2 DEF PromoteAvailable, EntryLocked
    <2>2. \A i \in Invoice : /\ ledger'[i].earnedAt = ledger[i].earnedAt
                             /\ ledger'[i].status = IF i \in Due THEN "AVAILABLE" ELSE ledger[i].status
      BY <2>1, <1>a, EntryTypes
    <2>3. \A i \in Invoice : i \in Due <=> ledger[i].status = "PENDING" /\ ledger[i].earnedAt + Hold <= day
      BY DEF Due
    <2>4. SettlementsAreTrue'
      BY <2>1, <2>2, <1>a, <1>b DEF SettlementsAreTrue, Held
    <2>5. EntriesAreTrue'
      BY <2>1, <2>2, <2>3, <1>a DEF EntriesAreTrue
    <2>6. SettledOnce'
      BY <2>1, <2>2, <2>3, <1>a DEF SettledOnce
    <2> QED
      BY <2>4, <2>5, <2>6
  <1>3. ASSUME NEW c \in Cashier, NEW chosen \in SUBSET Invoice, LockEntries(c, chosen)
        PROVE  SettlementsAreTrue' /\ EntriesAreTrue' /\ SettledOnce'
    <2>1. /\ UNCHANGED <<day, ledger, items>>
          /\ settling'[c].chosen = chosen /\ settling'[c].due = Due
          /\ \A other \in Cashier : other # c => settling'[other] = settling[other]
          /\ \A i \in chosen : ledger[i].status # "none"
          /\ \A i \in chosen \cup Due, other \in Cashier : i \notin Held(other)
      BY <1>3, <1>b DEF LockEntries, EntryLocked, Held
    <2>2. \A i \in Due : ledger[i].status = "PENDING" /\ ledger[i].earnedAt + Hold <= day
      BY DEF Due
    <2>3. SettlementsAreTrue'
      <3>1. \A d \in Cashier :
              /\ \A i \in settling'[d].chosen : ledger'[i].status # "none"
              /\ \A i \in settling'[d].due : ledger'[i].status = "PENDING" /\ ledger'[i].earnedAt + Hold <= day'
        BY <2>1, <2>2, <1>a DEF SettlementsAreTrue
      <3>2. \A d \in Cashier : Held(d)' = IF d = c THEN chosen \cup Due ELSE Held(d)
        BY <2>1 DEF Held
      <3>3. \A d1, d2 \in Cashier : d1 # d2 => Held(d1)' \cap Held(d2)' = {}
        <4> SUFFICES ASSUME NEW d1 \in Cashier, NEW d2 \in Cashier, d1 # d2
                     PROVE  Held(d1)' \cap Held(d2)' = {}
          OBVIOUS
        <4>1. CASE d1 # c /\ d2 # c
          BY <3>2, <4>1, <1>a DEF SettlementsAreTrue
        <4>2. CASE d1 = c \/ d2 = c
          BY <3>2, <4>2, <2>1
        <4> QED
          BY <4>1, <4>2
      <3> QED
        BY <3>1, <3>3 DEF SettlementsAreTrue
    <2> QED
      BY <2>1, <2>3, <1>a DEF EntriesAreTrue, SettledOnce
  <1>4. ASSUME NEW c \in Cashier, SettleEntries(c)
        PROVE  SettlementsAreTrue' /\ EntriesAreTrue' /\ SettledOnce'
    <2> DEFINE chosen == settling[c].chosen
               due == settling[c].due
    <2>1. /\ \A i \in Invoice :
               /\ ledger'[i].earnedAt = ledger[i].earnedAt
               /\ ledger'[i].status = IF i \in chosen THEN "SETTLED" ELSE IF i \in due THEN "AVAILABLE" ELSE ledger[i].status
               /\ items'[i] = IF i \in chosen THEN 1 ELSE items[i]
               /\ i \in chosen => i \in due \/ ledger[i].status = "AVAILABLE"
          /\ UNCHANGED day
      BY <1>4, SettledEntries DEF SettleEntries
    <2>2. /\ settling'[c] = NothingHeld
          /\ \A other \in Cashier : other # c => settling'[other] = settling[other]
      BY <1>4, <1>b DEF SettleEntries
    <2> HIDE DEF chosen, due
    <2>3. \A i \in due : ledger[i].status = "PENDING" /\ ledger[i].earnedAt + Hold <= day
      BY <1>a DEF SettlementsAreTrue, due
    <2>4. chosen \subseteq Invoice /\ due \subseteq Invoice
      BY <1>b DEF chosen, due
    <2>5. \A i \in chosen \cup due : ledger[i].earnedAt + Hold <= day
      BY <2>1, <2>3, <2>4, <1>a DEF EntriesAreTrue
    <2>6. SettlementsAreTrue'
      <3>1. \A other \in Cashier, i \in Invoice : other # c /\ i \in Held(other) => i \notin chosen /\ i \notin due
        BY <1>a DEF SettlementsAreTrue, Held, chosen, due
      <3>2. \A d \in Cashier :
              /\ \A i \in settling'[d].chosen : ledger'[i].status # "none"
              /\ \A i \in settling'[d].due : ledger'[i].status = "PENDING" /\ ledger'[i].earnedAt + Hold <= day'
        <4> SUFFICES ASSUME NEW d \in Cashier
                     PROVE  /\ \A i \in settling'[d].chosen : ledger'[i].status # "none"
                            /\ \A i \in settling'[d].due : ledger'[i].status = "PENDING" /\ ledger'[i].earnedAt + Hold <= day'
          OBVIOUS
        <4>1. CASE d = c
          BY <2>2, <4>1 DEF NothingHeld
        <4>2. CASE d # c
          <5>1. settling'[d] = settling[d] /\ settling[d].chosen \subseteq Invoice /\ settling[d].due \subseteq Invoice
            BY <2>2, <4>2, <1>b
          <5>2. \A i \in settling[d].chosen \cup settling[d].due :
                  i \in Invoice /\ ledger'[i].status = ledger[i].status /\ ledger'[i].earnedAt = ledger[i].earnedAt
            BY <2>1, <3>1, <4>2, <5>1 DEF Held
          <5> QED
            BY <2>1, <5>1, <5>2, <1>a DEF SettlementsAreTrue
        <4> QED
          BY <4>1, <4>2
      <3>3. \A d1, d2 \in Cashier : d1 # d2 => Held(d1)' \cap Held(d2)' = {}
        BY <2>2, <1>a DEF SettlementsAreTrue, Held, NothingHeld
      <3> QED
        BY <3>2, <3>3 DEF SettlementsAreTrue
    <2>7. EntriesAreTrue'
      BY <2>1, <2>5, <1>a DEF EntriesAreTrue
    <2>8. SettledOnce'
      BY <2>1, <2>3, <2>5, <1>a DEF SettledOnce
    <2> QED
      BY <2>6, <2>7, <2>8
  <1>5. ASSUME NEW c \in Cashier, AbandonSettlement(c)
        PROVE  SettlementsAreTrue' /\ EntriesAreTrue' /\ SettledOnce'
    <2>1. /\ UNCHANGED <<day, ledger, items>> /\ settling'[c] = NothingHeld
          /\ \A other \in Cashier : other # c => settling'[other] = settling[other]
      BY <1>5, <1>b DEF AbandonSettlement
    <2>2. SettlementsAreTrue'
      BY <2>1, <1>a DEF SettlementsAreTrue, Held, NothingHeld
    <2> QED
      BY <2>1, <2>2, <1>a DEF EntriesAreTrue, SettledOnce
  <1>6. CASE PassDay
    <2>1. day' = day + 1 /\ UNCHANGED <<ledger, settling, items>>
      BY <1>6 DEF PassDay
    <2>2. \A i \in Invoice : ledger[i].earnedAt + Hold <= day => ledger[i].earnedAt + Hold <= day + 1
      BY <1>b
    <2>3. \A c \in Cashier : settling[c].due \subseteq Invoice
      BY <1>b
    <2> QED
      BY <2>1, <2>2, <2>3, <1>a DEF SettlementsAreTrue, EntriesAreTrue, SettledOnce, Held
  <1>7. CASE UNCHANGED <<day, ledger, settling, items>>
    BY <1>7, <1>a DEF SettlementsAreTrue, EntriesAreTrue, SettledOnce, Held
  <1> QED
    BY <1>1, <1>2, <1>3, <1>4, <1>5, <1>6, <1>7
      DEF NextBilling, CreateInvoice, CreatePayment, ClaimPayment, RejectPayment, BeginBooking, DropDuplicate,
          LockInvoice, LockBinding, AbandonBooking, BindChannel, billingVars

\* A payment counts for its invoice when it is PAID and no duplicate.
Counts(p) == payment[p].status = "PAID" /\ ~payment[p].anomaly

\* The rows of the other invoices stay when one is appended.
LEMMA RowsAfterAppend ==
  ASSUME NEW rows \in Seq(SubscriptionRow), NEW row \in SubscriptionRow, NEW i
  PROVE  {k \in DOMAIN Append(rows, row) : Append(rows, row)[k].of = i} =
           {k \in DOMAIN rows : rows[k].of = i} \cup (IF row.of = i THEN {Len(rows) + 1} ELSE {})
  <1>1. DOMAIN Append(rows, row) = DOMAIN rows \cup {Len(rows) + 1}
    OBVIOUS
  <1>2. Append(rows, row)[Len(rows) + 1] = row /\ \A k \in DOMAIN rows : Append(rows, row)[k] = rows[k]
    OBVIOUS
  <1>3. Len(rows) + 1 \notin DOMAIN rows
    OBVIOUS
  <1> QED
    BY <1>1, <1>2, <1>3

\* A step that books nothing keeps every invoice's account.
LEMMA SuccessFrame ==
  ASSUME BillingInv, [NextBilling]_billingVars, EntriesStay, UNCHANGED subs,
         \A p \in Payment : Counts(p)' <=> Counts(p),
         \A i \in Invoice : (invoice'[i] = "PAID") <=> (invoice[i] = "PAID"),
         \A i \in Invoice : invoice[i] = "PAID" => charge'[i] = charge[i]
  PROVE  OneSuccessPerInvoice'
  <1>1. \A p \in Payment : Counts(p) => payment'[p].invoice = payment[p].invoice
    BY PaymentStep DEF PaymentsGrow, Counts
  <1>2. \A i \in Invoice : Payers(i)' = Payers(i)
    BY <1>1 DEF Payers, Counts
  <1>3. \A i \in Invoice : RowsOf(i)' = RowsOf(i)
    BY DEF RowsOf
  <1> SUFFICES ASSUME NEW i \in Invoice
               PROVE  IF invoice'[i] = "PAID"
                      THEN \E p \in Payment :
                             /\ Payers(i)' = {p}
                             /\ ledger'[i].status # "none" => ledger'[i].payment = p
                             /\ IF charge'[i] \in Plan THEN \E k \in DOMAIN subs' : RowsOf(i)' = {k} ELSE RowsOf(i)' = {}
                      ELSE Payers(i)' = {} /\ RowsOf(i)' = {} /\ ledger'[i].status = "none"
    BY DEF OneSuccessPerInvoice
  <1>4. OneSuccessPerInvoice
    BY DEF BillingInv
  <1>5. CASE invoice[i] = "PAID"
    <2>1. PICK p \in Payment :
            /\ Payers(i) = {p}
            /\ ledger[i].status # "none" => ledger[i].payment = p
            /\ IF charge[i] \in Plan THEN \E k \in DOMAIN subs : RowsOf(i) = {k} ELSE RowsOf(i) = {}
      BY <1>4, <1>5 DEF OneSuccessPerInvoice
    <2>2. /\ Payers(i)' = {p}
          /\ ledger'[i].status # "none" => ledger'[i].payment = p
          /\ IF charge'[i] \in Plan THEN \E k \in DOMAIN subs' : RowsOf(i)' = {k} ELSE RowsOf(i)' = {}
      BY <1>2, <1>3, <1>5, <2>1 DEF EntriesStay
    <2> QED
      BY <1>5, <2>2
  <1>6. CASE invoice[i] # "PAID"
    <2>1. Payers(i) = {} /\ RowsOf(i) = {} /\ ledger[i].status = "none"
      BY <1>4, <1>6 DEF OneSuccessPerInvoice
    <2> QED
      BY <1>2, <1>3, <1>6, <2>1 DEF EntriesStay
  <1> QED
    BY <1>5, <1>6

LEMMA SuccessKept ==
  ASSUME BillingInv, [NextBilling]_billingVars
  PROVE  OneSuccessPerInvoice'
  <1>a. OneSuccessPerInvoice /\ BillingTypeOK
    BY DEF BillingInv
  <1>b. /\ payment \in [Payment -> PaymentRow] /\ invoice \in [Invoice -> {"none", "PENDING", "PAID"}]
        /\ charge \in [Invoice -> Charge \cup {"none"}] /\ subs \in Seq(SubscriptionRow)
    BY <1>a DEF BillingTypeOK
  <1>1. ASSUME NEW i \in Invoice, NEW c \in Charge, CreateInvoice(i, c)
        PROVE  OneSuccessPerInvoice'
    <2>1. /\ UNCHANGED <<payment, subs>> /\ EntriesStay
          /\ \A j \in Invoice : (invoice'[j] = "PAID") <=> (invoice[j] = "PAID")
          /\ \A j \in Invoice : invoice[j] = "PAID" => charge'[j] = charge[j]
      BY <1>1, <1>b DEF CreateInvoice, EntriesStay
    <2> QED
      BY <2>1, SuccessFrame DEF Counts
  <1>2. ASSUME NEW p \in Payment, NEW i \in Invoice, NEW provider \in Provider, CreatePayment(p, i, provider)
        PROVE  OneSuccessPerInvoice'
    <2>1. /\ UNCHANGED <<charge, invoice, subs>> /\ EntriesStay
          /\ payment'[p].status = "PENDING" /\ payment[p].status = "none"
          /\ \A q \in Payment : q # p => payment'[q] = payment[q]
      BY <1>2, <1>b DEF CreatePayment, EntriesStay, NoPaymentRow
    <2>2. \A q \in Payment : Counts(q)' <=> Counts(q)
      BY <2>1 DEF Counts
    <2> QED
      BY <2>1, <2>2, SuccessFrame
  <1>3. ASSUME NEW p \in Payment, ClaimPayment(p) \/ RejectPayment(p)
        PROVE  OneSuccessPerInvoice'
    <2>1. UNCHANGED <<charge, invoice, subs>> /\ EntriesStay
      BY <1>3 DEF ClaimPayment, RejectPayment, EntriesStay
    <2>2. \A q \in Payment : Counts(q)' <=> Counts(q)
      <3>1. PICK r \in {"WAITING", "REJECTED"} : payment' = [payment EXCEPT ![p] = [payment[p] EXCEPT !.review = r]]
        BY <1>3 DEF ClaimPayment, RejectPayment
      <3>2. payment[p] \in PaymentRow
        BY <1>b
      <3>3. /\ payment'[p].status = payment[p].status
            /\ payment'[p].anomaly = payment[p].anomaly
        BY <3>1, <3>2, <1>b, ReviewOnly
      <3>4. \A q \in Payment : q # p => payment'[q] = payment[q]
        BY <3>1, <1>b
      <3> QED
        BY <3>3, <3>4 DEF Counts
    <2> QED
      BY <2>1, <2>2, SuccessFrame
  <1>4. ASSUME NEW b \in Biller, DropDuplicate(b)
        PROVE  OneSuccessPerInvoice'
    <2> DEFINE p == booking[b].payment
    <2>1. UNCHANGED <<charge, invoice, subs>> /\ EntriesStay
      BY <1>4 DEF DropDuplicate, EntriesStay
    <2>2. \A q \in Payment : Counts(q)' <=> Counts(q)
      <3>1. CASE UNCHANGED payment
        BY <3>1 DEF Counts
      <3>2. CASE payment[p].status # "PAID" /\ payment' = [payment EXCEPT ![p] = Booked(b, TRUE)]
        <4>1. p \in Payment
          BY <1>4 DEF DropDuplicate, BillingInv, BookingsAreTrue, BookingIsTrue
        <4>2. Booked(b, TRUE).anomaly = TRUE
          BY <4>1, <1>a, BookedTypes
        <4>3. /\ payment'[p].anomaly = TRUE /\ payment[p].status # "PAID"
              /\ \A q \in Payment : q # p => payment'[q] = payment[q]
          BY <3>2, <4>1, <4>2, <1>b
        <4> QED
          BY <4>3 DEF Counts
      <3> QED
        BY <1>4, <3>1, <3>2 DEF DropDuplicate
    <2> QED
      BY <2>1, <2>2, SuccessFrame
  <1>5. ASSUME NEW b \in Biller, BookPayment(b)
        PROVE  OneSuccessPerInvoice'
    <2>h. HoldsInvoice(b)
      BY <1>5, BookingEarns
    <2>p. PICK p \in Payment : p = booking[b].payment
      BY <2>h, NothingBookedYet
    <2>i. PICK i \in Invoice : i = BookedInvoice(b)
      BY <2>h, NothingBookedYet
    <2> DEFINE row == [plan |-> charge[i], of |-> i, ends |-> Extended(booking[b].seen, booking[b].paidAt)]
    <2>1. /\ \A j \in Invoice : j # i => ledger'[j] = ledger[j]
          /\ ledger'[i].status # "none" => ledger'[i].payment = p
      BY <1>5, <2>p, <2>i, BookingEarns
    <2>2. /\ invoice[i] # "PAID" /\ payment[p].status # "PAID"
          /\ Payers(i) = {} /\ RowsOf(i) = {}
      BY <2>h, <2>p, <2>i, NothingBookedYet
    <2>3. /\ \A q \in Payment : q # p => payment'[q] = payment[q]
          /\ payment'[p] = Booked(b, FALSE)
          /\ \A j \in Invoice : j # i => invoice'[j] = invoice[j]
          /\ invoice'[i] = "PAID" /\ UNCHANGED charge
          /\ subs' = IF charge[i] \in Plan THEN Append(subs, row) ELSE subs
      BY <1>5, <2>p, <2>i, <1>b DEF BookPayment, BookedInvoice
    <2>4. payment'[p].status = "PAID" /\ payment'[p].anomaly = FALSE /\ payment'[p].invoice = i
      BY <2>p, <2>i, <2>3, <1>a, BookedTypes
    <2>5. row.of = i /\ (charge[i] \in Plan => row \in SubscriptionRow)
      <3>1. booking[b].seen \in SubscriptionRow /\ booking[b].paidAt \in Nat
        BY <1>a DEF BillingTypeOK, BookingRow
      <3>2. Extended(booking[b].seen, booking[b].paidAt) \in Nat
        BY <3>1, ExtendedIsADay
      <3> QED
        BY <2>2, <3>2 DEF SubscriptionRow
    <2> HIDE DEF row
    <2>6. Payers(i)' = {p}
      <3>1. \A q \in Payment : q \in Payers(i)' <=> q = p
        <4>1. p \in Payers(i)'
          BY <2>2, <2>4 DEF Payers
        <4>2. \A q \in Payment : q # p => q \notin Payers(i)'
          BY <2>2, <2>3 DEF Payers
        <4> QED
          BY <4>1, <4>2
      <3> QED
        BY <2>2, <3>1 DEF Payers
    <2>7. \A j \in Invoice : j # i => Payers(j)' = Payers(j)
      <3> SUFFICES ASSUME NEW j \in Invoice, j # i
                   PROVE  Payers(j)' = Payers(j)
        OBVIOUS
      <3>1. p \notin Payers(j)' /\ p \notin Payers(j)
        BY <2>2, <2>4 DEF Payers
      <3>2. \A q \in Payment : q # p => (q \in Payers(j)' <=> q \in Payers(j))
        BY <2>3 DEF Payers
      <3> QED
        BY <3>1, <3>2 DEF Payers
    <2>8. \A j \in Invoice : RowsOf(j)' = IF j = i /\ charge[i] \in Plan THEN {Len(subs) + 1} ELSE RowsOf(j)
      <3> SUFFICES ASSUME NEW j \in Invoice
                   PROVE  RowsOf(j)' = IF j = i /\ charge[i] \in Plan THEN {Len(subs) + 1} ELSE RowsOf(j)
        OBVIOUS
      <3>1. CASE charge[i] \in Plan
        <4>1. RowsOf(j)' = RowsOf(j) \cup (IF row.of = j THEN {Len(subs) + 1} ELSE {})
          BY <2>3, <2>5, <3>1, <1>b, RowsAfterAppend DEF RowsOf
        <4> QED
          BY <2>2, <2>5, <3>1, <4>1
      <3>2. CASE charge[i] \notin Plan
        BY <2>3, <3>2 DEF RowsOf
      <3> QED
        BY <3>1, <3>2
    <2>9. charge[i] \in Plan => Len(subs) + 1 \in DOMAIN subs'
      BY <2>3, <2>5, <1>b
    <2>10. /\ \E q \in Payment :
                /\ Payers(i)' = {q}
                /\ ledger'[i].status # "none" => ledger'[i].payment = q
                /\ IF charge'[i] \in Plan THEN \E k \in DOMAIN subs' : RowsOf(i)' = {k} ELSE RowsOf(i)' = {}
           /\ invoice'[i] = "PAID"
      <3>1. IF charge'[i] \in Plan THEN \E k \in DOMAIN subs' : RowsOf(i)' = {k} ELSE RowsOf(i)' = {}
        BY <2>2, <2>3, <2>8, <2>9
      <3>2. ledger'[i].status # "none" => ledger'[i].payment = p
        BY <2>1
      <3> QED
        BY <2>2, <2>3, <2>6, <3>1, <3>2
    <2>11. ASSUME NEW j \in Invoice, j # i
           PROVE  IF invoice'[j] = "PAID"
                  THEN \E q \in Payment :
                         /\ Payers(j)' = {q}
                         /\ ledger'[j].status # "none" => ledger'[j].payment = q
                         /\ IF charge'[j] \in Plan THEN \E k \in DOMAIN subs' : RowsOf(j)' = {k} ELSE RowsOf(j)' = {}
                  ELSE Payers(j)' = {} /\ RowsOf(j)' = {} /\ ledger'[j].status = "none"
      <3>1. /\ Payers(j)' = Payers(j) /\ RowsOf(j)' = RowsOf(j) /\ ledger'[j] = ledger[j]
            /\ invoice'[j] = invoice[j] /\ charge' = charge
        <4>1. ledger'[j] = ledger[j]
          BY <2>1, <2>11
        <4> QED
          BY <2>3, <2>7, <2>8, <2>11, <4>1
      <3>2. DOMAIN subs \subseteq DOMAIN subs'
        BY <2>3, <2>5, <1>b
      <3>3. IF invoice[j] = "PAID"
            THEN \E q \in Payment :
                   /\ Payers(j) = {q}
                   /\ ledger[j].status # "none" => ledger[j].payment = q
                   /\ IF charge[j] \in Plan THEN \E k \in DOMAIN subs : RowsOf(j) = {k} ELSE RowsOf(j) = {}
            ELSE Payers(j) = {} /\ RowsOf(j) = {} /\ ledger[j].status = "none"
        BY <1>a DEF OneSuccessPerInvoice
      <3> QED
        BY <3>1, <3>2, <3>3
    <2> QED
      BY <2>10, <2>11 DEF OneSuccessPerInvoice
  <1>6. CASE UNCHANGED <<payment, invoice, subs, charge>> /\ EntriesStay
    BY <1>6, SuccessFrame DEF Counts
  <1> QED
    BY <1>1, <1>2, <1>3, <1>4, <1>5, <1>6, EntryStep
      DEF NextBilling, BeginBooking, LockInvoice, LockBinding, AbandonBooking, BindChannel, PromoteAvailable,
          LockEntries, SettleEntries, AbandonSettlement, PassDay, billingVars

LEMMA BillingInvKept ==
  BillingInv /\ [NextBilling]_billingVars => BillingInv'
  BY BillingTypeKept, PaymentsKept, BookingsKept, SettlementsKept, EarnedKept, SuccessKept DEF BillingInv

LEMMA BillingInvInit ==
  InitBilling => BillingInv
  <1> SUFFICES ASSUME InitBilling
               PROVE  BillingInv
    OBVIOUS
  <1>1. BillingTypeOK
    <2>0. Period \in Nat
      BY BillingAssumption
    <2> DEFINE trial == [plan |-> "TRIAL", of |-> NoInvoice, ends |-> Period]
    <2>1. trial \in SubscriptionRow
      BY <2>0 DEF SubscriptionRow
    <2>2. subs \in Seq(SubscriptionRow)
      <3>1. subs = <<>> \/ subs = <<trial>>
        BY DEF InitBilling
      <3> HIDE DEF trial
      <3>2. <<>> \in Seq(SubscriptionRow) /\ <<trial>> \in Seq(SubscriptionRow)
        BY <2>1
      <3> QED
        BY <3>1, <3>2
    <2>3. /\ NoPaymentRow \in PaymentRow /\ NoBinding \in BindingRow /\ NoEntry \in EntryRow
          /\ NothingHeld \in [chosen : SUBSET Invoice, due : SUBSET Invoice]
      BY DEF NoPaymentRow, PaymentRow, NoBinding, BindingRow, NoEntry, EntryRow, NothingHeld
    <2>4. Idle \in BookingRow
      BY DEF Idle, BookingRow, NoRow, SubscriptionRow
    <2> QED
      BY <2>2, <2>3, <2>4 DEF InitBilling, BillingTypeOK
  <1>2. PaymentsAreTrue
    BY DEF InitBilling, PaymentsAreTrue, NoPaymentRow
  <1>3. BookingsAreTrue /\ OneBooking
    BY DEF InitBilling, BookingsAreTrue, BookingIsTrue, OneBooking, NoClash, HoldsInvoice, Idle
  <1>4. SettlementsAreTrue /\ EntriesAreTrue /\ SettledOnce /\ EarnedInsideTheTerm
    BY DEF InitBilling, SettlementsAreTrue, Held, EntriesAreTrue, SettledOnce, EarnedInsideTheTerm,
           NothingHeld, NoEntry
  <1>5. OneSuccessPerInvoice
    <2> SUFFICES ASSUME NEW i \in Invoice
                 PROVE  Payers(i) = {} /\ RowsOf(i) = {} /\ ledger[i].status = "none" /\ invoice[i] # "PAID"
      BY DEF OneSuccessPerInvoice
    <2>1. Payers(i) = {}
      BY DEF InitBilling, Payers, NoPaymentRow
    <2>2. RowsOf(i) = {}
      <3>1. CASE subs = <<>>
        BY <3>1 DEF RowsOf
      <3>2. CASE subs = <<[plan |-> "TRIAL", of |-> NoInvoice, ends |-> Period]>>
        BY <3>2, BillingAssumption DEF RowsOf
      <3> QED
        BY <3>1, <3>2 DEF InitBilling
    <2> QED
      BY <2>1, <2>2 DEF InitBilling, NoEntry
  <1> QED
    BY <1>1, <1>2, <1>3, <1>4, <1>5 DEF BillingInv

\* Types, locks and the rest: the invariant the results on billing rest on.
THEOREM BillingInvHolds == BillingSpec => []BillingInv
  BY BillingInvInit, BillingInvKept, PTL DEF BillingSpec

\* One payment counts for an invoice, which extends the subscription once.
THEOREM InvoicePaidOnce == BillingSpec => []OneSuccessPerInvoice
  BY BillingInvHolds, PTL DEF BillingInv

\* A channel partner earns only while its term runs.
THEOREM EarnedInTerm == BillingSpec => []EarnedInsideTheTerm
  BY BillingInvHolds, PTL DEF BillingInv

\* A commission is paid out once, after its holding time.
THEOREM CommissionSettledOnce == BillingSpec => []SettledOnce
  BY BillingInvHolds, PTL DEF BillingInv
=============================================================================
