------------------------ MODULE OrderPaymentInvariance ------------------------
(***************************************************************************)
(* Inv of OrderPayment is an invariant, for any orders, coupons, sessions, *)
(* stock and fulfilment mode, and the safety properties follow from it.    *)
(*                                                                         *)
(* The argument: the tables only ever grow (Grows), so what a stale copy   *)
(* said stays backed by the row; a session that keeps its copy keeps what  *)
(* it knows (Kept); and whoever ends an open order knows the coupon it     *)
(* holds, so the lock is spent or given back with the order.               *)
(*                                                                         *)
(* What Inv leaves possible happens on stale copies only, and on true ones *)
(* not at all: the last two sections.                                      *)
(***************************************************************************)
EXTENDS OrderPaymentProofs

\* The conjuncts of Inv about one order.
Consistent(o) ==
  /\ row[o].pay = "unpaid" => row[o].st \in {"absent", "pending_payment", "cancelled"}
  /\ row[o].pay = "paid" => wx[o] = "paid"
  /\ row[o].refund = "success" => rf[o] = "success"
  /\ row[o].st \in Kitchen => points[o] > 0
  /\ rf[o] # "none" => row[o].pay = "paid"
  /\ row[o].st \in {"absent", "pending_payment"} => row[o].pay = "unpaid"

Books == \A o \in Order : Consistent(o)

\* What no step takes back from order o.
Grows(o) ==
  /\ row[o].st # "absent" => row'[o].st # "absent"
  /\ row[o].pay = "paid" => row'[o].pay = "paid"
  /\ wx[o] = "paid" => wx'[o] = "paid"
  /\ rf[o] = "success" => rf'[o] = "success"
  /\ points[o] > 0 => points'[o] > 0
  /\ row[o].st \notin {"absent", "pending_payment"} => row'[o].st # "pending_payment"

\* Session v ends its job or keeps the copy it has.
Kept(v) ==
  \/ worker'[v] = Idle
  \/ worker'[v] = worker[v]
  \/ /\ Busy(v)
     /\ \E pc \in {"join", "query", "ready"} :
          worker'[v] = [worker[v] EXCEPT !.pc = pc]

\* If session v's order holds coupon c after the step, v knows it.
Informed(v) ==
  \A c \in Coupon :
    /\ worker'[v].pc # "idle"
    /\ row'[worker'[v].o].st = "pending_payment"
    /\ row'[worker'[v].o].coup = c
    /\ coupon'[c] = "LOCKED"
    /\ Busy(v) /\ worker[v].o = worker'[v].o => Knows(worker[v], c)
    => Knows(worker'[v], c)

\* The holder of a coupon that stays locked stays open with it.
HolderStays ==
  \A o \in Order, c \in Coupon :
    Holds(o, c) /\ coupon[c] = "LOCKED" /\ coupon'[c] = "LOCKED"
      => row'[o].st = "pending_payment" /\ row'[o].coup = c

\* No coupon is locked by the step.
NoNewLock == \A c \in Coupon : coupon'[c] = "LOCKED" => coupon[c] = "LOCKED"

\* Inv by parts.
LEMMA InvParts == Inv <=> TypeOK /\ Books /\ JobsAreBacked /\ LocksAreHeld
  BY DEF Inv, Books, Consistent, UnpaidNeverFulfilled, PaidMeansCaptured,
    RefundBackedByProvider, KitchenOrderIsCredited, RowsAreConsistent

\* A backed job stays backed while the tables grow.
LEMMA BackedStays ==
  ASSUME TypeOK, TypeOK', NEW j \in Job \cup {Idle}, JobBacked(j),
         \A o \in Order : Grows(o)
  PROVE  JobBacked(j)'
  <1>1. CASE j = Idle
    BY <1>1 DEF JobBacked, Idle
  <1>2. CASE j \in Job /\ j.pc # "idle"
    <2>1. Grows(j.o)
      BY <1>2 DEF Job
    <2>2. row[j.o].st # "absent" /\ row'[j.o].st # "absent"
      BY <1>2, <2>1 DEF JobBacked, Grows
    <2>3. ASSUME ~ j.fresh
          PROVE  CopyBacked(j.o, j.seen)'
      BY <1>2, <2>1, <2>2, <2>3 DEF JobBacked, CopyBacked, Grows
    <2> QED
      BY <1>2, <2>1, <2>2, <2>3 DEF JobBacked, Grows
  <1> QED
    BY <1>1, <1>2 DEF Job

\* The copy a session decides on, reloaded or not, is backed by the row.
LEMMA LoadedBacked ==
  ASSUME TypeOK, Books, JobsAreBacked, NEW w \in Worker, Busy(w)
  PROVE  /\ worker[w].o \in Order /\ row[worker[w].o].st # "absent"
         /\ CopyBacked(worker[w].o, Loaded(w))
  <1> DEFINE o == worker[w].o
  <1>1. worker[w] \in Job /\ JobBacked(worker[w])
    BY BusyHasJob DEF JobsAreBacked
  <1>2. o \in Order /\ row[o].st # "absent"
    BY <1>1 DEF Job, JobBacked, Busy
  <1>3. CASE worker[w].fresh
    <2>1. Consistent(o)
      BY <1>2 DEF Books
    <2>2. CopyBacked(o, row[o])
      BY <1>2, <2>1 DEF CopyBacked, Consistent, Kitchen
    <2> QED
      BY <1>2, <1>3, <2>2 DEF Loaded
  <1>4. CASE ~ worker[w].fresh
    BY <1>1, <1>2, <1>4 DEF JobBacked, Busy, Loaded
  <1> QED
    BY <1>3, <1>4

\* Jobs that were kept are backed; the job of w is shown to be.
LEMMA JobsStayBacked ==
  ASSUME TypeOK, TypeOK', JobsAreBacked, \A o \in Order : Grows(o),
         NEW w, \A v \in Worker \ {w} : Kept(v),
         w \in Worker => Kept(w) \/ JobBacked(worker[w])'
  PROVE  JobsAreBacked'
  <1>0. \A j \in Job \cup {Idle} : JobBacked(j) => JobBacked(j)'
    BY BackedStays
  <1>1. ASSUME NEW v \in Worker, Kept(v)
        PROVE  JobBacked(worker[v])'
    <2>1. worker[v] \in Job \cup {Idle} /\ JobBacked(worker[v])
      BY DEF TypeOK, JobsAreBacked
    <2>3. CASE worker'[v] = Idle
      BY <2>3 DEF JobBacked, Idle
    <2>4. CASE worker'[v] = worker[v]
      BY <1>0, <2>1, <2>4 DEF JobBacked, CopyBacked
    <2>5. CASE Busy(v) /\ \E pc \in {"join", "query", "ready"} :
                 worker'[v] = [worker[v] EXCEPT !.pc = pc]
      <3>1. worker[v] \in Job
        BY <2>5, BusyHasJob
      <3>2. /\ worker'[v].o = worker[v].o /\ worker'[v].seen = worker[v].seen
            /\ worker'[v].fresh = worker[v].fresh
            /\ worker'[v].pc \notin {"apply", "reversed"}
        BY <2>5, <3>1 DEF Job
      <3> QED
        BY <1>0, <2>1, <2>5, <3>1, <3>2 DEF JobBacked, CopyBacked, Busy
    <2> QED
      BY <1>1, <2>3, <2>4, <2>5 DEF Kept
  <1>2. \A v \in Worker : JobBacked(worker[v])'
    BY <1>1
  <1> QED
    BY <1>2 DEF JobsAreBacked

\* A session that keeps its copy keeps what it knows.
LEMMA KeptInformed ==
  ASSUME TypeOK, NEW v \in Worker, Kept(v)
  PROVE  Informed(v)
  <1>1. CASE worker'[v] = Idle
    BY <1>1 DEF Informed, Idle
  <1>2. CASE worker'[v] = worker[v]
    BY <1>2 DEF Informed, Busy
  <1>3. CASE Busy(v) /\ \E pc \in {"join", "query", "ready"} :
               worker'[v] = [worker[v] EXCEPT !.pc = pc]
    <2>1. worker[v] \in Job
      BY <1>3, BusyHasJob
    <2>2. /\ worker'[v].o = worker[v].o /\ worker'[v].seen = worker[v].seen
          /\ worker'[v].fresh = worker[v].fresh /\ worker'[v].op = worker[v].op
          /\ worker'[v].cseen = worker[v].cseen
      BY <1>3, <2>1 DEF Job
    <2> QED
      BY <1>3, <2>2 DEF Informed, Knows
  <1> QED
    BY <1>1, <1>2, <1>3 DEF Kept

\* A locked coupon keeps its holder when the step locks none, leaves the
\* holders alone and every session informed.
LEMMA LocksStayHeld ==
  ASSUME TypeOK, TypeOK', LocksAreHeld, NoNewLock, HolderStays,
         \A v \in Worker : Informed(v)
  PROVE  LocksAreHeld'
  <1> SUFFICES ASSUME NEW c \in Coupon, coupon'[c] = "LOCKED"
               PROVE  \E o \in Order : Holds(o, c)'
    BY DEF LocksAreHeld
  <1>1. coupon[c] = "LOCKED"
    BY DEF NoNewLock
  <1>2. PICK o \in Order : Holds(o, c)
    BY <1>1 DEF LocksAreHeld
  <1>3. row'[o].st = "pending_payment" /\ row'[o].coup = c
    BY <1>1, <1>2 DEF HolderStays
  <1>4. ASSUME NEW v \in Worker, worker'[v].pc # "idle", worker'[v].o = o
        PROVE  Knows(worker'[v], c)
    BY <1>2, <1>3, <1>4 DEF Informed, Holds
  <1> QED
    BY <1>3, <1>4 DEF Holds, Busy, Knows

-----------------------------------------------------------------------------
(* The steps *)

\* Inv without the types, and what a step makes of it.
Strong == Books /\ JobsAreBacked /\ LocksAreHeld
Preserved == (\A o \in Order : Grows(o)) /\ Strong'

\* Whoever is not the executor keeps its copy when a query is answered.
LEMMA AnswerKeeps ==
  ASSUME TypeOK, NEW w \in Worker, NEW job, NEW recovered, Answer(w, job, recovered)
  PROVE  worker'[w] = job /\ \A v \in Worker \ {w} : Kept(v)
  BY DEF Answer, Kept, At, Busy

\* Assigning one session leaves the others alone.
LEMMA AssignKeeps ==
  ASSUME TypeOK, NEW w \in Worker, NEW job, worker' = [worker EXCEPT ![w] = job]
  PROVE  worker'[w] = job /\ \A v \in Worker \ {w} : Kept(v)
  BY DEF TypeOK, Kept

\* A job that ends leaves every copy as it was.
LEMMA FinishKeeps ==
  ASSUME TypeOK, NEW w \in Worker, Finish(w)
  PROVE  \A v \in Worker : Kept(v)
  <1>1. worker'[w] = Idle /\ \A v \in Worker \ {w} : Kept(v)
    BY AnswerKeeps, AssignKeeps DEF Finish
  <1> QED
    BY <1>1 DEF Kept

\* A step that touches the tables of nobody but order o, and locks no coupon.
LEMMA OrderStep ==
  ASSUME TypeOK, TypeOK', Strong, NEW o \in Order, NEW w \in Worker,
         Grows(o), Consistent(o)',
         \A p \in Order \ {o} : row'[p] = row[p] /\ points'[p] = points[p]
                                /\ wx'[p] = wx[p] /\ rf'[p] = rf[p],
         NoNewLock,
         \A c \in Coupon : Holds(o, c) /\ coupon[c] = "LOCKED" /\ coupon'[c] = "LOCKED"
            => row'[o].st = "pending_payment" /\ row'[o].coup = c,
         \A v \in Worker \ {w} : Kept(v),
         Kept(w) \/ (JobBacked(worker[w])' /\ Informed(w))
  PROVE  Preserved
  <1>1. \A p \in Order : Grows(p)
    BY DEF Grows
  <1>2. Books'
    BY DEF Strong, Books, Consistent
  <1>3. JobsAreBacked'
    BY <1>1, JobsStayBacked DEF Strong
  <1>4. \A v \in Worker : Informed(v)
    BY KeptInformed
  <1>5. HolderStays
    BY DEF HolderStays, Holds
  <1>6. LocksAreHeld'
    BY <1>4, <1>5, LocksStayHeld DEF Strong
  <1> QED
    BY <1>1, <1>2, <1>3, <1>6 DEF Strong, Preserved

\* A step that touches no table these facts are about.
LEMMA QuietStep ==
  ASSUME TypeOK, TypeOK', Strong, NEW w \in Worker,
         UNCHANGED <<row, coupon, points, rf>>,
         \A o \in Order : wx[o] = "paid" => wx'[o] = "paid",
         \A v \in Worker \ {w} : Kept(v),
         Kept(w) \/ (JobBacked(worker[w])' /\ Informed(w))
  PROVE  Preserved
  <1>1. \A p \in Order : Grows(p)
    BY DEF Grows
  <1>2. Books'
    BY DEF Strong, Books, Consistent
  <1>3. JobsAreBacked'
    BY <1>1, JobsStayBacked DEF Strong
  <1>4. \A v \in Worker : Informed(v)
    BY KeptInformed
  <1>5. HolderStays /\ NoNewLock
    BY DEF HolderStays, NoNewLock, Holds
  <1>6. LocksAreHeld'
    BY <1>4, <1>5, LocksStayHeld DEF Strong
  <1> QED
    BY <1>1, <1>2, <1>3, <1>6 DEF Strong, Preserved

\* A new order's coupon has a holder that nobody else has a copy of.
LEMMA CreateOrderInv ==
  ASSUME TypeOK, TypeOK', Strong, NEW o \in Order, NEW c \in Coupon \cup {NoCoupon},
         CreateOrder(o, c)
  PROVE  Preserved
  <1> USE DEF CreateOrder, assets, provider
  <1>0. /\ row' = [row EXCEPT ![o] = [st |-> "pending_payment", pay |-> "unpaid",
                                      refund |-> "none", coup |-> c]]
        /\ UNCHANGED <<points, wx, rf, worker>>
    OBVIOUS
  <1>r. /\ row'[o].st = "pending_payment" /\ row'[o].pay = "unpaid"
        /\ row'[o].refund = "none" /\ row'[o].coup = c
        /\ \A p \in Order \ {o} : row'[p] = row[p]
    BY <1>0 DEF TypeOK
  <1>a. row[o].st = "absent" /\ row[o].pay = "unpaid" /\ rf[o] = "none"
    BY DEF Strong, Books, Consistent
  <1>1. \A p \in Order : Grows(p)
    BY <1>0, <1>a, <1>r DEF Grows
  <1>2. Books'
    BY <1>0, <1>a, <1>r DEF Strong, Books, Consistent, Kitchen
  <1>k. \A v \in Worker : Kept(v)
    BY <1>0 DEF Kept
  <1>3. JobsAreBacked'
    BY <1>1, <1>k, JobsStayBacked DEF Strong
  <1>n. ASSUME NEW v \in Worker, Busy(v)
        PROVE  worker[v].o # o
    BY <1>a, <1>n, LoadedBacked DEF Strong
  <1>4. ASSUME NEW d \in Coupon, coupon'[d] = "LOCKED"
        PROVE  \E p \in Order : Holds(p, d)'
    <2>1. CASE d = c
      <3>1. \A v \in Worker : ~ (worker'[v].pc # "idle" /\ worker'[v].o = o)
        BY <1>0, <1>n DEF Busy
      <3>2. Holds(o, d)'
        BY <1>r, <2>1, <3>1 DEF Holds, Busy
      <3> QED
        BY <3>2
    <2>2. CASE d # c
      <3>1. coupon[d] = "LOCKED"
        BY <1>4, <2>2 DEF CouponSet
      <3>2. PICK p \in Order : Holds(p, d)
        BY <3>1 DEF Strong, LocksAreHeld
      <3>3. p # o
        BY <3>2, <1>a DEF Holds
      <3>4. Holds(p, d)'
        BY <3>2, <3>3, <1>r, <1>0 DEF Holds, Busy, Knows
      <3> QED
        BY <3>4
    <2> QED
      BY <2>1, <2>2
  <1>5. LocksAreHeld'
    BY <1>4 DEF LocksAreHeld
  <1> QED
    BY <1>1, <1>2, <1>3, <1>5 DEF Preserved, Strong

\* The provider's own steps.
LEMMA ProviderInv ==
  ASSUME TypeOK, TypeOK', Strong, NEW o \in Order,
         CustomerPays(o) \/ ProviderEndsRefund(o)
  PROVE  Preserved
  <1>k. UNCHANGED <<row, coupon, points, worker>> /\ \A v \in Worker : Kept(v)
    BY DEF CustomerPays, ProviderEndsRefund, assets, Kept
  <1>c. Consistent(o)
    BY DEF Strong, Books
  <1>w. Cleaner \in Worker
    BY DEF Worker
  <1>1. CASE CustomerPays(o)
    <2>1. UNCHANGED rf /\ \A p \in Order : wx[p] = "paid" => wx'[p] = "paid"
      BY <1>1 DEF CustomerPays, TypeOK
    <2> QED
      BY <1>k, <1>w, <2>1, QuietStep
  <1>2. CASE ProviderEndsRefund(o)
    <2>1. /\ rf[o] = "processing" /\ rf'[o] # "none" /\ UNCHANGED wx
          /\ \A p \in Order \ {o} : rf'[p] = rf[p]
      BY <1>2 DEF ProviderEndsRefund, TypeOK
    <2>2. Grows(o) /\ Consistent(o)'
      BY <1>k, <1>c, <2>1 DEF Grows, Consistent
    <2>3. NoNewLock
      BY <1>k DEF NoNewLock
    <2>4. \A c \in Coupon : Holds(o, c) => row'[o].st = "pending_payment" /\ row'[o].coup = c
      BY <1>k DEF Holds
    <2> QED
      BY <1>k, <1>w, <2>1, <2>2, <2>3, <2>4, OrderStep
  <1> QED
    BY <1>1, <1>2

\* A request starts with a copy of the row and, if it will need it, the coupon.
LEMMA DiscoverInv ==
  ASSUME TypeOK, TypeOK', Strong, NEW o \in Order, NEW w \in Worker, NEW op \in Op,
         Discover(w, op, o)
  PROVE  Preserved
  <1> DEFINE job == [op |-> op, o |-> o, pc |-> FirstPC(op, row[o]), seen |-> row[o],
                     cseen |-> IF op \in SnapshotOp THEN CouponNow(row[o].coup) ELSE "none",
                     fresh |-> FALSE]
  <1>1. worker' = [worker EXCEPT ![w] = job] /\ UNCHANGED <<row, coupon, points, wx, rf>>
    BY DEF Discover, assets, provider
  <1>2. row[o].st # "absent" /\ ~ Busy(w)
    BY DEF Discover
  <1>p. FirstPC(op, row[o]) \in {"opening", "gate", "ready"}
    BY DEF FirstPC
  <1> HIDE DEF job
  <1>3. worker'[w] = job /\ \A v \in Worker \ {w} : Kept(v)
    BY <1>1, AssignKeeps
  <1>f. /\ worker'[w].o = o /\ worker'[w].seen = row[o] /\ worker'[w].op = op
        /\ op \in SnapshotOp => worker'[w].cseen = CouponNow(row[o].coup)
    BY <1>3 DEF job
  <1>4. CopyBacked(o, row[o])'
    BY <1>1, <1>2 DEF Strong, Books, Consistent, CopyBacked, Kitchen
  <1>5. JobBacked(worker[w])'
    BY <1>1, <1>2, <1>3, <1>4, <1>p DEF job, JobBacked
  <1>6. Informed(w)
    <2> SUFFICES ASSUME NEW c \in Coupon, row'[o].coup = c, coupon'[c] = "LOCKED"
                 PROVE  Knows(worker'[w], c)
      BY <1>f DEF Informed
    <2>1. CouponNow(c) = "LOCKED"
      BY <1>1, CouponAssumption DEF CouponNow
    <2> QED
      BY <1>1, <1>f, <2>1 DEF Knows
  <1> QED
    BY <1>1, <1>3, <1>5, <1>6, QuietStep

\* The effects of a payment: the coupon the order holds is spent with it.
LEMMA PaymentSuccessInv ==
  ASSUME TypeOK, TypeOK', Strong, NEW o \in Order, NEW b \in Row,
         PaymentSuccess(o, b), UNCHANGED provider,
         wx[o] = "paid",
         \A c \in Coupon : Holds(o, c) => b.coup = c
  PROVE  /\ Grows(o) /\ Consistent(o)'
         /\ row'[o].st = "pending" /\ row'[o].pay = "paid" /\ points'[o] > 0
         /\ \A p \in Order \ {o} : row'[p] = row[p] /\ points'[p] = points[p]
                                   /\ wx'[p] = wx[p] /\ rf'[p] = rf[p]
         /\ NoNewLock
         /\ \A c \in Coupon : ~ (Holds(o, c) /\ coupon[c] = "LOCKED" /\ coupon'[c] = "LOCKED")
  <1>1. /\ row'[o].st = "pending" /\ row'[o].pay = "paid"
        /\ row'[o].refund = row[o].refund
        /\ \A p \in Order \ {o} : row'[p] = row[p]
    BY DEF PaymentSuccess, TypeOK, Row
  <1>2. points'[o] = points[o] + 1 /\ \A p \in Order \ {o} : points'[p] = points[p]
    BY DEF PaymentSuccess, TypeOK
  <1>3. points'[o] > 0
    BY <1>2 DEF TypeOK
  <1>4. Consistent(o)
    BY DEF Strong, Books
  <1>5. UNCHANGED <<wx, rf>>
    BY DEF provider
  <1>6. NoNewLock
    BY DEF NoNewLock, PaymentSuccess, CouponSet
  <1>7. ASSUME NEW c \in Coupon, Holds(o, c), coupon[c] = "LOCKED"
        PROVE  coupon'[c] # "LOCKED"
    <2>1. b.coup = c /\ CouponNow(b.coup) = "LOCKED"
      BY <1>7, CouponAssumption DEF CouponNow
    <2> QED
      BY <2>1 DEF PaymentSuccess, CouponSet
  <1>8. Grows(o)
    BY <1>1, <1>3, <1>5 DEF Grows
  <1>9. Consistent(o)'
    BY <1>1, <1>3, <1>4, <1>5 DEF Consistent
  <1> QED
    BY <1>1, <1>2, <1>3, <1>5, <1>6, <1>7, <1>8, <1>9

\* Booking a late payment leaves everything else as it is.
LEMMA RecordLatePaymentInv ==
  ASSUME TypeOK, TypeOK', Strong, NEW o \in Order,
         RecordLatePayment(o), UNCHANGED provider,
         wx[o] = "paid", row[o].st \notin {"absent", "pending_payment"}
  PROVE  /\ Grows(o) /\ Consistent(o)'
         /\ row'[o].pay = "paid" /\ row'[o].st = row[o].st
         /\ \A p \in Order \ {o} : row'[p] = row[p] /\ points'[p] = points[p]
                                   /\ wx'[p] = wx[p] /\ rf'[p] = rf[p]
         /\ NoNewLock
         /\ \A c \in Coupon : ~ Holds(o, c)
  <1>1. /\ row'[o].st = row[o].st /\ row'[o].pay = "paid"
        /\ row'[o].refund = row[o].refund
        /\ \A p \in Order \ {o} : row'[p] = row[p]
        /\ UNCHANGED <<coupon, points, wx, rf>>
    BY DEF RecordLatePayment, TypeOK, Row, assets, provider
  <1>2. Consistent(o)
    BY DEF Strong, Books
  <1> QED
    BY <1>1, <1>2 DEF Grows, Consistent, NoNewLock, Holds

\* What an executor goes on with.
LEMMA ResumeFields ==
  ASSUME TypeOK, NEW w \in Worker, Busy(w), NEW recovered, NEW seen, NEW fresh
  PROVE  LET j == Resume(w, recovered, seen, fresh)
         IN \/ j = Idle
            \/ /\ j.pc = "ready" /\ j.o = worker[w].o /\ j.op = worker[w].op
               /\ j.seen = seen /\ j.fresh = fresh
               /\ ~ fresh => j.cseen = worker[w].cseen
  <1>1. worker[w] \in Job
    BY BusyHasJob
  <1> QED
    BY <1>1 DEF Resume, Job

\* A provider query ends, or its answer changes nothing.
LEMMA QueryInv ==
  ASSUME TypeOK, TypeOK', Strong, NEW w \in Worker,
         QueryFails(w) \/ QueryNotPaid(w) \/ ApplyAlreadyPaid(w) \/ ApplyFails(w)
  PROVE  Preserved
  <1> DEFINE o == worker[w].o
  <1>b. Busy(w)
    BY DEF QueryFails, QueryNotPaid, ApplyAlreadyPaid, ApplyFails, At, Busy
  <1>1. UNCHANGED <<row, coupon, points, wx, rf>>
    BY DEF QueryFails, QueryNotPaid, ApplyAlreadyPaid, ApplyFails, assets, provider
  <1>2. PICK recovered \in BOOLEAN, seen \in Row, fresh \in BOOLEAN :
          /\ Answer(w, Resume(w, recovered, seen, fresh), recovered)
          /\ fresh \/ (seen = worker[w].seen /\ fresh = worker[w].fresh)
    <2>1. NoRow \in Row
      BY CouponAssumption DEF NoRow, Row, Status, Refund
    <2>2. worker[w].seen \in Row /\ worker[w].fresh \in BOOLEAN
      BY <1>b, BusyHasJob DEF Job
    <2> QED
      BY <2>1, <2>2 DEF QueryFails, QueryNotPaid, ApplyAlreadyPaid, ApplyFails
  <1>3. /\ worker'[w] = Resume(w, recovered, seen, fresh)
        /\ \A v \in Worker \ {w} : Kept(v)
    BY <1>2, AnswerKeeps
  <1>4. CASE worker'[w] = Idle
    BY <1>1, <1>3, <1>4, QuietStep DEF Kept
  <1>5. CASE worker'[w] # Idle
    <2>1. /\ worker'[w].pc = "ready" /\ worker'[w].o = o /\ worker'[w].op = worker[w].op
          /\ worker'[w].seen = seen /\ worker'[w].fresh = fresh
          /\ ~ fresh => worker'[w].cseen = worker[w].cseen
      BY <1>b, <1>3, <1>5, ResumeFields
    <2>2. JobBacked(worker[w]) /\ row[o].st # "absent"
      BY <1>b, LoadedBacked DEF Strong, JobsAreBacked
    <2>3. JobBacked(worker[w])'
      BY <1>b, <1>1, <1>2, <2>1, <2>2 DEF JobBacked, CopyBacked, Busy
    <2>4. Informed(w)
      BY <1>b, <1>2, <2>1 DEF Informed, Knows
    <2> QED
      BY <1>1, <1>3, <2>3, <2>4, QuietStep
  <1> QED
    BY <1>4, <1>5

\* A job moves on without a query's answer.
LEMMA MovesInv ==
  ASSUME TypeOK, TypeOK', Strong, NEW w \in Worker,
         \/ OpenPayment(w) \/ SkipRecovery(w) \/ JoinRecovery(w)
         \/ StartQuery(w) \/ QuerySucceeds(w) \/ Refused(w)
  PROVE  Preserved
  <1> DEFINE o == worker[w].o
  <1>b. Busy(w)
    BY DEF OpenPayment, SkipRecovery, JoinRecovery, StartQuery, QuerySucceeds,
      Refused, At, Busy
  <1>1. UNCHANGED <<row, coupon, points, rf>>
    BY DEF OpenPayment, SkipRecovery, JoinRecovery, StartQuery, QuerySucceeds,
      Refused, assets, provider
  <1>2. \A p \in Order : wx[p] = "paid" => wx'[p] = "paid"
    BY DEF OpenPayment, SkipRecovery, JoinRecovery, StartQuery, QuerySucceeds,
      Refused, provider, TypeOK
  <1>3. CASE OpenPayment(w) \/ SkipRecovery(w) \/ Refused(w)
    <2>1. worker' = [worker EXCEPT ![w] = Idle]
      BY <1>3 DEF OpenPayment, SkipRecovery, Refused
    <2>2. Kept(w) /\ \A v \in Worker \ {w} : Kept(v)
      BY <2>1, AssignKeeps DEF Kept
    <2> QED
      BY <1>1, <1>2, <2>2, QuietStep
  <1>4. CASE JoinRecovery(w) \/ StartQuery(w)
    <2>1. PICK pc \in {"join", "query"} : worker' = [worker EXCEPT ![w].pc = pc]
      BY <1>4 DEF JoinRecovery, StartQuery
    <2>2. Kept(w) /\ \A v \in Worker \ {w} : Kept(v)
      BY <1>b, <2>1, AssignKeeps DEF Kept, TypeOK
    <2> QED
      BY <1>1, <1>2, <2>2, QuietStep
  <1>5. CASE QuerySucceeds(w)
    <2>1. worker' = [worker EXCEPT ![w].pc = "apply"] /\ wx[o] = "paid"
      BY <1>5 DEF QuerySucceeds, Confirmed
    <2>2. worker[w] \in Job /\ o \in Order
      BY <1>b, BusyHasJob DEF Job
    <2>3. worker'[w] = [worker[w] EXCEPT !.pc = "apply"] /\ \A v \in Worker \ {w} : Kept(v)
      BY <2>1, AssignKeeps DEF TypeOK
    <2>4. /\ worker'[w].pc = "apply" /\ worker'[w].o = o /\ worker'[w].op = worker[w].op
          /\ worker'[w].seen = worker[w].seen /\ worker'[w].fresh = worker[w].fresh
          /\ worker'[w].cseen = worker[w].cseen
      BY <2>2, <2>3 DEF Job
    <2>5. JobBacked(worker[w])
      BY DEF Strong, JobsAreBacked
    <2>6. JobBacked(worker[w])'
      BY <1>b, <1>1, <1>2, <2>1, <2>2, <2>4, <2>5 DEF JobBacked, CopyBacked, Busy
    <2>7. Informed(w)
      BY <1>b, <2>4 DEF Informed, Knows
    <2> QED
      BY <1>1, <1>2, <2>3, <2>6, <2>7, QuietStep
  <1> QED
    BY <1>3, <1>4, <1>5

\* The job a late payment leaves behind is backed, and holds no open order.
LEMMA ToRefundInv ==
  ASSUME TypeOK, TypeOK', Strong, NEW w \in Worker, NEW op \in Op, NEW o \in Order,
         NEW b \in Row, b.st \in Terminal,
         CopyBacked(o, b), row[o].st # "absent",
         RecordLatePayment(o), UNCHANGED provider, wx[o] = "paid",
         worker' = [worker EXCEPT ![w] = ToRefund(w, op, o, b)]
  PROVE  Preserved
  <1> DEFINE job == ToRefund(w, op, o, b)
  <1>1. row[o].st \notin {"absent", "pending_payment"}
    BY DEF CopyBacked, Terminal
  <1>2. /\ Grows(o) /\ Consistent(o)'
        /\ row'[o].pay = "paid" /\ row'[o].st = row[o].st
        /\ \A p \in Order \ {o} : row'[p] = row[p] /\ points'[p] = points[p]
                                  /\ wx'[p] = wx[p] /\ rf'[p] = rf[p]
        /\ NoNewLock
        /\ \A c \in Coupon : ~ Holds(o, c)
    BY <1>1, RecordLatePaymentInv
  <1>3. /\ job.pc = "refund" /\ job.o = o
        /\ ~ job.fresh => job.seen = [b EXCEPT !.pay = "paid"]
    BY DEF ToRefund
  <1> HIDE DEF job
  <1>4. worker'[w] = job /\ \A v \in Worker \ {w} : Kept(v)
    BY AssignKeeps DEF job
  <1>5. ASSUME ~ job.fresh
        PROVE  job.seen.pay = "paid" /\ job.seen.st = b.st
    BY <1>3, <1>5 DEF Row
  <1>6. JobBacked(worker[w])'
    BY <1>1, <1>2, <1>3, <1>4, <1>5 DEF JobBacked, CopyBacked, Terminal, Kitchen
  <1>7. Informed(w)
    BY <1>1, <1>2, <1>3, <1>4 DEF Informed
  <1> QED
    BY <1>2, <1>4, <1>6, <1>7, OrderStep

\* Whoever has a job for the order that holds c loads a row with c.
LEMMA HolderLoads ==
  ASSUME TypeOK, NEW w \in Worker, Busy(w), NEW c \in Coupon,
         Holds(worker[w].o, c)
  PROVE  Loaded(w).coup = c
  <1>1. Knows(worker[w], c) /\ row[worker[w].o].coup = c
    BY DEF Holds
  <1>2. worker[w].fresh \in BOOLEAN
    BY BusyHasJob DEF Job
  <1> QED
    BY <1>1, <1>2 DEF Knows, Loaded

\* The executor of a confirmed query applies the payment, or sends it back.
LEMMA ApplyInv ==
  ASSUME TypeOK, TypeOK', Strong, NEW w \in Worker,
         ApplyTerminal(w) \/ ApplyPayment(w)
  PROVE  Preserved
  <1>b. Busy(w) /\ worker[w].pc = "apply" /\ UNCHANGED provider
    BY DEF ApplyTerminal, ApplyPayment, At, Busy
  <1>o. PICK o \in Order, b \in Row, op \in Op :
          /\ o = worker[w].o /\ b = Loaded(w) /\ op = worker[w].op
    BY <1>b, LoadedIsRow, BusyHasJob DEF Job
  <1>1. row[o].st # "absent" /\ CopyBacked(o, b)
    BY <1>b, <1>o, LoadedBacked DEF Strong
  <1>2. wx[o] = "paid"
    BY <1>b, <1>o DEF Strong, JobsAreBacked, JobBacked
  <1>3. CASE ApplyTerminal(w)
    <2>1. /\ b.st \in Terminal /\ RecordLatePayment(o)
          /\ worker' = [worker EXCEPT ![w] = ToRefund(w, op, o, b)]
      BY <1>o, <1>3 DEF ApplyTerminal
    <2> QED
      BY <1>b, <1>1, <1>2, <2>1, ToRefundInv
  <1>4. CASE ApplyPayment(w)
    <2>1. PaymentSuccess(o, b)
      BY <1>o, <1>4 DEF ApplyPayment
    <2>2. PICK recovered \in BOOLEAN, seen \in Row, fresh \in BOOLEAN :
            /\ Answer(w, Resume(w, recovered, seen, fresh), recovered)
            /\ ~ fresh => seen.st = "pending" /\ seen.pay = "paid"
      <3>1. KeptCoupon(o, b) \in Coupon \cup {NoCoupon}
        BY <1>o DEF KeptCoupon, TypeOK, Row
      <3>2. /\ [b EXCEPT !.st = "pending", !.pay = "paid", !.coup = KeptCoupon(o, b)] \in Row
            /\ NoRow \in Row
        BY <3>1, CouponAssumption DEF NoRow, Row, Status, Refund, Kitchen
      <3>3. CASE Answer(w, Resume(w, FALSE, NoRow, TRUE), FALSE)
        BY <3>2, <3>3
      <3>4. CASE Answer(w, Resume(w, TRUE, [b EXCEPT !.st = "pending", !.pay = "paid",
                                               !.coup = KeptCoupon(o, b)], FALSE), TRUE)
        BY <3>2, <3>4 DEF Row
      <3> QED
        BY <1>o, <1>4, <3>3, <3>4 DEF ApplyPayment
    <2>4. \A c \in Coupon : Holds(o, c) => b.coup = c
      BY <1>b, <1>o, HolderLoads
    <2>5. /\ Grows(o) /\ Consistent(o)'
          /\ row'[o].st = "pending" /\ row'[o].pay = "paid" /\ points'[o] > 0
          /\ \A p \in Order \ {o} : row'[p] = row[p] /\ points'[p] = points[p]
                                    /\ wx'[p] = wx[p] /\ rf'[p] = rf[p]
          /\ NoNewLock
          /\ \A c \in Coupon : ~ (Holds(o, c) /\ coupon[c] = "LOCKED" /\ coupon'[c] = "LOCKED")
      BY <1>b, <1>1, <1>2, <2>1, <2>4, PaymentSuccessInv
    <2>6. /\ worker'[w] = Resume(w, recovered, seen, fresh)
          /\ \A v \in Worker \ {w} : Kept(v)
      BY <2>2, AnswerKeeps
    <2>7. CASE worker'[w] = Idle
      BY <1>1, <2>5, <2>6, <2>7, OrderStep DEF Kept
    <2>8. CASE worker'[w] # Idle
      <3>1. /\ worker'[w].pc = "ready" /\ worker'[w].o = o
            /\ worker'[w].seen = seen /\ worker'[w].fresh = fresh
        BY <1>b, <1>o, <2>6, <2>8, ResumeFields
      <3>2. JobBacked(worker[w])'
        BY <2>2, <2>5, <3>1 DEF JobBacked, CopyBacked
      <3>3. Informed(w)
        BY <2>5, <3>1 DEF Informed
      <3> QED
        BY <1>1, <2>5, <2>6, <3>2, <3>3, OrderStep
    <2> QED
      BY <2>7, <2>8
  <1> QED
    BY <1>3, <1>4

\* The callback decides on the row itself.
LEMMA NotifyInv ==
  ASSUME TypeOK, TypeOK', Strong, NEW o \in Order, NEW w \in Worker, Notify(w, o)
  PROVE  Preserved
  <1>1. wx[o] = "paid" /\ UNCHANGED provider /\ row[o] \in Row
    BY DEF Notify, Confirmed, TypeOK
  <1>2. CASE /\ row[o].st = "pending_payment" /\ row[o].pay # "paid"
             /\ PaymentSuccess(o, row[o])
             /\ UNCHANGED worker
    <2>1. \A c \in Coupon : Holds(o, c) => row[o].coup = c
      BY DEF Holds
    <2>2. \A v \in Worker : Kept(v)
      BY <1>2 DEF Kept
    <2>3. /\ Grows(o) /\ Consistent(o)'
          /\ \A p \in Order \ {o} : row'[p] = row[p] /\ points'[p] = points[p]
                                    /\ wx'[p] = wx[p] /\ rf'[p] = rf[p]
          /\ NoNewLock
          /\ \A c \in Coupon : ~ (Holds(o, c) /\ coupon[c] = "LOCKED" /\ coupon'[c] = "LOCKED")
      BY <1>1, <1>2, <2>1, PaymentSuccessInv
    <2> QED
      BY <2>2, <2>3, OrderStep
  <1>3. CASE /\ row[o].st \in Terminal
             /\ RecordLatePayment(o)
             /\ worker' = [worker EXCEPT ![w] = ToRefund(w, "notify", o, row[o])]
    <2>1. CopyBacked(o, row[o])
      BY <1>3 DEF CopyBacked, Strong, Books, Consistent, Terminal, Kitchen
    <2>2. row[o].st # "absent" /\ "notify" \in Op
      BY <1>3 DEF Terminal, Op
    <2> QED
      BY <1>1, <1>3, <2>1, <2>2, ToRefundInv
  <1> QED
    BY <1>2, <1>3 DEF Notify

\* Ending an order gives back the coupon it holds.
LEMMA TerminateInv ==
  ASSUME TypeOK, TypeOK', Strong, NEW w \in Worker,
         CustomerCancels(w) \/ StaleOrderCancels(w) \/ MerchantEnds(w)
  PROVE  Preserved
  <1>b. Busy(w) /\ UNCHANGED <<points, wx, rf>> /\ worker' = [worker EXCEPT ![w] = Idle]
    BY DEF CustomerCancels, StaleOrderCancels, MerchantEnds, At, Busy, assets, provider
  <1>o. PICK o \in Order, b \in Row : o = worker[w].o /\ b = Loaded(w)
    BY <1>b, LoadedIsRow, BusyHasJob DEF Job
  <1>1. /\ row[o].st # "absent" /\ CopyBacked(o, b)
        /\ Consistent(o) /\ worker[w] \in Job
    BY <1>b, <1>o, LoadedBacked, BusyHasJob DEF Strong, Books
  <1>2. PICK s \in Terminal :
          Terminate(o, s) /\ (s = "rejected" => b.pay = "paid")
    <2>1. CASE CustomerCancels(w) \/ StaleOrderCancels(w)
      BY <1>o, <2>1 DEF CustomerCancels, StaleOrderCancels, Terminal
    <2>2. CASE MerchantEnds(w)
      <3>1. b.pay # "paid" => b.st \in {"pending_payment", "cancelled"}
        BY <1>1 DEF CopyBacked, Row
      <3>2. worker[w].op = "rejected" => b.pay = "paid"
        BY <1>o, <2>2, <3>1 DEF MerchantEnds, MerchantMay, Allowed
      <3> QED
        BY <1>o, <2>2, <3>2 DEF MerchantEnds
    <2> QED
      BY <2>1, <2>2
  <1>3. /\ row'[o].st = s /\ row'[o].pay = row[o].pay /\ row'[o].refund = row[o].refund
        /\ \A p \in Order \ {o} : row'[p] = row[p]
    BY <1>1, <1>2 DEF Terminate, TypeOK, Row
  <1>4. Grows(o)
    BY <1>b, <1>2, <1>3 DEF Grows, Terminal
  <1>5. Consistent(o)'
    <2>1. row'[o].pay = "unpaid" => s = "cancelled"
      BY <1>1, <1>2, <1>3 DEF CopyBacked, Terminal
    <2> QED
      BY <1>b, <1>1, <1>2, <1>3, <2>1 DEF Consistent, Terminal, Kitchen
  <1>6. NoNewLock
    BY DEF NoNewLock, CouponSet, CustomerCancels, StaleOrderCancels, MerchantEnds
  <1>7. ASSUME NEW c \in Coupon, Holds(o, c), coupon[c] = "LOCKED"
        PROVE  coupon'[c] # "LOCKED"
    <2>1. b.coup = c /\ row[o].coup = c /\ row[o].st = "pending_payment"
          /\ Knows(worker[w], c) /\ CouponNow(c) = "LOCKED"
      BY <1>b, <1>o, <1>7, HolderLoads, CouponAssumption DEF Holds, CouponNow
    <2>2. b.pay # "paid"
      BY <1>1, <2>1 DEF Consistent, CopyBacked
    <2>3. CASE CustomerCancels(w) \/ StaleOrderCancels(w)
      <3>1. worker[w].op \in SnapshotOp
        BY <2>3 DEF CustomerCancels, StaleOrderCancels, SnapshotOp
      <3>2. CouponSnapshot(w) = "LOCKED"
        BY <1>o, <1>1, <2>1, <3>1 DEF CouponSnapshot, Knows, Job
      <3> QED
        BY <1>o, <2>1, <2>3, <3>2 DEF CustomerCancels, StaleOrderCancels, CouponSet
    <2>4. CASE MerchantEnds(w)
      BY <1>o, <2>1, <2>2, <2>4 DEF MerchantEnds, CouponSet
    <2> QED
      BY <2>3, <2>4
  <1>8. \A v \in Worker : Kept(v)
    BY <1>b, AssignKeeps DEF Kept
  <1> QED
    BY <1>b, <1>1, <1>3, <1>4, <1>5, <1>6, <1>7, <1>8, OrderStep

\* Only paid orders advance.
LEMMA MerchantAdvancesInv ==
  ASSUME TypeOK, TypeOK', Strong, NEW w \in Worker, MerchantAdvances(w)
  PROVE  Preserved
  <1>b. Busy(w) /\ UNCHANGED <<points, wx, rf>> /\ worker' = [worker EXCEPT ![w] = Idle]
    BY DEF MerchantAdvances, At, Busy, assets, provider
  <1>o. PICK o \in Order, b \in Row, target \in Op :
          o = worker[w].o /\ b = Loaded(w) /\ target = worker[w].op
    BY <1>b, LoadedIsRow, BusyHasJob DEF Job
  <1>1. row[o].st # "absent" /\ CopyBacked(o, b) /\ Consistent(o)
    BY <1>b, <1>o, LoadedBacked DEF Strong, Books
  <1>2. b.st \in Kitchen /\ target \in Kitchen
    BY <1>o DEF MerchantAdvances, MerchantMay, MerchantOp, Terminal, Allowed, Kitchen
  <1>3. row[o].pay = "paid" /\ points[o] > 0 /\ row[o].st # "pending_payment"
    BY <1>1, <1>2 DEF CopyBacked, Row, Kitchen
  <1>4. /\ row'[o].st = target /\ row'[o].pay = row[o].pay
        /\ row'[o].refund = row[o].refund
        /\ \A p \in Order \ {o} : row'[p] = row[p]
    BY <1>o DEF MerchantAdvances, TypeOK, Row
  <1>5. Grows(o) /\ Consistent(o)'
    BY <1>b, <1>1, <1>2, <1>3, <1>4 DEF Grows, Consistent, Kitchen
  <1>6. NoNewLock
    BY DEF NoNewLock, MerchantAdvances, CouponSet
  <1>7. \A c \in Coupon : ~ Holds(o, c)
    BY <1>3 DEF Holds
  <1>8. \A v \in Worker : Kept(v)
    BY <1>b, AssignKeeps DEF Kept
  <1> QED
    BY <1>b, <1>1, <1>4, <1>5, <1>6, <1>7, <1>8, OrderStep

\* What a refund attempt on the copy b does to the tables and the session.
LEMMA RefundOutcomeInv ==
  ASSUME TypeOK, TypeOK', Strong, NEW w \in Worker, NEW op \in Op, NEW o \in Order,
         NEW b \in Row, MayRefund(b), CopyBacked(o, b), row[o].st # "absent",
         UNCHANGED <<points, wx>>, Grows(o), rf'[o] # "none" => row[o].pay = "paid",
         \A p \in Order \ {o} : rf'[p] = rf[p],
         \/ RefundSucceeds(w, op, o, b) /\ rf'[o] = "success"
         \/ \E answer \in Refund \ {"success"} : RefundUnfinished(w, o, b, answer)
  PROVE  Preserved
  <1>1. Consistent(o) /\ row[o].st \notin {"absent", "pending_payment"}
    BY DEF Strong, Books, CopyBacked, MayRefund, Terminal
  <1>2. \A c \in Coupon : ~ Holds(o, c)
    BY <1>1 DEF Holds
  <1>3. NoNewLock
    BY DEF NoNewLock, RefundSucceeds, RefundUnfinished, CouponSet
  <1>4. /\ row'[o].st = row[o].st /\ row'[o].pay = row[o].pay
        /\ row'[o].refund = "success" => rf'[o] = "success"
        /\ \A p \in Order \ {o} : row'[p] = row[p]
    <2>1. CASE RefundSucceeds(w, op, o, b) /\ rf'[o] = "success"
      BY <2>1 DEF RefundSucceeds, TypeOK, Row
    <2>2. CASE \E answer \in Refund \ {"success"} : RefundUnfinished(w, o, b, answer)
      BY <1>1, <2>2 DEF RefundUnfinished, TypeOK, Row, Consistent, Grows
    <2> QED
      BY <2>1, <2>2
  <1>5. Consistent(o)'
    BY <1>1, <1>4 DEF Consistent
  <1>6. CASE \A v \in Worker : Kept(v)
    BY <1>2, <1>3, <1>4, <1>5, <1>6, OrderStep
  <1>7. CASE /\ rf'[o] = "success"
             /\ worker' = [worker EXCEPT ![w] =
                  [op |-> op, o |-> o, pc |-> "reversed", seen |-> b,
                   cseen |-> "none", fresh |-> FALSE]]
    <2> DEFINE job == [op |-> op, o |-> o, pc |-> "reversed", seen |-> b,
                       cseen |-> "none", fresh |-> FALSE]
    <2>j. job.o = o /\ job.pc = "reversed" /\ job.seen = b
      OBVIOUS
    <2>w. worker' = [worker EXCEPT ![w] = job]
      BY <1>7
    <2> HIDE DEF job
    <2>1. /\ worker'[w].o = o /\ worker'[w].pc = "reversed" /\ worker'[w].seen = b
          /\ \A v \in Worker \ {w} : Kept(v)
      BY <2>j, <2>w, AssignKeeps
    <2>2. JobBacked(worker[w])'
      BY <1>1, <1>4, <1>7, <2>1 DEF JobBacked, CopyBacked, Grows
    <2>3. Informed(w)
      BY <1>1, <1>4, <2>1 DEF Informed
    <2> QED
      BY <1>2, <1>3, <1>4, <1>5, <2>1, <2>2, <2>3, OrderStep
  <1>8. (UNCHANGED worker \/ Finish(w)) => \A v \in Worker : Kept(v)
    BY FinishKeeps DEF Kept
  <1> QED
    BY <1>6, <1>7, <1>8 DEF RefundSucceeds, RefundUnfinished

\* A refund only grows the tables.
LEMMA RefundGrows ==
  ASSUME TypeOK, NEW w \in Worker, NEW op \in Op, NEW o \in Order, NEW b,
         UNCHANGED <<points, wx>>, rf[o] = "success" => rf'[o] = "success",
         \/ RefundSucceeds(w, op, o, b)
         \/ \E answer \in Refund : RefundUnfinished(w, o, b, answer)
  PROVE  Grows(o)
  <1>1. row'[o].st = row[o].st /\ row'[o].pay = row[o].pay
    BY DEF RefundSucceeds, RefundUnfinished, TypeOK, Row
  <1> QED
    BY <1>1 DEF Grows

\* A refund that is asked of the provider.
LEMMA RefundPaymentInv ==
  ASSUME TypeOK, TypeOK', Strong, NEW w \in Worker, NEW op \in Op, NEW o \in Order,
         NEW b \in Row, CopyBacked(o, b), row[o].st # "absent",
         RefundPayment(w, op, o, b)
  PROVE  Preserved
  <1>1. PICK out \in Outcomes(rf[o]) :
          /\ rf' = [rf EXCEPT ![o] = out[1]]
          /\ IF out[2] = "success" THEN RefundSucceeds(w, op, o, b)
             ELSE RefundUnfinished(w, o, b, out[2])
    BY DEF RefundPayment
  <1>2. MayRefund(b) /\ UNCHANGED <<points, wx>>
    BY DEF RefundPayment
  <1>3. rf'[o] = out[1] /\ \A p \in Order \ {o} : rf'[p] = rf[p]
    BY <1>1 DEF TypeOK
  <1>4. /\ out[2] = "success" => out[1] = "success"
        /\ rf[o] = "success" => out[1] = "success"
        /\ out[2] \in Refund
    BY DEF Outcomes, Accepted, Refund, TypeOK
  <1>5. Grows(o)
    BY <1>1, <1>2, <1>3, <1>4, RefundGrows
  <1>6. row[o].pay = "paid"
    BY <1>2 DEF MayRefund, CopyBacked
  <1> QED
    BY <1>1, <1>2, <1>3, <1>4, <1>5, <1>6, RefundOutcomeInv

\* The three ways a refund is tried, and the commit that follows it.
LEMMA RefundInv ==
  ASSUME TypeOK, TypeOK', Strong, NEW w \in Worker,
         \/ RefundsLatePayment(w) \/ NoRefundNeeded(w) \/ RecordsRefund(w)
         \/ \E p \in Order : MerchantRefunds(w, p) \/ ReconcilesRefund(w, p)
  PROVE  Preserved
  <1>1. CASE RefundsLatePayment(w)
    <2>1. Busy(w)
      BY <1>1 DEF RefundsLatePayment, At, Busy
    <2>2. PICK o \in Order, b \in Row, op \in Op :
            o = worker[w].o /\ b = Loaded(w) /\ op = worker[w].op
      BY <2>1, LoadedIsRow, BusyHasJob DEF Job
    <2>3. CopyBacked(o, b) /\ row[o].st # "absent"
      BY <2>1, <2>2, LoadedBacked DEF Strong
    <2> QED
      BY <1>1, <2>2, <2>3, RefundPaymentInv DEF RefundsLatePayment
  <1>2. CASE NoRefundNeeded(w)
    BY <1>2, FinishKeeps, QuietStep DEF NoRefundNeeded, assets, provider
  <1>3. CASE RecordsRefund(w)
    <2>1. Busy(w)
      BY <1>3 DEF RecordsRefund, At, Busy
    <2>2. PICK o \in Order : o = worker[w].o
      BY <2>1, BusyHasJob DEF Job
    <2>3. row[o].st # "absent" /\ rf[o] = "success" /\ row[o].pay = "paid"
          /\ Consistent(o)
      BY <1>3, <2>1, <2>2
      DEF Strong, JobsAreBacked, JobBacked, Books, Consistent, RecordsRefund, At
    <2>4. /\ row'[o].st = row[o].st /\ row'[o].pay = row[o].pay
          /\ \A p \in Order \ {o} : row'[p] = row[p]
          /\ UNCHANGED <<coupon, points, wx, rf>>
      BY <1>3, <2>2 DEF RecordsRefund, TypeOK, Row, assets, provider
    <2>5. Grows(o) /\ Consistent(o)' /\ NoNewLock
      BY <2>3, <2>4 DEF Grows, Consistent, NoNewLock
    <2>6. \A c \in Coupon : ~ Holds(o, c)
      BY <2>3 DEF Holds, Consistent
    <2>7. \A v \in Worker : Kept(v)
      BY <1>3, FinishKeeps DEF RecordsRefund
    <2> QED
      BY <2>4, <2>5, <2>6, <2>7, OrderStep
  <1>4. ASSUME NEW o \in Order, MerchantRefunds(w, o) \/ ReconcilesRefund(w, o)
        PROVE  Preserved
    <2>1. row[o] \in Row /\ "refund" \in Op
      BY DEF TypeOK, Op
    <2>2. MayRefund(row[o])
      BY <1>4 DEF MerchantRefunds, RefundPayment, ReconcilesRefund
    <2>3. CopyBacked(o, row[o]) /\ row[o].st # "absent"
      BY <2>2 DEF MayRefund, CopyBacked, Terminal, Kitchen
    <2>4. CASE MerchantRefunds(w, o)
      BY <2>1, <2>3, <2>4, RefundPaymentInv DEF MerchantRefunds
    <2>5. CASE ReconcilesRefund(w, o)
      <3>1. UNCHANGED <<points, wx, rf>> /\ rf[o] \in Refund
        BY <2>5 DEF ReconcilesRefund, provider, TypeOK
      <3>2. \/ RefundSucceeds(w, "refund", o, row[o]) /\ rf'[o] = "success"
            \/ \E answer \in Refund \ {"success"} : RefundUnfinished(w, o, row[o], answer)
        BY <2>5, <3>1 DEF ReconcilesRefund
      <3>3. Grows(o)
        BY <2>1, <3>1, <3>2, RefundGrows
      <3>4. row[o].pay = "paid"
        BY <2>2 DEF MayRefund
      <3> QED
        BY <2>1, <2>2, <2>3, <3>1, <3>2, <3>3, <3>4, RefundOutcomeInv
    <2> QED
      BY <1>4, <2>4, <2>5
  <1> QED
    BY <1>1, <1>2, <1>3, <1>4

\* A restart ends every job; a submission cut short may have arrived.
LEMMA CrashInv ==
  ASSUME TypeOK, TypeOK', Strong, Crash
  PROVE  Preserved
  <1>k. /\ \A v \in Worker : Kept(v)
        /\ UNCHANGED <<row, coupon, points, wx>>
    BY DEF Crash, Kept, assets
  <1>w. Cleaner \in Worker
    BY DEF Worker
  <1>1. CASE UNCHANGED rf
    BY <1>1, <1>k, <1>w, QuietStep
  <1>2. CASE rf' # rf
    <2>1. PICK o \in Order : /\ MayRefund(row[o]) /\ rf[o] = "none"
                             /\ \E s \in Accepted(rf[o]) : rf' = [rf EXCEPT ![o] = s]
      BY <1>2 DEF Crash
    <2>2. \A p \in Order \ {o} : rf'[p] = rf[p]
      BY <2>1 DEF TypeOK
    <2>3. row[o].pay = "paid" /\ Consistent(o)
      BY <2>1 DEF MayRefund, Strong, Books
    <2>4. Grows(o) /\ Consistent(o)' /\ NoNewLock
      BY <1>k, <2>1, <2>3 DEF Grows, Consistent, NoNewLock
    <2>5. \A c \in Coupon : Holds(o, c) => row'[o].st = "pending_payment" /\ row'[o].coup = c
      BY <1>k DEF Holds
    <2> QED
      BY <1>k, <1>w, <2>2, <2>4, <2>5, OrderStep
  <1> QED
    BY <1>1, <1>2

\* Every step preserves the invariant.
LEMMA InvNext ==
  ASSUME Inv, [Next]_vars
  PROVE  Inv' /\ \A o \in Order : Grows(o)
  <1>t. TypeOK /\ Strong
    BY InvParts DEF Strong
  <1>u. TypeOK'
    BY <1>t, NextType
  <1> SUFFICES Preserved
    BY <1>u DEF Preserved, Strong, Inv, Books, Consistent, UnpaidNeverFulfilled,
      PaidMeansCaptured, RefundBackedByProvider, KitchenOrderIsCredited,
      RowsAreConsistent
  <1>1. ASSUME NEW o \in Order, NEW c \in Coupon \cup {NoCoupon}, CreateOrder(o, c)
        PROVE  Preserved
    BY <1>t, <1>u, <1>1, CreateOrderInv
  <1>2. ASSUME NEW o \in Order, CustomerPays(o) \/ ProviderEndsRefund(o)
        PROVE  Preserved
    BY <1>t, <1>u, <1>2, ProviderInv
  <1>3. ASSUME NEW o \in Order, NEW w \in Worker, NEW op \in Op, Discover(w, op, o)
        PROVE  Preserved
    BY <1>t, <1>u, <1>3, DiscoverInv
  <1>4. ASSUME NEW o \in Order, NEW w \in Worker, Notify(w, o)
        PROVE  Preserved
    BY <1>t, <1>u, <1>4, NotifyInv
  <1>5. ASSUME NEW o \in Order, NEW w \in Worker,
               MerchantRefunds(w, o) \/ ReconcilesRefund(w, o)
        PROVE  Preserved
    BY <1>t, <1>u, <1>5, RefundInv
  <1>6. ASSUME NEW w \in Worker, Step(w)
        PROVE  Preserved
    <2>1. CASE \/ OpenPayment(w) \/ SkipRecovery(w) \/ JoinRecovery(w)
               \/ StartQuery(w) \/ QuerySucceeds(w) \/ Refused(w)
      BY <1>t, <1>u, <2>1, MovesInv
    <2>2. CASE QueryFails(w) \/ QueryNotPaid(w) \/ ApplyAlreadyPaid(w) \/ ApplyFails(w)
      BY <1>t, <1>u, <2>2, QueryInv
    <2>3. CASE ApplyTerminal(w) \/ ApplyPayment(w)
      BY <1>t, <1>u, <2>3, ApplyInv
    <2>4. CASE CustomerCancels(w) \/ StaleOrderCancels(w) \/ MerchantEnds(w)
      BY <1>t, <1>u, <2>4, TerminateInv
    <2>5. CASE MerchantAdvances(w)
      BY <1>t, <1>u, <2>5, MerchantAdvancesInv
    <2>6. CASE RefundsLatePayment(w) \/ NoRefundNeeded(w) \/ RecordsRefund(w)
      BY <1>t, <1>u, <2>6, RefundInv
    <2> QED
      BY <1>6, <2>1, <2>2, <2>3, <2>4, <2>5, <2>6 DEF Step
  <1>7. CASE Crash
    BY <1>t, <1>u, <1>7, CrashInv
  <1>8. CASE UNCHANGED vars
    <2>1. Cleaner \in Worker
      BY DEF Worker
    <2> QED
      BY <1>t, <1>u, <1>8, <2>1, QuietStep DEF vars, Kept
  <1> QED
    BY <1>1, <1>2, <1>3, <1>4, <1>5, <1>6, <1>7, <1>8 DEF Next

-----------------------------------------------------------------------------
(* The theorems *)

\* Inv holds in every reachable state, however sessions, callbacks, provider
\* queries, refunds and restarts interleave.
THEOREM Invariance == Spec => []Inv
  <1>1. Init => Inv
    <2> SUFFICES ASSUME Init PROVE Inv
      OBVIOUS
    <2>1. TypeOK
      BY StockAssumption, CrashAssumption
      DEF Init, TypeOK, Row, NoRow, Status, Refund, CouponStatus
    <2>2. Books
      BY DEF Init, Books, Consistent, NoRow, Kitchen
    <2>3. JobsAreBacked /\ LocksAreHeld
      BY DEF Init, JobsAreBacked, JobBacked, Idle, LocksAreHeld
    <2> QED
      BY <2>1, <2>2, <2>3, InvParts
  <1>2. Inv /\ [Next]_vars => Inv'
    BY InvNext
  <1> QED
    BY <1>1, <1>2, PTL DEF Spec

\* An order the kitchen works on, or worked on, was paid for.
THEOREM UnpaidIsNeverFulfilled == Spec => []UnpaidNeverFulfilled
  <1>1. Inv => UnpaidNeverFulfilled
    BY DEF Inv
  <1> QED
    BY <1>1, Invariance, PTL

\* An order is booked as paid only when its payment was captured.
THEOREM BookedIsCaptured == Spec => []PaidMeansCaptured
  <1>1. Inv => PaidMeansCaptured
    BY DEF Inv
  <1> QED
    BY <1>1, Invariance, PTL

\* A refund is recorded as done only when the provider did it.
THEOREM RefundIsBacked == Spec => []RefundBackedByProvider
  <1>1. Inv => RefundBackedByProvider
    BY DEF Inv
  <1> QED
    BY <1>1, Invariance, PTL

\* An order in the kitchen was credited.
THEOREM KitchenIsCredited == Spec => []KitchenOrderIsCredited
  <1>1. Inv => KitchenOrderIsCredited
    BY DEF Inv
  <1> QED
    BY <1>1, Invariance, PTL

\* A locked coupon is held by an open order.
THEOREM LockedCouponIsHeld == Spec => []NoStrandedCoupon
  <1>1. Inv => NoStrandedCoupon
    BY DEF Inv, LocksAreHeld, Holds, NoStrandedCoupon
  <1> QED
    BY <1>1, Invariance, PTL

\* A booked payment is never forgotten.
THEOREM BookingIsKept == Spec => PaidNeverLost
  <1>1. Inv /\ [Next]_vars
          => [\A o \in Order : row[o].pay = "paid" => row'[o].pay = "paid"]_vars
    BY InvNext DEF Grows
  <1> QED
    BY <1>1, Invariance, PTL DEF Spec, PaidNeverLost

(***************************************************************************)
(* Where the books go wrong                                                *)
(***************************************************************************)

\* An order that has not left pending_payment has no consumption credited.
NotCreditedYet ==
  \A o \in Order : row[o].st \in {"absent", "pending_payment"} => points[o] = 0

\* The step does nothing wrong, or a session takes it on a stale copy.
Explained ==
  /\ \A o \in Order : Misled(o) => ActsOnStale(o)
  /\ StockInvented => \E o \in Order : ActsOnStale(o)

\* A step that leaves statuses, payments and points alone, gives no unit back and
\* forgets no refund.
LEMMA NothingWrong ==
  ASSUME TypeOK, points' = points, ~ (stock' > stock),
         \A o \in Order : row'[o].st = row[o].st,
         \A o \in Order : row[o].refund = "success" => row'[o].refund = "success"
  PROVE  Explained /\ (NotCreditedYet => NotCreditedYet')
  <1>1. \A o \in Order : ~ Misled(o)
    BY DEF Misled, TypeOK, Terminal
  <1> QED
    BY <1>1 DEF Explained, StockInvented, NotCreditedYet

\* A step about one order, which does no wrong or acts on a stale copy.
LEMMA OneOrderExplained ==
  ASSUME TypeOK, NEW o \in Order,
         \A p \in Order \ {o} : row'[p] = row[p] /\ points'[p] = points[p],
         Misled(o) => ActsOnStale(o),
         \/ ~ (stock' > stock) \/ ActsOnStale(o)
         \/ Holding(row[o]) /\ ~ Holding(row'[o])
  PROVE  Explained
  <1>1. \A p \in Order \ {o} : ~ Misled(p)
    BY DEF Misled, TypeOK, Terminal
  <1>2. CASE ~ (stock' > stock) \/ ActsOnStale(o)
    BY <1>1, <1>2 DEF Explained, StockInvented
  <1>3. CASE Holding(row[o]) /\ ~ Holding(row'[o])
    <2>1. o \in OpenOrders /\ o \notin OpenOrders'
      BY <1>3 DEF OpenOrders, Holding
    <2> QED
      BY <1>1, <2>1 DEF Explained, StockInvented
  <1> QED
    BY <1>2, <1>3

\* A session that decides on its copy acts on a stale one or on the row.
LEMMA StaleOrTrue ==
  ASSUME NEW w \in Worker, Decides(w), Step(w)
  PROVE  ActsOnStale(worker[w].o) \/ Loaded(w) = row[worker[w].o]
  BY DEF ActsOnStale, HoldsStale, Loaded

\* Ending an order.
LEMMA EndingExplained ==
  ASSUME TypeOK, Books, NotCreditedYet, NEW w \in Worker,
         CustomerCancels(w) \/ StaleOrderCancels(w) \/ MerchantEnds(w)
  PROVE  Explained /\ NotCreditedYet'
  <1> DEFINE o == worker[w].o
             b == Loaded(w)
  <1>b. Busy(w) /\ Decides(w) /\ Step(w) /\ UNCHANGED points
    BY DEF CustomerCancels, StaleOrderCancels, MerchantEnds, At, Busy, Decides, Step, assets
  <1>o. o \in Order
    BY <1>b, BusyHasJob DEF Job
  <1>1. PICK s \in Terminal :
          Terminate(o, s) /\ (s = "rejected" => MerchantEnds(w) /\ worker[w].op = s)
    BY DEF CustomerCancels, StaleOrderCancels, MerchantEnds, Terminal
  <1>2. /\ row'[o] = [row[o] EXCEPT !.st = s] /\ row'[o].st = s
        /\ row'[o].refund = row[o].refund
        /\ \A p \in Order \ {o} : row'[p] = row[p]
    BY <1>o, <1>1 DEF Terminate, TypeOK, Row
  <1>e. \A p \in Order \ {o} : row'[p] = row[p] /\ points'[p] = points[p]
    BY <1>b, <1>2
  <1>n. NotCreditedYet'
    BY <1>b, <1>2 DEF NotCreditedYet, Terminal
  <1>3. CASE b = row[o]
    <2>1. s \in Allowed(row[o].st) /\ Holding(row[o])
      <3>1. CASE CustomerCancels(w)
        BY <1>1, <1>3, <3>1
        DEF CustomerCancels, CustomerMay, MerchantEnds, Terminal, Allowed, Holding
      <3>2. CASE StaleOrderCancels(w)
        BY <1>1, <1>3, <3>2 DEF StaleOrderCancels, MerchantEnds, Terminal, Allowed, Holding
      <3>3. CASE MerchantEnds(w)
        <4>1. worker[w].op \in Allowed(row[o].st) /\ worker[w].op \in Terminal
          BY <1>3, <3>3 DEF MerchantEnds, MerchantMay
        <4>2. s = worker[w].op
          BY <1>1, <1>2, <1>o, <3>3 DEF MerchantEnds, Terminate, TypeOK, Row
        <4> QED
          BY <4>1, <4>2 DEF Allowed, Holding, Terminal
      <3> QED
        BY <3>1, <3>2, <3>3
    <2>2. row[o].pay = "paid" => s # "cancelled"
      <3>1. CASE CustomerCancels(w) \/ StaleOrderCancels(w)
        BY <1>3, <1>o, <3>1
        DEF Books, Consistent, CustomerCancels, CustomerMay, StaleOrderCancels
      <3>2. CASE MerchantEnds(w)
        <4>1. s = worker[w].op
          BY <1>1, <1>2, <1>o, <3>2 DEF MerchantEnds, Terminate, TypeOK, Row
        <4> QED
          BY <1>1, <1>3, <3>2, <4>1 DEF MerchantEnds, MerchantMay
      <3> QED
        BY <3>1, <3>2
    <2>3. ~ Misled(o)
      BY <1>b, <1>2, <1>o, <2>1, <2>2 DEF Misled, Follows, TypeOK
    <2>4. ~ Holding(row'[o])
      BY <1>2 DEF Holding
    <2> QED
      BY <1>e, <1>n, <1>o, <2>1, <2>3, <2>4, OneOrderExplained
  <1>4. CASE ActsOnStale(o)
    BY <1>e, <1>n, <1>4, <1>o, OneOrderExplained
  <1> QED
    BY <1>b, <1>3, <1>4, StaleOrTrue

\* A merchant's update.
LEMMA AdvanceExplained ==
  ASSUME TypeOK, Books, NotCreditedYet, NEW w \in Worker, MerchantAdvances(w)
  PROVE  Explained /\ NotCreditedYet'
  <1> DEFINE o == worker[w].o
             b == Loaded(w)
             target == worker[w].op
  <1>b. Busy(w) /\ Decides(w) /\ Step(w) /\ UNCHANGED <<points, stock>>
    BY DEF MerchantAdvances, At, Busy, Decides, Step, assets
  <1>o. o \in Order
    BY <1>b, BusyHasJob DEF Job
  <1>2. /\ row'[o].st = target /\ row'[o].refund = row[o].refund
        /\ \A p \in Order \ {o} : row'[p] = row[p]
    BY <1>o DEF MerchantAdvances, TypeOK, Row
  <1>3. target \in Allowed(b.st) /\ target \in {"preparing", "done", "settled"}
    BY DEF MerchantAdvances, MerchantMay, MerchantOp, Terminal
  <1>e. \A p \in Order \ {o} : row'[p] = row[p] /\ points'[p] = points[p]
    BY <1>b, <1>2
  <1>n. NotCreditedYet'
    BY <1>b, <1>2, <1>3 DEF NotCreditedYet
  <1>s. stock \in Nat /\ ~ (stock' > stock)
    BY <1>b DEF TypeOK
  <1>4. CASE b = row[o]
    <2>1. ~ Misled(o)
      BY <1>b, <1>2, <1>3, <1>4, <1>o DEF Misled, Follows, TypeOK
    <2> QED
      BY <1>e, <1>n, <1>s, <1>o, <2>1, OneOrderExplained
  <1>5. CASE ActsOnStale(o)
    BY <1>e, <1>n, <1>s, <1>5, <1>o, OneOrderExplained
  <1> QED
    BY <1>b, <1>4, <1>5, StaleOrTrue

\* A payment applied on a copy of the row, or on another.
LEMMA PaymentExplained ==
  ASSUME TypeOK, NotCreditedYet, NEW o \in Order, NEW b, PaymentSuccess(o, b),
         \/ ActsOnStale(o)
         \/ row[o].st = "pending_payment" /\ row[o].pay # "paid"
  PROVE  Explained /\ NotCreditedYet'
  <1>1. /\ row'[o].st = "pending" /\ row'[o].refund = row[o].refund
        /\ points[o] \in Nat /\ points'[o] = points[o] + 1
        /\ \A p \in Order \ {o} : row'[p] = row[p] /\ points'[p] = points[p]
    BY DEF PaymentSuccess, TypeOK, Row
  <1>n. NotCreditedYet'
    BY <1>1 DEF NotCreditedYet
  <1>s. stock \in Nat /\ ~ (stock' > stock)
    BY DEF PaymentSuccess, TypeOK
  <1>2. CASE ActsOnStale(o)
    BY <1>1, <1>2, <1>n, <1>s, OneOrderExplained
  <1>3. CASE row[o].st = "pending_payment" /\ row[o].pay # "paid"
    <2>1. ~ Misled(o)
      BY <1>1, <1>3 DEF Misled, Follows, NotCreditedYet
    <2> QED
      BY <1>1, <1>n, <1>s, <2>1, OneOrderExplained
  <1> QED
    BY <1>2, <1>3

\* A late payment booked.
LEMMA LatePaymentExplained ==
  ASSUME TypeOK, NotCreditedYet, NEW o \in Order, RecordLatePayment(o)
  PROVE  Explained /\ NotCreditedYet'
  <1>1. /\ points' = points /\ stock \in Nat /\ ~ (stock' > stock)
        /\ \A p \in Order : row'[p].st = row[p].st /\ row'[p].refund = row[p].refund
    BY DEF RecordLatePayment, TypeOK, Row, assets
  <1> QED
    BY <1>1, NothingWrong

\* Applying a confirmed payment after the query.
LEMMA ApplyExplained ==
  ASSUME TypeOK, NotCreditedYet, NEW w \in Worker, ApplyPayment(w) \/ ApplyTerminal(w)
  PROVE  Explained /\ NotCreditedYet'
  <1> DEFINE o == worker[w].o
             b == Loaded(w)
  <1>b. Busy(w) /\ Decides(w) /\ Step(w)
    BY DEF ApplyPayment, ApplyTerminal, At, Busy, Decides, Step
  <1>o. o \in Order /\ worker[w] \in Job
    BY <1>b, BusyHasJob DEF Job
  <1>1. CASE ApplyTerminal(w)
    BY <1>1, <1>o, LatePaymentExplained DEF ApplyTerminal
  <1>2. CASE ApplyPayment(w)
    <2>1. PaymentSuccess(o, b) /\ b.st = "pending_payment" /\ b.pay # "paid"
      BY <1>2 DEF ApplyPayment
    <2>2. ActsOnStale(o) \/ b = row[o]
      BY <1>b, StaleOrTrue
    <2> QED
      BY <1>o, <2>1, <2>2, PaymentExplained
  <1> QED
    BY <1>1, <1>2

\* The answer to a refund is written on the row, or on another copy.
LEMMA RefundExplained ==
  ASSUME TypeOK, NotCreditedYet, NEW w, NEW op, NEW o \in Order, NEW b,
         UNCHANGED <<points, stock>>,
         RefundSucceeds(w, op, o, b) \/ \E answer : RefundUnfinished(w, o, b, answer),
         \/ ActsOnStale(o)
         \/ row[o].refund # "success"
  PROVE  Explained /\ NotCreditedYet'
  <1>0. stock \in Nat /\ ~ (stock' > stock) /\ points' = points
    BY DEF TypeOK
  <1>1. CASE RefundSucceeds(w, op, o, b)
    <2>1. \A p \in Order : /\ row'[p].st = row[p].st
                           /\ row[p].refund = "success" => row'[p].refund = "success"
      BY <1>1 DEF RefundSucceeds, TypeOK, Row
    <2> QED
      BY <1>0, <2>1, NothingWrong
  <1>2. CASE \E answer : RefundUnfinished(w, o, b, answer)
    <2>1. /\ \A p \in Order : row'[p].st = row[p].st
          /\ \A p \in Order \ {o} : row'[p] = row[p] /\ points'[p] = points[p]
      BY <1>0, <1>2 DEF RefundUnfinished, TypeOK, Row
    <2>2. CASE ActsOnStale(o)
      <3>1. NotCreditedYet'
        BY <1>0, <2>1 DEF NotCreditedYet
      <3> QED
        BY <1>0, <2>1, <2>2, <3>1, OneOrderExplained
    <2>3. CASE row[o].refund # "success"
      BY <1>0, <2>1, <2>3, NothingWrong
    <2> QED
      BY <2>2, <2>3
  <1> QED
    BY <1>1, <1>2

\* The refund of a late payment.
LEMMA LateRefundExplained ==
  ASSUME TypeOK, NotCreditedYet, NEW w \in Worker, RefundsLatePayment(w)
  PROVE  Explained /\ NotCreditedYet'
  <1> DEFINE o == worker[w].o
             b == Loaded(w)
  <1>b. /\ Busy(w) /\ Decides(w) /\ Step(w) /\ MayRefund(b)
        /\ UNCHANGED <<points, stock>>
    BY DEF RefundsLatePayment, RefundPayment, At, Busy, Decides, Step
  <1>o. o \in Order
    BY <1>b, BusyHasJob DEF Job
  <1>1. PICK out \in Outcomes(rf[o]) :
          IF out[2] = "success" THEN RefundSucceeds(w, worker[w].op, o, b)
          ELSE RefundUnfinished(w, o, b, out[2])
    BY DEF RefundsLatePayment, RefundPayment
  <1>2. ActsOnStale(o) \/ row[o].refund # "success"
    BY <1>b, StaleOrTrue DEF MayRefund
  <1> QED
    BY <1>b, <1>o, <1>1, <1>2, RefundExplained

\* What a session does with its job.
LEMMA StepExplained ==
  ASSUME TypeOK, Books, NotCreditedYet, NEW w \in Worker, Step(w)
  PROVE  Explained /\ NotCreditedYet'
  <1>s. stock \in Nat
    BY DEF TypeOK
  <1>1. CASE \/ OpenPayment(w) \/ SkipRecovery(w) \/ JoinRecovery(w) \/ StartQuery(w)
             \/ QueryFails(w) \/ QueryNotPaid(w) \/ QuerySucceeds(w)
             \/ ApplyAlreadyPaid(w) \/ ApplyFails(w) \/ Refused(w) \/ NoRefundNeeded(w)
    <2>1. UNCHANGED <<row, stock, points>>
      BY <1>1 DEF OpenPayment, SkipRecovery, JoinRecovery, StartQuery, QueryFails,
        QueryNotPaid, QuerySucceeds, ApplyAlreadyPaid, ApplyFails, Refused,
        NoRefundNeeded, assets
    <2> QED
      BY <1>s, <2>1, NothingWrong
  <1>2. CASE RecordsRefund(w)
    <2>1. /\ UNCHANGED <<stock, points>>
          /\ \A p \in Order : /\ row'[p].st = row[p].st
                              /\ row[p].refund = "success" => row'[p].refund = "success"
      BY <1>2 DEF RecordsRefund, TypeOK, Row, assets
    <2> QED
      BY <1>s, <2>1, NothingWrong
  <1> QED
    BY <1>1, <1>2, ApplyExplained, EndingExplained, AdvanceExplained, LateRefundExplained
    DEF Step

\* Every step.
LEMMA NextExplained ==
  ASSUME TypeOK, Books, NotCreditedYet, [Next]_vars
  PROVE  Explained /\ NotCreditedYet'
  <1>s. stock \in Nat
    BY DEF TypeOK
  <1>1. CASE UNCHANGED <<row, points, stock>>
    BY <1>s, <1>1, NothingWrong
  <1>2. ASSUME NEW o \in Order, NEW c, CreateOrder(o, c)
        PROVE  Explained /\ NotCreditedYet'
    <2>1. /\ row[o].st = "absent" /\ row'[o].st = "pending_payment"
          /\ ~ (stock' > stock) /\ points' = points
          /\ \A p \in Order \ {o} : row'[p] = row[p] /\ points'[p] = points[p]
      BY <1>s, <1>2 DEF CreateOrder, TypeOK, assets
    <2>2. row[o].refund # "success"
      BY <2>1, <1>2 DEF Books, Consistent
    <2>3. ~ Misled(o)
      BY <2>1, <2>2 DEF Misled, Follows, TypeOK
    <2>4. NotCreditedYet'
      BY <2>1 DEF NotCreditedYet
    <2> QED
      BY <2>1, <2>3, <2>4, OneOrderExplained
  <1>3. ASSUME NEW o \in Order, NEW w \in Worker, Notify(w, o)
        PROVE  Explained /\ NotCreditedYet'
    BY <1>3, PaymentExplained, LatePaymentExplained DEF Notify
  <1>4. ASSUME NEW o \in Order, NEW w \in Worker, MerchantRefunds(w, o) \/ ReconcilesRefund(w, o)
        PROVE  Explained /\ NotCreditedYet'
    <2>1. /\ row[o].refund # "success" /\ UNCHANGED <<points, stock>>
          /\ \/ RefundSucceeds(w, "refund", o, row[o])
             \/ \E answer : RefundUnfinished(w, o, row[o], answer)
      BY <1>4 DEF MerchantRefunds, ReconcilesRefund, RefundPayment, MayRefund
    <2> QED
      BY <2>1, RefundExplained
  <1>5. ASSUME NEW w \in Worker, Step(w)
        PROVE  Explained /\ NotCreditedYet'
    BY <1>5, StepExplained
  <1>6. ASSUME NEW o \in Order, NEW w \in Worker, NEW op \in Op, Discover(w, op, o)
        PROVE  Explained /\ NotCreditedYet'
    BY <1>1, <1>6 DEF Discover, assets
  <1>7. CASE Crash
    BY <1>1, <1>7 DEF Crash, assets
  <1>8. CASE UNCHANGED vars
    BY <1>1, <1>8 DEF vars
  <1>9. ASSUME NEW o \in Order, CustomerPays(o) \/ ProviderEndsRefund(o)
        PROVE  Explained /\ NotCreditedYet'
    BY <1>1, <1>9 DEF CustomerPays, ProviderEndsRefund, assets
  <1> QED
    BY <1>2, <1>3, <1>4, <1>5, <1>6, <1>7, <1>8, <1>9 DEF Next

\* Where a payment is credited again, a paid order is cancelled, an ended order
\* moves on, a refund is forgotten or a unit is given back twice, a session has
\* acted on a copy that was no longer the row it had locked; there is no other way.
THEOREM StaleCopiesAreTheCause == Spec => OnlyStaleCopiesMislead
  <1>1. Init => NotCreditedYet
    BY DEF Init, NotCreditedYet
  <1>2. Inv /\ NotCreditedYet /\ [Next]_vars => NotCreditedYet'
    BY InvParts, NextExplained
  <1>3. Inv /\ NotCreditedYet /\ [Next]_vars
          => [/\ \A o \in Order : Misled(o) => ActsOnStale(o)
              /\ StockInvented => \E o \in Order : ActsOnStale(o)]_vars
    BY InvParts, NextExplained DEF Explained
  <1> QED
    BY <1>1, <1>2, <1>3, Invariance, PTL DEF Spec, OnlyStaleCopiesMislead

(***************************************************************************)
(* With true copies                                                        *)
(*                                                                         *)
(* A behaviour in which no session decides on a stale copy applies every   *)
(* payment once, cancels no paid order and neither loses nor invents a     *)
(* unit of stock, whatever the order of callbacks, queries, cancellations, *)
(* refunds and restarts.                                                   *)
(***************************************************************************)

TrueCopies == [][\A o \in Order : ~ ActsOnStale(o)]_vars

StockIsKept == IsFiniteSet(OpenOrders) /\ InitStock = stock + Cardinality(OpenOrders)

\* A step opens one order, or ends one, or moves orders within the kitchen and
\* credits a consumption at most once.
Opens(o) ==
  /\ ~ Holding(row[o]) /\ Holding(row'[o]) /\ stock' = stock - 1 /\ UNCHANGED points
  /\ \A p \in Order \ {o} : row'[p] = row[p]

Ends(o) ==
  /\ ~ Holding(row'[o]) /\ stock' = stock + 1 /\ UNCHANGED points
  /\ \A p \in Order \ {o} : row'[p] = row[p]

Moves ==
  /\ UNCHANGED stock
  /\ \A o \in Order : /\ row'[o].st = row[o].st \/ row'[o].st \in Kitchen
                      /\ points'[o] \in {points[o], points[o] + 1}

StepShape == Moves \/ \E o \in Order : Opens(o) \/ Ends(o)

\* A payment, and the answer to a refund.
LEMMA PaymentMoves ==
  ASSUME TypeOK, NEW o \in Order, NEW b, PaymentSuccess(o, b) \/ RecordLatePayment(o)
  PROVE  Moves
  <1>1. UNCHANGED stock /\ \A p \in Order \ {o} : row'[p].st = row[p].st /\ points'[p] = points[p]
    BY DEF PaymentSuccess, RecordLatePayment, TypeOK, assets
  <1>2. /\ row'[o].st \in {row[o].st, "pending"}
        /\ points'[o] \in {points[o], points[o] + 1}
    BY DEF PaymentSuccess, RecordLatePayment, TypeOK, Row, assets
  <1> QED
    BY <1>1, <1>2 DEF Moves, Kitchen

LEMMA RefundMoves ==
  ASSUME TypeOK, NEW w, NEW op, NEW o \in Order, NEW b, NEW answer,
         UNCHANGED <<points, stock>>,
         RefundSucceeds(w, op, o, b) \/ RefundUnfinished(w, o, b, answer)
  PROVE  Moves
  <1>1. row' = row \/ \E r : row' = [row EXCEPT ![o].refund = r]
    BY DEF RefundSucceeds, RefundUnfinished
  <1>2. \A p \in Order : row'[p].st = row[p].st
    BY <1>1 DEF TypeOK, Row
  <1> QED
    BY <1>2 DEF Moves

\* What a session does with its job.
LEMMA StepHasShape ==
  ASSUME TypeOK, NEW w \in Worker, Step(w)
  PROVE  StepShape
  <1> DEFINE o == worker[w].o
  <1>b. Busy(w)
    BY DEF Step, OpenPayment, SkipRecovery, JoinRecovery, StartQuery, QueryFails,
      QueryNotPaid, QuerySucceeds, ApplyTerminal, ApplyAlreadyPaid, ApplyFails, ApplyPayment,
      CustomerCancels, StaleOrderCancels, MerchantEnds, MerchantAdvances, Refused,
      RefundsLatePayment, NoRefundNeeded, RecordsRefund, At, Busy
  <1>o. o \in Order
    BY <1>b, BusyHasJob DEF Job
  <1>1. CASE \/ OpenPayment(w) \/ SkipRecovery(w) \/ JoinRecovery(w) \/ StartQuery(w)
             \/ QueryFails(w) \/ QueryNotPaid(w) \/ QuerySucceeds(w)
             \/ ApplyAlreadyPaid(w) \/ ApplyFails(w) \/ Refused(w) \/ NoRefundNeeded(w)
    <2>1. UNCHANGED <<row, stock, points>>
      BY <1>1 DEF OpenPayment, SkipRecovery, JoinRecovery, StartQuery, QueryFails,
        QueryNotPaid, QuerySucceeds, ApplyAlreadyPaid, ApplyFails, Refused,
        NoRefundNeeded, assets
    <2> QED
      BY <2>1 DEF StepShape, Moves
  <1>2. CASE ApplyTerminal(w) \/ ApplyPayment(w)
    BY <1>2, <1>o, PaymentMoves DEF ApplyTerminal, ApplyPayment, StepShape
  <1>3. CASE CustomerCancels(w) \/ StaleOrderCancels(w) \/ MerchantEnds(w)
    <2>1. PICK s \in Terminal : Terminate(o, s) /\ UNCHANGED points
      BY <1>3 DEF CustomerCancels, StaleOrderCancels, MerchantEnds, Terminal, assets
    <2>2. row'[o].st = s /\ \A p \in Order \ {o} : row'[p] = row[p]
      BY <1>o, <2>1 DEF Terminate, TypeOK, Row
    <2>3. Ends(o)
      BY <2>1, <2>2 DEF Ends, Terminate, Holding
    <2> QED
      BY <1>o, <2>3 DEF StepShape
  <1>4. CASE MerchantAdvances(w)
    <2>1. /\ UNCHANGED <<stock, points>>
          /\ row' = [row EXCEPT ![o].st = worker[w].op]
          /\ worker[w].op \in MerchantOp \ Terminal
      BY <1>4 DEF MerchantAdvances, assets
    <2>2. \A p \in Order : row'[p].st = row[p].st \/ row'[p].st \in Kitchen
      BY <1>o, <2>1 DEF TypeOK, Row, MerchantOp, Terminal, Kitchen
    <2> QED
      BY <2>1, <2>2 DEF StepShape, Moves
  <1>5. CASE RefundsLatePayment(w)
    BY <1>5, <1>o, RefundMoves DEF RefundsLatePayment, RefundPayment, StepShape
  <1>6. CASE RecordsRefund(w)
    <2>1. UNCHANGED <<stock, points>> /\ \A p \in Order : row'[p].st = row[p].st
      BY <1>6, <1>o DEF RecordsRefund, TypeOK, Row, assets
    <2> QED
      BY <2>1 DEF StepShape, Moves
  <1> QED
    BY <1>1, <1>2, <1>3, <1>4, <1>5, <1>6 DEF Step

LEMMA NextHasShape ==
  ASSUME TypeOK, [Next]_vars
  PROVE  StepShape
  <1>1. CASE UNCHANGED <<row, stock, points>>
    BY <1>1 DEF StepShape, Moves
  <1>2. ASSUME NEW o \in Order, NEW c, CreateOrder(o, c)
        PROVE  StepShape
    <2>1. Opens(o)
      BY <1>2 DEF CreateOrder, Opens, Holding, Terminal, TypeOK, assets
    <2> QED
      BY <2>1 DEF StepShape
  <1>3. ASSUME NEW o \in Order, NEW w \in Worker, Notify(w, o)
        PROVE  StepShape
    BY <1>3, PaymentMoves DEF Notify, StepShape
  <1>4. ASSUME NEW o \in Order, NEW w \in Worker, MerchantRefunds(w, o) \/ ReconcilesRefund(w, o)
        PROVE  StepShape
    BY <1>4, RefundMoves DEF MerchantRefunds, ReconcilesRefund, RefundPayment, StepShape
  <1>5. ASSUME NEW w \in Worker, Step(w)
        PROVE  StepShape
    BY <1>5, StepHasShape
  <1>6. ASSUME NEW o \in Order, NEW w \in Worker, NEW op \in Op, Discover(w, op, o)
        PROVE  StepShape
    BY <1>1, <1>6 DEF Discover, assets
  <1>7. CASE Crash
    BY <1>1, <1>7 DEF Crash, assets
  <1>8. CASE UNCHANGED vars
    BY <1>1, <1>8 DEF vars
  <1>9. ASSUME NEW o \in Order, CustomerPays(o) \/ ProviderEndsRefund(o)
        PROVE  StepShape
    BY <1>1, <1>9 DEF CustomerPays, ProviderEndsRefund, assets
  <1> QED
    BY <1>2, <1>3, <1>4, <1>5, <1>6, <1>7, <1>8, <1>9 DEF Next

\* A payment that was credited is not credited again.
LEMMA OnceStays ==
  ASSUME TypeOK, PaymentAppliedOnce, StepShape, \A o \in Order : ~ Misled(o)
  PROVE  PaymentAppliedOnce'
  <1>1. ASSUME NEW o \in Order
        PROVE  points'[o] <= 1
    <2>1. points[o] \in Nat /\ points[o] <= 1 /\ points'[o] \in {points[o], points[o] + 1}
      BY DEF TypeOK, PaymentAppliedOnce, StepShape, Moves, Opens, Ends
    <2>2. ~ (points'[o] > points[o] /\ points[o] > 0)
      BY DEF Misled
    <2> QED
      BY <2>1, <2>2
  <1> QED
    BY <1>1 DEF PaymentAppliedOnce

\* The unit that an order opens with is the one it ends with.
LEMMA StockStays ==
  ASSUME TypeOK, StockIsKept, StepShape, \A o \in Order : ~ Misled(o), ~ StockInvented
  PROVE  StockIsKept'
  <1>0. /\ stock \in Nat /\ InitStock \in Nat /\ IsFiniteSet(OpenOrders)
        /\ Cardinality(OpenOrders) \in Nat
        /\ InitStock = stock + Cardinality(OpenOrders)
    BY StockAssumption, FS_CardinalityType DEF TypeOK, StockIsKept
  <1>o. /\ OpenOrders = {p \in Order : Holding(row[p])}
        /\ OpenOrders' = {p \in Order : Holding(row'[p])}
    BY DEF OpenOrders, Holding
  <1>1. CASE Moves
    <2>1. ASSUME NEW p \in Order
          PROVE  Holding(row'[p]) <=> Holding(row[p])
      <3>1. row'[p].st \in Follows(row[p].st) \cup {row[p].st}
        BY DEF Misled
      <3>2. row'[p].st = row[p].st \/ row'[p].st \in Kitchen
        BY <1>1 DEF Moves
      <3>3. row[p].st \in Status
        BY DEF TypeOK, Row
      <3>4. row'[p].st \in Kitchen /\ row'[p].st \in Follows(row[p].st)
              => row[p].st \in {"pending_payment"} \cup Kitchen
        BY <3>3 DEF Follows, Allowed, Kitchen, Status, Terminal
      <3> QED
        BY <3>1, <3>2, <3>4 DEF Holding, Kitchen, Terminal
    <2>2. OpenOrders' = OpenOrders
      BY <1>o, <2>1
    <2> QED
      BY <1>0, <1>1, <2>2 DEF StockIsKept, Moves
  <1>2. ASSUME NEW o \in Order, Opens(o)
        PROVE  StockIsKept'
    <2>1. OpenOrders' = OpenOrders \cup {o} /\ o \notin OpenOrders
      BY <1>o, <1>2 DEF Opens
    <2>2. /\ IsFiniteSet(OpenOrders \cup {o})
          /\ Cardinality(OpenOrders \cup {o}) = Cardinality(OpenOrders) + 1
      BY <1>0, <2>1, FS_AddElement
    <2> QED
      BY <1>0, <1>2, <2>1, <2>2 DEF StockIsKept, Opens
  <1>3. ASSUME NEW o \in Order, Ends(o)
        PROVE  StockIsKept'
    <2>1. OpenOrders' = OpenOrders \ {o}
      BY <1>o, <1>3 DEF Ends
    <2>2. o \in OpenOrders
      BY <1>0, <1>3, <2>1 DEF StockInvented, Ends
    <2>3. /\ IsFiniteSet(OpenOrders \ {o})
          /\ Cardinality(OpenOrders \ {o}) = Cardinality(OpenOrders) - 1
      BY <1>0, <2>2, FS_RemoveElement
    <2> QED
      BY <1>0, <1>3, <2>1, <2>3 DEF StockIsKept, Ends
  <1> QED
    BY <1>1, <1>2, <1>3 DEF StepShape

\* What the locked select of attempt_recovery, cancel_order, the merchant's
\* update and the stale-order loop would have to ensure, and all it would have
\* to: where no session decides on a copy that differs from the row it locked,
\* a payment is applied once (test_p0_06), a paid order is not cancelled
\* (test_p0_09), and each unit is in stock or with an order that has not ended.
THEOREM TrueCopiesSuffice ==
  Spec /\ TrueCopies => []PaymentAppliedOnce /\ PaidOrderNotCancelled /\ []StockIsKept
  <1>1. Init => NotCreditedYet /\ PaymentAppliedOnce /\ StockIsKept
    <2> SUFFICES ASSUME Init  PROVE  NotCreditedYet /\ PaymentAppliedOnce /\ StockIsKept
      OBVIOUS
    <2>1. OpenOrders = {}
      BY DEF Init, OpenOrders, NoRow
    <2>2. StockIsKept
      BY <2>1, FS_EmptySet, StockAssumption DEF Init, StockIsKept
    <2> QED
      BY <2>2 DEF Init, NotCreditedYet, PaymentAppliedOnce
  <1>2. Inv /\ NotCreditedYet /\ [Next]_vars => NotCreditedYet'
    BY InvParts, NextExplained
  <1>3. Inv /\ NotCreditedYet /\ [Next]_vars /\ [\A o \in Order : ~ ActsOnStale(o)]_vars
          /\ PaymentAppliedOnce /\ StockIsKept => PaymentAppliedOnce' /\ StockIsKept'
    <2>1. CASE UNCHANGED vars
      BY <2>1 DEF vars, PaymentAppliedOnce, StockIsKept, OpenOrders
    <2>2. CASE \A o \in Order : ~ ActsOnStale(o)
      BY <2>2, InvParts, NextExplained, NextHasShape, OnceStays, StockStays DEF Explained
    <2> QED
      BY <2>1, <2>2
  <1>4. Inv /\ NotCreditedYet /\ [Next]_vars /\ [\A o \in Order : ~ ActsOnStale(o)]_vars
          => [\A o \in Order : row[o].pay = "paid" /\ row[o].st \notin Terminal
                                 => row'[o].st # "cancelled"]_vars
    <2>1. CASE UNCHANGED vars
      BY <2>1
    <2>2. CASE \A o \in Order : ~ ActsOnStale(o)
      BY <2>2, InvParts, NextExplained DEF Explained, Misled
    <2> QED
      BY <2>1, <2>2
  <1> QED
    BY <1>1, <1>2, <1>3, <1>4, Invariance, PTL DEF Spec, TrueCopies, PaidOrderNotCancelled
=============================================================================
