-------------------------- MODULE OrderPaymentProofs --------------------------
(***************************************************************************)
(* Proofs about OrderPayment for any orders, coupons, sessions and stock:  *)
(* the types, who waits for whose provider query, and the stock.           *)
(***************************************************************************)
EXTENDS OrderPayment, FiniteSetTheorems, TLAPS

(***************************************************************************)
(* Types                                                                   *)
(***************************************************************************)

\* A session that is not idle has a job.
LEMMA BusyHasJob ==
  ASSUME TypeOK, NEW w \in Worker, Busy(w)
  PROVE  worker[w] \in Job
  BY DEF TypeOK, Busy, Idle

\* What the locked select hands to the code is a row.
LEMMA LoadedIsRow ==
  ASSUME TypeOK, NEW w \in Worker, Busy(w)
  PROVE  Loaded(w) \in Row
  <1>1. worker[w] \in Job
    BY BusyHasJob
  <1>2. worker[w].o \in Order /\ worker[w].seen \in Row
    BY <1>1 DEF Job
  <1> QED
    BY <1>2 DEF TypeOK, Loaded

\* Writing one coupon keeps the table a table of coupon statuses.
LEMMA CouponSetType ==
  ASSUME TypeOK, NEW c, NEW s \in CouponStatus
  PROVE  CouponSet(c, s) \in [Coupon -> CouponStatus]
  BY DEF TypeOK, CouponSet

\* Moving a job to another step of its program keeps it a job.
LEMMA JobMoves ==
  ASSUME NEW j \in Job, NEW pc \in PC \ {"idle"}
  PROVE  [j EXCEPT !.pc = pc] \in Job
  BY DEF Job

\* An executor resumes with a job or with none.
LEMMA ResumeType ==
  ASSUME TypeOK, NEW w \in Worker, Busy(w),
         NEW recovered \in BOOLEAN, NEW seen \in Row, NEW fresh \in BOOLEAN
  PROVE  Resume(w, recovered, seen, fresh) \in Job \cup {Idle}
  <1>1. worker[w] \in Job
    BY BusyHasJob
  <1> QED
    BY <1>1 DEF Resume, Job, PC

\* Answering the sessions that joined a query keeps every session well typed.
LEMMA AnswerType ==
  ASSUME TypeOK, NEW w \in Worker, NEW job \in Job \cup {Idle},
         NEW recovered \in BOOLEAN, Answer(w, job, recovered)
  PROVE  worker' \in [Worker -> Job \cup {Idle}]
  <1>1. ASSUME NEW v \in Worker, At(v, "join")
        PROVE  [worker[v] EXCEPT !.pc = "ready"] \in Job
    <2>1. worker[v] \in Job
      BY <1>1, BusyHasJob DEF At, Busy
    <2> QED
      BY <2>1, JobMoves DEF PC
  <1> QED
    BY <1>1 DEF Answer, TypeOK

\* Ending a job keeps every session well typed.
LEMMA FinishType ==
  ASSUME TypeOK, NEW w \in Worker, Finish(w)
  PROVE  worker' \in [Worker -> Job \cup {Idle}]
  <1>1. CASE worker[w].op = "recover"
    BY <1>1, AnswerType DEF Finish
  <1>2. CASE worker[w].op # "recover"
    BY <1>2 DEF Finish, TypeOK
  <1> QED
    BY <1>1, <1>2

\* Every session goes from one well typed state to the next.
LEMMA JobAssigned ==
  ASSUME TypeOK, NEW w \in Worker, NEW job \in Job \cup {Idle},
         worker' = [worker EXCEPT ![w] = job]
  PROVE  worker' \in [Worker -> Job \cup {Idle}]
  BY DEF TypeOK

\* Moving one session to another step keeps every session well typed.
LEMMA AdvanceType ==
  ASSUME TypeOK, NEW w \in Worker, Busy(w), NEW pc \in PC \ {"idle"},
         worker' = [worker EXCEPT ![w].pc = pc]
  PROVE  worker' \in [Worker -> Job \cup {Idle}]
  <1>1. [worker[w] EXCEPT !.pc = pc] \in Job
    BY BusyHasJob, JobMoves
  <1> QED
    BY <1>1 DEF TypeOK

\* The effects of a payment keep the tables well typed.
LEMMA PaymentSuccessType ==
  ASSUME TypeOK, NEW o \in Order, NEW b \in Row, PaymentSuccess(o, b)
  PROVE  /\ row' \in [Order -> Row] /\ coupon' \in [Coupon -> CouponStatus]
         /\ points' \in [Order -> Nat] /\ UNCHANGED <<stock, reversal>>
  <1>1. coupon' \in [Coupon -> CouponStatus]
    BY CouponSetType DEF PaymentSuccess, TypeOK, CouponStatus
  <1>2. KeptCoupon(o, b) \in Coupon \cup {NoCoupon}
    BY DEF KeptCoupon, TypeOK, Row
  <1>3. row' \in [Order -> Row]
    BY <1>2 DEF PaymentSuccess, TypeOK, Row, Status, Kitchen
  <1>4. points' \in [Order -> Nat]
    BY DEF PaymentSuccess, TypeOK
  <1> QED
    BY <1>1, <1>3, <1>4 DEF PaymentSuccess

\* Booking a late payment keeps the tables well typed.
LEMMA RecordLatePaymentType ==
  ASSUME TypeOK, NEW o \in Order, RecordLatePayment(o)
  PROVE  row' \in [Order -> Row] /\ UNCHANGED <<coupon, stock, assets>>
  BY DEF RecordLatePayment, TypeOK, Row

\* The refund that follows a late payment is a job.
LEMMA ToRefundType ==
  ASSUME NEW w \in Worker, NEW op \in Op, NEW o \in Order, NEW b \in Row
  PROVE  ToRefund(w, op, o, b) \in Job
  BY CouponAssumption DEF ToRefund, Job, PC, NoRow, Row, Status, Refund

\* Ending an order keeps the tables well typed.
LEMMA TerminateType ==
  ASSUME TypeOK, NEW o \in Order, NEW s \in Status, Terminate(o, s)
  PROVE  row' \in [Order -> Row] /\ stock' \in Nat
  BY DEF Terminate, TypeOK, Row

\* Writing refund_status keeps the orders table well typed.
LEMMA RefundWrittenType ==
  ASSUME TypeOK, NEW o \in Order, NEW s \in Refund
  PROVE  [row EXCEPT ![o].refund = s] \in [Order -> Row]
  BY DEF TypeOK, Row

\* A refund keeps the tables and the sessions well typed.
LEMMA RefundSucceedsType ==
  ASSUME TypeOK, NEW w \in Worker, NEW op \in Op, NEW o \in Order, NEW b \in Row,
         RefundSucceeds(w, op, o, b)
  PROVE  /\ row' \in [Order -> Row] /\ coupon' \in [Coupon -> CouponStatus]
         /\ reversal' \in [Order -> BOOLEAN]
         /\ worker' \in [Worker -> Job \cup {Idle}]
  <1>1. coupon' \in [Coupon -> CouponStatus]
    BY CouponSetType DEF RefundSucceeds, TypeOK, CouponStatus
  <1>2. reversal' \in [Order -> BOOLEAN]
    BY DEF RefundSucceeds, TypeOK
  <1>3. CASE reversal[o]
    <2>3. row' = [row EXCEPT ![o].refund = "success"]
      BY <1>3 DEF RefundSucceeds
    <2>1. row' \in [Order -> Row]
      BY <2>3, RefundWrittenType DEF Refund
    <2>2. worker' \in [Worker -> Job \cup {Idle}]
      BY <1>3, FinishType DEF RefundSucceeds, TypeOK
    <2> QED
      BY <1>1, <1>2, <2>1, <2>2
  <1>4. CASE ~ reversal[o]
    <2> DEFINE job == [op |-> op, o |-> o, pc |-> "reversed", seen |-> b,
                       cseen |-> "none", fresh |-> FALSE]
    <2>1. job \in Job
      BY DEF Job, PC
    <2>2. worker' = [worker EXCEPT ![w] = job]
      BY <1>4 DEF RefundSucceeds
    <2>3. row' = row
      BY <1>4 DEF RefundSucceeds
    <2> HIDE DEF job
    <2> QED
      BY <1>1, <1>2, <2>1, <2>2, <2>3, JobAssigned DEF TypeOK
  <1> QED
    BY <1>3, <1>4

\* A refund that is not done keeps the tables and the sessions well typed.
LEMMA RefundUnfinishedType ==
  ASSUME TypeOK, NEW w \in Worker, NEW o \in Order, NEW b \in Row,
         NEW answer \in Refund, RefundUnfinished(w, o, b, answer)
  PROVE  /\ row' \in [Order -> Row] /\ UNCHANGED <<coupon, reversal>>
         /\ worker' \in [Worker -> Job \cup {Idle}]
  <1>1. row' \in [Order -> Row]
    BY DEF RefundUnfinished, TypeOK, Row
  <1>2. worker' \in [Worker -> Job \cup {Idle}]
    BY FinishType DEF RefundUnfinished, TypeOK
  <1> QED
    BY <1>1, <1>2 DEF RefundUnfinished

\* What a refund attempt may learn is typed.
LEMMA OutcomesType ==
  ASSUME NEW r \in Refund, NEW out \in Outcomes(r)
  PROVE  out[1] \in Refund /\ out[2] \in Refund
  BY DEF Outcomes, Accepted, Refund

\* Asking the provider for a refund keeps the types.
LEMMA RefundPaymentType ==
  ASSUME TypeOK, NEW w \in Worker, NEW op \in Op, NEW o \in Order, NEW b \in Row,
         RefundPayment(w, op, o, b)
  PROVE  TypeOK'
  <1>1. PICK out \in Outcomes(rf[o]) :
          /\ rf' = [rf EXCEPT ![o] = out[1]]
          /\ IF out[2] = "success" THEN RefundSucceeds(w, op, o, b)
             ELSE RefundUnfinished(w, o, b, out[2])
    BY DEF RefundPayment
  <1>2. out[1] \in Refund /\ out[2] \in Refund
    BY OutcomesType DEF TypeOK
  <1>3. rf' \in [Order -> Refund]
    BY <1>1, <1>2 DEF TypeOK
  <1>4. /\ row' \in [Order -> Row] /\ coupon' \in [Coupon -> CouponStatus]
        /\ reversal' \in [Order -> BOOLEAN]
        /\ worker' \in [Worker -> Job \cup {Idle}]
    BY <1>1, <1>2, RefundSucceedsType, RefundUnfinishedType DEF TypeOK
  <1>5. UNCHANGED <<stock, points, wx, crashes>>
    BY DEF RefundPayment
  <1> QED
    BY <1>3, <1>4, <1>5 DEF TypeOK

\* Every step of a session with a job keeps the types.
LEMMA StepType ==
  ASSUME TypeOK, NEW w \in Worker, Step(w)
  PROVE  TypeOK'
  <1> DEFINE o == worker[w].o
  <1>b. Busy(w)
    BY DEF Step, OpenPayment, SkipRecovery, JoinRecovery, StartQuery, QueryFails,
      QueryNotPaid, QuerySucceeds, ApplyTerminal, ApplyAlreadyPaid, ApplyFails, ApplyPayment,
      CustomerCancels, StaleOrderCancels, MerchantEnds, MerchantAdvances, Refused,
      RefundsLatePayment, NoRefundNeeded, RecordsRefund, At, Busy
  <1>j. worker[w] \in Job
    BY <1>b, BusyHasJob
  <1>o. /\ o \in Order /\ worker[w].op \in Op /\ worker[w].seen \in Row
        /\ worker[w].fresh \in BOOLEAN
    BY <1>j DEF Job
  <1>b1. Loaded(w) \in Row
    BY <1>b, LoadedIsRow
  <1>n. NoRow \in Row
    BY DEF NoRow, Row, Status, Refund
  <1>1. CASE OpenPayment(w)
    BY <1>1, <1>o, JobAssigned DEF OpenPayment, TypeOK, assets
  <1>2. CASE SkipRecovery(w)
    BY <1>2, JobAssigned DEF SkipRecovery, TypeOK, assets, provider
  <1>3. CASE JoinRecovery(w) \/ StartQuery(w) \/ QuerySucceeds(w)
    <2>1. worker' \in [Worker -> Job \cup {Idle}]
      BY <1>3, <1>b, AdvanceType DEF JoinRecovery, StartQuery, QuerySucceeds, PC
    <2> QED
      BY <1>3, <2>1 DEF JoinRecovery, StartQuery, QuerySucceeds, TypeOK, assets, provider
  <1>4. CASE QueryFails(w) \/ QueryNotPaid(w) \/ ApplyAlreadyPaid(w) \/ ApplyFails(w)
    <2>1. PICK recovered \in BOOLEAN, seen \in Row, fresh \in BOOLEAN :
            Answer(w, Resume(w, recovered, seen, fresh), recovered)
      BY <1>4, <1>o, <1>n DEF QueryFails, QueryNotPaid, ApplyAlreadyPaid, ApplyFails
    <2>2. worker' \in [Worker -> Job \cup {Idle}]
      BY <2>1, <1>b, ResumeType, AnswerType
    <2> QED
      BY <1>4, <2>2 DEF QueryFails, QueryNotPaid, ApplyAlreadyPaid, ApplyFails, TypeOK,
        assets, provider
  <1>5. CASE ApplyTerminal(w)
    <2> DEFINE job == ToRefund(w, worker[w].op, o, Loaded(w))
    <2>1. RecordLatePayment(o) /\ worker' = [worker EXCEPT ![w] = job]
      BY <1>5 DEF ApplyTerminal
    <2>2. job \in Job
      BY <1>o, <1>b1, ToRefundType
    <2> HIDE DEF job
    <2>3. worker' \in [Worker -> Job \cup {Idle}]
      BY <2>1, <2>2, JobAssigned
    <2>4. row' \in [Order -> Row] /\ UNCHANGED <<coupon, stock, assets>>
      BY <2>1, <1>o, RecordLatePaymentType
    <2> QED
      BY <1>5, <2>3, <2>4 DEF ApplyTerminal, TypeOK, assets, provider
  <1>6. CASE ApplyPayment(w)
    <2>1. PaymentSuccess(o, Loaded(w))
      BY <1>6 DEF ApplyPayment
    <2>2. KeptCoupon(o, Loaded(w)) \in Coupon \cup {NoCoupon}
      BY <1>o DEF KeptCoupon, TypeOK, Row
    <2>3. [Loaded(w) EXCEPT !.st = "pending", !.pay = "paid",
                            !.coup = KeptCoupon(o, Loaded(w))] \in Row
      BY <2>2, <1>b1 DEF Row, Status, Kitchen
    <2>4. PICK recovered \in BOOLEAN, seen \in Row, fresh \in BOOLEAN :
            Answer(w, Resume(w, recovered, seen, fresh), recovered)
      BY <1>6, <1>n, <2>3 DEF ApplyPayment
    <2>5. worker' \in [Worker -> Job \cup {Idle}]
      BY <2>4, <1>b, ResumeType, AnswerType
    <2> QED
      BY <1>6, <2>1, <2>5, <1>o, <1>b1, PaymentSuccessType
      DEF ApplyPayment, TypeOK, provider
  <1>7. CASE CustomerCancels(w) \/ StaleOrderCancels(w) \/ MerchantEnds(w)
    <2>1. PICK s \in Status : Terminate(o, s)
      BY <1>7 DEF CustomerCancels, StaleOrderCancels, MerchantEnds, Status, Terminal
    <2>2. row' \in [Order -> Row] /\ stock' \in Nat
      BY <2>1, <1>o, TerminateType
    <2>3. coupon' \in [Coupon -> CouponStatus]
      BY <1>7, CouponSetType
      DEF CustomerCancels, StaleOrderCancels, MerchantEnds, TypeOK, CouponStatus
    <2>4. worker' \in [Worker -> Job \cup {Idle}]
      BY <1>7, JobAssigned DEF CustomerCancels, StaleOrderCancels, MerchantEnds
    <2> QED
      BY <1>7, <2>2, <2>3, <2>4
      DEF CustomerCancels, StaleOrderCancels, MerchantEnds, TypeOK, assets, provider
  <1>8. CASE MerchantAdvances(w)
    <2>1. worker[w].op \in Status
      BY <1>8 DEF MerchantAdvances, MerchantOp, Terminal, Status, Kitchen
    <2>2. row' \in [Order -> Row]
      BY <1>8, <1>o, <2>1 DEF MerchantAdvances, TypeOK, Row
    <2>3. coupon' \in [Coupon -> CouponStatus]
      BY <1>8, CouponSetType DEF MerchantAdvances, TypeOK, CouponStatus
    <2>4. worker' \in [Worker -> Job \cup {Idle}]
      BY <1>8, JobAssigned DEF MerchantAdvances
    <2> QED
      BY <1>8, <2>2, <2>3, <2>4 DEF MerchantAdvances, TypeOK, assets, provider
  <1>9. CASE Refused(w)
    BY <1>9, JobAssigned DEF Refused, TypeOK, assets, provider
  <1>10. CASE RefundsLatePayment(w)
    BY <1>10, <1>o, <1>b1, RefundPaymentType DEF RefundsLatePayment
  <1>11. CASE NoRefundNeeded(w)
    BY <1>11, FinishType DEF NoRefundNeeded, TypeOK, assets, provider
  <1>12. CASE RecordsRefund(w)
    <2>1. row' \in [Order -> Row]
      BY <1>12, <1>o, RefundWrittenType DEF RecordsRefund, Refund
    <2> QED
      BY <1>12, <2>1, FinishType DEF RecordsRefund, TypeOK, assets, provider
  <1> QED
    BY <1>1, <1>2, <1>3, <1>4, <1>5, <1>6, <1>7, <1>8, <1>9, <1>10, <1>11, <1>12
    DEF Step

\* Every step keeps the types.
LEMMA NextType ==
  ASSUME TypeOK, [Next]_vars
  PROVE  TypeOK'
  <1>1. ASSUME NEW o \in Order, NEW c \in Coupon \cup {NoCoupon}, CreateOrder(o, c)
        PROVE  TypeOK'
    <2>1. coupon' \in [Coupon -> CouponStatus]
      BY <1>1, CouponSetType DEF CreateOrder, CouponStatus
    <2>2. row' \in [Order -> Row]
      BY <1>1 DEF CreateOrder, TypeOK, Row, Status, Refund
    <2>3. stock' \in Nat
      BY <1>1 DEF CreateOrder, InStock, TypeOK
    <2> QED
      BY <1>1, <2>1, <2>2, <2>3 DEF CreateOrder, TypeOK, assets, provider
  <1>2. ASSUME NEW o \in Order, CustomerPays(o)
        PROVE  TypeOK'
    BY <1>2 DEF CustomerPays, TypeOK, assets
  <1>3. ASSUME NEW o \in Order, ProviderEndsRefund(o)
        PROVE  TypeOK'
    BY <1>3 DEF ProviderEndsRefund, TypeOK, assets, Refund
  <1>4. ASSUME NEW o \in Order, NEW w \in Worker, NEW op \in Op, Discover(w, op, o)
        PROVE  TypeOK'
    <2> DEFINE job == [op |-> op, o |-> o, pc |-> FirstPC(op, row[o]), seen |-> row[o],
                       cseen |-> IF op \in SnapshotOp THEN CouponNow(row[o].coup) ELSE "none",
                       fresh |-> FALSE]
    <2>1. worker' = [worker EXCEPT ![w] = job]
      BY <1>4 DEF Discover
    <2>2. FirstPC(op, row[o]) \in PC \ {"idle"}
      BY DEF FirstPC, PC
    <2>3. CouponNow(row[o].coup) \in CouponStatus \cup {"none"}
      BY DEF CouponNow, TypeOK, Row
    <2>4. job \in Job
      BY <2>2, <2>3 DEF Job, TypeOK
    <2> HIDE DEF job
    <2>5. worker' \in [Worker -> Job \cup {Idle}]
      BY <2>1, <2>4, JobAssigned
    <2> QED
      BY <1>4, <2>5 DEF Discover, TypeOK, assets, provider
  <1>5. ASSUME NEW o \in Order, NEW w \in Worker, Notify(w, o)
        PROVE  TypeOK'
    <2>1. row[o] \in Row /\ "notify" \in Op
      BY DEF TypeOK, Op
    <2>2. CASE PaymentSuccess(o, row[o]) /\ UNCHANGED worker
      BY <1>5, <2>1, <2>2, PaymentSuccessType DEF Notify, TypeOK, provider
    <2>3. CASE /\ RecordLatePayment(o)
               /\ worker' = [worker EXCEPT ![w] = ToRefund(w, "notify", o, row[o])]
      <3>1. worker' \in [Worker -> Job \cup {Idle}]
        BY <2>1, <2>3, ToRefundType, JobAssigned
      <3> QED
        BY <1>5, <2>3, <3>1, RecordLatePaymentType DEF Notify, TypeOK, assets, provider
    <2> QED
      BY <1>5, <2>2, <2>3 DEF Notify
  <1>6. ASSUME NEW o \in Order, NEW w \in Worker, MerchantRefunds(w, o)
        PROVE  TypeOK'
    BY <1>6, RefundPaymentType DEF MerchantRefunds, TypeOK, Op
  <1>7. ASSUME NEW o \in Order, NEW w \in Worker, ReconcilesRefund(w, o)
        PROVE  TypeOK'
    <2>1. row[o] \in Row /\ "refund" \in Op /\ rf[o] \in Refund
      BY DEF TypeOK, Op
    <2>2. /\ row' \in [Order -> Row] /\ coupon' \in [Coupon -> CouponStatus]
          /\ reversal' \in [Order -> BOOLEAN]
          /\ worker' \in [Worker -> Job \cup {Idle}]
      BY <1>7, <2>1, RefundSucceedsType, RefundUnfinishedType
      DEF ReconcilesRefund, TypeOK
    <2> QED
      BY <1>7, <2>2 DEF ReconcilesRefund, TypeOK, provider
  <1>8. ASSUME NEW w \in Worker, Step(w)
        PROVE  TypeOK'
    BY <1>8, StepType
  <1>9. CASE Crash
    <2>1. rf' \in [Order -> Refund]
      BY <1>9 DEF Crash, TypeOK, Accepted, Refund
    <2>2. crashes' \in 0..MaxCrashes
      BY <1>9, CrashAssumption DEF Crash, TypeOK
    <2>3. worker' \in [Worker -> Job \cup {Idle}]
      BY <1>9 DEF Crash
    <2> QED
      BY <1>9, <2>1, <2>2, <2>3 DEF Crash, TypeOK, assets
  <1>10. CASE UNCHANGED vars
    BY <1>10 DEF vars, TypeOK
  <1> QED
    BY <1>1, <1>2, <1>3, <1>4, <1>5, <1>6, <1>7, <1>8, <1>9, <1>10 DEF Next

\* The tables and the sessions are well typed in every reachable state.
THEOREM TypeCorrect == Spec => []TypeOK
  <1>1. Init => TypeOK
    BY StockAssumption, CrashAssumption
    DEF Init, TypeOK, Row, NoRow, Status, Refund, CouponStatus
  <1>2. TypeOK /\ [Next]_vars => TypeOK'
    BY NextType
  <1> QED
    BY <1>1, <1>2, PTL DEF Spec

(***************************************************************************)
(* Whoever joined a query waits for a query that runs                      *)
(*                                                                         *)
(* An executor stays one until it answers: only a recovery goes on to a    *)
(* refund, because the other callers decide on a copy that is still        *)
(* pending_payment (CopiesArePending), and an answer frees the joiners.    *)
(***************************************************************************)

\* Whoever is in the gate for anything but a recovery holds a pending copy.
CopyPending(j) ==
  j.pc \in {"gate", "join", "query", "apply"} /\ j.op # "recover"
    => ~ j.fresh /\ j.seen.st = "pending_payment"
CopiesArePending == \A w \in Worker : CopyPending(worker[w])

AwaitInv == JoinersAreAwaited /\ CopiesArePending

\* Job j executes the query of order o.
Executes(j, o) ==
  /\ j.pc # "idle" /\ j.o = o
  /\ j.pc \in {"query", "apply"} \/ (j.op = "recover" /\ j.pc \in {"refund", "reversed"})

\* A session that goes on to job keeps what it executes, and joins only a query
\* another one executes.
LEMMA AwaitsGoOn ==
  ASSUME TypeOK, AwaitInv, NEW w \in Worker, NEW job,
         worker' = [worker EXCEPT ![w] = job],
         \A o \in Order : Executing(w, o) => Executes(job, o),
         job.pc = "join" => \E v \in Worker \ {w} : Executing(v, job.o),
         CopyPending(job)
  PROVE  AwaitInv'
  <1>1. worker'[w] = job /\ \A v \in Worker \ {w} : worker'[v] = worker[v]
    BY DEF TypeOK
  <1>2. \A v \in Worker, o \in Order : Executing(v, o) => Executes(worker'[v], o)
    BY <1>1 DEF Executing, Executes, Busy
  <1>3. ASSUME NEW v \in Worker, worker'[v].pc = "join"
        PROVE  \E u \in Worker : Executes(worker'[u], worker'[v].o)
    <2>1. CASE v = w
      <3>1. PICK u \in Worker \ {w} : Executing(u, job.o)
        BY <1>1, <1>3, <2>1
      <3> QED
        BY <1>1, <2>1, <3>1 DEF Executing, Executes, Busy
    <2>2. CASE v # w
      <3>1. worker'[v] = worker[v] /\ worker[v].o \in Order
        BY <1>1, <1>3, <2>2, BusyHasJob DEF Busy, Job
      <3>2. PICK u \in Worker : Executing(u, worker[v].o)
        BY <1>3, <3>1 DEF AwaitInv, JoinersAreAwaited, At, InFlight
      <3> QED
        BY <1>2, <3>1, <3>2
    <2> QED
      BY <2>1, <2>2
  <1>4. JoinersAreAwaited'
    BY <1>3 DEF JoinersAreAwaited, At, InFlight, Executing, Executes, Busy
  <1>5. CopiesArePending'
    BY <1>1 DEF AwaitInv, CopiesArePending
  <1> QED
    BY <1>4, <1>5 DEF AwaitInv

\* An executor that answers leaves nobody waiting for its query.
LEMMA AwaitsAnswered ==
  ASSUME TypeOK, AwaitInv, NEW w \in Worker, NEW job, NEW recovered,
         Answer(w, job, recovered),
         job.pc \notin {"gate", "join", "query", "apply"}
  PROVE  AwaitInv'
  <1> DEFINE joined(v) == At(v, "join") /\ worker[v].o = worker[w].o
  <1>1. /\ worker'[w] = job
        /\ \A v \in Worker \ {w} : ~ joined(v) => worker'[v] = worker[v]
        /\ \A v \in Worker \ {w} : joined(v) =>
             worker'[v] \in {Idle, [worker[v] EXCEPT !.pc = "ready"]}
    BY DEF Answer
  <1>2. ASSUME NEW v \in Worker \ {w}, joined(v)
        PROVE  worker'[v].pc \in {"idle", "ready"}
    <2>1. worker[v] \in Job
      BY <1>2, BusyHasJob DEF At, Busy
    <2> QED
      BY <1>1, <1>2, <2>1 DEF Job, Idle
  <1>3. ASSUME NEW v \in Worker, worker'[v].pc = "join"
        PROVE  \E u \in Worker : Executes(worker'[u], worker'[v].o)
    <2>1. v # w /\ worker'[v] = worker[v] /\ worker[v].o # worker[w].o
      BY <1>1, <1>2, <1>3 DEF At
    <2>2. PICK u \in Worker : Executing(u, worker[v].o)
      BY <1>3, <2>1 DEF AwaitInv, JoinersAreAwaited, At, InFlight
    <2>3. u # w /\ ~ joined(u)
      BY <2>1, <2>2 DEF Executing, At
    <2>4. worker'[u] = worker[u]
      BY <1>1, <2>3
    <2> QED
      BY <2>1, <2>2, <2>4 DEF Executing, Executes, Busy
  <1>4. JoinersAreAwaited'
    BY <1>3 DEF JoinersAreAwaited, At, InFlight, Executing, Executes, Busy
  <1>5. ASSUME NEW v \in Worker
        PROVE  CopyPending(worker'[v])
    BY <1>1, <1>2 DEF CopyPending, AwaitInv, CopiesArePending
  <1> QED
    BY <1>4, <1>5 DEF AwaitInv, CopiesArePending

\* A session that was executing nothing, and takes a job outside the gate.
LEMMA AwaitsIdle ==
  ASSUME TypeOK, AwaitInv, NEW w \in Worker, NEW job,
         worker' = [worker EXCEPT ![w] = job],
         job.pc \notin {"gate", "join", "query", "apply"},
         \A o \in Order : ~ Executing(w, o)
  PROVE  AwaitInv'
  BY AwaitsGoOn DEF CopyPending

\* A session that is not in a query, nor a recovery in its refund.
LEMMA NotExecuting ==
  ASSUME NEW w, worker[w].pc \notin {"query", "apply"},
         worker[w].op # "recover" \/ worker[w].pc \notin {"refund", "reversed"}
  PROVE  \A o \in Order : ~ Executing(w, o)
  BY DEF Executing

\* The end of a refund ends the query it belongs to.
LEMMA FinishAwaits ==
  ASSUME TypeOK, AwaitInv, NEW w \in Worker, Finish(w),
         worker[w].pc \in {"refund", "reversed"}
  PROVE  AwaitInv'
  <1>1. CASE worker[w].op = "recover"
    BY <1>1, AwaitsAnswered DEF Finish, Idle
  <1>2. CASE worker[w].op # "recover"
    BY <1>2, NotExecuting, AwaitsIdle DEF Finish, Idle
  <1> QED
    BY <1>1, <1>2

\* A refund's outcome leaves nobody waiting.
LEMMA RefundAwaits ==
  ASSUME TypeOK, AwaitInv, NEW w \in Worker, NEW op, NEW o \in Order, NEW b, NEW answer,
         RefundSucceeds(w, op, o, b) \/ RefundUnfinished(w, o, b, answer),
         Busy(w) => At(w, "refund") /\ op = worker[w].op /\ o = worker[w].o
  PROVE  AwaitInv'
  <1>1. CASE Busy(w) /\ Finish(w)
    BY <1>1, FinishAwaits DEF At
  <1>2. CASE UNCHANGED worker
    BY <1>2 DEF AwaitInv, JoinersAreAwaited, CopiesArePending, CopyPending, At, InFlight,
      Executing, Busy
  <1>3. ASSUME NEW job, worker' = [worker EXCEPT ![w] = job],
               job.pc = "reversed", job.op = op, job.o = o
        PROVE  AwaitInv'
    <2>1. \A p \in Order : Executing(w, p) => Executes(job, p)
      BY <1>3 DEF Executing, Executes, At, Busy
    <2> QED
      BY <1>3, <2>1, AwaitsGoOn DEF CopyPending
  <1> QED
    BY <1>1, <1>2, <1>3 DEF RefundSucceeds, RefundUnfinished

\* What a session does with its job leaves nobody waiting for nothing.
LEMMA StepAwaits ==
  ASSUME TypeOK, AwaitInv, NEW w \in Worker, Step(w)
  PROVE  AwaitInv'
  <1> DEFINE o == worker[w].o
  <1>b. Busy(w)
    BY DEF Step, OpenPayment, SkipRecovery, JoinRecovery, StartQuery, QueryFails,
      QueryNotPaid, QuerySucceeds, ApplyTerminal, ApplyAlreadyPaid, ApplyFails, ApplyPayment,
      CustomerCancels, StaleOrderCancels, MerchantEnds, MerchantAdvances, Refused,
      RefundsLatePayment, NoRefundNeeded, RecordsRefund, At, Busy
  <1>j. worker[w] \in Job /\ o \in Order /\ CopyPending(worker[w])
    BY <1>b, BusyHasJob DEF Job, AwaitInv, CopiesArePending
  <1>1. CASE OpenPayment(w) \/ SkipRecovery(w) \/ Refused(w) \/ CustomerCancels(w)
             \/ StaleOrderCancels(w) \/ MerchantEnds(w) \/ MerchantAdvances(w)
    <2>1. worker' = [worker EXCEPT ![w] = Idle] /\ worker[w].pc \in {"opening", "gate", "ready"}
      BY <1>1 DEF OpenPayment, SkipRecovery, Refused, CustomerCancels, StaleOrderCancels,
        MerchantEnds, MerchantAdvances, At
    <2> QED
      BY <2>1, NotExecuting, AwaitsIdle DEF Idle
  <1>2. CASE JoinRecovery(w) \/ StartQuery(w) \/ QuerySucceeds(w)
    <2>1. PICK pc \in {"join", "query", "apply"} :
            /\ worker' = [worker EXCEPT ![w].pc = pc]
            /\ worker[w].pc \in {"gate", "query"}
            /\ worker[w].pc = "query" => pc = "apply"
            /\ pc = "join" => worker[w].pc = "gate" /\ InFlight(o)
      BY <1>2 DEF JoinRecovery, StartQuery, QuerySucceeds, At
    <2> DEFINE job == [worker[w] EXCEPT !.pc = pc]
    <2>2. worker' = [worker EXCEPT ![w] = job]
      BY <2>1 DEF TypeOK
    <2>3. /\ job.pc = pc /\ job.o = o /\ job.op = worker[w].op
          /\ job.seen = worker[w].seen /\ job.fresh = worker[w].fresh
      BY <1>j DEF Job
    <2> HIDE DEF job
    <2>4. CopyPending(job)
      BY <1>j, <2>1, <2>3 DEF CopyPending
    <2>5. \A p \in Order : Executing(w, p) => Executes(job, p)
      BY <2>1, <2>3 DEF Executing, Executes
    <2>6. job.pc = "join" => \E v \in Worker \ {w} : Executing(v, job.o)
      BY <2>1, <2>3 DEF InFlight, Executing
    <2> QED
      BY <2>2, <2>4, <2>5, <2>6, AwaitsGoOn
  <1>3. CASE \/ QueryFails(w) \/ QueryNotPaid(w) \/ ApplyAlreadyPaid(w)
             \/ ApplyFails(w) \/ ApplyPayment(w)
    <2>1. PICK recovered, seen, fresh :
            Answer(w, Resume(w, recovered, seen, fresh), recovered)
      BY <1>3 DEF QueryFails, QueryNotPaid, ApplyAlreadyPaid, ApplyFails, ApplyPayment
    <2>2. Resume(w, recovered, seen, fresh).pc \in {"idle", "ready"}
      BY <1>j DEF Resume, Job, Idle
    <2> QED
      BY <2>1, <2>2, AwaitsAnswered
  <1>4. CASE ApplyTerminal(w)
    <2> DEFINE job == ToRefund(w, worker[w].op, o, Loaded(w))
    <2>1. worker' = [worker EXCEPT ![w] = job] /\ At(w, "apply") /\ Loaded(w).st \in Terminal
      BY <1>4 DEF ApplyTerminal
    <2>2. worker[w].op = "recover"
      BY <1>j, <2>1 DEF CopyPending, Loaded, Terminal, At
    <2>3. job.pc = "refund" /\ job.op = "recover" /\ job.o = o
      BY <2>2 DEF ToRefund
    <2> HIDE DEF job
    <2>4. \A p \in Order : Executing(w, p) => Executes(job, p)
      BY <2>3 DEF Executing, Executes
    <2> QED
      BY <2>1, <2>3, <2>4, AwaitsGoOn DEF CopyPending
  <1>5. CASE RefundsLatePayment(w)
    BY <1>5, <1>j, RefundAwaits DEF RefundsLatePayment, RefundPayment
  <1>6. CASE NoRefundNeeded(w) \/ RecordsRefund(w)
    BY <1>6, FinishAwaits DEF NoRefundNeeded, RecordsRefund, At
  <1> QED
    BY <1>1, <1>2, <1>3, <1>4, <1>5, <1>6 DEF Step

\* Every step leaves whoever waits with a query that runs.
LEMMA NextAwaits ==
  ASSUME TypeOK, AwaitInv, [Next]_vars
  PROVE  AwaitInv'
  <1>1. CASE UNCHANGED worker
    BY <1>1 DEF AwaitInv, JoinersAreAwaited, CopiesArePending, CopyPending, At, InFlight,
      Executing, Busy
  <1>2. ASSUME NEW w \in Worker, ~ Busy(w)
        PROVE  \A o \in Order : ~ Executing(w, o)
    BY <1>2 DEF Executing
  <1>3. ASSUME NEW o \in Order, NEW w \in Worker, NEW op \in Op, Discover(w, op, o)
        PROVE  AwaitInv'
    <2> DEFINE job == [op |-> op, o |-> o, pc |-> FirstPC(op, row[o]), seen |-> row[o],
                       cseen |-> IF op \in SnapshotOp THEN CouponNow(row[o].coup) ELSE "none",
                       fresh |-> FALSE]
    <2>1. /\ worker' = [worker EXCEPT ![w] = job] /\ job.op = op
          /\ job.pc = FirstPC(op, row[o]) /\ job.seen = row[o] /\ ~ job.fresh
      BY <1>3 DEF Discover
    <2> HIDE DEF job
    <2>2. job.pc \in {"opening", "gate", "ready"}
      BY <2>1 DEF FirstPC
    <2>3. CopyPending(job)
      BY <1>3, <2>1, <2>2 DEF CopyPending, Discover, FirstPC, Gated
    <2>4. ~ Busy(w)
      BY <1>3 DEF Discover
    <2> QED
      BY <1>2, <2>1, <2>2, <2>3, <2>4, AwaitsGoOn
  <1>4. ASSUME NEW o \in Order, NEW w \in Worker, Notify(w, o)
        PROVE  AwaitInv'
    BY <1>1, <1>2, <1>4, AwaitsIdle DEF Notify, ToRefund
  <1>5. ASSUME NEW o \in Order, NEW w \in Worker, MerchantRefunds(w, o) \/ ReconcilesRefund(w, o)
        PROVE  AwaitInv'
    BY <1>5, RefundAwaits DEF MerchantRefunds, ReconcilesRefund, RefundPayment
  <1>6. CASE Crash
    <2>1. \A w \in Worker : worker'[w] = Idle
      BY <1>6 DEF Crash
    <2> QED
      BY <2>1 DEF AwaitInv, JoinersAreAwaited, CopiesArePending, CopyPending, At, Idle
  <1>7. ASSUME NEW w \in Worker, Step(w)
        PROVE  AwaitInv'
    BY <1>7, StepAwaits
  <1>8. ASSUME NEW o \in Order, NEW c, CreateOrder(o, c) \/ CustomerPays(o) \/ ProviderEndsRefund(o)
        PROVE  AwaitInv'
    BY <1>1, <1>8 DEF CreateOrder, CustomerPays, ProviderEndsRefund
  <1> QED
    BY <1>1, <1>3, <1>4, <1>5, <1>6, <1>7, <1>8 DEF Next, vars

\* The invariant of who waits for whose query.
LEMMA AwaitInvHolds == Spec => [](TypeOK /\ AwaitInv)
  <1>1. Init => TypeOK /\ AwaitInv
    <2>1. Init => TypeOK
      BY StockAssumption, CrashAssumption
      DEF Init, TypeOK, Row, NoRow, Status, Refund, CouponStatus
    <2>2. Init => AwaitInv
      BY DEF Init, AwaitInv, JoinersAreAwaited, CopiesArePending, CopyPending, At, Idle
    <2> QED
      BY <2>1, <2>2
  <1>2. TypeOK /\ AwaitInv /\ [Next]_vars => (TypeOK /\ AwaitInv)'
    BY NextType, NextAwaits
  <1> QED
    BY <1>1, <1>2, PTL DEF Spec

\* attempt_recovery: whoever joined the query of another session waits for a
\* query that runs, whatever answers, refunds and restarts come in between.
THEOREM JoinersHaveAQuery == Spec => []JoinersAreAwaited
  <1>1. AwaitInv => JoinersAreAwaited
    BY DEF AwaitInv
  <1> QED
    BY <1>1, AwaitInvHolds, PTL

(***************************************************************************)
(* Stock                                                                   *)
(*                                                                         *)
(* A step that takes a unit adds the order it takes it for, and one that   *)
(* ends an order gives a unit back; the others end none.                   *)
(***************************************************************************)

Holding(r) == r.st \notin {"absent"} \cup Terminal

\* NoStockLost needs the open orders to be finitely many.
StockInv == IsFiniteSet(OpenOrders) /\ NoStockLost

\* Orders are opened and none is ended.
LEMMA NoneEnds ==
  ASSUME TypeOK, TypeOK', StockInv, UNCHANGED stock, NEW o \in Order,
         \A p \in Order \ {o} : row'[p].st = row[p].st,
         Holding(row[o]) => Holding(row'[o])
  PROVE  StockInv'
  <1>1. OpenOrders' = OpenOrders \/ OpenOrders' = OpenOrders \cup {o}
    BY DEF OpenOrders, Holding
  <1>2. /\ IsFiniteSet(OpenOrders \cup {o})
        /\ Cardinality(OpenOrders \cup {o}) \in
             {Cardinality(OpenOrders), Cardinality(OpenOrders) + 1}
    BY FS_AddElement DEF StockInv
  <1>3. Cardinality(OpenOrders) \in Nat
    BY FS_CardinalityType DEF StockInv
  <1>4. /\ IsFiniteSet(OpenOrders')
        /\ Cardinality(OpenOrders') >= Cardinality(OpenOrders)
        /\ Cardinality(OpenOrders') \in Nat
    <2>1. CASE OpenOrders' = OpenOrders
      BY <1>3, <2>1 DEF StockInv
    <2>2. CASE OpenOrders' = OpenOrders \cup {o}
      BY <1>2, <1>3, <2>2
    <2> QED
      BY <1>1, <2>1, <2>2
  <1>5. InitStock \in Nat /\ stock \in Nat
    BY StockAssumption DEF TypeOK
  <1> QED
    BY <1>3, <1>4, <1>5 DEF StockInv, NoStockLost

\* A step that leaves every status alone.
LEMMA StatusesKept ==
  ASSUME StockInv, UNCHANGED stock, \A p \in Order : row'[p].st = row[p].st
  PROVE  StockInv'
  <1>1. OpenOrders' = OpenOrders
    BY DEF OpenOrders
  <1> QED
    BY <1>1 DEF StockInv, NoStockLost

\* One order ends, perhaps again, and its unit goes back.
LEMMA OneEnds ==
  ASSUME TypeOK, StockInv, NEW o \in Order, NEW s \in Terminal, Terminate(o, s)
  PROVE  StockInv'
  <1>0. row'[o].st = s /\ \A p \in Order \ {o} : row'[p] = row[p]
    BY DEF Terminate, TypeOK, Row
  <1>1. OpenOrders' = OpenOrders \ {o}
    BY <1>0 DEF OpenOrders
  <1>2. /\ IsFiniteSet(OpenOrders \ {o})
        /\ Cardinality(OpenOrders \ {o}) \in
             {Cardinality(OpenOrders), Cardinality(OpenOrders) - 1}
    BY FS_RemoveElement DEF StockInv
  <1>3. Cardinality(OpenOrders) \in Nat /\ InitStock \in Nat /\ stock \in Nat
    BY FS_CardinalityType, StockAssumption DEF StockInv, TypeOK
  <1>4. stock' = stock + 1
    BY DEF Terminate
  <1> QED
    BY <1>1, <1>2, <1>3, <1>4 DEF StockInv, NoStockLost

\* create_order takes a unit for the order it opens.
LEMMA OneOpens ==
  ASSUME TypeOK, StockInv, NEW o \in Order, NEW c, CreateOrder(o, c)
  PROVE  StockInv'
  <1>1. OpenOrders' = OpenOrders \cup {o} /\ o \notin OpenOrders
    BY DEF OpenOrders, CreateOrder, Terminal, TypeOK
  <1>2. /\ IsFiniteSet(OpenOrders \cup {o})
        /\ Cardinality(OpenOrders \cup {o}) = Cardinality(OpenOrders) + 1
    BY <1>1, FS_AddElement DEF StockInv
  <1>3. Cardinality(OpenOrders) \in Nat /\ InitStock \in Nat /\ stock \in Nat
    BY FS_CardinalityType, StockAssumption DEF StockInv, TypeOK
  <1>4. stock' = stock - 1
    BY DEF CreateOrder
  <1> QED
    BY <1>1, <1>2, <1>3, <1>4 DEF StockInv, NoStockLost

\* Applying or booking a payment ends no order.
LEMMA PaymentKeepsStock ==
  ASSUME TypeOK, TypeOK', StockInv, NEW o \in Order, NEW b,
         PaymentSuccess(o, b) \/ RecordLatePayment(o)
  PROVE  StockInv'
  <1>1. UNCHANGED stock /\ \A p \in Order \ {o} : row'[p].st = row[p].st
    BY DEF PaymentSuccess, RecordLatePayment, TypeOK
  <1>2. Holding(row[o]) => Holding(row'[o])
    BY DEF PaymentSuccess, RecordLatePayment, TypeOK, Row, Holding, Terminal
  <1> QED
    BY <1>1, <1>2, NoneEnds

\* A refund leaves the status of every order alone.
LEMMA RefundKeepsStock ==
  ASSUME TypeOK, StockInv, NEW w, NEW op, NEW o \in Order, NEW b, NEW answer,
         UNCHANGED stock,
         RefundSucceeds(w, op, o, b) \/ RefundUnfinished(w, o, b, answer)
  PROVE  StockInv'
  <1>1. row' = row \/ \E r : row' = [row EXCEPT ![o].refund = r]
    BY DEF RefundSucceeds, RefundUnfinished
  <1>2. \A p \in Order : row'[p].st = row[p].st
    BY <1>1 DEF TypeOK, Row
  <1> QED
    BY <1>2, StatusesKept

\* What a session does with its job loses no unit.
LEMMA StepKeepsStock ==
  ASSUME TypeOK, TypeOK', StockInv, NEW w \in Worker, Step(w)
  PROVE  StockInv'
  <1> DEFINE o == worker[w].o
  <1>b. Busy(w)
    BY DEF Step, OpenPayment, SkipRecovery, JoinRecovery, StartQuery, QueryFails,
      QueryNotPaid, QuerySucceeds, ApplyTerminal, ApplyAlreadyPaid, ApplyFails, ApplyPayment,
      CustomerCancels, StaleOrderCancels, MerchantEnds, MerchantAdvances, Refused,
      RefundsLatePayment, NoRefundNeeded, RecordsRefund, At, Busy
  <1>o. o \in Order
    BY <1>b, BusyHasJob DEF Job
  <1>1. CASE \/ OpenPayment(w) \/ SkipRecovery(w) \/ JoinRecovery(w) \/ StartQuery(w)
             \/ QueryFails(w) \/ QueryNotPaid(w) \/ QuerySucceeds(w)
             \/ ApplyAlreadyPaid(w) \/ ApplyFails(w) \/ Refused(w) \/ NoRefundNeeded(w)
    <2>1. UNCHANGED <<row, stock>>
      BY <1>1 DEF OpenPayment, SkipRecovery, JoinRecovery, StartQuery, QueryFails,
        QueryNotPaid, QuerySucceeds, ApplyAlreadyPaid, ApplyFails, Refused, NoRefundNeeded
    <2> QED
      BY <2>1, StatusesKept
  <1>2. CASE ApplyTerminal(w) \/ ApplyPayment(w)
    BY <1>2, <1>o, PaymentKeepsStock DEF ApplyTerminal, ApplyPayment
  <1>3. CASE CustomerCancels(w) \/ StaleOrderCancels(w) \/ MerchantEnds(w)
    <2>1. \E s \in Terminal : Terminate(o, s)
      BY <1>3 DEF CustomerCancels, StaleOrderCancels, MerchantEnds, Terminal
    <2> QED
      BY <2>1, <1>o, OneEnds
  <1>4. CASE MerchantAdvances(w)
    <2>1. /\ UNCHANGED stock
          /\ row' = [row EXCEPT ![o].st = worker[w].op]
          /\ worker[w].op \in MerchantOp \ Terminal
      BY <1>4 DEF MerchantAdvances
    <2>2. \A p \in Order \ {o} : row'[p].st = row[p].st
      BY <2>1 DEF TypeOK
    <2>3. Holding(row'[o])
      BY <1>o, <2>1 DEF TypeOK, Row, Holding, MerchantOp, Terminal
    <2> QED
      BY <1>o, <2>1, <2>2, <2>3, NoneEnds
  <1>5. CASE RefundsLatePayment(w)
    BY <1>5, <1>o, RefundKeepsStock DEF RefundsLatePayment, RefundPayment
  <1>6. CASE RecordsRefund(w)
    <2>1. UNCHANGED stock /\ \A p \in Order : row'[p].st = row[p].st
      BY <1>6, <1>o DEF RecordsRefund, TypeOK, Row
    <2> QED
      BY <2>1, StatusesKept
  <1> QED
    BY <1>1, <1>2, <1>3, <1>4, <1>5, <1>6 DEF Step

\* No step loses a unit.
LEMMA NextKeepsStock ==
  ASSUME TypeOK, TypeOK', StockInv, [Next]_vars
  PROVE  StockInv'
  <1>1. CASE UNCHANGED <<row, stock>>
    BY <1>1, StatusesKept
  <1>2. ASSUME NEW o \in Order, NEW c, CreateOrder(o, c)
        PROVE  StockInv'
    BY <1>2, OneOpens
  <1>3. ASSUME NEW o \in Order, NEW w \in Worker, Notify(w, o)
        PROVE  StockInv'
    BY <1>3, PaymentKeepsStock DEF Notify
  <1>4. ASSUME NEW o \in Order, NEW w \in Worker, MerchantRefunds(w, o) \/ ReconcilesRefund(w, o)
        PROVE  StockInv'
    BY <1>4, RefundKeepsStock DEF MerchantRefunds, ReconcilesRefund, RefundPayment
  <1>5. ASSUME NEW w \in Worker, Step(w)
        PROVE  StockInv'
    BY <1>5, StepKeepsStock
  <1>6. ASSUME NEW o \in Order, NEW w \in Worker, NEW op \in Op, Discover(w, op, o)
        PROVE  StockInv'
    BY <1>1, <1>6 DEF Discover
  <1>7. CASE Crash
    BY <1>1, <1>7 DEF Crash
  <1>8. CASE UNCHANGED vars
    BY <1>1, <1>8 DEF vars
  <1>9. ASSUME NEW o \in Order, CustomerPays(o) \/ ProviderEndsRefund(o)
        PROVE  StockInv'
    BY <1>1, <1>9 DEF CustomerPays, ProviderEndsRefund
  <1> QED
    BY <1>2, <1>3, <1>4, <1>5, <1>6, <1>7, <1>8, <1>9 DEF Next

\* order_stock_service: every unit taken is in stock again or belongs to an order
\* that has not ended, for any number of orders, sessions and units.
THEOREM NoUnitIsLost == Spec => []NoStockLost
  <1>1. Init => TypeOK /\ StockInv
    <2>1. Init => TypeOK
      BY StockAssumption, CrashAssumption
      DEF Init, TypeOK, Row, NoRow, Status, Refund, CouponStatus
    <2>2. ASSUME Init
          PROVE  StockInv
      <3>1. OpenOrders = {}
        BY <2>2 DEF Init, OpenOrders, NoRow
      <3> QED
        BY <2>2, <3>1, FS_EmptySet, StockAssumption DEF Init, StockInv, NoStockLost
    <2> QED
      BY <2>1, <2>2
  <1>2. TypeOK /\ StockInv /\ [Next]_vars => (TypeOK /\ StockInv)'
    BY NextType, NextKeepsStock
  <1>3. StockInv => NoStockLost
    BY DEF StockInv
  <1> QED
    BY <1>1, <1>2, <1>3, PTL DEF Spec
=============================================================================
