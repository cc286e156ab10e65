------------------------ MODULE OrderPaymentRefinement ------------------------
(***************************************************************************)
(* OrderPayment implements MoneyLedger: its initial states are initial     *)
(* ledgers, and each of its steps is a step of the ledger or none.  What   *)
(* its sessions assume of the recovery gate is SingleQuery, likewise.      *)
(***************************************************************************)
EXTENDS OrderPaymentInvariance

\* The facts about order o the ledger is made of are those of the row.
Untouched(o) ==
  /\ wx'[o] = "paid" <=> wx[o] = "paid"
  /\ row'[o].pay = row[o].pay
  /\ row'[o].st \in Kitchen <=> row[o].st \in Kitchen
  /\ rf'[o] # "none" <=> rf[o] # "none"

LedgerStep == [Ledger!Next]_(Ledger!vars)

\* A step that changes none of these facts is no step of the ledger.
LEMMA Stutters ==
  ASSUME \A o \in Order : Untouched(o)
  PROVE  LedgerStep
  BY DEF LedgerStep, Untouched, Ledger!vars

\* A step that changes these facts of one order only.
LEMMA OneOrder ==
  ASSUME NEW o \in Order, \A p \in Order \ {o} : Untouched(p),
         \* captured
         \/ /\ wx'[o] = "paid" /\ row'[o] = row[o] /\ rf'[o] = rf[o]
         \* booked
         \/ /\ wx[o] = "paid" /\ wx'[o] = "paid" /\ row'[o].pay = "paid"
            /\ row'[o].st \in Kitchen \/ row'[o].st = row[o].st
            /\ rf'[o] = rf[o]
         \* cooked
         \/ /\ row[o].pay = "paid" /\ row'[o].pay = "paid" /\ row'[o].st \in Kitchen
            /\ wx'[o] = wx[o] /\ rf'[o] = rf[o]
         \* stopped
         \/ /\ row'[o].pay = row[o].pay /\ row'[o].st \notin Kitchen
            /\ wx'[o] = wx[o] /\ rf'[o] = rf[o]
         \* returned
         \/ /\ row[o].pay = "paid" /\ row'[o].pay = "paid" /\ row'[o].st = row[o].st
            /\ wx'[o] = wx[o] /\ (rf'[o] = "none" => rf[o] = "none")
  PROVE  LedgerStep
  <1>1. CASE wx'[o] = "paid" /\ row'[o] = row[o] /\ rf'[o] = rf[o]
    <2>1. Ledger!Capture(o)
      BY <1>1 DEF Ledger!Capture, Untouched
    <2> QED
      BY <2>1 DEF LedgerStep, Ledger!Next
  <1>2. CASE /\ wx[o] = "paid" /\ wx'[o] = "paid" /\ row'[o].pay = "paid"
             /\ row'[o].st \in Kitchen \/ row'[o].st = row[o].st
             /\ rf'[o] = rf[o]
    <2>1. Ledger!Book(o)
      <3>1. CASE row'[o].st \in Kitchen
        BY <1>2, <3>1 DEF Ledger!Book, Untouched
      <3>2. CASE row'[o].st = row[o].st
        BY <1>2, <3>2 DEF Ledger!Book, Untouched
      <3> QED
        BY <1>2, <3>1, <3>2
    <2> QED
      BY <2>1 DEF LedgerStep, Ledger!Next
  <1>3. CASE /\ row[o].pay = "paid" /\ row'[o].pay = "paid" /\ row'[o].st \in Kitchen
             /\ wx'[o] = wx[o] /\ rf'[o] = rf[o]
    <2>1. Ledger!Cook(o)
      BY <1>3 DEF Ledger!Cook, Untouched
    <2> QED
      BY <2>1 DEF LedgerStep, Ledger!Next
  <1>4. CASE /\ row'[o].pay = row[o].pay /\ row'[o].st \notin Kitchen
             /\ wx'[o] = wx[o] /\ rf'[o] = rf[o]
    <2>1. Ledger!Stop(o)
      BY <1>4 DEF Ledger!Stop, Untouched
    <2> QED
      BY <2>1 DEF LedgerStep, Ledger!Next
  <1>5. CASE /\ row[o].pay = "paid" /\ row'[o].pay = "paid" /\ row'[o].st = row[o].st
             /\ wx'[o] = wx[o] /\ (rf'[o] = "none" => rf[o] = "none")
    <2>1. CASE Untouched(o)
      BY <2>1, Stutters
    <2>2. CASE ~ Untouched(o)
      <3>1. rf[o] = "none" /\ rf'[o] # "none"
        BY <1>5, <2>2 DEF Untouched
      <3>2. Ledger!Return(o)
        BY <1>5, <3>1 DEF Ledger!Return, Untouched
      <3> QED
        BY <3>2 DEF LedgerStep, Ledger!Next
    <2> QED
      BY <2>1, <2>2
  <1> QED
    BY <1>1, <1>2, <1>3, <1>4, <1>5

\* Recording a refund changes neither status nor payment status.
LEMMA RefundKeepsRow ==
  ASSUME TypeOK, NEW w, NEW op, NEW o \in Order, NEW b,
         RefundSucceeds(w, op, o, b) \/ \E answer : RefundUnfinished(w, o, b, answer)
  PROVE  \A p \in Order : row'[p].pay = row[p].pay /\ row'[p].st = row[p].st
  <1>1. CASE RefundSucceeds(w, op, o, b)
    BY <1>1 DEF RefundSucceeds, TypeOK, Row
  <1>2. CASE \E answer : RefundUnfinished(w, o, b, answer)
    BY <1>2 DEF RefundUnfinished, TypeOK, Row
  <1> QED
    BY <1>1, <1>2

\* A refund is sent back once, and only for a booked payment.
LEMMA RefundRefines ==
  ASSUME TypeOK, NEW w \in Worker, NEW op, NEW o \in Order, NEW b \in Row,
         CopyBacked(o, b), RefundPayment(w, op, o, b)
  PROVE  LedgerStep
  <1>1. PICK out \in Outcomes(rf[o]) :
          /\ rf' = [rf EXCEPT ![o] = out[1]]
          /\ IF out[2] = "success" THEN RefundSucceeds(w, op, o, b)
             ELSE RefundUnfinished(w, o, b, out[2])
    BY DEF RefundPayment
  <1>2. /\ \A p \in Order : row'[p].pay = row[p].pay /\ row'[p].st = row[p].st
        /\ UNCHANGED wx /\ row[o].pay = "paid"
    BY <1>1, RefundKeepsRow DEF RefundPayment, MayRefund, CopyBacked
  <1>3. /\ rf'[o] = "none" => rf[o] = "none"
        /\ \A p \in Order \ {o} : rf'[p] = rf[p]
    BY <1>1 DEF Outcomes, Accepted, TypeOK
  <1> QED
    BY <1>2, <1>3, OneOrder DEF Untouched

\* The steps of a session with a job.
LEMMA StepRefines ==
  ASSUME Inv, NEW w \in Worker, Step(w)
  PROVE  LedgerStep
  <1>t. TypeOK /\ Strong
    BY InvParts DEF Strong
  <1>b. Busy(w)
    BY DEF Step, OpenPayment, SkipRecovery, JoinRecovery, StartQuery, QueryFails,
      QueryNotPaid, QuerySucceeds, ApplyTerminal, ApplyAlreadyPaid, ApplyFails, ApplyPayment,
      CustomerCancels, StaleOrderCancels, MerchantEnds, MerchantAdvances, Refused,
      RefundsLatePayment, NoRefundNeeded, RecordsRefund, At, Busy
  <1>o. PICK o \in Order, b \in Row : o = worker[w].o /\ b = Loaded(w)
    BY <1>t, <1>b, LoadedIsRow, BusyHasJob DEF Job
  <1>c. row[o].st # "absent" /\ CopyBacked(o, b) /\ JobBacked(worker[w])
    BY <1>t, <1>b, <1>o, LoadedBacked DEF Strong, JobsAreBacked
  <1>1. CASE OpenPayment(w)
    <2>1. \A p \in Order : wx'[p] = "paid" <=> wx[p] = "paid"
      BY <1>t, <1>1 DEF OpenPayment, TypeOK
    <2> QED
      BY <1>1, <2>1, Stutters DEF OpenPayment, Untouched
  <1>2. CASE \/ SkipRecovery(w) \/ JoinRecovery(w) \/ StartQuery(w) \/ QueryFails(w)
             \/ QueryNotPaid(w) \/ QuerySucceeds(w) \/ ApplyAlreadyPaid(w) \/ ApplyFails(w)
             \/ Refused(w) \/ NoRefundNeeded(w)
    <2>1. UNCHANGED <<row, wx, rf>>
      BY <1>2 DEF SkipRecovery, JoinRecovery, StartQuery, QueryFails, QueryNotPaid,
        QuerySucceeds, ApplyAlreadyPaid, ApplyFails, Refused, NoRefundNeeded, provider
    <2> QED
      BY <2>1, Stutters DEF Untouched
  <1>3. CASE ApplyTerminal(w) \/ ApplyPayment(w)
    <2>1. wx[o] = "paid" /\ UNCHANGED <<wx, rf>>
      BY <1>b, <1>c, <1>o, <1>3
      DEF JobBacked, Busy, At, ApplyTerminal, ApplyPayment, provider
    <2>2. /\ row'[o].pay = "paid" /\ (row'[o].st \in Kitchen \/ row'[o].st = row[o].st)
          /\ \A p \in Order \ {o} : row'[p] = row[p]
      <3>1. CASE ApplyTerminal(w)
        BY <1>t, <1>o, <3>1 DEF ApplyTerminal, RecordLatePayment, TypeOK, Row
      <3>2. CASE ApplyPayment(w)
        BY <1>t, <1>o, <3>2 DEF ApplyPayment, PaymentSuccess, TypeOK, Row, Kitchen
      <3> QED
        BY <1>3, <3>1, <3>2
    <2> QED
      BY <2>1, <2>2, OneOrder DEF Untouched
  <1>4. CASE CustomerCancels(w) \/ StaleOrderCancels(w) \/ MerchantEnds(w)
    <2>1. UNCHANGED <<wx, rf>> /\ \E s \in Terminal : Terminate(o, s)
      BY <1>o, <1>4
      DEF CustomerCancels, StaleOrderCancels, MerchantEnds, provider, Terminal
    <2>2. /\ row'[o].pay = row[o].pay /\ row'[o].st \notin Kitchen
          /\ \A p \in Order \ {o} : row'[p] = row[p]
      BY <1>t, <2>1 DEF Terminate, TypeOK, Row, Terminal, Kitchen
    <2> QED
      BY <2>1, <2>2, OneOrder DEF Untouched
  <1>5. CASE MerchantAdvances(w)
    <2>1. worker[w].op \in Kitchen /\ b.st \in Kitchen /\ UNCHANGED <<wx, rf>>
      BY <1>o, <1>5
      DEF MerchantAdvances, MerchantMay, MerchantOp, Terminal, Allowed, Kitchen, provider
    <2>2. row[o].pay = "paid"
      BY <1>c, <2>1 DEF CopyBacked, Row, Kitchen
    <2>3. /\ row'[o].pay = row[o].pay /\ row'[o].st \in Kitchen
          /\ \A p \in Order \ {o} : row'[p] = row[p]
      BY <1>t, <1>o, <1>5, <2>1 DEF MerchantAdvances, TypeOK, Row
    <2> QED
      BY <2>1, <2>2, <2>3, OneOrder DEF Untouched
  <1>6. CASE RefundsLatePayment(w)
    BY <1>t, <1>o, <1>c, <1>6, RefundRefines DEF RefundsLatePayment
  <1>7. CASE RecordsRefund(w)
    <2>1. /\ \A p \in Order : row'[p].pay = row[p].pay /\ row'[p].st = row[p].st
          /\ UNCHANGED <<wx, rf>>
      BY <1>t, <1>7 DEF RecordsRefund, TypeOK, Row, provider
    <2> QED
      BY <2>1, Stutters DEF Untouched
  <1> QED
    BY <1>1, <1>2, <1>3, <1>4, <1>5, <1>6, <1>7 DEF Step

\* Every step of the system is a step of the ledger, or none.
LEMMA NextRefines ==
  ASSUME Inv, [Next]_vars
  PROVE  LedgerStep
  <1>t. TypeOK /\ Strong
    BY InvParts DEF Strong
  <1>1. ASSUME NEW o \in Order, NEW c \in Coupon \cup {NoCoupon}, CreateOrder(o, c)
        PROVE  LedgerStep
    <2>1. /\ row[o].st = "absent" /\ row[o].pay = "unpaid"
          /\ row'[o].st = "pending_payment" /\ row'[o].pay = "unpaid"
          /\ \A p \in Order \ {o} : row'[p] = row[p]
          /\ UNCHANGED <<wx, rf>>
      BY <1>1, <1>t
      DEF CreateOrder, TypeOK, Strong, Books, Consistent, provider
    <2> QED
      BY <2>1, Stutters DEF Untouched, Kitchen
  <1>2. ASSUME NEW o \in Order, CustomerPays(o)
        PROVE  LedgerStep
    BY <1>2, <1>t, OneOrder DEF CustomerPays, Untouched, TypeOK
  <1>3. ASSUME NEW o \in Order, ProviderEndsRefund(o)
        PROVE  LedgerStep
    BY <1>3, <1>t, Stutters DEF ProviderEndsRefund, Untouched, TypeOK
  <1>4. ASSUME NEW o \in Order, NEW w \in Worker, NEW op \in Op, Discover(w, op, o)
        PROVE  LedgerStep
    BY <1>4, Stutters DEF Discover, Untouched, provider
  <1>5. ASSUME NEW o \in Order, NEW w \in Worker, Notify(w, o)
        PROVE  LedgerStep
    <2>1. /\ row'[o].pay = "paid" /\ (row'[o].st \in Kitchen \/ row'[o].st = row[o].st)
          /\ \A p \in Order \ {o} : row'[p] = row[p]
      BY <1>5, <1>t DEF Notify, PaymentSuccess, RecordLatePayment, TypeOK, Row, Kitchen
    <2>2. wx[o] = "paid" /\ UNCHANGED <<wx, rf>>
      BY <1>5 DEF Notify, Confirmed, provider
    <2> QED
      BY <2>1, <2>2, OneOrder DEF Untouched
  <1>6. ASSUME NEW o \in Order, NEW w \in Worker, MerchantRefunds(w, o)
        PROVE  LedgerStep
    <2>1. CopyBacked(o, row[o]) /\ row[o] \in Row
      BY <1>6, <1>t
      DEF MerchantRefunds, RefundPayment, MayRefund, CopyBacked, Terminal, Kitchen, TypeOK
    <2> QED
      BY <1>6, <1>t, <2>1, RefundRefines DEF MerchantRefunds
  <1>7. ASSUME NEW o \in Order, NEW w \in Worker, ReconcilesRefund(w, o)
        PROVE  LedgerStep
    <2>1. /\ \A p \in Order : row'[p].pay = row[p].pay /\ row'[p].st = row[p].st
          /\ UNCHANGED <<wx, rf>>
      BY <1>7, <1>t, RefundKeepsRow DEF ReconcilesRefund, provider
    <2> QED
      BY <2>1, Stutters DEF Untouched
  <1>8. CASE Crash
    <2>1. CASE UNCHANGED rf
      BY <1>8, <2>1, Stutters DEF Crash, Untouched
    <2>2. CASE rf' # rf
      <3>1. PICK o \in Order : /\ MayRefund(row[o]) /\ rf[o] = "none"
                               /\ \E s \in Accepted(rf[o]) : rf' = [rf EXCEPT ![o] = s]
        BY <1>8, <2>2 DEF Crash
      <3>2. rf'[o] # "none" /\ \A p \in Order \ {o} : rf'[p] = rf[p]
        BY <1>t, <3>1 DEF TypeOK, Accepted
      <3> QED
        BY <1>8, <3>1, <3>2, OneOrder DEF Crash, MayRefund, Untouched
    <2> QED
      BY <2>1, <2>2
  <1>9. CASE UNCHANGED vars
    BY <1>9, Stutters DEF vars, Untouched
  <1> QED
    BY <1>1, <1>2, <1>3, <1>4, <1>5, <1>6, <1>7, <1>8, <1>9, StepRefines DEF Next

\* The system keeps the promises of the ledger.
THEOREM Implements == Spec => ImplementsLedger
  <1>1. Init => Ledger!Init
    BY DEF Init, Ledger!Init, NoRow, Kitchen
  <1>2. Inv /\ [Next]_vars => [Ledger!Next]_(Ledger!vars)
    BY NextRefines DEF LedgerStep
  <1> QED
    BY <1>1, <1>2, Invariance, PTL DEF Spec, Ledger!Spec, ImplementsLedger

(***************************************************************************)
(* What the sessions assume of the gate                                    *)
(*                                                                         *)
(* A session's step keeps what it executes, begins or joins a query, or    *)
(* answers; a query begins only where none runs, so each has one executor. *)
(***************************************************************************)

GateStep == [Gate!Next]_(Gate!vars)

OneExecutor ==
  \A o \in Order : \A v, w \in Worker : Executing(v, o) /\ Executing(w, o) => v = w

\* Job j waits for the query of order o.
Awaits(j, o) == j.pc = "join" /\ j.o = o

\* One order's sessions change.
LEMMA OneSetChanged ==
  ASSUME NEW F \in [Order -> SUBSET Worker], NEW G \in [Order -> SUBSET Worker],
         NEW o \in Order, NEW s,
         \A p \in Order : G[p] = IF p = o THEN s ELSE F[p]
  PROVE  G = [F EXCEPT ![o] = s]
  OBVIOUS

\* The mapped variables, now and after a step, by the jobs of the sessions.
LEMMA GateVariables ==
  /\ Running \in [Order -> SUBSET Worker] /\ Joined \in [Order -> SUBSET Worker]
  /\ Running' \in [Order -> SUBSET Worker] /\ Joined' \in [Order -> SUBSET Worker]
  /\ \A o \in Order : /\ Running[o] = {w \in Worker : Executes(worker[w], o)}
                      /\ Running'[o] = {w \in Worker : Executes(worker'[w], o)}
                      /\ Joined[o] = {w \in Worker : Awaits(worker[w], o)}
                      /\ Joined'[o] = {w \in Worker : Awaits(worker'[w], o)}
  BY DEF Running, Joined, Executing, Executes, Awaits, At, Busy

\* A step that changes nobody's part in a query.
LEMMA GateKept ==
  ASSUME \A w \in Worker, o \in Order : /\ Executes(worker[w], o) <=> Executes(worker'[w], o)
                                        /\ Awaits(worker[w], o) <=> Awaits(worker'[w], o)
  PROVE  GateStep
  <1>1. ASSUME NEW o \in Order
        PROVE  Running'[o] = Running[o] /\ Joined'[o] = Joined[o]
    <2>1. {w \in Worker : Executes(worker[w], o)} = {w \in Worker : Executes(worker'[w], o)}
      OBVIOUS
    <2>2. {w \in Worker : Awaits(worker[w], o)} = {w \in Worker : Awaits(worker'[w], o)}
      OBVIOUS
    <2> QED
      BY <2>1, <2>2, GateVariables
  <1>2. Running' = Running /\ Joined' = Joined
    BY <1>1, GateVariables
  <1> QED
    BY <1>2 DEF GateStep, Gate!vars

\* A session that goes on to job, outside the gate's queues or as it was.
LEMMA GoesOn ==
  ASSUME TypeOK, NEW w \in Worker, NEW job, worker' = [worker EXCEPT ![w] = job],
         \A o \in Order : Executes(worker[w], o) <=> Executes(job, o),
         worker[w].pc # "join", job.pc # "join"
  PROVE  GateStep
  <1>1. worker'[w] = job /\ \A v \in Worker \ {w} : worker'[v] = worker[v]
    BY DEF TypeOK
  <1>2. \A v \in Worker, o \in Order : /\ Executes(worker[v], o) <=> Executes(worker'[v], o)
                                       /\ Awaits(worker[v], o) <=> Awaits(worker'[v], o)
    BY <1>1 DEF Awaits
  <1> QED
    BY <1>2, GateKept

\* An executor that answers ends its query for everybody who joined it.
LEMMA Answers ==
  ASSUME TypeOK, OneExecutor, NEW w \in Worker, NEW o \in Order, o = worker[w].o,
         Executes(worker[w], o), NEW job, NEW recovered, Answer(w, job, recovered),
         job.pc \in {"idle", "ready"}
  PROVE  GateStep
  <1>1. \A v \in Worker : Executes(worker[v], o) => v = w
    BY DEF OneExecutor, Executing, Executes, Busy
  <1>2. ASSUME NEW v \in Worker \ {w}, Awaits(worker[v], o)
        PROVE  worker'[v].pc \in {"idle", "ready"}
    <2>1. worker[v] \in Job
      BY <1>2, BusyHasJob DEF Awaits, Busy
    <2>2. worker'[v] \in {Idle, [worker[v] EXCEPT !.pc = "ready"]}
      BY <1>2 DEF Answer, Awaits, At
    <2> QED
      BY <2>1, <2>2 DEF Job, Idle
  <1>3. \A v \in Worker \ {w} : ~ Awaits(worker[v], o) => worker'[v] = worker[v]
    BY DEF Answer, Awaits, At
  <1>4. worker'[w] = job /\ worker[w].pc # "join"
    BY DEF Answer, Executes
  <1>5. /\ \A v \in Worker : worker'[v].pc \in {"idle", "ready"}
                               \/ (v # w /\ worker'[v] = worker[v])
        /\ \A v \in Worker : Executes(worker[v], o) \/ Awaits(worker[v], o)
                               => worker'[v].pc \in {"idle", "ready"}
    BY <1>1, <1>2, <1>3, <1>4
  <1>6. ASSUME NEW j, j.pc \in {"idle", "ready"}, NEW p
        PROVE  ~ Executes(j, p) /\ ~ Awaits(j, p)
    BY <1>6 DEF Executes, Awaits
  <1>7. ASSUME NEW v \in Worker, NEW p \in Order \ {o}
        PROVE  /\ Executes(worker[v], p) <=> Executes(worker'[v], p)
               /\ Awaits(worker[v], p) <=> Awaits(worker'[v], p)
    <2>1. CASE worker'[v] = worker[v]
      BY <2>1
    <2>2. CASE worker'[v] # worker[v]
      <3>1. v = w \/ Awaits(worker[v], o)
        BY <1>3, <2>2
      <3>2. worker[v].o = o
        BY <3>1 DEF Awaits
      <3>3. ~ Executes(worker[v], p) /\ ~ Awaits(worker[v], p)
        BY <1>7, <3>2 DEF Executes, Awaits
      <3>4. worker'[v].pc \in {"idle", "ready"}
        BY <1>5, <2>2
      <3> QED
        BY <1>6, <3>3, <3>4
    <2> QED
      BY <2>1, <2>2
  <1>8. \A v \in Worker : ~ Executes(worker'[v], o) /\ ~ Awaits(worker'[v], o)
    BY <1>1, <1>5, <1>6
  <1>9. ASSUME NEW p \in Order
        PROVE  /\ Running'[p] = IF p = o THEN {} ELSE Running[p]
               /\ Joined'[p] = IF p = o THEN {} ELSE Joined[p]
    <2>1. CASE p = o
      <3>1. /\ {v \in Worker : Executes(worker'[v], o)} = {}
            /\ {v \in Worker : Awaits(worker'[v], o)} = {}
        BY <1>8
      <3> QED
        BY <2>1, <3>1, GateVariables
    <2>2. CASE p # o
      <3>1. {v \in Worker : Executes(worker[v], p)} = {v \in Worker : Executes(worker'[v], p)}
        BY <1>7, <2>2
      <3>2. {v \in Worker : Awaits(worker[v], p)} = {v \in Worker : Awaits(worker'[v], p)}
        BY <1>7, <2>2
      <3> QED
        BY <2>2, <3>1, <3>2, GateVariables
    <2> QED
      BY <2>1, <2>2
  <1>10. Running[o] # {}
    BY GateVariables
  <1>11. Gate!Answer(o)
    BY <1>9, <1>10, OneSetChanged, GateVariables DEF Gate!Answer
  <1> QED
    BY <1>11 DEF GateStep, Gate!Next

\* A session that joins the query of another, or begins one.
LEMMA Enters ==
  ASSUME TypeOK, NEW w \in Worker, JoinRecovery(w) \/ StartQuery(w)
  PROVE  GateStep
  <1> DEFINE o == worker[w].o
             pc == IF StartQuery(w) THEN "query" ELSE "join"
             job == [worker[w] EXCEPT !.pc = pc]
  <1>1. At(w, "gate") /\ (InFlight(o) <=> ~ StartQuery(w))
    BY DEF JoinRecovery, StartQuery
  <1>2. worker[w] \in Job /\ o \in Order
    BY <1>1, BusyHasJob DEF At, Busy, Job
  <1>3. worker' = [worker EXCEPT ![w] = job]
    BY DEF JoinRecovery, StartQuery, TypeOK
  <1>4. job.pc = pc /\ job.o = o /\ worker[w].pc = "gate"
    BY <1>1, <1>2 DEF Job, At
  <1> HIDE DEF job
  <1>5. worker'[w] = job /\ \A v \in Worker \ {w} : worker'[v] = worker[v]
    BY <1>3 DEF TypeOK
  <1>6. \A p \in Order : ~ Executes(worker[w], p) /\ ~ Awaits(worker[w], p)
    BY <1>4 DEF Executes, Awaits
  <1>7. Gate!Free(w)
    BY <1>6, GateVariables DEF Gate!Free
  <1>8. InFlight(o) <=> Running[o] # {}
    BY <1>2 DEF InFlight, Running
  <1>9. CASE StartQuery(w)
    <2>1. \A p \in Order : /\ Executes(job, p) <=> p = o
                           /\ ~ Awaits(job, p)
      BY <1>4, <1>9 DEF Executes, Awaits
    <2>2. \A p \in Order : Running'[p] = IF p = o THEN {w} ELSE Running[p]
      <3>1. \A v \in Worker : ~ Executes(worker[v], o)
        BY <1>1, <1>2, <1>8, <1>9, GateVariables
      <3>2. Running'[o] = {w}
        BY <1>2, <1>5, <2>1, <3>1, GateVariables
      <3>3. ASSUME NEW p \in Order \ {o}
            PROVE  Running'[p] = Running[p]
        <4>1. {v \in Worker : Executes(worker[v], p)} = {v \in Worker : Executes(worker'[v], p)}
          BY <1>5, <1>6, <2>1
        <4> QED
          BY <4>1, GateVariables
      <3> QED
        BY <3>2, <3>3
    <2>3. ASSUME NEW p \in Order
          PROVE  Joined'[p] = Joined[p]
      <3>1. {v \in Worker : Awaits(worker[v], p)} = {v \in Worker : Awaits(worker'[v], p)}
        BY <1>5, <1>6, <2>1
      <3> QED
        BY <3>1, GateVariables
    <2>4. /\ Running' = [Running EXCEPT ![o] = {w}]
          /\ Joined' = Joined
      BY <1>2, <2>2, <2>3, OneSetChanged, GateVariables
    <2>5. Gate!Begin(w, o)
      BY <1>1, <1>7, <1>8, <1>9, <2>4 DEF Gate!Begin
    <2> QED
      BY <1>2, <2>5 DEF GateStep, Gate!Next
  <1>10. CASE ~ StartQuery(w)
    <2>1. \A p \in Order : /\ Awaits(job, p) <=> p = o
                           /\ ~ Executes(job, p)
      BY <1>4, <1>10 DEF Executes, Awaits
    <2>2. \A p \in Order : Joined'[p] = IF p = o THEN Joined[p] \cup {w} ELSE Joined[p]
      <3>1. Joined'[o] = Joined[o] \cup {w}
        <4>1. {v \in Worker : Awaits(worker'[v], o)}
                = {v \in Worker : Awaits(worker[v], o)} \cup {w}
          BY <1>2, <1>5, <1>6, <2>1
        <4> QED
          BY <1>2, <4>1, GateVariables
      <3>2. ASSUME NEW p \in Order \ {o}
            PROVE  Joined'[p] = Joined[p]
        <4>1. {v \in Worker : Awaits(worker[v], p)} = {v \in Worker : Awaits(worker'[v], p)}
          BY <1>5, <1>6, <2>1
        <4> QED
          BY <4>1, GateVariables
      <3> QED
        BY <3>1, <3>2
    <2>3. ASSUME NEW p \in Order
          PROVE  Running'[p] = Running[p]
      <3>1. {v \in Worker : Executes(worker[v], p)} = {v \in Worker : Executes(worker'[v], p)}
        BY <1>5, <1>6, <2>1
      <3> QED
        BY <3>1, GateVariables
    <2>4. /\ Joined' = [Joined EXCEPT ![o] = @ \cup {w}]
          /\ Running' = Running
      BY <1>2, <2>2, <2>3, OneSetChanged, GateVariables
    <2>5. Gate!Join(w, o)
      BY <1>1, <1>7, <1>8, <1>10, <2>4 DEF Gate!Join
    <2> QED
      BY <1>2, <2>5 DEF GateStep, Gate!Next
  <1> QED
    BY <1>9, <1>10

\* A session that is in no query, and goes on outside the gate's queues.
LEMMA StaysOutside ==
  ASSUME TypeOK, NEW w \in Worker, NEW job, worker' = [worker EXCEPT ![w] = job],
         worker[w].pc \notin {"join", "query", "apply"}, job.pc \notin {"join", "query", "apply"},
         worker[w].op # "recover" \/ worker[w].pc \notin {"refund", "reversed"},
         job.op # "recover" \/ job.pc \notin {"refund", "reversed"}
  PROVE  GateStep
  BY GoesOn DEF Executes

\* The end of a refund ends the query it belongs to.
LEMMA FinishGate ==
  ASSUME TypeOK, OneExecutor, NEW w \in Worker, Finish(w),
         worker[w].pc \in {"refund", "reversed"}
  PROVE  GateStep
  <1>1. worker[w].o \in Order
    BY BusyHasJob DEF Busy, Job
  <1>2. CASE worker[w].op = "recover"
    <2>1. Executes(worker[w], worker[w].o)
      BY <1>2 DEF Executes
    <2> QED
      BY <1>1, <1>2, <2>1, Answers DEF Finish, Idle
  <1>3. CASE worker[w].op # "recover"
    BY <1>3, StaysOutside DEF Finish, Idle
  <1> QED
    BY <1>2, <1>3

\* A refund's outcome, in a recovery or on its own.
LEMMA RefundGate ==
  ASSUME TypeOK, OneExecutor, NEW w \in Worker, NEW op, NEW o \in Order, NEW b, NEW answer,
         RefundSucceeds(w, op, o, b) \/ RefundUnfinished(w, o, b, answer),
         Busy(w) => At(w, "refund") /\ op = worker[w].op /\ o = worker[w].o,
         ~ Busy(w) => op # "recover"
  PROVE  GateStep
  <1>1. CASE Busy(w) /\ Finish(w)
    BY <1>1, FinishGate DEF At
  <1>2. CASE UNCHANGED worker
    BY <1>2, GateKept
  <1>3. ASSUME NEW job, worker' = [worker EXCEPT ![w] = job],
               job.pc = "reversed", job.op = op, job.o = o
        PROVE  GateStep
    <2>1. worker[w].pc \in {"idle", "refund"}
      BY DEF At, Busy
    <2>2. \A p \in Order : Executes(worker[w], p) <=> Executes(job, p)
      BY <1>3 DEF Executes, At, Busy
    <2> QED
      BY <1>3, <2>1, <2>2, GoesOn
  <1> QED
    BY <1>1, <1>2, <1>3 DEF RefundSucceeds, RefundUnfinished

\* A session's step is a step of the gate, or none.
LEMMA StepGate ==
  ASSUME TypeOK, AwaitInv, OneExecutor, NEW w \in Worker, Step(w)
  PROVE  GateStep
  <1> DEFINE o == worker[w].o
  <1>b. Busy(w)
    BY DEF Step, OpenPayment, SkipRecovery, JoinRecovery, StartQuery, QueryFails,
      QueryNotPaid, QuerySucceeds, ApplyTerminal, ApplyAlreadyPaid, ApplyFails, ApplyPayment,
      CustomerCancels, StaleOrderCancels, MerchantEnds, MerchantAdvances, Refused,
      RefundsLatePayment, NoRefundNeeded, RecordsRefund, At, Busy
  <1>j. worker[w] \in Job /\ o \in Order /\ CopyPending(worker[w])
    BY <1>b, BusyHasJob DEF Job, AwaitInv, CopiesArePending
  <1>1. CASE OpenPayment(w) \/ SkipRecovery(w) \/ Refused(w) \/ CustomerCancels(w)
             \/ StaleOrderCancels(w) \/ MerchantEnds(w) \/ MerchantAdvances(w)
    <2>1. worker' = [worker EXCEPT ![w] = Idle] /\ worker[w].pc \in {"opening", "gate", "ready"}
      BY <1>1 DEF OpenPayment, SkipRecovery, Refused, CustomerCancels, StaleOrderCancels,
        MerchantEnds, MerchantAdvances, At
    <2> QED
      BY <2>1, StaysOutside DEF Idle
  <1>2. CASE JoinRecovery(w) \/ StartQuery(w)
    BY <1>2, Enters
  <1>3. CASE QuerySucceeds(w)
    <2> DEFINE job == [worker[w] EXCEPT !.pc = "apply"]
    <2>1. worker' = [worker EXCEPT ![w] = job] /\ worker[w].pc = "query"
      BY <1>3 DEF QuerySucceeds, At, TypeOK
    <2>2. job.pc = "apply" /\ job.o = o
      BY <1>j DEF Job
    <2> HIDE DEF job
    <2>3. \A p \in Order : Executes(worker[w], p) <=> Executes(job, p)
      BY <2>1, <2>2 DEF Executes
    <2> QED
      BY <2>1, <2>2, <2>3, GoesOn
  <1>4. CASE \/ QueryFails(w) \/ QueryNotPaid(w) \/ ApplyAlreadyPaid(w)
             \/ ApplyFails(w) \/ ApplyPayment(w)
    <2>1. PICK recovered, seen, fresh :
            Answer(w, Resume(w, recovered, seen, fresh), recovered)
      BY <1>4 DEF QueryFails, QueryNotPaid, ApplyAlreadyPaid, ApplyFails, ApplyPayment
    <2>2. Resume(w, recovered, seen, fresh).pc \in {"idle", "ready"}
      BY <1>j DEF Resume, Job, Idle
    <2>3. Executes(worker[w], o)
      BY <1>4 DEF Executes, QueryFails, QueryNotPaid, ApplyAlreadyPaid, ApplyFails,
        ApplyPayment, At
    <2> QED
      BY <1>j, <2>1, <2>2, <2>3, Answers
  <1>5. CASE ApplyTerminal(w)
    <2> DEFINE job == ToRefund(w, worker[w].op, o, Loaded(w))
    <2>1. worker' = [worker EXCEPT ![w] = job] /\ At(w, "apply") /\ Loaded(w).st \in Terminal
      BY <1>5 DEF ApplyTerminal
    <2>2. worker[w].op = "recover"
      BY <1>j, <2>1 DEF CopyPending, Loaded, Terminal, At
    <2>3. job.pc = "refund" /\ job.op = "recover" /\ job.o = o
      BY <2>2 DEF ToRefund
    <2> HIDE DEF job
    <2>4. \A p \in Order : Executes(worker[w], p) <=> Executes(job, p)
      BY <2>1, <2>3 DEF Executes, At
    <2> QED
      BY <2>1, <2>3, <2>4, GoesOn DEF At
  <1>6. CASE RefundsLatePayment(w)
    BY <1>b, <1>6, <1>j, RefundGate DEF RefundsLatePayment, RefundPayment
  <1>7. CASE NoRefundNeeded(w) \/ RecordsRefund(w)
    BY <1>7, FinishGate DEF NoRefundNeeded, RecordsRefund, At
  <1> QED
    BY <1>1, <1>2, <1>3, <1>4, <1>5, <1>6, <1>7 DEF Step

\* Every step is a step of the gate, or none.
LEMMA NextGate ==
  ASSUME TypeOK, AwaitInv, OneExecutor, [Next]_vars
  PROVE  GateStep
  <1>1. CASE UNCHANGED worker
    BY <1>1, GateKept
  <1>2. ASSUME NEW o \in Order, NEW w \in Worker, NEW op \in Op, Discover(w, op, o)
        PROVE  GateStep
    <2> DEFINE job == [op |-> op, o |-> o, pc |-> FirstPC(op, row[o]), seen |-> row[o],
                       cseen |-> IF op \in SnapshotOp THEN CouponNow(row[o].coup) ELSE "none",
                       fresh |-> FALSE]
    <2>1. worker' = [worker EXCEPT ![w] = job] /\ job.pc = FirstPC(op, row[o])
      BY <1>2 DEF Discover
    <2> HIDE DEF job
    <2>2. worker[w].pc = "idle" /\ job.pc \in {"opening", "gate", "ready"}
      BY <1>2, <2>1 DEF FirstPC, Discover, Busy
    <2> QED
      BY <2>1, <2>2, StaysOutside
  <1>3. ASSUME NEW o \in Order, NEW w \in Worker, Notify(w, o)
        PROVE  GateStep
    BY <1>1, <1>3, StaysOutside DEF Notify, ToRefund, Busy
  <1>4. ASSUME NEW o \in Order, NEW w \in Worker, MerchantRefunds(w, o) \/ ReconcilesRefund(w, o)
        PROVE  GateStep
    BY <1>4, RefundGate DEF MerchantRefunds, ReconcilesRefund, RefundPayment
  <1>5. CASE Crash
    <2>1. \A w \in Worker : worker'[w].pc = "idle"
      BY <1>5 DEF Crash, Idle
    <2>2. ASSUME NEW o \in Order
          PROVE  Running'[o] = {} /\ Joined'[o] = {}
      <3>1. \A w \in Worker : ~ Executes(worker'[w], o) /\ ~ Awaits(worker'[w], o)
        BY <2>1 DEF Executes, Awaits
      <3>2. /\ {w \in Worker : Executes(worker'[w], o)} = {}
            /\ {w \in Worker : Awaits(worker'[w], o)} = {}
        BY <3>1
      <3> QED
        BY <3>2, GateVariables
    <2>3. Running' = Gate!Nowhere /\ Joined' = Gate!Nowhere
      BY <2>2, GateVariables DEF Gate!Nowhere
    <2> QED
      BY <2>3 DEF GateStep, Gate!Next, Gate!Restart
  <1>6. ASSUME NEW o \in Order, NEW c, CreateOrder(o, c) \/ CustomerPays(o) \/ ProviderEndsRefund(o)
        PROVE  GateStep
    BY <1>1, <1>6 DEF CreateOrder, CustomerPays, ProviderEndsRefund
  <1> QED
    BY <1>1, <1>2, <1>3, <1>4, <1>5, <1>6, StepGate DEF Next, vars

\* The gate's step lets at most one session execute the query of an order.
LEMMA OneStays ==
  ASSUME OneExecutor, GateStep
  PROVE  OneExecutor'
  <1>1. ASSUME NEW o \in Order, NEW v \in Worker, NEW w \in Worker,
               v \in Running'[o], w \in Running'[o]
        PROVE  v = w
    <2>1. CASE Running'[o] = Running[o]
      BY <1>1, <2>1, GateVariables DEF OneExecutor, Executing, Executes, Busy
    <2>2. ASSUME Running'[o] # Running[o]
          PROVE  Running'[o] = {} \/ \E c \in Worker : Running'[o] = {c}
      BY <2>2, GateVariables DEF GateStep, Gate!vars, Gate!Next, Gate!Begin, Gate!Join,
        Gate!Answer, Gate!Leave, Gate!Restart, Gate!Nowhere
    <2> QED
      BY <1>1, <2>1, <2>2
  <1> QED
    BY <1>1, GateVariables DEF OneExecutor, Executing, Executes, Busy

\* attempt_recovery, as its callers know it: for each order one session at a
\* time asks the provider and decides, its late refund included, and when it is
\* done nobody waits for it; the sessions assume no more of the gate.
THEOREM AssumesSingleQuery == Spec => ImplementsGate
  <1>1. Init => Gate!Init /\ OneExecutor
    <2> SUFFICES ASSUME Init  PROVE  Gate!Init /\ OneExecutor
      OBVIOUS
    <2>1. \A w \in Worker : worker[w].pc = "idle"
      BY DEF Init, Idle
    <2>2. ASSUME NEW o \in Order
          PROVE  /\ {w \in Worker : Executing(w, o)} = {}
                 /\ {w \in Worker : At(w, "join") /\ worker[w].o = o} = {}
      BY <2>1 DEF Executing, At, Busy
    <2>3. OneExecutor
      BY <2>1 DEF OneExecutor, Executing, Busy
    <2> QED
      BY <2>2, <2>3 DEF Running, Joined, Gate!Init, Gate!Nowhere
  <1>2. TypeOK /\ AwaitInv /\ OneExecutor /\ [Next]_vars => OneExecutor'
    BY NextGate, OneStays
  <1>3. TypeOK /\ AwaitInv /\ OneExecutor /\ [Next]_vars => [Gate!Next]_(Gate!vars)
    BY NextGate DEF GateStep
  <1>4. Spec => []OneExecutor
    BY <1>1, <1>2, AwaitInvHolds, PTL DEF Spec
  <1> QED
    BY <1>1, <1>3, <1>4, AwaitInvHolds, PTL DEF Spec, Gate!Spec, ImplementsGate
=============================================================================
