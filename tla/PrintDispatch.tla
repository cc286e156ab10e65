----------------------------- MODULE PrintDispatch -----------------------------
(***************************************************************************)
(* order_print_service.py: the kitchen ticket of an order, its manual      *)
(* reprint and the slip that tells the kitchen to stop.                    *)
(*                                                                         *)
(* An attempt is claimed under the row lock and committed as SENDING       *)
(* before the printer is called, and its result is recorded under the lock *)
(* again.  Print sessions refresh the row they lock.  Staff edits do not   *)
(* lock: they read the row, and write merchant_note, which carries the     *)
(* whole print record, back as they read it.                               *)
(***************************************************************************)
EXTENDS Integers, FiniteSets

CONSTANTS
  Order,        \* order ids
  Request,      \* sessions of requests and of the background tasks they spawn
  Loop,         \* the session of print_recovery_loop (one task, main.py)
  Deferred,     \* the store prints only once a pickup number is assigned
  MaxAttempts,  \* MAX_PRINT_RETRY_ATTEMPTS
  MaxLost,      \* bound on the orders whose print record an edit overwrites
  MaxCrashes    \* bound on process restarts

ASSUME LoopAssumption == Loop \notin Request
ASSUME DeferredAssumption == Deferred \in BOOLEAN
ASSUME AttemptsAssumption == MaxAttempts \in Nat \ {0}
ASSUME RestartAssumption == MaxCrashes \in Nat /\ MaxLost \in Nat

Worker == Request \cup {Loop}

VARIABLES
  row,       \* the columns of the orders table that printing reads and writes
  worker,    \* what each session is doing
  paper,     \* history: the sheets that came out of the printer
  rejected,  \* history: the orders a merchant ended
  lost,      \* history: the orders whose print record an edit wrote over
  crashes

vars == <<row, worker, paper, rejected, lost, crashes>>
history == <<rejected, lost, crashes>>

Result == {"SUCCESS", "FAILED", "UNKNOWN"}
Initial == {"NOT_ELIGIBLE", "PENDING", "SENDING"} \cup Result
\* A reprint or a slip; SUCCESS stands for UNKNOWN too, they count alike.
Once == {"none", "SENDING", "SUCCESS", "FAILED"}

\* The print record in merchant_note: the initial ticket, the last manual
\* reprint, the cancel slip.
Meta == [initial : Initial, attempts : 0..MaxAttempts, reprint : Once, slip : Once]

\* col is the column print_status; pickup says that there is a pickup number.
Row == [st : {"none", "open", "ended"}, pickup : BOOLEAN, col : Initial, meta : Meta]

NoMeta == [initial |-> "NOT_ELIGIBLE", attempts |-> 0, reprint |-> "none", slip |-> "none"]
NoRow == [st |-> "none", pickup |-> FALSE, col |-> "NOT_ELIGIBLE", meta |-> NoMeta]

Idle == [pc |-> "idle"]
Job ==
  [pc : {"print", "claim", "send", "reclaim", "resend", "stop", "slip"}, o : Order]
    \cup [pc : {"record"}, o : Order, result : Result]
    \cup [pc : {"rerecord", "sliprecord"}, o : Order, result : {"SUCCESS", "FAILED"}]
    \cup [pc : {"note"}, o : Order, meta : Meta]
    \cup [pc : {"pickup"}, o : Order, meta : Meta, had : BOOLEAN, number : BOOLEAN]
    \cup [pc : {"reject", "cancel"}, o : Order, needed : BOOLEAN]

TypeOK ==
  /\ row \in [Order -> Row]
  /\ worker \in [Worker -> Job \cup {Idle}]
  /\ paper \in [Order -> [ticket : Nat, slip : Nat]]
  /\ rejected \subseteq Order
  /\ lost \subseteq Order
  /\ crashes \in 0..MaxCrashes

Init ==
  /\ row = [o \in Order |-> NoRow]
  /\ worker = [w \in Worker |-> Idle]
  /\ paper = [o \in Order |-> [ticket |-> 0, slip |-> 0]]
  /\ rejected = {}
  /\ lost = {}
  /\ crashes = 0

-----------------------------------------------------------------------------

Free(w) == worker[w].pc = "idle"
At(w, pc) == worker[w].pc = pc
Goes(w, job) == worker' = [worker EXCEPT ![w] = job]
On(pc, o) == [pc |-> pc, o |-> o]
Done(pc, o, result) == [pc |-> pc, o |-> o, result |-> result]

\* _mark_order_print_state goes with every change of the record.
Marked(r, s) == [r EXCEPT !.col = s, !.meta.initial = s]


\* should_defer_kitchen_print
Waiting(r) == Deferred /\ ~ r.pickup

\* An order becomes printable: a postpay order is created, a prepay order paid.
\* The order may have the pickup number of its session already.
Open(o) ==
  /\ row[o].st = "none"
  /\ \E number \in BOOLEAN :
       LET r == [NoRow EXCEPT !.st = "open", !.pickup = number]
       IN row' = [row EXCEPT ![o] =
                    Marked(r, IF Waiting(r) THEN "NOT_ELIGIBLE" ELSE "PENDING")]
  /\ UNCHANGED <<worker, paper, history>>

-----------------------------------------------------------------------------
(* The initial ticket *)

\* evaluate_print_eligibility, on a row read without a lock.
Eligible(r) ==
  /\ r.st = "open"
  /\ r.col # "SUCCESS" /\ r.meta.initial # "SUCCESS"
  /\ ~ Waiting(r)

\* A payment, a new order, a list of orders or the recovery loop asks for the
\* ticket.  The loop takes up only PENDING and FAILED, with attempts left.
Trigger(w, o) ==
  /\ Free(w)
  /\ row[o].st = "open"
  /\ w = Loop => /\ row[o].col \in {"PENDING", "FAILED"}
                 /\ row[o].meta.initial # "UNKNOWN"
                 /\ "FAILED" \in {row[o].col, row[o].meta.initial} =>
                      row[o].meta.attempts < MaxAttempts
  /\ Eligible(row[o])
  /\ Goes(w, On("claim", o))
  /\ UNCHANGED <<row, paper, history>>

\* Staff that assigned the first pickup number asks for it too.
Evaluate(w) ==
  /\ At(w, "print")
  /\ Goes(w, IF Eligible(row[worker[w].o]) THEN On("claim", worker[w].o) ELSE Idle)
  /\ UNCHANGED <<row, paper, history>>

\* Mutant: an attempt that is under way is taken for one that failed.
ClaimableTwice(r) ==
  r.st = "open" /\ r.meta.initial \in {"PENDING", "FAILED", "SENDING"}
    /\ r.meta.attempts < MaxAttempts

\* Mutant: attempts are not counted against the limit.
ClaimableUnlimited(r) == r.st = "open" /\ r.meta.initial \in {"PENDING", "FAILED"}

\* Mutant: the order's status is not checked again under the lock.
ClaimableEnded(r) ==
  r.meta.initial \in {"PENDING", "FAILED"} /\ r.meta.attempts < MaxAttempts

Claimable(r) ==
  /\ r.st = "open"
  /\ r.meta.initial \in {"PENDING", "FAILED"}
  /\ r.meta.attempts < MaxAttempts

\* The row of an attempt under way.
Claimed(r) == [Marked(r, "SENDING") EXCEPT !.meta.attempts = r.meta.attempts + 1]

\* _claim_initial_print_attempt.  SENDING is committed before the printer is
\* called: what was not recorded since is never sent again.
Claim(w) ==
  LET o == worker[w].o
  IN /\ At(w, "claim")
     /\ IF Claimable(row[o])
        THEN /\ row' = [row EXCEPT ![o] = Claimed(@)]
             /\ Goes(w, On("send", o))
        ELSE Goes(w, Idle) /\ UNCHANGED row
     /\ UNCHANGED <<paper, history>>

\* Mutant: a timeout counts as a failure.
OutcomesTimeoutFails == {<<"SUCCESS", 1>>, <<"FAILED", 0>>, <<"FAILED", 1>>}

\* The provider's answer, and the sheets that come out: without an answer
\* (_is_unknown_print_exception) there may be one or none.
Outcomes == {<<"SUCCESS", 1>>, <<"FAILED", 0>>, <<"UNKNOWN", 0>>, <<"UNKNOWN", 1>>}

\* What is kept of the outcome of a reprint or a slip.
Came(out) == IF out[1] = "FAILED" THEN "FAILED" ELSE "SUCCESS"

Send(w) ==
  /\ At(w, "send")
  /\ \E out \in Outcomes :
       /\ paper' = [paper EXCEPT ![worker[w].o].ticket = @ + out[2]]
       /\ Goes(w, Done("record", worker[w].o, out[1]))
  /\ UNCHANGED <<row, history>>

\* _persist_initial_print_result: only a claim that still stands is recorded.
Record(w) ==
  LET o == worker[w].o
  IN /\ At(w, "record")
     /\ row' = IF row[o].meta.initial = "SENDING"
               THEN [row EXCEPT ![o] = Marked(@, worker[w].result)] ELSE row
     /\ Goes(w, Idle)
     /\ UNCHANGED <<paper, history>>

\* Mutant: the column keeps SENDING.
QuarantineMetaOnly(o) ==
  /\ row[o].st = "open"
  /\ row[o].col = "SENDING" /\ row[o].meta.initial = "SENDING"
  /\ row' = [row EXCEPT ![o].meta.initial = "UNKNOWN"]
  /\ UNCHANGED <<worker, paper, history>>

\* _quarantine_stale_sending: a claim nobody recorded becomes UNKNOWN.
Quarantine(o) ==
  /\ row[o].st = "open"
  /\ row[o].col = "SENDING" /\ row[o].meta.initial = "SENDING"
  /\ row' = [row EXCEPT ![o] = Marked(@, "UNKNOWN")]
  /\ UNCHANGED <<worker, paper, history>>

\* _park_waiting_pickup_print_intent
Park(o) ==
  /\ row[o].st = "open" /\ row[o].col = "PENDING" /\ Waiting(row[o])
  /\ row[o].meta.initial \in {"PENDING", "NOT_ELIGIBLE"}
  /\ row' = [row EXCEPT ![o] = Marked(@, "NOT_ELIGIBLE")]
  /\ UNCHANGED <<worker, paper, history>>

-----------------------------------------------------------------------------
(* The manual reprint *)

\* reprint_order_ticket: the status is checked on the unlocked copy.  Bound: a
\* reprint that may have come out is not repeated.
AskReprint(w, o) ==
  /\ w # Loop /\ Free(w)
  /\ row[o].st = "open" /\ row[o].meta.reprint \in {"none", "FAILED"}
  /\ Goes(w, On("reclaim", o))
  /\ UNCHANGED <<row, paper, history>>

ClaimReprint(w) ==
  LET o == worker[w].o
  IN /\ At(w, "reclaim")
     /\ row' = [row EXCEPT ![o].meta.reprint = "SENDING"]
     /\ Goes(w, On("resend", o))
     /\ UNCHANGED <<paper, history>>

\* A reprint is a sheet more on purpose: it is not counted.
SendReprint(w) ==
  /\ At(w, "resend")
  /\ \E out \in Outcomes : Goes(w, Done("rerecord", worker[w].o, Came(out)))
  /\ UNCHANGED <<row, paper, history>>

RecordReprint(w) ==
  /\ At(w, "rerecord")
  /\ row' = [row EXCEPT ![worker[w].o].meta.reprint = worker[w].result]
  /\ Goes(w, Idle)
  /\ UNCHANGED <<paper, history>>

-----------------------------------------------------------------------------
(* Ending an order, and the cancel slip *)

\* Mutant: a ticket on its way to the printer does not count.
MayExistPrinted == {"SUCCESS", "UNKNOWN"}

\* States in which there may be a ticket in the kitchen.
MayExist == {"SUCCESS", "UNKNOWN", "SENDING"}

\* cancel_slip_needed, of an order that has ended.
SlipNeeded(r) == r.col \in MayExist \/ r.meta.reprint \in MayExist

\* A merchant (reject) or a customer (cancel) ends the order; cancel_order asks
\* whether a slip is needed of the copy it reads here, before the lock.
BeginEnd(w, o, by) ==
  /\ w # Loop /\ Free(w)
  /\ row[o].st = "open"
  /\ Goes(w, [pc |-> by, o |-> o, needed |-> by = "cancel" /\ SlipNeeded(row[o])])
  /\ UNCHANGED <<row, paper, history>>

CustomerCancels(w) ==
  LET o == worker[w].o
  IN /\ At(w, "cancel")
     /\ row' = [row EXCEPT ![o].st = "ended"]
     /\ Goes(w, IF worker[w].needed THEN On("stop", o) ELSE Idle)
     /\ UNCHANGED <<paper, history>>

\* update_order_status refreshes the order between its commit and
\* schedule_cancel_slip.
MerchantEnds(w) ==
  LET o == worker[w].o
  IN /\ At(w, "reject")
     /\ row' = [row EXCEPT ![o].st = "ended"]
     /\ Goes(w, IF SlipNeeded(row[o]) THEN On("stop", o) ELSE Idle)
     /\ rejected' = rejected \cup {o}
     /\ UNCHANGED <<paper, lost, crashes>>

\* Mutant: a slip that is under way may be claimed again.
ReclaimableTwice == {"none", "FAILED", "SENDING"}

\* All but _CANCEL_SLIP_NO_RECLAIM
Reclaimable == {"none", "FAILED"}

\* _claim_cancel_slip
ClaimSlip(w) ==
  LET o == worker[w].o
  IN /\ At(w, "stop")
     /\ IF SlipNeeded(row[o]) /\ row[o].meta.slip \in Reclaimable
        THEN row' = [row EXCEPT ![o].meta.slip = "SENDING"] /\ Goes(w, On("slip", o))
        ELSE Goes(w, Idle) /\ UNCHANGED row
     /\ UNCHANGED <<paper, history>>

SendSlip(w) ==
  /\ At(w, "slip")
  /\ \E out \in Outcomes :
       /\ paper' = [paper EXCEPT ![worker[w].o].slip = @ + out[2]]
       /\ Goes(w, Done("sliprecord", worker[w].o, Came(out)))
  /\ UNCHANGED <<row, history>>

\* _record_cancel_slip_result
RecordSlip(w) ==
  /\ At(w, "sliprecord")
  /\ row' = [row EXCEPT ![worker[w].o].meta.slip = worker[w].result]
  /\ Goes(w, Idle)
  /\ UNCHANGED <<paper, history>>

-----------------------------------------------------------------------------
(* Staff edits, of an order read without a lock *)

\* Bound: one overwritten print record per order, in at most MaxLost orders.
Overwrites(o, meta) == meta # row[o].meta
MayWrite(o, meta) ==
  Overwrites(o, meta) => o \notin lost /\ Cardinality(lost) < MaxLost
LostAfter(o, meta) == IF Overwrites(o, meta) THEN lost \cup {o} ELSE lost

ReadNote(w, o) ==
  /\ w # Loop /\ Free(w)
  /\ row[o].st # "none"
  /\ Goes(w, [pc |-> "note", o |-> o, meta |-> row[o].meta])
  /\ UNCHANGED <<row, paper, history>>

\* update_merchant_note keeps the print record it read.
WriteNote(w) ==
  LET o == worker[w].o
      meta == worker[w].meta
  IN /\ At(w, "note")
     /\ MayWrite(o, meta)
     /\ lost' = LostAfter(o, meta)
     /\ row' = [row EXCEPT ![o].meta = meta]
     /\ Goes(w, Idle)
     /\ UNCHANGED <<paper, rejected, crashes>>

ReadPickup(w, o, number) ==
  /\ w # Loop /\ Free(w)
  /\ row[o].st = "open"
  /\ Goes(w, [pc |-> "pickup", o |-> o, meta |-> row[o].meta, had |-> row[o].pickup,
              number |-> number])
  /\ UNCHANGED <<row, paper, history>>

\* assign_for_order, of an order without a dining session: nothing locks it.
\* The first number makes a ticket that waits for it eligible
\* (mark_initial_print_eligible), and has it printed.
First(w) == worker[w].number /\ ~ worker[w].had /\ Deferred
Marks(w) == First(w) /\ worker[w].meta.initial = "NOT_ELIGIBLE"

WritePickup(w) ==
  LET o == worker[w].o
      meta == worker[w].meta
      r == IF worker[w].number = worker[w].had THEN row[o]
           ELSE [row[o] EXCEPT !.pickup = worker[w].number]
  IN /\ At(w, "pickup")
     /\ \/ /\ Marks(w)
           /\ MayWrite(o, meta)
           /\ lost' = LostAfter(o, meta)
           /\ row' = [row EXCEPT ![o] = Marked([r EXCEPT !.meta = meta], "PENDING")]
        \/ /\ ~ Marks(w)
           /\ row' = [row EXCEPT ![o] = r]
           /\ UNCHANGED lost
     /\ Goes(w, IF First(w) THEN On("print", o) ELSE Idle)
     /\ UNCHANGED <<paper, rejected, crashes>>

\* Bound: an overwriting edit beyond that is given up.
GivesUp(w) ==
  /\ At(w, "note") \/ (At(w, "pickup") /\ Marks(w))
  /\ ~ MayWrite(worker[w].o, worker[w].meta)
  /\ Goes(w, Idle)
  /\ UNCHANGED <<row, paper, history>>

-----------------------------------------------------------------------------

\* The process restarts: sessions and background tasks are gone.  A ticket or
\* a slip that was being sent may have reached the printer.
Crash ==
  /\ crashes < MaxCrashes
  /\ crashes' = crashes + 1
  /\ worker' = [w \in Worker |-> Idle]
  /\ \/ UNCHANGED paper
     \/ \E w \in Worker :
          \/ /\ At(w, "send")
             /\ paper' = [paper EXCEPT ![worker[w].o].ticket = @ + 1]
          \/ /\ At(w, "slip")
             /\ paper' = [paper EXCEPT ![worker[w].o].slip = @ + 1]
  /\ UNCHANGED <<row, rejected, lost>>

Step(w) ==
  \/ Evaluate(w) \/ Claim(w) \/ Send(w) \/ Record(w)
  \/ ClaimReprint(w) \/ SendReprint(w) \/ RecordReprint(w)
  \/ CustomerCancels(w) \/ MerchantEnds(w) \/ ClaimSlip(w) \/ SendSlip(w) \/ RecordSlip(w)
  \/ WriteNote(w) \/ WritePickup(w) \/ GivesUp(w)

Next ==
  \/ \E o \in Order :
       \/ Open(o) \/ Quarantine(o) \/ Park(o)
       \/ \E w \in Worker :
            \/ Trigger(w, o) \/ AskReprint(w, o) \/ ReadNote(w, o)
            \/ \E by \in {"reject", "cancel"} : BeginEnd(w, o, by)
            \/ \E number \in BOOLEAN : ReadPickup(w, o, number)
  \/ \E w \in Worker : Step(w)
  \/ Crash

Spec == Init /\ [][Next]_vars

\* Sessions go on with what they do (the provider call has a timeout), and the
\* loop comes round for ever, for tickets to print and claims to quarantine.
Fairness ==
  /\ \A w \in Worker : WF_vars(Step(w))
  /\ \A o \in Order : WF_vars(Trigger(Loop, o)) /\ WF_vars(Quarantine(o))

FairSpec == Spec /\ Fairness

-----------------------------------------------------------------------------

\* However the payment, the background task, the order list, the recovery loop,
\* the quarantine and a restart interleave, the kitchen receives one initial
\* ticket of an order whose print record no edit wrote over.
PrintedOnce == \A o \in Order : o \notin lost => paper[o].ticket <= 1

\* One cancel slip per order, also when it is ended twice on stale copies.
OneSlip == \A o \in Order : o \notin lost => paper[o].slip <= 1

\* What staff sees is true: SUCCESS means that a ticket came out, and a state
\* that will be tried again means that none did.
PrintStateIsTrue ==
  \A o \in Order :
    /\ row[o].col = "SUCCESS" => paper[o].ticket > 0
    /\ row[o].col \in {"NOT_ELIGIBLE", "PENDING", "FAILED"} /\ o \notin lost =>
         paper[o].ticket = 0

\* The column the recovery loop selects by and the record the claim goes by
\* agree, unless an edit wrote over the record.
ColumnAgrees == \A o \in Order : o \notin lost => row[o].col = row[o].meta.initial

\* When a merchant ends an order whose ticket may be in the kitchen or on its
\* way, the cancel slip was tried or is about to be: no ticket is claimed behind
\* the back of the check that found none.  (A restart loses the slip.)
EndedTicketIsStopped ==
  \A o \in rejected \ lost :
    row[o].col \in MayExist /\ crashes = 0 =>
      row[o].meta.slip # "none" \/ \E w \in Worker : At(w, "stop") /\ worker[w].o = o

\* An order that ended, its ticket perhaps in the kitchen, and of which nobody
\* sends a slip.
Untold(o) ==
  /\ row[o].st = "ended" /\ SlipNeeded(row[o]) /\ row[o].meta.slip = "none"
  /\ \A w \in Worker : At(w, "stop") => worker[w].o # o

\* cancel_order, when the ticket was claimed after it read its copy.
AsksOldCopy(w) ==
  At(w, "cancel") /\ ~ worker[w].needed /\ SlipNeeded(row[worker[w].o])

\* A reprint after the end: the status was checked before the lock.
ReprintsEnded(w) ==
  worker[w].pc \in {"reclaim", "rerecord"} /\ row[worker[w].o].st = "ended"

SlipExplained ==
  \A o \in Order \ lost' : Untold(o)' /\ ~ Untold(o) =>
    \/ crashes' # crashes
    \/ \E w \in Worker : /\ AsksOldCopy(w) \/ ReprintsEnded(w)
                         /\ worker[w].o = o /\ worker'[w] # worker[w]

\* An order is left untold in three ways only: a customer's cancellation asked a
\* copy from before the claim (cancel_order), a reprint was claimed or recorded
\* after the end (reprint_order_ticket), or a restart took the task that was to
\* send the slip.
SlipMissedInThreeWays == [][SlipExplained]_vars


\* A claim whose session died does not stay SENDING for ever.
SendingIsDecided ==
  \A o \in Order :
    row[o].col = "SENDING" ~> row[o].col # "SENDING" \/ row[o].st = "ended" \/ o \in lost

\* test_d_pickup_assignment_unlocks_exactly_once, and the comment of
\* update_order_pickup_no: printing is idempotent, so a ticket comes out once.
DispatchedOnce == \A o \in Order : paper[o].ticket <= 1
=============================================================================
