-------------------------- MODULE PrintDispatchProofs --------------------------
(***************************************************************************)
(* Proofs about PrintDispatch, for any orders, sessions and attempts.      *)
(*                                                                         *)
(* The argument: as long as no edit wrote over the print record of an      *)
(* order, one session at most is between the claim of its ticket and the   *)
(* record of the result, the record then says SENDING or UNKNOWN, and both *)
(* are refused by the next claim.  The slip goes the same way.             *)
(* Where an ended order is left without a slip is the last section.        *)
(***************************************************************************)
EXTENDS PrintDispatch, TLAPS

\* Session w is between the claim of order o's ticket (slip) and its record.
Printing(w, o) == worker[w].pc \in {"send", "record"} /\ worker[w].o = o
Slipping(w, o) == worker[w].pc \in {"slip", "sliprecord"} /\ worker[w].o = o

\* Whoever prints o's ticket is alone, and no claim can succeed meanwhile.
TicketClaimed(o) ==
  /\ row[o].col = row[o].meta.initial
  /\ \A w \in Worker : Printing(w, o) => row[o].meta.initial \in {"SENDING", "UNKNOWN"}
  /\ \A v, w \in Worker : Printing(v, o) /\ Printing(w, o) => v = w

\* A ticket that may be sent again did not come out.
TicketCounted(o) ==
  /\ paper[o].ticket <= 1
  /\ row[o].meta.initial \in {"NOT_ELIGIBLE", "PENDING", "FAILED"} => paper[o].ticket = 0
  /\ \A w \in Worker :
       Printing(w, o) /\ ~ (At(w, "record") /\ worker[w].result # "FAILED")
         => paper[o].ticket = 0

\* The same of the slip.
SlipClaimed(o) ==
  /\ \A w \in Worker : Slipping(w, o) => row[o].meta.slip = "SENDING"
  /\ \A v, w \in Worker : Slipping(v, o) /\ Slipping(w, o) => v = w

SlipCounted(o) ==
  /\ paper[o].slip <= 1
  /\ row[o].meta.slip \in {"none", "FAILED"} => paper[o].slip = 0
  /\ \A w \in Worker :
       Slipping(w, o) /\ ~ (At(w, "sliprecord") /\ worker[w].result # "FAILED")
         => paper[o].slip = 0

Undisturbed(o) ==
  TicketClaimed(o) /\ TicketCounted(o) /\ SlipClaimed(o) /\ SlipCounted(o)

\* A success that was, or is about to be, recorded came out.
SuccessCameOut ==
  /\ \A o \in Order : row[o].col = "SUCCESS" => paper[o].ticket > 0
  /\ \A w \in Worker :
       At(w, "record") /\ worker[w].result = "SUCCESS" => paper[worker[w].o].ticket > 0

\* Sessions work on rows that are there; a rejected order stays ended.
RowsAreThere ==
  /\ \A o \in Order : row[o].st = "none" => row[o].meta = NoMeta
  /\ \A w \in Worker : ~ Free(w) => row[worker[w].o].st # "none"
  /\ \A o \in rejected : row[o].st = "ended"

Inv ==
  /\ TypeOK
  /\ \A o \in Order \ lost : Undisturbed(o)
  /\ SuccessCameOut
  /\ RowsAreThere
  /\ EndedTicketIsStopped

(***************************************************************************)
(* Records and jobs                                                        *)
(***************************************************************************)

\* Marking a row writes its print state, in the column and in the record.
LEMMA MarkedFields ==
  ASSUME NEW r \in Row, NEW s \in Initial
  PROVE  /\ Marked(r, s) \in Row
         /\ Marked(r, s).st = r.st /\ Marked(r, s).pickup = r.pickup
         /\ Marked(r, s).col = s
         /\ Marked(r, s).meta.initial = s
         /\ Marked(r, s).meta.slip = r.meta.slip
         /\ Marked(r, s).meta.attempts = r.meta.attempts
  BY DEF Marked, Row, Meta

\* A claimed row differs in its print state and counts one attempt more.
LEMMA ClaimedFields ==
  ASSUME NEW r \in Row, r.meta.attempts < MaxAttempts
  PROVE  /\ Claimed(r) \in Row
         /\ Claimed(r).st = r.st /\ Claimed(r).col = "SENDING"
         /\ Claimed(r).meta.initial = "SENDING"
         /\ Claimed(r).meta.slip = r.meta.slip
  <1> DEFINE m == Marked(r, "SENDING")
  <1>1. /\ m \in Row /\ m.st = r.st /\ m.col = "SENDING"
        /\ m.meta.initial = "SENDING" /\ m.meta.slip = r.meta.slip
    BY MarkedFields DEF Initial
  <1>2. r.meta.attempts + 1 \in 0..MaxAttempts
    BY AttemptsAssumption DEF Row, Meta
  <1>3. Claimed(r) = [m EXCEPT !.meta.attempts = r.meta.attempts + 1]
    BY DEF Claimed
  <1> HIDE DEF m
  <1> QED
    BY <1>1, <1>2, <1>3 DEF Row, Meta

\* The row of no order is a row.
LEMMA NoRowType == NoRow \in Row /\ NoMeta \in Meta
  <1>1. 0 \in 0..MaxAttempts
    BY AttemptsAssumption
  <1>2. NoMeta \in Meta
    BY <1>1 DEF NoMeta, Meta, Initial, Result, Once
  <1> QED
    BY <1>2 DEF NoRow, Row, Initial, Result

\* A session that is not idle has a job.
LEMMA BusyHasJob ==
  ASSUME TypeOK, NEW w \in Worker, ~ Free(w)
  PROVE  worker[w] \in Job /\ worker[w].o \in Order
  BY DEF TypeOK, Free, Idle, Job

\* The jobs that a session takes up are jobs.
LEMMA OnType ==
  ASSUME NEW o \in Order,
         NEW pc \in {"print", "claim", "send", "reclaim", "resend", "stop", "slip"}
  PROVE  On(pc, o) \in Job /\ On(pc, o).pc = pc /\ On(pc, o).o = o
  BY DEF On, Job

\* The jobs that record an outcome are jobs, and the outcome counts as it came.
LEMMA DoneType ==
  ASSUME NEW o \in Order, NEW out \in Outcomes
  PROVE  /\ Done("record", o, out[1]) \in Job
         /\ \A pc \in {"rerecord", "sliprecord"} : Done(pc, o, Came(out)) \in Job
         /\ out[2] \in {0, 1}
         /\ Came(out) # "FAILED" <=> out[1] # "FAILED"
         /\ out[1] = "FAILED" => out[2] = 0
         /\ out[1] = "SUCCESS" => out[2] = 1
  BY DEF Done, Job, Outcomes, Came, Result

\* A session that goes on keeps every session well typed.
LEMMA GoesType ==
  ASSUME TypeOK, NEW w \in Worker, NEW job \in Job \cup {Idle}, Goes(w, job)
  PROVE  /\ worker' \in [Worker -> Job \cup {Idle}]
         /\ worker'[w] = job
         /\ \A v \in Worker \ {w} : worker'[v] = worker[v]
  BY DEF TypeOK, Goes

(***************************************************************************)
(* Types                                                                   *)
(***************************************************************************)

\* A step of session w that leaves the tables alone keeps the types.
LEMMA WorkerStepType ==
  ASSUME TypeOK, NEW w \in Worker, NEW job \in Job \cup {Idle}, Goes(w, job),
         UNCHANGED <<row, paper, history>>
  PROVE  TypeOK'
  BY GoesType DEF TypeOK, history

\* A step of session w that writes one row keeps the types.
LEMMA RowStepType ==
  ASSUME TypeOK, NEW w \in Worker, NEW job \in Job \cup {Idle}, Goes(w, job),
         NEW o \in Order, NEW r \in Row, row' = [row EXCEPT ![o] = r],
         UNCHANGED paper, rejected' \subseteq Order, lost' \subseteq Order,
         UNCHANGED crashes
  PROVE  TypeOK'
  BY GoesType DEF TypeOK

\* The steps of the initial ticket keep the types.
LEMMA TicketStepsType ==
  ASSUME TypeOK, NEW w \in Worker,
         Evaluate(w) \/ Claim(w) \/ Send(w) \/ Record(w)
  PROVE  TypeOK'
  <1> DEFINE o == worker[w].o
  <1>0. worker[w] \in Job /\ o \in Order /\ row[o] \in Row
    BY BusyHasJob DEF Evaluate, Claim, Send, Record, At, Free, TypeOK
  <1>1. CASE Evaluate(w)
    BY <1>0, <1>1, WorkerStepType, OnType DEF Evaluate
  <1>2. CASE Claim(w) /\ Claimable(row[o])
    <2>1. Claimed(row[o]) \in Row
      BY <1>0, <1>2, ClaimedFields DEF Claimable
    <2>2. row' = [row EXCEPT ![o] = Claimed(row[o])] /\ Goes(w, On("send", o))
      BY <1>2 DEF Claim
    <2>3. UNCHANGED paper /\ UNCHANGED history
      BY <1>2 DEF Claim
    <2> QED
      BY <1>0, <2>1, <2>2, <2>3, RowStepType, OnType DEF history, TypeOK
  <1>3. CASE Claim(w) /\ ~ Claimable(row[o])
    BY <1>3, WorkerStepType DEF Claim
  <1>4. CASE Send(w)
    <2>1. PICK out \in Outcomes :
            /\ paper' = [paper EXCEPT ![o].ticket = @ + out[2]]
            /\ Goes(w, Done("record", o, out[1]))
      BY <1>4 DEF Send
    <2>2. Done("record", o, out[1]) \in Job /\ out[2] \in {0, 1}
      BY <1>0, DoneType
    <2>3. paper' \in [Order -> [ticket : Nat, slip : Nat]]
      BY <1>0, <2>1, <2>2 DEF TypeOK
    <2>4. worker' \in [Worker -> Job \cup {Idle}]
      BY <2>1, <2>2, GoesType
    <2> QED
      BY <1>4, <2>3, <2>4 DEF Send, TypeOK, history
  <1>5. CASE Record(w)
    <2>1. worker[w].result \in Initial
      BY <1>0, <1>5 DEF Record, At, Job, Initial, Result
    <2>2. Marked(row[o], worker[w].result) \in Row
      BY <1>0, <2>1, MarkedFields
    <2>3. row' \in [Order -> Row]
      BY <1>0, <1>5, <2>2 DEF Record, TypeOK
    <2> QED
      BY <1>5, <2>3, GoesType DEF Record, TypeOK, history
  <1> QED
    BY <1>1, <1>2, <1>3, <1>4, <1>5

\* The steps of a reprint keep the types.
LEMMA ReprintStepsType ==
  ASSUME TypeOK, NEW w \in Worker,
         ClaimReprint(w) \/ SendReprint(w) \/ RecordReprint(w)
  PROVE  TypeOK'
  <1> DEFINE o == worker[w].o
  <1>0. worker[w] \in Job /\ o \in Order /\ row[o] \in Row
    BY BusyHasJob DEF ClaimReprint, SendReprint, RecordReprint, At, Free, TypeOK
  <1>1. ASSUME NEW s \in Once, row' = [row EXCEPT ![o].meta.reprint = s]
        PROVE  row' \in [Order -> Row]
    <2>1. [row[o] EXCEPT !.meta.reprint = s] \in Row
      BY <1>0 DEF Row, Meta
    <2> QED
      BY <1>1, <2>1 DEF TypeOK
  <1>2. CASE ClaimReprint(w)
    BY <1>0, <1>1, <1>2, OnType, GoesType DEF ClaimReprint, TypeOK, history, Once
  <1>3. CASE SendReprint(w)
    BY <1>0, <1>3, DoneType, WorkerStepType DEF SendReprint
  <1>4. CASE RecordReprint(w)
    <2>1. worker[w].result \in Once
      BY <1>0, <1>4 DEF RecordReprint, At, Job, Once
    <2> QED
      BY <1>1, <1>4, <2>1, GoesType DEF RecordReprint, TypeOK, history
  <1> QED
    BY <1>2, <1>3, <1>4

\* The steps that end an order and stop the kitchen keep the types.
LEMMA EndStepsType ==
  ASSUME TypeOK, NEW w \in Worker,
         \/ CustomerCancels(w) \/ MerchantEnds(w)
         \/ ClaimSlip(w) \/ SendSlip(w) \/ RecordSlip(w)
  PROVE  TypeOK'
  <1> DEFINE o == worker[w].o
  <1>0. worker[w] \in Job /\ o \in Order /\ row[o] \in Row
    BY BusyHasJob DEF CustomerCancels, MerchantEnds, ClaimSlip, SendSlip, RecordSlip,
      At, Free, TypeOK
  <1>1. ASSUME NEW s \in Once, row' = [row EXCEPT ![o].meta.slip = s]
        PROVE  row' \in [Order -> Row]
    <2>1. [row[o] EXCEPT !.meta.slip = s] \in Row
      BY <1>0 DEF Row, Meta
    <2> QED
      BY <1>1, <2>1 DEF TypeOK
  <1>2. ASSUME row' = [row EXCEPT ![o].st = "ended"]
        PROVE  row' \in [Order -> Row]
    BY <1>0, <1>2 DEF TypeOK, Row
  <1>3. CASE CustomerCancels(w)
    BY <1>0, <1>2, <1>3, OnType, GoesType DEF CustomerCancels, TypeOK, history
  <1>4. CASE MerchantEnds(w)
    BY <1>0, <1>2, <1>4, OnType, GoesType DEF MerchantEnds, TypeOK
  <1>5. CASE ClaimSlip(w) /\ UNCHANGED row
    BY <1>0, <1>5, OnType, WorkerStepType DEF ClaimSlip
  <1>6. CASE ClaimSlip(w) /\ row' = [row EXCEPT ![o].meta.slip = "SENDING"]
    BY <1>0, <1>1, <1>6, OnType, GoesType DEF ClaimSlip, TypeOK, history, Once
  <1>7. CASE SendSlip(w)
    <2>1. PICK out \in Outcomes :
            /\ paper' = [paper EXCEPT ![o].slip = @ + out[2]]
            /\ Goes(w, Done("sliprecord", o, Came(out)))
      BY <1>7 DEF SendSlip
    <2>2. Done("sliprecord", o, Came(out)) \in Job /\ out[2] \in {0, 1}
      BY <1>0, DoneType
    <2>3. paper' \in [Order -> [ticket : Nat, slip : Nat]]
      BY <1>0, <2>1, <2>2 DEF TypeOK
    <2>4. worker' \in [Worker -> Job \cup {Idle}]
      BY <2>1, <2>2, GoesType
    <2> QED
      BY <1>7, <2>3, <2>4 DEF SendSlip, TypeOK, history
  <1>8. CASE RecordSlip(w)
    <2>1. worker[w].result \in Once
      BY <1>0, <1>8 DEF RecordSlip, At, Job, Once
    <2> QED
      BY <1>1, <1>8, <2>1, GoesType DEF RecordSlip, TypeOK, history
  <1> QED
    BY <1>3, <1>4, <1>5, <1>6, <1>7, <1>8 DEF ClaimSlip

\* The steps of a staff edit keep the types.
LEMMA EditStepsType ==
  ASSUME TypeOK, NEW w \in Worker, WriteNote(w) \/ WritePickup(w) \/ GivesUp(w)
  PROVE  TypeOK'
  <1> DEFINE o == worker[w].o
             meta == worker[w].meta
  <1>0. worker[w] \in Job /\ o \in Order /\ row[o] \in Row
    BY BusyHasJob DEF WriteNote, WritePickup, GivesUp, At, Free, TypeOK
  <1>1. LostAfter(o, meta) \subseteq Order
    BY <1>0 DEF LostAfter, TypeOK
  <1>2. CASE WriteNote(w)
    <2>1. meta \in Meta
      BY <1>0, <1>2 DEF WriteNote, At, Job
    <2>2. [row[o] EXCEPT !.meta = meta] \in Row
      BY <1>0, <2>1 DEF Row
    <2>3. row' = [row EXCEPT ![o] = [row[o] EXCEPT !.meta = meta]]
      BY <1>0, <1>2 DEF WriteNote, TypeOK
    <2> QED
      BY <1>0, <1>1, <1>2, <2>2, <2>3, RowStepType DEF WriteNote, TypeOK
  <1>3. CASE WritePickup(w)
    <2> DEFINE r == IF worker[w].number = worker[w].had THEN row[o]
                    ELSE [row[o] EXCEPT !.pickup = worker[w].number]
               job == IF First(w) THEN On("print", o) ELSE Idle
    <2>1. meta \in Meta /\ worker[w].number \in BOOLEAN
      BY <1>0, <1>3 DEF WritePickup, At, Job
    <2>2. r \in Row
      BY <1>0, <2>1 DEF Row
    <2>3. [r EXCEPT !.meta = meta] \in Row
      BY <2>1, <2>2 DEF Row
    <2>4. Marked([r EXCEPT !.meta = meta], "PENDING") \in Row
      BY <2>3, MarkedFields DEF Initial
    <2>5. job \in Job \cup {Idle} /\ Goes(w, job)
      BY <1>0, <1>3, OnType DEF WritePickup
    <2>6. UNCHANGED paper /\ UNCHANGED rejected /\ UNCHANGED crashes
      BY <1>3 DEF WritePickup
    <2>7. CASE /\ row' = [row EXCEPT ![o] = Marked([r EXCEPT !.meta = meta], "PENDING")]
               /\ lost' = LostAfter(o, meta)
      BY <1>0, <1>1, <2>4, <2>5, <2>6, <2>7, RowStepType DEF TypeOK
    <2>8. CASE row' = [row EXCEPT ![o] = r] /\ UNCHANGED lost
      BY <1>0, <2>2, <2>5, <2>6, <2>8, RowStepType DEF TypeOK
    <2> QED
      BY <1>3, <2>7, <2>8 DEF WritePickup
  <1>4. CASE GivesUp(w)
    BY <1>4, WorkerStepType DEF GivesUp
  <1> QED
    BY <1>2, <1>3, <1>4

\* What a session with no job takes up keeps the types.
LEMMA BeginningsType ==
  ASSUME TypeOK, NEW w \in Worker, NEW o \in Order,
         \/ Trigger(w, o) \/ AskReprint(w, o) \/ ReadNote(w, o)
         \/ \E by \in {"reject", "cancel"} : BeginEnd(w, o, by)
         \/ \E number \in BOOLEAN : ReadPickup(w, o, number)
  PROVE  TypeOK'
  <1>0. row[o] \in Row /\ row[o].meta \in Meta /\ row[o].pickup \in BOOLEAN
    BY DEF TypeOK, Row
  <1>1. CASE Trigger(w, o)
    BY <1>1, OnType, WorkerStepType DEF Trigger
  <1>2. CASE AskReprint(w, o)
    BY <1>2, OnType, WorkerStepType DEF AskReprint
  <1>3. CASE ReadNote(w, o)
    <2>1. [pc |-> "note", o |-> o, meta |-> row[o].meta] \in Job
      BY <1>0 DEF Job
    <2> QED
      BY <1>3, <2>1, WorkerStepType DEF ReadNote
  <1>4. ASSUME NEW by \in {"reject", "cancel"}, BeginEnd(w, o, by)
        PROVE  TypeOK'
    <2>1. [pc |-> by, o |-> o, needed |-> by = "cancel" /\ SlipNeeded(row[o])] \in Job
      BY DEF Job
    <2> QED
      BY <1>4, <2>1, WorkerStepType DEF BeginEnd
  <1>5. ASSUME NEW number \in BOOLEAN, ReadPickup(w, o, number)
        PROVE  TypeOK'
    <2>1. [pc |-> "pickup", o |-> o, meta |-> row[o].meta, had |-> row[o].pickup,
           number |-> number] \in Job
      BY <1>0 DEF Job
    <2> QED
      BY <1>5, <2>1, WorkerStepType DEF ReadPickup
  <1> QED
    BY <1>1, <1>2, <1>3, <1>4, <1>5

\* The steps that no session takes keep the types.
LEMMA RowStepsType ==
  ASSUME TypeOK, NEW o \in Order, Open(o) \/ Quarantine(o) \/ Park(o)
  PROVE  TypeOK'
  <1>0. row[o] \in Row
    BY DEF TypeOK
  <1>1. \A s \in Initial : Marked(row[o], s) \in Row
    BY <1>0, MarkedFields
  <1>2. CASE Open(o)
    <2>1. PICK number \in BOOLEAN :
            LET r == [NoRow EXCEPT !.st = "open", !.pickup = number]
            IN row' = [row EXCEPT ![o] =
                         Marked(r, IF Waiting(r) THEN "NOT_ELIGIBLE" ELSE "PENDING")]
      BY <1>2 DEF Open
    <2> DEFINE r == [NoRow EXCEPT !.st = "open", !.pickup = number]
               s == IF Waiting(r) THEN "NOT_ELIGIBLE" ELSE "PENDING"
    <2>2. r \in Row
      BY NoRowType DEF Row
    <2>3. Marked(r, s) \in Row
      BY <2>2, MarkedFields DEF Initial
    <2>4. row' = [row EXCEPT ![o] = Marked(r, s)]
      BY <2>1
    <2> HIDE DEF r, s
    <2> QED
      BY <1>2, <2>3, <2>4 DEF Open, TypeOK, history
  <1>3. CASE Quarantine(o)
    BY <1>1, <1>3 DEF Quarantine, TypeOK, history, Initial, Result
  <1>4. CASE Park(o)
    BY <1>1, <1>4 DEF Park, TypeOK, history, Initial
  <1> QED
    BY <1>2, <1>3, <1>4

\* A restart keeps the types.
LEMMA CrashType == TypeOK /\ Crash => TypeOK'
  <1> SUFFICES ASSUME TypeOK, Crash PROVE TypeOK'
    OBVIOUS
  <1>1. paper' \in [Order -> [ticket : Nat, slip : Nat]]
    <2>1. ASSUME NEW w \in Worker, At(w, "send") \/ At(w, "slip")
          PROVE  worker[w].o \in Order
      BY <2>1, BusyHasJob DEF At, Free
    <2>2. ASSUME NEW o \in Order,
                 \/ paper' = [paper EXCEPT ![o].ticket = @ + 1]
                 \/ paper' = [paper EXCEPT ![o].slip = @ + 1]
          PROVE  paper' \in [Order -> [ticket : Nat, slip : Nat]]
      BY <2>2 DEF TypeOK
    <2>3. CASE UNCHANGED paper
      BY <2>3 DEF TypeOK
    <2> QED
      BY <2>1, <2>2, <2>3 DEF Crash
  <1>2. crashes' \in 0..MaxCrashes
    BY RestartAssumption DEF Crash, TypeOK
  <1> QED
    BY <1>1, <1>2 DEF Crash, TypeOK

\* Every step keeps the types.
LEMMA NextType == TypeOK /\ [Next]_vars => TypeOK'
  <1> SUFFICES ASSUME TypeOK, [Next]_vars PROVE TypeOK'
    OBVIOUS
  <1>1. CASE UNCHANGED vars
    BY <1>1 DEF vars, TypeOK
  <1>2. CASE \E o \in Order : Open(o) \/ Quarantine(o) \/ Park(o)
    BY <1>2, RowStepsType
  <1>3. CASE \E o \in Order, w \in Worker :
               \/ Trigger(w, o) \/ AskReprint(w, o) \/ ReadNote(w, o)
               \/ \E by \in {"reject", "cancel"} : BeginEnd(w, o, by)
               \/ \E number \in BOOLEAN : ReadPickup(w, o, number)
    BY <1>3, BeginningsType
  <1>4. CASE \E w \in Worker : Step(w)
    BY <1>4, TicketStepsType, ReprintStepsType, EndStepsType, EditStepsType DEF Step
  <1>5. CASE Crash
    BY <1>5, CrashType
  <1> QED
    BY <1>1, <1>2, <1>3, <1>4, <1>5 DEF Next

(***************************************************************************)
(* What a step leaves alone                                                *)
(***************************************************************************)

\* The step leaves order o's print state alone, or puts the ticket from one
\* waiting state into another.
SamePrint(o) ==
  \/ row'[o].col = row[o].col /\ row'[o].meta.initial = row[o].meta.initial
  \/ /\ row[o].meta.initial \in {"NOT_ELIGIBLE", "PENDING"}
     /\ row'[o].meta.initial \in {"NOT_ELIGIBLE", "PENDING"}
     /\ row'[o].col = row'[o].meta.initial

\* A step that touches neither order o's print state nor who prints it.
LEMMA TicketStays ==
  ASSUME NEW o \in Order, TicketClaimed(o), TicketCounted(o),
         SamePrint(o), paper'[o].ticket = paper[o].ticket,
         \A v \in Worker : Printing(v, o)' => worker'[v] = worker[v]
  PROVE  TicketClaimed(o)' /\ TicketCounted(o)'
  BY DEF TicketClaimed, TicketCounted, Printing, At, SamePrint

\* A step that touches neither order o's slip nor who sends it.
LEMMA SlipStays ==
  ASSUME NEW o \in Order, SlipClaimed(o), SlipCounted(o),
         row'[o].meta.slip = row[o].meta.slip, paper'[o].slip = paper[o].slip,
         \A v \in Worker : Slipping(v, o)' => worker'[v] = worker[v]
  PROVE  SlipClaimed(o)' /\ SlipCounted(o)'
  BY DEF SlipClaimed, SlipCounted, Slipping, At

\* A step that records no success and takes no sheet back.
LEMMA SuccessStays ==
  ASSUME TypeOK, TypeOK', SuccessCameOut,
         \A o \in Order : paper'[o].ticket >= paper[o].ticket,
         \A o \in Order : row'[o].col = "SUCCESS" => row[o].col = "SUCCESS",
         \A v \in Worker : At(v, "record")' => worker'[v] = worker[v]
  PROVE  SuccessCameOut'
  <1>1. ASSUME NEW o \in Order
        PROVE  paper[o].ticket > 0 => paper'[o].ticket > 0
    BY DEF TypeOK
  <1>2. ASSUME NEW v \in Worker, At(v, "record")'
        PROVE  worker[v].o \in Order /\ worker'[v] = worker[v] /\ At(v, "record")
    BY <1>2, BusyHasJob DEF At, Free
  <1> QED
    BY <1>1, <1>2 DEF SuccessCameOut

\* A step that neither opens a row nor lets a session take up a missing one.
LEMMA RowsStay ==
  ASSUME RowsAreThere, UNCHANGED rejected,
         \A o \in Order : row'[o].st = "none" => row'[o] = row[o],
         \A o \in rejected : row[o].st = "ended" => row'[o].st = "ended",
         \A v \in Worker :
           ~ Free(v)' => row'[worker'[v].o].st # "none"
  PROVE  RowsAreThere'
  BY DEF RowsAreThere

\* A step that puts no ticket behind the back of the check, and ends no job
\* that will stop the kitchen.
LEMMA StopStays ==
  ASSUME TypeOK, TypeOK', EndedTicketIsStopped, UNCHANGED rejected, lost \subseteq lost',
         crashes' = 0 => crashes = 0,
         \A o \in rejected \ lost' : row'[o].col \in MayExist => row[o].col \in MayExist,
         \A o \in rejected \ lost' :
           row[o].meta.slip # "none" => row'[o].meta.slip # "none",
         crashes' = 0 => \A v \in Worker : At(v, "stop") => worker'[v] = worker[v]
  PROVE  EndedTicketIsStopped'
  <1> SUFFICES ASSUME NEW o \in rejected \ lost', row'[o].col \in MayExist, crashes' = 0,
                      row'[o].meta.slip = "none"
               PROVE  \E v \in Worker : At(v, "stop")' /\ worker'[v].o = o
    BY DEF EndedTicketIsStopped
  <1>1. row[o].meta.slip = "none" /\ row[o].col \in MayExist /\ o \in rejected \ lost
    OBVIOUS
  <1>2. PICK v \in Worker : At(v, "stop") /\ worker[v].o = o
    BY <1>1 DEF EndedTicketIsStopped
  <1>3. worker'[v] = worker[v]
    BY <1>2
  <1> QED
    BY <1>2, <1>3 DEF At

\* The jobs of a session that neither sends nor records.
Harmless(job) == job.pc \notin {"send", "record", "slip", "sliprecord"}

\* Session w goes on to a harmless job, and writes no print state and no slip of
\* an order whose record stands.
Quiet(w, job) ==
  /\ Goes(w, job) /\ Harmless(job)
  /\ job.pc # "idle" => row[job.o].st # "none" /\ job.o \in Order
  /\ \A o \in Order \ lost' : SamePrint(o) /\ row'[o].meta.slip = row[o].meta.slip
  /\ \A o \in Order :
       /\ row'[o].col = "SUCCESS" => row[o].col = "SUCCESS"
       /\ row'[o].st = "none" => row'[o] = row[o]
       /\ row[o].st = "ended" => row'[o].st = "ended"
  /\ UNCHANGED paper /\ UNCHANGED crashes /\ lost \subseteq lost'

\* A quiet step keeps the invariant, but for what it says of ended orders.
LEMMA QuietKeeps ==
  ASSUME Inv, TypeOK', NEW w \in Worker, NEW job \in Job \cup {Idle}, Quiet(w, job)
  PROVE  /\ \A o \in Order \ lost' : Undisturbed(o)'
         /\ SuccessCameOut'
         /\ UNCHANGED rejected => RowsAreThere'
         /\ UNCHANGED rejected /\ ~ At(w, "stop") => EndedTicketIsStopped'
  <1>1. \A v \in Worker :
          Harmless(worker'[v]) \/ worker'[v] = worker[v]
    BY GoesType DEF Inv, Quiet
  <1>2. ASSUME NEW o \in Order \ lost'
        PROVE  Undisturbed(o)'
    <2>1. Undisturbed(o) /\ o \in Order
      BY <1>2 DEF Inv, Quiet
    <2>2. TicketClaimed(o)' /\ TicketCounted(o)'
      BY <1>1, <2>1, TicketStays DEF Undisturbed, Quiet, Harmless, Printing
    <2>3. SlipClaimed(o)' /\ SlipCounted(o)'
      BY <1>1, <2>1, SlipStays DEF Undisturbed, Quiet, Harmless, Slipping
    <2> QED
      BY <2>2, <2>3 DEF Undisturbed
  <1>3. SuccessCameOut'
    <2>1. \A o \in Order : paper'[o].ticket >= paper[o].ticket
      BY DEF Quiet, Inv, TypeOK
    <2> QED
      BY <1>1, <2>1, SuccessStays DEF Inv, Quiet, Harmless, At
  <1>4. ASSUME UNCHANGED rejected
        PROVE  RowsAreThere'
    <2>1. ASSUME NEW v \in Worker, ~ Free(v)'
          PROVE  row'[worker'[v].o].st # "none"
      <3>1. worker'[v].o \in Order /\ row[worker'[v].o].st # "none"
        <4>1. CASE v = w
          BY <2>1, <4>1, GoesType DEF Quiet, Free, Inv
        <4>2. CASE v # w
          <5>1. worker'[v] = worker[v]
            BY <4>2, GoesType DEF Quiet, Inv
          <5> QED
            BY <2>1, <5>1, BusyHasJob DEF Free, Inv, RowsAreThere
        <4> QED
          BY <4>1, <4>2
      <3> QED
        BY <3>1 DEF Quiet
    <2>2. \A o \in Order : row'[o].st = "none" => row'[o] = row[o]
      BY DEF Quiet
    <2>3. \A o \in rejected : row[o].st = "ended" => row'[o].st = "ended"
      BY DEF Quiet, Inv, TypeOK
    <2> QED
      BY <1>4, <2>1, <2>2, <2>3, RowsStay DEF Inv
  <1>5. ASSUME UNCHANGED rejected, ~ At(w, "stop")
        PROVE  EndedTicketIsStopped'
    <2>1. \A v \in Worker : At(v, "stop") => worker'[v] = worker[v]
      BY <1>5, GoesType DEF Quiet, Inv
    <2>2. \A o \in rejected \ lost' :
            /\ row'[o].col \in MayExist => row[o].col \in MayExist
            /\ row'[o].meta.slip = row[o].meta.slip
      BY DEF Quiet, SamePrint, MayExist, Inv, TypeOK
    <2> QED
      BY <1>5, <2>1, <2>2, StopStays DEF Quiet, Inv
  <1> QED
    BY <1>2, <1>3, <1>4, <1>5

\* What a session goes on to is a job, if the types are kept.
LEMMA GoesJob ==
  ASSUME TypeOK, TypeOK', NEW w \in Worker, NEW job, Goes(w, job)
  PROVE  job \in Job \cup {Idle}
  <1>1. worker'[w] = job
    BY DEF TypeOK, Goes
  <1>2. worker'[w] \in Job \cup {Idle}
    BY DEF TypeOK
  <1> QED
    BY <1>1, <1>2

\* Looking at a ticket that cannot be claimed is quiet.
LEMMA QuietTicketSteps ==
  ASSUME Inv, TypeOK', NEW w \in Worker,
         Evaluate(w) \/ (Claim(w) /\ ~ Claimable(row[worker[w].o]))
  PROVE  Inv'
  <1> DEFINE o == worker[w].o
  <1>0. o \in Order /\ row[o].st # "none"
    BY BusyHasJob DEF Inv, RowsAreThere, Evaluate, Claim, At, Free
  <1>1. PICK job \in {On("claim", o), Idle} : Goes(w, job)
    BY DEF Evaluate, Claim
  <1>2. job \in Job \cup {Idle} /\ Harmless(job) /\ (job.pc # "idle" => job.o = o)
    BY <1>0, <1>1, OnType DEF Idle, Harmless
  <1>3. Quiet(w, job)
    BY <1>0, <1>1, <1>2 DEF Quiet, SamePrint, Evaluate, Claim, At, history
  <1> QED
    BY <1>2, <1>3, QuietKeeps DEF Inv, Evaluate, Claim, At, history

\* Taking up a job is quiet.
LEMMA QuietBeginnings ==
  ASSUME Inv, TypeOK', NEW w \in Worker, NEW o \in Order,
         \/ Trigger(w, o) \/ AskReprint(w, o) \/ ReadNote(w, o)
         \/ \E by \in {"reject", "cancel"} : BeginEnd(w, o, by)
         \/ \E number \in BOOLEAN : ReadPickup(w, o, number)
  PROVE  Inv'
  <1>1. UNCHANGED <<row, paper, rejected, lost, crashes>> /\ Free(w) /\ row[o].st # "none"
    BY DEF Trigger, AskReprint, ReadNote, BeginEnd, ReadPickup, history
  <1>2. ASSUME NEW job, Goes(w, job), Harmless(job), job.o = o
        PROVE  Inv'
    <2>1. job \in Job \cup {Idle}
      BY <1>2, GoesJob DEF Inv
    <2>2. Quiet(w, job)
      BY <1>1, <1>2 DEF Quiet, SamePrint, At, Free
    <2> QED
      BY <1>1, <2>1, <2>2, QuietKeeps DEF Inv, At, Free
  <1>3. CASE Trigger(w, o)
    BY <1>2, <1>3 DEF Trigger, On, Harmless
  <1>4. CASE AskReprint(w, o)
    BY <1>2, <1>4 DEF AskReprint, On, Harmless
  <1>5. CASE ReadNote(w, o)
    BY <1>2, <1>5 DEF ReadNote, Harmless
  <1>6. CASE \E by \in {"reject", "cancel"} : BeginEnd(w, o, by)
    BY <1>2, <1>6 DEF BeginEnd, Harmless
  <1>7. CASE \E number \in BOOLEAN : ReadPickup(w, o, number)
    BY <1>2, <1>7 DEF ReadPickup, Harmless
  <1> QED
    BY <1>3, <1>4, <1>5, <1>6, <1>7

\* A reprint is quiet.
LEMMA QuietReprintSteps ==
  ASSUME Inv, TypeOK', NEW w \in Worker,
         ClaimReprint(w) \/ SendReprint(w) \/ RecordReprint(w)
  PROVE  Inv'
  <1> DEFINE o == worker[w].o
  <1>0. o \in Order /\ row[o].st # "none" /\ row[o] \in Row
    BY BusyHasJob
    DEF Inv, RowsAreThere, ClaimReprint, SendReprint, RecordReprint, At, Free, TypeOK
  <1>1. UNCHANGED <<paper, rejected, lost, crashes>> /\ ~ At(w, "stop")
    BY DEF ClaimReprint, SendReprint, RecordReprint, history, At
  <1>4. ASSUME NEW s, row' = [row EXCEPT ![o].meta.reprint = s], NEW x \in Order
        PROVE  /\ row'[x].col = row[x].col /\ row'[x].st = row[x].st
               /\ row'[x].meta.initial = row[x].meta.initial
               /\ row'[x].meta.slip = row[x].meta.slip
    BY <1>0, <1>4 DEF Inv, TypeOK, Row, Meta
  <1>5. \A x \in Order : /\ row'[x].col = row[x].col /\ row'[x].st = row[x].st
                         /\ row'[x].meta.initial = row[x].meta.initial
                         /\ row'[x].meta.slip = row[x].meta.slip
    BY <1>4 DEF ClaimReprint, SendReprint, RecordReprint
  <1>6. \A x \in Order : row[x].st = "none" => row'[x] = row[x]
    BY <1>0 DEF ClaimReprint, SendReprint, RecordReprint, Inv, TypeOK
  <1>7. ASSUME NEW job, Goes(w, job), Harmless(job), job.pc # "idle" => job.o = o
        PROVE  Inv'
    <2>1. job \in Job \cup {Idle}
      BY <1>7, GoesJob DEF Inv
    <2>2. Quiet(w, job)
      BY <1>0, <1>1, <1>5, <1>6, <1>7 DEF Quiet, SamePrint
    <2> QED
      BY <1>1, <2>1, <2>2, QuietKeeps DEF Inv
  <1>8. CASE ClaimReprint(w)
    BY <1>7, <1>8 DEF ClaimReprint, On, Harmless
  <1>9. CASE SendReprint(w)
    BY <1>7, <1>9 DEF SendReprint, Done, Harmless
  <1>10. CASE RecordReprint(w)
    BY <1>7, <1>10 DEF RecordReprint, Idle, Harmless
  <1> QED
    BY <1>8, <1>9, <1>10

\* A customer's cancellation is quiet.
LEMMA CustomerCancelsKeeps ==
  ASSUME Inv, TypeOK', NEW w \in Worker, CustomerCancels(w)
  PROVE  Inv'
  <1> DEFINE o == worker[w].o
             job == IF worker[w].needed THEN On("stop", o) ELSE Idle
  <1>0. o \in Order /\ row[o].st # "none"
    BY BusyHasJob DEF Inv, RowsAreThere, CustomerCancels, At, Free
  <1>1. Goes(w, job) /\ row' = [row EXCEPT ![o].st = "ended"]
    BY DEF CustomerCancels
  <1>2. UNCHANGED paper /\ UNCHANGED rejected /\ UNCHANGED lost /\ UNCHANGED crashes
    BY DEF CustomerCancels, history
  <1>3. /\ job \in Job \cup {Idle} /\ Harmless(job)
        /\ job.pc # "idle" => job.o = o
    BY <1>0, OnType DEF Harmless, Idle
  <1>4. ~ At(w, "stop")
    BY DEF CustomerCancels, At
  <1> HIDE DEF job
  <1>5. ASSUME NEW x \in Order
        PROVE  /\ row'[x].col = row[x].col /\ row'[x].meta = row[x].meta
               /\ x # o => row'[x] = row[x]
               /\ x = o => row'[x].st = "ended"
    BY <1>0, <1>1 DEF Inv, TypeOK, Row
  <1>6. Quiet(w, job)
    BY <1>0, <1>1, <1>2, <1>3, <1>5 DEF Quiet, SamePrint
  <1> QED
    BY <1>2, <1>3, <1>4, <1>6, QuietKeeps DEF Inv

\* A merchant that ends an order leaves a job that will stop the kitchen.
LEMMA MerchantEndsKeeps ==
  ASSUME Inv, TypeOK', NEW w \in Worker, MerchantEnds(w)
  PROVE  Inv'
  <1> DEFINE o == worker[w].o
             job == IF SlipNeeded(row[o]) THEN On("stop", o) ELSE Idle
  <1>0. o \in Order /\ row[o].st # "none"
    BY BusyHasJob DEF Inv, RowsAreThere, MerchantEnds, At, Free
  <1>1. /\ Goes(w, job) /\ row' = [row EXCEPT ![o].st = "ended"]
        /\ rejected' = rejected \cup {o}
    BY DEF MerchantEnds
  <1>2. UNCHANGED paper /\ UNCHANGED lost /\ UNCHANGED crashes
    BY DEF MerchantEnds
  <1>3. /\ job \in Job \cup {Idle} /\ Harmless(job)
        /\ job.pc # "idle" => job.o = o
        /\ SlipNeeded(row[o]) => job.pc = "stop"
    BY <1>0, OnType DEF Harmless, Idle
  <1> HIDE DEF job
  <1>4. \A v \in Worker \ {w} : worker'[v] = worker[v]
    BY <1>1, <1>3, GoesType DEF Inv
  <1>5. worker'[w] = job
    BY <1>1, <1>3, GoesType DEF Inv
  <1>6. ASSUME NEW x \in Order
        PROVE  /\ row'[x].col = row[x].col /\ row'[x].meta = row[x].meta
               /\ x # o => row'[x] = row[x]
               /\ x = o => row'[x].st = "ended"
    BY <1>0, <1>1 DEF Inv, TypeOK, Row
  <1>7. Quiet(w, job)
    BY <1>0, <1>1, <1>2, <1>3, <1>6 DEF Quiet, SamePrint
  <1>8. RowsAreThere'
    <2>1. \A v \in Worker : ~ Free(v)' => row'[worker'[v].o].st # "none"
      <3>1. ASSUME NEW v \in Worker, v # w, ~ Free(v)'
            PROVE  row'[worker'[v].o].st # "none"
        <4>1. worker'[v] = worker[v] /\ worker[v].o \in Order /\ row[worker[v].o].st # "none"
          BY <1>4, <3>1, BusyHasJob DEF Inv, RowsAreThere, Free
        <4> QED
          BY <1>6, <4>1
      <3> QED
        BY <1>0, <1>3, <1>5, <1>6, <3>1 DEF Free
    <2>2. \A x \in Order : row'[x].st = "none" => row'[x].meta = NoMeta
      BY <1>6 DEF Inv, RowsAreThere
    <2>3. \A x \in rejected' : row'[x].st = "ended"
      BY <1>0, <1>1, <1>6 DEF Inv, RowsAreThere, TypeOK
    <2> QED
      BY <2>1, <2>2, <2>3 DEF RowsAreThere
  <1>9. EndedTicketIsStopped'
    <2> SUFFICES ASSUME NEW x \in rejected' \ lost', row'[x].col \in MayExist, crashes' = 0,
                        row'[x].meta.slip = "none"
                 PROVE  \E v \in Worker : At(v, "stop")' /\ worker'[v].o = x
      BY DEF EndedTicketIsStopped
    <2>0. x \in Order /\ row[x].col \in MayExist /\ row[x].meta.slip = "none"
      BY <1>0, <1>1, <1>6 DEF Inv, TypeOK
    <2>1. CASE x = o
      BY <1>3, <1>5, <2>0, <2>1 DEF SlipNeeded, At
    <2>2. CASE x # o
      <3>1. PICK v \in Worker : At(v, "stop") /\ worker[v].o = x
        BY <1>1, <1>2, <2>0, <2>2 DEF Inv, EndedTicketIsStopped
      <3>2. v # w
        BY <3>1 DEF MerchantEnds, At
      <3> QED
        BY <1>4, <3>1, <3>2 DEF At
    <2> QED
      BY <2>1, <2>2
  <1> QED
    BY <1>3, <1>7, <1>8, <1>9, QuietKeeps DEF Inv

\* Giving up is quiet.
LEMMA GivesUpKeeps ==
  ASSUME Inv, TypeOK', NEW w \in Worker, GivesUp(w)
  PROVE  Inv'
  <1>1. Quiet(w, Idle) /\ UNCHANGED rejected /\ ~ At(w, "stop")
    BY DEF GivesUp, history, Quiet, SamePrint, Harmless, Idle, At
  <1> QED
    BY <1>1, QuietKeeps DEF Inv

\* An edit that leaves the record as it is writes no print state; one that does
\* not takes the order out of the argument.
LEMMA WriteNoteKeeps ==
  ASSUME Inv, TypeOK', NEW w \in Worker, WriteNote(w)
  PROVE  Inv'
  <1> DEFINE o == worker[w].o
             meta == worker[w].meta
  <1>0. o \in Order /\ row[o].st # "none"
    BY BusyHasJob DEF Inv, RowsAreThere, WriteNote, At, Free
  <1>1. /\ Goes(w, Idle) /\ row' = [row EXCEPT ![o].meta = meta]
        /\ lost' = LostAfter(o, meta)
        /\ UNCHANGED <<paper, rejected, crashes>> /\ ~ At(w, "stop")
    BY DEF WriteNote, At
  <1>2. ASSUME NEW x \in Order
        PROVE  /\ row'[x].col = row[x].col /\ row'[x].st = row[x].st
               /\ x # o => row'[x] = row[x]
               /\ x = o => row'[x].meta = meta
    BY <1>0, <1>1 DEF Inv, TypeOK, Row
  <1>3. lost \subseteq lost' /\ (o \notin lost' => meta = row[o].meta)
    BY <1>1 DEF LostAfter, Overwrites
  <1>4. Quiet(w, Idle)
    BY <1>0, <1>1, <1>2, <1>3 DEF Quiet, SamePrint, Harmless, Idle
  <1> QED
    BY <1>1, <1>4, QuietKeeps DEF Inv

(***************************************************************************)
(* The steps that write a print state                                      *)
(***************************************************************************)

\* A step about order o keeps what is true of the others.
LEMMA Elsewhere ==
  ASSUME Inv, NEW x \in Order \ lost, row'[x] = row[x], paper'[x] = paper[x],
         \A v \in Worker :
           worker'[v] = worker[v] \/ Harmless(worker'[v]) \/ worker'[v].o # x
  PROVE  Undisturbed(x)'
  <1>1. Undisturbed(x)
    BY DEF Inv
  <1>2. TicketClaimed(x)' /\ TicketCounted(x)'
    BY <1>1, TicketStays DEF Undisturbed, Harmless, Printing, SamePrint
  <1>3. SlipClaimed(x)' /\ SlipCounted(x)'
    BY <1>1, SlipStays DEF Undisturbed, Harmless, Slipping
  <1> QED
    BY <1>2, <1>3 DEF Undisturbed

\* Opening, quarantining and parking change no session and no sheet.
LEMMA RowStepsKeep ==
  ASSUME Inv, TypeOK', NEW o \in Order, Open(o) \/ Quarantine(o) \/ Park(o)
  PROVE  Inv'
  <1>1. UNCHANGED worker /\ UNCHANGED paper /\ UNCHANGED rejected /\ UNCHANGED lost
        /\ UNCHANGED crashes
    BY DEF Open, Quarantine, Park, history
  <1>2. /\ row[o] \in Row /\ row'[o] \in Row
        /\ \A x \in Order \ {o} : row'[x] = row[x]
    BY DEF Inv, TypeOK, Open, Quarantine, Park
  <1>3. /\ row'[o].st = "open" /\ o \notin rejected
        /\ row'[o].col = row'[o].meta.initial
        /\ row'[o].meta.slip = row[o].meta.slip
        /\ \/ /\ row'[o].meta.initial \in {"NOT_ELIGIBLE", "PENDING"}
              /\ row[o].meta.initial \in {"NOT_ELIGIBLE", "PENDING"}
           \/ row[o].meta.initial = "SENDING" /\ row'[o].meta.initial = "UNKNOWN"
    <2>1. CASE Open(o)
      <3>1. PICK number \in BOOLEAN :
              LET r == [NoRow EXCEPT !.st = "open", !.pickup = number]
              IN row' = [row EXCEPT ![o] =
                           Marked(r, IF Waiting(r) THEN "NOT_ELIGIBLE" ELSE "PENDING")]
        BY <2>1 DEF Open
      <3> DEFINE r == [NoRow EXCEPT !.st = "open", !.pickup = number]
                 s == IF Waiting(r) THEN "NOT_ELIGIBLE" ELSE "PENDING"
      <3>2. r \in Row /\ r.st = "open" /\ r.meta = NoMeta
        BY NoRowType DEF Row, NoRow
      <3>3. s \in {"NOT_ELIGIBLE", "PENDING"} /\ s \in Initial
        BY DEF Initial
      <3>4. row' = [row EXCEPT ![o] = Marked(r, s)]
        BY <3>1
      <3> HIDE DEF r, s
      <3>5. row'[o] = Marked(r, s)
        BY <3>4 DEF Inv, TypeOK
      <3>6. /\ row'[o].st = "open" /\ row'[o].col = s /\ row'[o].meta.initial = s
            /\ row'[o].meta.slip = NoMeta.slip
        BY <3>2, <3>3, <3>5, MarkedFields
      <3>7. row[o].st = "none" /\ row[o].meta = NoMeta /\ o \notin rejected
        BY <2>1 DEF Open, Inv, RowsAreThere
      <3> QED
        BY <3>3, <3>6, <3>7 DEF NoMeta
    <2>2. CASE Quarantine(o)
      <3>1. row'[o] = Marked(row[o], "UNKNOWN")
        BY <2>2 DEF Quarantine, Inv, TypeOK
      <3>2. /\ row'[o].st = row[o].st /\ row'[o].col = "UNKNOWN"
            /\ row'[o].meta.initial = "UNKNOWN" /\ row'[o].meta.slip = row[o].meta.slip
        BY <1>2, <3>1, MarkedFields DEF Initial, Result
      <3> QED
        BY <2>2, <3>2 DEF Quarantine, Inv, RowsAreThere
    <2>3. CASE Park(o)
      <3>1. row'[o] = Marked(row[o], "NOT_ELIGIBLE")
        BY <2>3 DEF Park, Inv, TypeOK
      <3>2. /\ row'[o].st = row[o].st /\ row'[o].col = "NOT_ELIGIBLE"
            /\ row'[o].meta.initial = "NOT_ELIGIBLE"
            /\ row'[o].meta.slip = row[o].meta.slip
        BY <1>2, <3>1, MarkedFields DEF Initial
      <3> QED
        BY <2>3, <3>2 DEF Park, Inv, RowsAreThere
    <2> QED
      BY <2>1, <2>2, <2>3
  <1>4. ASSUME NEW x \in Order \ lost'
        PROVE  Undisturbed(x)'
    <2>1. CASE x # o
      BY <1>1, <1>2, <2>1, Elsewhere
    <2>2. CASE x = o
      <3>1. Undisturbed(o)
        BY <1>1, <2>2 DEF Inv
      <3>2. TicketClaimed(o)' /\ TicketCounted(o)'
        BY <1>1, <1>3, <3>1 DEF Undisturbed, TicketClaimed, TicketCounted, Printing, At
      <3>3. SlipClaimed(o)' /\ SlipCounted(o)'
        BY <1>1, <1>3, <3>1, SlipStays DEF Undisturbed
      <3> QED
        BY <2>2, <3>2, <3>3 DEF Undisturbed
    <2> QED
      BY <2>1, <2>2
  <1>5. SuccessCameOut'
    <2>1. \A x \in Order : paper'[x].ticket >= paper[x].ticket
      BY <1>1 DEF Inv, TypeOK
    <2>2. \A x \in Order : row'[x].col = "SUCCESS" => row[x].col = "SUCCESS"
      BY <1>2, <1>3
    <2> QED
      BY <1>1, <2>1, <2>2, SuccessStays DEF Inv
  <1>6. RowsAreThere'
    <2>1. \A v \in Worker : ~ Free(v)' => row'[worker'[v].o].st # "none"
      BY <1>1, <1>2, <1>3, BusyHasJob DEF Inv, RowsAreThere, Free
    <2> QED
      BY <1>1, <1>2, <1>3, <2>1, RowsStay DEF Inv, TypeOK
  <1>7. EndedTicketIsStopped'
    BY <1>1, <1>2, <1>3, StopStays DEF Inv, TypeOK
  <1> QED
    BY <1>4, <1>5, <1>6, <1>7 DEF Inv

\* A claim is granted only while nobody prints the ticket, and none came out.
LEMMA ClaimKeeps ==
  ASSUME Inv, TypeOK', NEW w \in Worker, Claim(w), Claimable(row[worker[w].o])
  PROVE  Inv'
  <1>0. PICK o \in Order : o = worker[w].o /\ row[o] \in Row
    BY BusyHasJob DEF Inv, Claim, At, Free, TypeOK
  <1>1. Goes(w, On("send", o)) /\ row' = [row EXCEPT ![o] = Claimed(row[o])]
    BY <1>0 DEF Claim
  <1>2. UNCHANGED paper /\ UNCHANGED rejected /\ UNCHANGED lost /\ UNCHANGED crashes
    BY DEF Claim, history
  <1>3. worker'[w] = On("send", o) /\ \A v \in Worker \ {w} : worker'[v] = worker[v]
    BY <1>0, <1>1, OnType, GoesType DEF Inv
  <1>4. /\ row'[o].st = "open" /\ row[o].st = "open" /\ o \notin rejected
        /\ row'[o].col = "SENDING" /\ row'[o].meta.initial = "SENDING"
        /\ row'[o].meta.slip = row[o].meta.slip
        /\ row[o].meta.initial \in {"PENDING", "FAILED"}
        /\ \A x \in Order \ {o} : row'[x] = row[x]
    BY <1>0, <1>1, ClaimedFields DEF Inv, TypeOK, Claimable, RowsAreThere
  <1>5. ASSUME NEW x \in Order \ lost'
        PROVE  Undisturbed(x)'
    <2>1. CASE x # o
      BY <1>2, <1>3, <1>4, <2>1, Elsewhere DEF On
    <2>2. CASE x = o
      <3>1. Undisturbed(o)
        BY <1>2, <2>2 DEF Inv
      <3>2. paper[o].ticket = 0 /\ \A v \in Worker : ~ Printing(v, o)
        BY <1>4, <3>1 DEF Undisturbed, TicketClaimed, TicketCounted
      <3>3. \A v \in Worker : Printing(v, o)' => v = w
        BY <1>3, <3>2 DEF Printing
      <3>4. TicketClaimed(o)'
        BY <1>4, <3>3 DEF TicketClaimed
      <3>5. TicketCounted(o)'
        BY <1>2, <3>2 DEF TicketCounted
      <3>6. SlipClaimed(o)' /\ SlipCounted(o)'
        BY <1>2, <1>3, <1>4, <3>1, SlipStays DEF Undisturbed, Slipping, On
      <3> QED
        BY <2>2, <3>4, <3>5, <3>6 DEF Undisturbed
    <2> QED
      BY <2>1, <2>2
  <1>6. SuccessCameOut'
    <2>1. \A x \in Order : paper'[x].ticket >= paper[x].ticket
      BY <1>2 DEF Inv, TypeOK
    <2>2. \A x \in Order : row'[x].col = "SUCCESS" => row[x].col = "SUCCESS"
      BY <1>4
    <2>3. \A v \in Worker : At(v, "record")' => worker'[v] = worker[v]
      BY <1>3 DEF At, On
    <2> QED
      BY <2>1, <2>2, <2>3, SuccessStays DEF Inv
  <1>7. RowsAreThere'
    <2>1. \A v \in Worker : ~ Free(v)' => row'[worker'[v].o].st # "none"
      BY <1>0, <1>3, <1>4, BusyHasJob DEF Inv, RowsAreThere, Free, On
    <2> QED
      BY <1>2, <1>4, <2>1, RowsStay DEF Inv, TypeOK
  <1>8. EndedTicketIsStopped'
    <2>1. \A v \in Worker : At(v, "stop") => worker'[v] = worker[v]
      BY <1>3 DEF Claim, At
    <2> QED
      BY <1>2, <1>4, <2>1, StopStays DEF Inv, TypeOK
  <1> QED
    BY <1>5, <1>6, <1>7, <1>8 DEF Inv

\* The sheet that a claim lets out is the first.
LEMMA SendKeeps ==
  ASSUME Inv, TypeOK', NEW w \in Worker, Send(w)
  PROVE  Inv'
  <1>0. PICK o \in Order : o = worker[w].o /\ row[o].st # "none"
    BY BusyHasJob DEF Inv, RowsAreThere, Send, At, Free
  <1>1. PICK out \in Outcomes :
          /\ paper' = [paper EXCEPT ![o].ticket = @ + out[2]]
          /\ Goes(w, Done("record", o, out[1]))
    BY <1>0 DEF Send
  <1>2. UNCHANGED row /\ UNCHANGED rejected /\ UNCHANGED lost /\ UNCHANGED crashes
    BY DEF Send, history
  <1>3. /\ Done("record", o, out[1]) \in Job /\ out[2] \in {0, 1}
        /\ out[1] = "FAILED" => out[2] = 0
        /\ out[1] = "SUCCESS" => out[2] = 1
    BY DoneType
  <1>4. worker'[w] = Done("record", o, out[1]) /\ \A v \in Worker \ {w} : worker'[v] = worker[v]
    BY <1>1, <1>3, GoesType DEF Inv
  <1>5. /\ paper[o].ticket \in Nat /\ paper'[o].ticket = paper[o].ticket + out[2]
        /\ paper'[o].slip = paper[o].slip
        /\ \A x \in Order \ {o} : paper'[x] = paper[x]
    BY <1>1 DEF Inv, TypeOK
  <1>6. At(w, "send") /\ Printing(w, o)
    BY <1>0 DEF Send, At, Printing
  <1>7. ASSUME NEW x \in Order \ lost'
        PROVE  Undisturbed(x)'
    <2>1. CASE x # o
      BY <1>2, <1>4, <1>5, <2>1, Elsewhere DEF Done
    <2>2. CASE x = o
      <3>1. Undisturbed(o)
        BY <1>2, <2>2 DEF Inv
      <3>2. /\ paper[o].ticket = 0 /\ row[o].meta.initial \in {"SENDING", "UNKNOWN"}
            /\ \A v \in Worker : Printing(v, o) => v = w
        BY <1>6, <3>1 DEF Undisturbed, TicketClaimed, TicketCounted, At
      <3>3. \A v \in Worker : Printing(v, o)' => v = w
        BY <1>4, <3>2 DEF Printing
      <3>4. TicketClaimed(o)'
        BY <1>2, <3>1, <3>2, <3>3 DEF Undisturbed, TicketClaimed
      <3>5. paper'[o].ticket = out[2] /\ paper'[o].ticket <= 1
        BY <1>3, <1>5, <3>2
      <3>6. At(w, "record")' /\ worker'[w].result = out[1]
        BY <1>4 DEF At, Done
      <3>7. TicketCounted(o)'
        BY <1>2, <1>3, <3>2, <3>3, <3>5, <3>6 DEF TicketCounted
      <3>8. SlipClaimed(o)' /\ SlipCounted(o)'
        BY <1>2, <1>4, <1>5, <3>1, SlipStays DEF Undisturbed, Slipping, Done
      <3> QED
        BY <2>2, <3>4, <3>7, <3>8 DEF Undisturbed
    <2> QED
      BY <2>1, <2>2
  <1>8. SuccessCameOut'
    <2>1. \A x \in Order : paper[x].ticket > 0 => paper'[x].ticket > 0
      BY <1>3, <1>5
    <2>2. ASSUME NEW v \in Worker, At(v, "record")', worker'[v].result = "SUCCESS"
          PROVE  paper'[worker'[v].o].ticket > 0
      <3>1. CASE v = w
        <4>1. worker'[v].o = o /\ out[1] = "SUCCESS"
          BY <1>4, <2>2, <3>1 DEF Done
        <4> QED
          BY <1>3, <1>5, <4>1
      <3>2. CASE v # w
        <4>1. worker'[v] = worker[v] /\ At(v, "record")
          BY <1>4, <2>2, <3>2 DEF At
        <4>2. worker[v].o \in Order
          BY <4>1, BusyHasJob DEF Inv, At, Free
        <4> QED
          BY <2>1, <2>2, <4>1, <4>2 DEF Inv, SuccessCameOut
      <3> QED
        BY <3>1, <3>2
    <2> QED
      BY <1>2, <2>1, <2>2 DEF Inv, SuccessCameOut
  <1>9. RowsAreThere'
    <2>1. \A v \in Worker : ~ Free(v)' => row'[worker'[v].o].st # "none"
      BY <1>0, <1>2, <1>4 DEF Inv, RowsAreThere, Free, Done
    <2> QED
      BY <1>2, <2>1, RowsStay DEF Inv
  <1>10. EndedTicketIsStopped'
    <2>1. \A v \in Worker : At(v, "stop") => worker'[v] = worker[v]
      BY <1>4, <1>6 DEF At
    <2> QED
      BY <1>2, <2>1, StopStays DEF Inv
  <1> QED
    BY <1>7, <1>8, <1>9, <1>10 DEF Inv

\* Whoever records the result of a claim that stands is the one that printed.
LEMMA RecordKeeps ==
  ASSUME Inv, TypeOK', NEW w \in Worker, Record(w)
  PROVE  Inv'
  <1>0. PICK o \in Order : o = worker[w].o /\ row[o].st # "none" /\ row[o] \in Row
    BY BusyHasJob DEF Inv, RowsAreThere, Record, At, Free, TypeOK
  <1>1. PICK result \in Result : result = worker[w].result
    BY BusyHasJob DEF Inv, Record, At, Free, Job
  <1>2. UNCHANGED paper /\ UNCHANGED rejected /\ UNCHANGED lost /\ UNCHANGED crashes
    BY DEF Record, history
  <1>3. worker'[w] = Idle /\ \A v \in Worker \ {w} : worker'[v] = worker[v]
    BY GoesType DEF Inv, Record
  <1>4. \/ UNCHANGED row
        \/ /\ row[o].meta.initial = "SENDING"
           /\ row' = [row EXCEPT ![o] = Marked(row[o], result)]
    BY <1>0, <1>1 DEF Record, Inv, TypeOK
  <1>5. \A x \in Order \ {o} : row'[x] = row[x]
    BY <1>4 DEF Inv, TypeOK
  <1>6. CASE row[o].meta.initial # "SENDING"
    <2>1. UNCHANGED row /\ Quiet(w, Idle)
      BY <1>2, <1>4, <1>6 DEF Quiet, SamePrint, Record, Harmless, Idle
    <2> QED
      BY <1>2, <2>1, QuietKeeps DEF Inv, Record, At
  <1>7. CASE row[o].meta.initial = "SENDING" /\ UNCHANGED row
    <2>1. Quiet(w, Idle)
      BY <1>2, <1>7 DEF Quiet, SamePrint, Record, Harmless, Idle
    <2> QED
      BY <1>2, <2>1, QuietKeeps DEF Inv, Record, At
  <1>8. CASE /\ row[o].meta.initial = "SENDING"
             /\ row' = [row EXCEPT ![o] = Marked(row[o], result)]
    <2>1. row'[o] = Marked(row[o], result)
      BY <1>8 DEF Inv, TypeOK
    <2>2. /\ row'[o].st = row[o].st /\ row'[o].col = result
          /\ row'[o].meta.initial = result /\ row'[o].meta.slip = row[o].meta.slip
      <3>1. result \in Initial
        BY <1>1 DEF Initial
      <3>2. LET m == Marked(row[o], result)
            IN /\ m.st = row[o].st /\ m.col = result
               /\ m.meta.initial = result /\ m.meta.slip = row[o].meta.slip
        BY <1>0, <3>1, MarkedFields
      <3> QED
        BY <2>1, <3>2
    <2>3. Printing(w, o) /\ At(w, "record")
      BY <1>0 DEF Record, At, Printing
    <2>4. ASSUME NEW x \in Order \ lost'
          PROVE  Undisturbed(x)'
      <3>1. CASE x # o
        BY <1>2, <1>3, <1>5, <3>1, Elsewhere DEF Harmless, Idle
      <3>2. CASE x = o
        <4>1. Undisturbed(o)
          BY <1>2, <3>2 DEF Inv
        <4>2. \A v \in Worker : ~ Printing(v, o)'
          BY <1>3, <2>3, <4>1 DEF Undisturbed, TicketClaimed, Printing, Idle
        <4>3. result = "FAILED" => paper[o].ticket = 0
          BY <1>1, <2>3, <4>1 DEF Undisturbed, TicketCounted
        <4>4. TicketClaimed(o)'
          BY <2>2, <4>2 DEF TicketClaimed
        <4>5. TicketCounted(o)'
          BY <1>2, <2>2, <4>1, <4>2, <4>3 DEF Undisturbed, TicketCounted, Result
        <4>6. SlipClaimed(o)' /\ SlipCounted(o)'
          BY <1>2, <1>3, <2>2, <4>1, SlipStays DEF Undisturbed, Slipping, Idle
        <4> QED
          BY <3>2, <4>4, <4>5, <4>6 DEF Undisturbed
      <3> QED
        BY <3>1, <3>2
    <2>5. SuccessCameOut'
      <3>1. \A x \in Order : row'[x].col = "SUCCESS" => paper'[x].ticket > 0
        BY <1>0, <1>1, <1>2, <1>5, <2>2, <2>3 DEF Inv, SuccessCameOut
      <3>2. \A v \in Worker : At(v, "record")' => worker'[v] = worker[v]
        BY <1>3 DEF At, Idle
      <3> QED
        BY <1>2, <3>1, <3>2 DEF Inv, SuccessCameOut, At
    <2>6. RowsAreThere'
      <3>1. \A v \in Worker : ~ Free(v)' => row'[worker'[v].o].st # "none"
        BY <1>0, <1>3, <1>5, <2>2, BusyHasJob DEF Inv, RowsAreThere, Free, Idle
      <3> QED
        BY <1>0, <1>2, <1>5, <2>2, <3>1, RowsStay DEF Inv, RowsAreThere, TypeOK
    <2>7. EndedTicketIsStopped'
      <3>1. \A v \in Worker : At(v, "stop") => worker'[v] = worker[v]
        BY <1>3, <2>3 DEF At
      <3>2. o \notin lost => row[o].col = "SENDING"
        BY <1>8 DEF Inv, Undisturbed, TicketClaimed
      <3>3. /\ \A x \in rejected \ lost' :
                 row'[x].col \in MayExist => row[x].col \in MayExist
            /\ \A x \in rejected \ lost' :
                 row[x].meta.slip # "none" => row'[x].meta.slip # "none"
        BY <1>2, <1>5, <2>2, <3>2 DEF Inv, TypeOK, MayExist
      <3> QED
        BY <1>2, <3>1, <3>3, StopStays DEF Inv
    <2> QED
      BY <2>4, <2>5, <2>6, <2>7 DEF Inv
  <1> QED
    BY <1>4, <1>6, <1>7, <1>8

\* The first pickup number lets a waiting ticket go; it was never claimed.
LEMMA WritePickupKeeps ==
  ASSUME Inv, TypeOK', NEW w \in Worker, WritePickup(w)
  PROVE  Inv'
  <1>0. PICK o \in Order : o = worker[w].o /\ row[o].st # "none" /\ row[o] \in Row
    BY BusyHasJob DEF Inv, RowsAreThere, WritePickup, At, Free, TypeOK
  <1>1. PICK meta \in Meta : meta = worker[w].meta
    BY BusyHasJob DEF Inv, WritePickup, At, Free, Job
  <1>2. PICK number \in BOOLEAN : number = worker[w].number
    BY BusyHasJob DEF Inv, WritePickup, At, Free, Job
  <1> DEFINE r == IF number = worker[w].had THEN row[o]
                  ELSE [row[o] EXCEPT !.pickup = number]
             job == IF First(w) THEN On("print", o) ELSE Idle
  <1>3. Goes(w, job) /\ ~ At(w, "stop")
    BY <1>0 DEF WritePickup, At
  <1>4. UNCHANGED <<paper, rejected, crashes>>
    BY DEF WritePickup
  <1>5. /\ job \in Job \cup {Idle} /\ Harmless(job)
        /\ job.pc # "idle" => job.o = o
    BY OnType DEF Harmless, Idle
  <1>6. \/ /\ row' = [row EXCEPT ![o] = Marked([r EXCEPT !.meta = meta], "PENDING")]
           /\ Marks(w) /\ lost' = LostAfter(o, meta)
        \/ row' = [row EXCEPT ![o] = r] /\ UNCHANGED lost
    BY <1>0, <1>1, <1>2 DEF WritePickup
  <1>7. r \in Row /\ r.st = row[o].st /\ r.col = row[o].col /\ r.meta = row[o].meta
    BY <1>0, <1>2 DEF Row
  <1> HIDE DEF r, job
  <1>8. \A x \in Order \ {o} : row'[x] = row[x]
    BY <1>6 DEF Inv, TypeOK
  <1>9. /\ lost \subseteq lost' /\ row'[o].st = row[o].st
        /\ row'[o].col = "SUCCESS" => row[o].col = "SUCCESS"
        /\ o \notin lost' => SamePrint(o) /\ row'[o].meta.slip = row[o].meta.slip
    <2>1. CASE row' = [row EXCEPT ![o] = r] /\ UNCHANGED lost
      <3>1. row'[o] = r
        BY <2>1 DEF Inv, TypeOK
      <3> QED
        BY <1>7, <2>1, <3>1 DEF SamePrint
    <2>2. CASE /\ row' = [row EXCEPT ![o] = Marked([r EXCEPT !.meta = meta], "PENDING")]
               /\ Marks(w) /\ lost' = LostAfter(o, meta)
      <3> DEFINE q == [r EXCEPT !.meta = meta]
      <3>1. q \in Row /\ q.st = row[o].st /\ q.meta = meta
        BY <1>1, <1>7 DEF Row
      <3>2. row'[o] = Marked(q, "PENDING")
        BY <2>2 DEF Inv, TypeOK
      <3> HIDE DEF q
      <3>3. /\ row'[o].st = row[o].st /\ row'[o].col = "PENDING"
            /\ row'[o].meta.initial = "PENDING" /\ row'[o].meta.slip = meta.slip
        BY <3>1, <3>2, MarkedFields DEF Initial
      <3>4. lost \subseteq lost' /\ (o \notin lost' => meta = row[o].meta)
        BY <2>2 DEF LostAfter, Overwrites
      <3>5. meta.initial = "NOT_ELIGIBLE"
        BY <1>1, <2>2 DEF Marks
      <3> QED
        BY <3>3, <3>4, <3>5 DEF SamePrint
    <2> QED
      BY <1>6, <2>1, <2>2
  <1>10. \A x \in Order : row[x].st # "none" <=> row'[x].st # "none"
    BY <1>8, <1>9
  <1>11. Quiet(w, job)
    BY <1>0, <1>3, <1>4, <1>5, <1>8, <1>9, <1>10 DEF Quiet, SamePrint
  <1> QED
    BY <1>3, <1>4, <1>5, <1>11, QuietKeeps DEF Inv

\* A step of a session that deals with order o's slip, by its effect on o.
LEMMA SlipStepKeeps ==
  ASSUME Inv, TypeOK', NEW w \in Worker, NEW o \in Order, row[o].st # "none",
         NEW job \in Job \cup {Idle}, Goes(w, job), job.pc # "idle" => job.o = o,
         job.pc \notin {"send", "record"},
         worker[w].o = o, ~ Free(w),
         \A x \in Order \ {o} : row'[x] = row[x] /\ paper'[x] = paper[x],
         row'[o].col = row[o].col, row'[o].meta.initial = row[o].meta.initial,
         row'[o].st = row[o].st, paper'[o].ticket = paper[o].ticket,
         UNCHANGED rejected, UNCHANGED lost, UNCHANGED crashes,
         row[o].meta.slip # "none" => row'[o].meta.slip # "none",
         At(w, "stop") => row[o].col \notin MayExist \/ row'[o].meta.slip # "none",
         o \notin lost => SlipClaimed(o)' /\ SlipCounted(o)'
  PROVE  Inv'
  <1>1. worker'[w] = job /\ \A v \in Worker \ {w} : worker'[v] = worker[v]
    BY GoesType DEF Inv
  <1>2. ASSUME NEW x \in Order \ lost'
        PROVE  Undisturbed(x)'
    <2>1. CASE x # o
      BY <1>1, <2>1, Elsewhere DEF Harmless
    <2>2. CASE x = o
      <3>1. TicketClaimed(o)' /\ TicketCounted(o)'
        BY <1>1, <2>2, TicketStays DEF Inv, Undisturbed, Printing, SamePrint
      <3> QED
        BY <2>2, <3>1 DEF Undisturbed
    <2> QED
      BY <2>1, <2>2
  <1>3. SuccessCameOut'
    <2>1. \A x \in Order : paper'[x].ticket >= paper[x].ticket
      BY DEF Inv, TypeOK
    <2>2. \A v \in Worker : At(v, "record")' => worker'[v] = worker[v]
      BY <1>1 DEF At
    <2> QED
      BY <2>1, <2>2, SuccessStays DEF Inv
  <1>4. RowsAreThere'
    <2>1. \A v \in Worker : ~ Free(v)' => row'[worker'[v].o].st # "none"
      BY <1>1, BusyHasJob DEF Inv, RowsAreThere, Free
    <2>2. \A x \in Order : row'[x].st = "none" => row'[x] = row[x]
      OBVIOUS
    <2> QED
      BY <2>1, <2>2, RowsStay DEF Inv, TypeOK
  <1>5. EndedTicketIsStopped'
    <2> SUFFICES ASSUME NEW x \in rejected' \ lost', row'[x].col \in MayExist, crashes' = 0,
                        row'[x].meta.slip = "none"
                 PROVE  \E v \in Worker : At(v, "stop")' /\ worker'[v].o = x
      BY DEF EndedTicketIsStopped
    <2>0. x \in Order /\ row[x].col \in MayExist /\ row[x].meta.slip = "none"
      BY DEF Inv, TypeOK
    <2>1. PICK v \in Worker : At(v, "stop") /\ worker[v].o = x
      BY <2>0 DEF Inv, EndedTicketIsStopped
    <2>2. v # w
      BY <2>0, <2>1
    <2> QED
      BY <1>1, <2>1, <2>2 DEF At
  <1> QED
    BY <1>2, <1>3, <1>4, <1>5 DEF Inv

\* Writing the slip's state writes nothing else.
LEMMA SlipWritten ==
  ASSUME TypeOK, NEW o \in Order, NEW s \in Once, row' = [row EXCEPT ![o].meta.slip = s]
  PROVE  /\ \A x \in Order \ {o} : row'[x] = row[x]
         /\ row'[o].col = row[o].col /\ row'[o].st = row[o].st
         /\ row'[o].meta.initial = row[o].meta.initial
         /\ row'[o].meta.slip = s
  BY DEF TypeOK, Row, Meta

\* A slip is claimed once, and always when there may be a ticket.
LEMMA ClaimSlipKeeps ==
  ASSUME Inv, TypeOK', NEW w \in Worker, ClaimSlip(w)
  PROVE  Inv'
  <1>0. PICK o \in Order : o = worker[w].o /\ row[o].st # "none"
    BY BusyHasJob DEF Inv, RowsAreThere, ClaimSlip, At, Free
  <1>1. UNCHANGED paper /\ UNCHANGED rejected /\ UNCHANGED lost /\ UNCHANGED crashes
        /\ ~ Free(w)
    BY DEF ClaimSlip, history, At, Free
  <1>2. CASE SlipNeeded(row[o]) /\ row[o].meta.slip \in Reclaimable
    <2>1. Goes(w, On("slip", o)) /\ row' = [row EXCEPT ![o].meta.slip = "SENDING"]
      BY <1>0, <1>2 DEF ClaimSlip
    <2>2. On("slip", o) \in Job /\ On("slip", o).pc = "slip" /\ On("slip", o).o = o
      BY OnType
    <2>3. /\ \A x \in Order \ {o} : row'[x] = row[x]
          /\ row'[o].col = row[o].col /\ row'[o].st = row[o].st
          /\ row'[o].meta.initial = row[o].meta.initial
          /\ row'[o].meta.slip = "SENDING"
      BY <2>1, SlipWritten DEF Inv, Once
    <2>4. ASSUME o \notin lost
          PROVE  SlipClaimed(o)' /\ SlipCounted(o)'
      <3>1. paper[o].slip = 0 /\ \A v \in Worker : ~ Slipping(v, o)
        BY <1>2, <2>4 DEF Inv, Undisturbed, SlipClaimed, SlipCounted, Reclaimable
      <3>2. \A v \in Worker : Slipping(v, o)' => v = w
        BY <2>1, <2>2, <3>1, GoesType DEF Inv, Slipping
      <3> QED
        BY <1>1, <2>3, <3>1, <3>2 DEF SlipClaimed, SlipCounted
    <2> QED
      BY <1>0, <1>1, <2>1, <2>2, <2>3, <2>4, SlipStepKeeps
  <1>3. CASE ~ (SlipNeeded(row[o]) /\ row[o].meta.slip \in Reclaimable)
    <2>1. Goes(w, Idle) /\ UNCHANGED row
      BY <1>0, <1>3 DEF ClaimSlip
    <2>2. ASSUME o \notin lost
          PROVE  SlipClaimed(o)' /\ SlipCounted(o)'
      BY <1>1, <2>1, <2>2, GoesType, SlipStays DEF Inv, Undisturbed, Slipping, Idle
    <2>3. row[o].col \notin MayExist \/ row[o].meta.slip # "none"
      BY <1>3 DEF SlipNeeded, Reclaimable
    <2> QED
      BY <1>0, <1>1, <2>1, <2>2, <2>3, SlipStepKeeps DEF Idle
  <1> QED
    BY <1>2, <1>3

\* The slip that a claim lets out is the first.
LEMMA SendSlipKeeps ==
  ASSUME Inv, TypeOK', NEW w \in Worker, SendSlip(w)
  PROVE  Inv'
  <1>0. PICK o \in Order : o = worker[w].o /\ row[o].st # "none"
    BY BusyHasJob DEF Inv, RowsAreThere, SendSlip, At, Free
  <1>1. PICK out \in Outcomes :
          /\ paper' = [paper EXCEPT ![o].slip = @ + out[2]]
          /\ Goes(w, Done("sliprecord", o, Came(out)))
    BY <1>0 DEF SendSlip
  <1>2. UNCHANGED row /\ UNCHANGED rejected /\ UNCHANGED lost /\ UNCHANGED crashes
        /\ ~ Free(w) /\ Slipping(w, o) /\ At(w, "slip")
    BY <1>0 DEF SendSlip, history, At, Free, Slipping
  <1> DEFINE job == Done("sliprecord", o, Came(out))
  <1>3. /\ job \in Job /\ out[2] \in {0, 1} /\ Goes(w, job)
        /\ job.pc = "sliprecord" /\ job.o = o /\ job.result = Came(out)
        /\ Came(out) = "FAILED" => out[2] = 0
    BY <1>1, DoneType DEF Done
  <1> HIDE DEF job
  <1>4. worker'[w] = job /\ \A v \in Worker \ {w} : worker'[v] = worker[v]
    BY <1>3, GoesType DEF Inv
  <1>5. /\ paper[o].slip \in Nat /\ paper'[o].slip = paper[o].slip + out[2]
        /\ paper'[o].ticket = paper[o].ticket
        /\ \A x \in Order \ {o} : paper'[x] = paper[x]
    BY <1>1 DEF Inv, TypeOK
  <1>6. ASSUME o \notin lost
        PROVE  SlipClaimed(o)' /\ SlipCounted(o)'
    <2>1. SlipClaimed(o) /\ SlipCounted(o)
      BY <1>6 DEF Inv, Undisturbed
    <2>2. /\ paper[o].slip = 0 /\ row[o].meta.slip = "SENDING"
          /\ \A v \in Worker : Slipping(v, o) => v = w
      BY <1>2, <2>1 DEF SlipClaimed, SlipCounted, At
    <2>3. \A v \in Worker : Slipping(v, o)' => v = w
      BY <1>4, <2>2 DEF Slipping
    <2>4. SlipClaimed(o)'
      BY <1>2, <2>2, <2>3 DEF SlipClaimed
    <2>5. paper'[o].slip = out[2] /\ paper'[o].slip <= 1
      BY <1>3, <1>5, <2>2
    <2>6. At(w, "sliprecord")' /\ worker'[w].result = Came(out)
      BY <1>3, <1>4 DEF At
    <2>7. SlipCounted(o)'
      BY <1>2, <1>3, <2>2, <2>3, <2>5, <2>6 DEF SlipCounted
    <2> QED
      BY <2>4, <2>7
  <1>7. \A x \in Order \ {o} : row'[x] = row[x] /\ paper'[x] = paper[x]
    BY <1>2, <1>5
  <1> QED
    BY <1>0, <1>2, <1>3, <1>5, <1>6, <1>7, SlipStepKeeps DEF At

\* Whoever records the result of a slip is the one that sent it.
LEMMA RecordSlipKeeps ==
  ASSUME Inv, TypeOK', NEW w \in Worker, RecordSlip(w)
  PROVE  Inv'
  <1>0. PICK o \in Order : o = worker[w].o /\ row[o].st # "none"
    BY BusyHasJob DEF Inv, RowsAreThere, RecordSlip, At, Free
  <1>1. PICK result \in {"SUCCESS", "FAILED"} : result = worker[w].result
    BY BusyHasJob DEF Inv, RecordSlip, At, Free, Job
  <1>2. UNCHANGED paper /\ UNCHANGED rejected /\ UNCHANGED lost /\ UNCHANGED crashes
        /\ ~ Free(w) /\ Slipping(w, o) /\ At(w, "sliprecord") /\ Goes(w, Idle)
    BY <1>0 DEF RecordSlip, history, At, Free, Slipping
  <1>3. worker'[w] = Idle /\ \A v \in Worker \ {w} : worker'[v] = worker[v]
    BY <1>2, GoesType DEF Inv
  <1>4. row' = [row EXCEPT ![o].meta.slip = result]
    BY <1>0, <1>1 DEF RecordSlip
  <1>5. /\ \A x \in Order \ {o} : row'[x] = row[x]
        /\ row'[o].col = row[o].col /\ row'[o].st = row[o].st
        /\ row'[o].meta.initial = row[o].meta.initial
        /\ row'[o].meta.slip = result
    BY <1>1, <1>4, SlipWritten DEF Inv, Once
  <1>6. ASSUME o \notin lost
        PROVE  SlipClaimed(o)' /\ SlipCounted(o)'
    <2>1. SlipClaimed(o) /\ SlipCounted(o)
      BY <1>6 DEF Inv, Undisturbed
    <2>2. \A v \in Worker : ~ Slipping(v, o)'
      BY <1>2, <1>3, <2>1 DEF SlipClaimed, Slipping, Idle
    <2>3. result = "FAILED" => paper[o].slip = 0
      BY <1>1, <1>2, <2>1 DEF SlipCounted
    <2> QED
      BY <1>1, <1>2, <1>5, <2>1, <2>2, <2>3 DEF SlipClaimed, SlipCounted
  <1> QED
    BY <1>0, <1>1, <1>2, <1>5, <1>6, SlipStepKeeps DEF At, Idle

\* A restart may let out the one sheet of a claim, and leaves nobody behind.
LEMMA CrashKeeps ==
  ASSUME Inv, TypeOK', Crash
  PROVE  Inv'
  <1>1. /\ UNCHANGED row /\ UNCHANGED rejected /\ UNCHANGED lost
        /\ crashes' = crashes + 1 /\ \A v \in Worker : worker'[v] = Idle
    BY DEF Crash
  <1>2. ASSUME NEW x \in Order
        PROVE  /\ paper'[x].ticket >= paper[x].ticket
               /\ \/ paper'[x].ticket = paper[x].ticket
                  \/ /\ paper'[x].ticket = paper[x].ticket + 1
                     /\ \E w \in Worker : At(w, "send") /\ Printing(w, x)
               /\ \/ paper'[x].slip = paper[x].slip
                  \/ /\ paper'[x].slip = paper[x].slip + 1
                     /\ \E w \in Worker : At(w, "slip") /\ Slipping(w, x)
    <2>0. paper[x].ticket \in Nat /\ paper[x].slip \in Nat
      BY DEF Inv, TypeOK
    <2>1. CASE UNCHANGED paper
      BY <2>0, <2>1
    <2>2. ASSUME NEW w \in Worker, At(w, "send"),
                 paper' = [paper EXCEPT ![worker[w].o].ticket = @ + 1]
          PROVE  /\ paper'[x].ticket >= paper[x].ticket
                 /\ paper'[x].slip = paper[x].slip
                 /\ \/ paper'[x].ticket = paper[x].ticket
                    \/ /\ paper'[x].ticket = paper[x].ticket + 1
                       /\ \E v \in Worker : At(v, "send") /\ Printing(v, x)
      <3>1. /\ paper'[x].slip = paper[x].slip
            /\ \/ paper'[x].ticket = paper[x].ticket
               \/ paper'[x].ticket = paper[x].ticket + 1 /\ Printing(w, x)
        BY <2>2 DEF Inv, TypeOK, At, Printing
      <3> QED
        BY <2>0, <2>2, <3>1
    <2>3. ASSUME NEW w \in Worker, At(w, "slip"),
                 paper' = [paper EXCEPT ![worker[w].o].slip = @ + 1]
          PROVE  /\ paper'[x].ticket >= paper[x].ticket
                 /\ paper'[x].ticket = paper[x].ticket
                 /\ \/ paper'[x].slip = paper[x].slip
                    \/ /\ paper'[x].slip = paper[x].slip + 1
                       /\ \E v \in Worker : At(v, "slip") /\ Slipping(v, x)
      <3>1. /\ paper'[x].ticket = paper[x].ticket
            /\ \/ paper'[x].slip = paper[x].slip
               \/ paper'[x].slip = paper[x].slip + 1 /\ Slipping(w, x)
        BY <2>3 DEF Inv, TypeOK, At, Slipping
      <3> QED
        BY <2>0, <2>3, <3>1
    <2> QED
      BY <2>0, <2>1, <2>2, <2>3 DEF Crash
  <1>3. ASSUME NEW x \in Order \ lost'
        PROVE  Undisturbed(x)'
    <2>1. Undisturbed(x)
      BY <1>1 DEF Inv
    <2>2. \A v \in Worker : ~ Printing(v, x)' /\ ~ Slipping(v, x)'
      BY <1>1 DEF Printing, Slipping, Idle
    <2>3. TicketClaimed(x)' /\ SlipClaimed(x)'
      BY <1>1, <2>1, <2>2 DEF Undisturbed, TicketClaimed, SlipClaimed
    <2>4. TicketCounted(x)'
      BY <1>1, <1>2, <2>1, <2>2 DEF Undisturbed, TicketClaimed, TicketCounted, At
    <2>5. SlipCounted(x)'
      BY <1>1, <1>2, <2>1, <2>2 DEF Undisturbed, SlipClaimed, SlipCounted, At
    <2> QED
      BY <2>3, <2>4, <2>5 DEF Undisturbed
  <1>4. SuccessCameOut'
    <2>1. \A v \in Worker : ~ At(v, "record")'
      BY <1>1 DEF At, Idle
    <2>2. \A x \in Order : paper'[x].ticket >= paper[x].ticket
      BY <1>2
    <2> QED
      BY <1>1, <2>1, <2>2, SuccessStays DEF Inv
  <1>5. RowsAreThere'
    BY <1>1 DEF Inv, RowsAreThere, Free, Idle
  <1>6. EndedTicketIsStopped'
    BY <1>1 DEF EndedTicketIsStopped, Inv, TypeOK
  <1> QED
    BY <1>3, <1>4, <1>5, <1>6 DEF Inv

(***************************************************************************)
(* The theorems                                                            *)
(***************************************************************************)

\* Every step keeps the invariant.
LEMMA InvNext == Inv /\ [Next]_vars => Inv'
  <1> SUFFICES ASSUME Inv, [Next]_vars PROVE Inv'
    OBVIOUS
  <1>0. TypeOK'
    BY NextType DEF Inv
  <1>1. CASE UNCHANGED vars
    BY <1>1
    DEF vars, Inv, TypeOK, Undisturbed, TicketClaimed, TicketCounted, SlipClaimed,
      SlipCounted, Printing, Slipping, At, SuccessCameOut, RowsAreThere, Free,
      EndedTicketIsStopped
  <1>2. CASE \E o \in Order : Open(o) \/ Quarantine(o) \/ Park(o)
    BY <1>0, <1>2, RowStepsKeep
  <1>3. CASE \E o \in Order, w \in Worker :
               \/ Trigger(w, o) \/ AskReprint(w, o) \/ ReadNote(w, o)
               \/ \E by \in {"reject", "cancel"} : BeginEnd(w, o, by)
               \/ \E number \in BOOLEAN : ReadPickup(w, o, number)
    BY <1>0, <1>3, QuietBeginnings
  <1>4. ASSUME NEW w \in Worker, Step(w)
        PROVE  Inv'
    <2>1. CASE Evaluate(w) \/ Claim(w) \/ Send(w) \/ Record(w)
      BY <1>0, <2>1, QuietTicketSteps, ClaimKeeps, SendKeeps, RecordKeeps
    <2>2. CASE ClaimReprint(w) \/ SendReprint(w) \/ RecordReprint(w)
      BY <1>0, <2>2, QuietReprintSteps
    <2>3. CASE CustomerCancels(w) \/ MerchantEnds(w)
      BY <1>0, <2>3, CustomerCancelsKeeps, MerchantEndsKeeps
    <2>4. CASE ClaimSlip(w) \/ SendSlip(w) \/ RecordSlip(w)
      BY <1>0, <2>4, ClaimSlipKeeps, SendSlipKeeps, RecordSlipKeeps
    <2>5. CASE WriteNote(w) \/ WritePickup(w) \/ GivesUp(w)
      BY <1>0, <2>5, WriteNoteKeeps, WritePickupKeeps, GivesUpKeeps
    <2> QED
      BY <1>4, <2>1, <2>2, <2>3, <2>4, <2>5 DEF Step
  <1>5. CASE Crash
    BY <1>0, <1>5, CrashKeeps
  <1> QED
    BY <1>1, <1>2, <1>3, <1>4, <1>5 DEF Next

\* The print records are always consistent, for any orders and sessions.
THEOREM Invariance == Spec => []Inv
  <1>1. Init => Inv
    <2> SUFFICES ASSUME Init PROVE Inv
      OBVIOUS
    <2>1. TypeOK
      BY NoRowType, RestartAssumption DEF Init, TypeOK
    <2>2. \A o \in Order : Undisturbed(o)
      BY DEF Init, NoRow, NoMeta, Idle, Undisturbed, TicketClaimed, TicketCounted,
        SlipClaimed, SlipCounted, Printing, Slipping
    <2>3. SuccessCameOut /\ RowsAreThere /\ EndedTicketIsStopped
      BY DEF Init, NoRow, Idle, SuccessCameOut, RowsAreThere, EndedTicketIsStopped,
        At, Free
    <2> QED
      BY <2>1, <2>2, <2>3 DEF Inv
  <1>2. Inv /\ [Next]_vars => Inv'
    BY InvNext
  <1> QED
    BY <1>1, <1>2, PTL DEF Spec

\* Rows, jobs and histories keep their types.
THEOREM TypeCorrect == Spec => []TypeOK
  <1>1. Inv => TypeOK
    BY DEF Inv
  <1> QED
    BY <1>1, Invariance, PTL

\* The kitchen receives one initial ticket of an order whose record stands.
THEOREM TicketComesOutOnce == Spec => []PrintedOnce
  <1>1. Inv => PrintedOnce
    BY DEF Inv, Undisturbed, TicketCounted, PrintedOnce
  <1> QED
    BY <1>1, Invariance, PTL

\* It receives one cancel slip.
THEOREM SlipComesOutOnce == Spec => []OneSlip
  <1>1. Inv => OneSlip
    BY DEF Inv, Undisturbed, SlipCounted, OneSlip
  <1> QED
    BY <1>1, Invariance, PTL

\* What staff sees of the ticket is true.
THEOREM StatesAreTrue == Spec => []PrintStateIsTrue
  <1>1. Inv => PrintStateIsTrue
    BY DEF Inv, Undisturbed, TicketClaimed, TicketCounted, SuccessCameOut,
      PrintStateIsTrue
  <1> QED
    BY <1>1, Invariance, PTL

\* The column and the record agree.
THEOREM ColumnFollowsRecord == Spec => []ColumnAgrees
  <1>1. Inv => ColumnAgrees
    BY DEF Inv, Undisturbed, TicketClaimed, ColumnAgrees
  <1> QED
    BY <1>1, Invariance, PTL

\* The kitchen is told of an order that a merchant ended.
THEOREM EndedIsStopped == Spec => []EndedTicketIsStopped
  <1>1. Inv => EndedTicketIsStopped
    BY DEF Inv
  <1> QED
    BY <1>1, Invariance, PTL

(***************************************************************************)
(* Orders the kitchen is not told of                                       *)
(*                                                                         *)
(* A slip is needed no more often than before: an ended order's ticket is  *)
(* not claimed (Claimable), and recording a result finds SENDING in the    *)
(* column as in the record.  Whoever ends an order and sees a ticket, or   *)
(* stops the kitchen, leaves a task or a slip behind.                      *)
(***************************************************************************)

\* Order o needs a slip only if it did, and no slip of it is taken back.
Told(o) ==
  /\ row'[o].st = "ended" => row[o].st = "ended"
  /\ SlipNeeded(row'[o]) => SlipNeeded(row[o])
  /\ row'[o].meta.slip = "none" => row[o].meta.slip = "none"

StoppersStay == \A v \in Worker : At(v, "stop") => worker'[v] = worker[v]

LEMMA StaysTold ==
  ASSUME NEW o \in Order, Told(o), StoppersStay
  PROVE  Untold(o)' => Untold(o)
  BY DEF Told, StoppersStay, Untold, At

\* A step by which every order whose record stands stays told.
LEMMA AllStayTold ==
  ASSUME StoppersStay, \A o \in Order \ lost' : Told(o)
  PROVE  SlipExplained
  BY StaysTold DEF SlipExplained

\* A session that was not about to stop the kitchen goes on.
LEMMA OthersStop ==
  ASSUME TypeOK, NEW w \in Worker, ~ At(w, "stop"), NEW job, Goes(w, job)
  PROVE  StoppersStay /\ worker'[w] = job
  BY DEF TypeOK, StoppersStay, Goes, At

\* A step that writes no row.
LEMMA SameRows ==
  ASSUME UNCHANGED row
  PROVE  \A o \in Order : Told(o)
  BY DEF Told

\* A step that writes the row of one order.
LEMMA OneRow ==
  ASSUME TypeOK, NEW o \in Order, NEW r, row' = [row EXCEPT ![o] = r]
  PROVE  row'[o] = r /\ \A p \in Order \ {o} : Told(p)
  BY DEF TypeOK, Told

\* The steps of the ticket.
LEMMA TicketExplained ==
  ASSUME Inv, NEW w \in Worker, Evaluate(w) \/ Claim(w) \/ Send(w) \/ Record(w)
  PROVE  SlipExplained
  <1>t. TypeOK
    BY DEF Inv
  <1>b. ~ Free(w) /\ ~ At(w, "stop") /\ lost' = lost
    BY DEF Evaluate, Claim, Send, Record, At, Free, history
  <1>o. PICK o \in Order : o = worker[w].o /\ row[o] \in Row
    BY <1>b, <1>t, BusyHasJob DEF TypeOK
  <1>s. StoppersStay
    BY <1>b, <1>t, OthersStop DEF Evaluate, Claim, Send, Record
  <1>1. CASE UNCHANGED row
    BY <1>1, <1>s, SameRows, AllStayTold
  <1>2. CASE Claim(w) /\ Claimable(row[o])
    <2>1. row' = [row EXCEPT ![o] = Claimed(row[o])] /\ Claimed(row[o]).st = row[o].st
      BY <1>2, <1>o, ClaimedFields DEF Claim, Claimable
    <2>2. Told(o) \/ row'[o].st # "ended"
      BY <1>2, <1>o, <1>t, <2>1, OneRow DEF Claimable
    <2>3. \A p \in Order \ {o} : Told(p)
      BY <1>o, <1>t, <2>1, OneRow
    <2>4. ~ Untold(o)' \/ Told(o)
      BY <2>2 DEF Untold
    <2> QED
      BY <1>s, <2>3, <2>4, StaysTold DEF SlipExplained
  <1>3. CASE Record(w) /\ row[o].meta.initial = "SENDING"
    <2> DEFINE r == Marked(row[o], worker[w].result)
    <2>1. worker[w].result \in Initial
      BY <1>3, <1>b, <1>t, BusyHasJob DEF Record, At, Job, Initial
    <2>2. /\ row' = [row EXCEPT ![o] = r] /\ r.st = row[o].st
          /\ r.meta.slip = row[o].meta.slip
      BY <1>3, <1>o, <2>1, MarkedFields DEF Record
    <2> HIDE DEF r
    <2>3. row'[o] = r /\ \A p \in Order \ {o} : Told(p)
      BY <1>o, <1>t, <2>2, OneRow
    <2>4. o \notin lost => SlipNeeded(row[o])
      BY <1>3, <1>o DEF Inv, Undisturbed, TicketClaimed, SlipNeeded, MayExist
    <2>5. o \notin lost => Told(o)
      BY <2>2, <2>3, <2>4 DEF Told
    <2> QED
      BY <1>b, <1>s, <2>3, <2>5, AllStayTold
  <1>4. UNCHANGED row \/ (Claim(w) /\ Claimable(row[o]))
          \/ (Record(w) /\ row[o].meta.initial = "SENDING")
    BY <1>o DEF Evaluate, Claim, Send, Record
  <1> QED
    BY <1>1, <1>2, <1>3, <1>4

\* The steps of a reprint.
LEMMA ReprintExplained ==
  ASSUME Inv, NEW w \in Worker, ClaimReprint(w) \/ SendReprint(w) \/ RecordReprint(w)
  PROVE  SlipExplained
  <1>t. TypeOK
    BY DEF Inv
  <1>b. ~ Free(w) /\ ~ At(w, "stop") /\ lost' = lost
    BY DEF ClaimReprint, SendReprint, RecordReprint, At, Free, history
  <1>o. PICK o \in Order : o = worker[w].o /\ row[o] \in Row
    BY <1>b, <1>t, BusyHasJob DEF TypeOK
  <1>s. StoppersStay
    BY <1>b, <1>t, OthersStop DEF ClaimReprint, SendReprint, RecordReprint
  <1>1. CASE SendReprint(w)
    <2>1. UNCHANGED row
      BY <1>1 DEF SendReprint
    <2> QED
      BY <2>1, <1>s, SameRows, AllStayTold
  <1>2. CASE ClaimReprint(w) \/ RecordReprint(w)
    <2>1. PICK s : row' = [row EXCEPT ![o].meta.reprint = s]
      BY <1>2, <1>o DEF ClaimReprint, RecordReprint
    <2>2. row'[o].st = row[o].st /\ \A p \in Order \ {o} : Told(p)
      BY <1>o, <1>t, <2>1 DEF TypeOK, Row, Told
    <2>3. worker[w].pc \in {"reclaim", "rerecord"} /\ worker'[w].pc # worker[w].pc
      BY <1>2, <1>b, <1>t, OthersStop DEF ClaimReprint, RecordReprint, At, On, Idle
    <2>4. ASSUME Untold(o)'
          PROVE  ReprintsEnded(w) /\ worker'[w] # worker[w]
      BY <1>o, <2>2, <2>3, <2>4 DEF Untold, ReprintsEnded
    <2> QED
      BY <1>o, <1>s, <2>2, <2>4, StaysTold DEF SlipExplained
  <1> QED
    BY <1>1, <1>2

\* The ends of an order.
LEMMA EndExplained ==
  ASSUME Inv, NEW w \in Worker, CustomerCancels(w) \/ MerchantEnds(w)
  PROVE  SlipExplained
  <1>t. TypeOK
    BY DEF Inv
  <1>b. ~ Free(w) /\ ~ At(w, "stop") /\ lost' = lost
    BY DEF CustomerCancels, MerchantEnds, At, Free, history
  <1>o. PICK o \in Order : o = worker[w].o /\ row[o] \in Row
    BY <1>b, <1>t, BusyHasJob DEF TypeOK
  <1> DEFINE r == [row[o] EXCEPT !.st = "ended"]
  <1>s. StoppersStay
    BY <1>b, <1>t, OthersStop DEF CustomerCancels, MerchantEnds
  <1>1. row' = [row EXCEPT ![o] = r]
    BY <1>o DEF CustomerCancels, MerchantEnds
  <1>2. SlipNeeded(r) <=> SlipNeeded(row[o])
    BY <1>o DEF SlipNeeded, Row
  <1> HIDE DEF r
  <1>3. row'[o] = r /\ \A p \in Order \ {o} : Told(p)
    BY <1>o, <1>t, <1>1, OneRow
  <1>4. ASSUME Untold(o)'
        PROVE  AsksOldCopy(w) /\ worker'[w] # worker[w]
    <2>1. SlipNeeded(row[o]) /\ (worker'[w].pc = "stop" => worker'[w].o # o)
      BY <1>2, <1>3, <1>4 DEF Untold, At
    <2>2. CASE MerchantEnds(w)
      <3>1. worker'[w] = On("stop", o)
        BY <1>b, <1>o, <1>t, <2>1, <2>2, OthersStop DEF MerchantEnds
      <3> QED
        BY <2>1, <3>1 DEF On
    <2>3. CASE CustomerCancels(w)
      <3>1. /\ worker'[w] = IF worker[w].needed THEN On("stop", o) ELSE Idle
            /\ At(w, "cancel")
        BY <1>b, <1>o, <1>t, <2>3, OthersStop DEF CustomerCancels
      <3> QED
        BY <1>o, <2>1, <3>1 DEF On, Idle, AsksOldCopy, At
    <2> QED
      BY <2>2, <2>3
  <1> QED
    BY <1>o, <1>s, <1>3, <1>4, StaysTold DEF SlipExplained

\* The steps of the slip.
LEMMA SlipStepsExplained ==
  ASSUME Inv, NEW w \in Worker, ClaimSlip(w) \/ SendSlip(w) \/ RecordSlip(w)
  PROVE  SlipExplained
  <1>t. TypeOK
    BY DEF Inv
  <1>b. ~ Free(w) /\ lost' = lost
    BY DEF ClaimSlip, SendSlip, RecordSlip, At, Free, history
  <1>o. PICK o \in Order : o = worker[w].o /\ row[o] \in Row
    BY <1>b, <1>t, BusyHasJob DEF TypeOK
  <1>1. /\ \A v \in Worker \ {w} : worker'[v] = worker[v]
        /\ \A p \in Order \ {o} : row'[p] = row[p]
        /\ row'[o].st = row[o].st
        /\ SlipNeeded(row'[o]) <=> SlipNeeded(row[o])
        /\ row'[o].meta.slip = "none" => row'[o] = row[o]
    <2>1. CASE ClaimSlip(w)
      <3>1. UNCHANGED row \/ row' = [row EXCEPT ![o].meta.slip = "SENDING"]
        BY <1>o, <2>1 DEF ClaimSlip
      <3> QED
        BY <1>o, <1>t, <2>1, <3>1 DEF TypeOK, ClaimSlip, Goes, Row, Meta, SlipNeeded
    <2>2. CASE SendSlip(w)
      BY <1>t, <2>2 DEF SendSlip, Goes, TypeOK
    <2>3. CASE RecordSlip(w)
      <3>1. worker[w].result \in {"SUCCESS", "FAILED"}
        BY <1>b, <1>t, <2>3, BusyHasJob DEF RecordSlip, At, Job
      <3>2. row' = [row EXCEPT ![o].meta.slip = worker[w].result]
        BY <1>o, <2>3 DEF RecordSlip
      <3> QED
        BY <1>o, <1>t, <2>3, <3>1, <3>2 DEF TypeOK, RecordSlip, Goes, Row, Meta, SlipNeeded
    <2> QED
      BY <2>1, <2>2, <2>3
  <1>2. ASSUME Untold(o)', At(w, "stop")
        PROVE  FALSE
    <2>1. row'[o].meta.slip = "none" /\ SlipNeeded(row'[o])
      BY <1>2 DEF Untold
    <2>2. SlipNeeded(row[o]) /\ row[o].meta.slip = "none"
      BY <1>1, <2>1
    <2>3. row' = [row EXCEPT ![o].meta.slip = "SENDING"]
      BY <1>2, <1>o, <2>2 DEF ClaimSlip, SendSlip, RecordSlip, At, Reclaimable
    <2> QED
      BY <1>o, <1>t, <2>1, <2>3 DEF TypeOK, Row, Meta
  <1>3. \A p \in Order \ {o} : Untold(p)' => Untold(p)
    BY <1>1, <1>o DEF Untold, At
  <1>4. ASSUME Untold(o)'
        PROVE  Untold(o)
    BY <1>1, <1>2, <1>4, <1>o DEF Untold, At
  <1> QED
    BY <1>3, <1>4 DEF SlipExplained

\* Staff edits.
LEMMA EditExplained ==
  ASSUME Inv, NEW w \in Worker, WriteNote(w) \/ WritePickup(w) \/ GivesUp(w)
  PROVE  SlipExplained
  <1>t. TypeOK
    BY DEF Inv
  <1>b. ~ Free(w) /\ ~ At(w, "stop")
    BY DEF WriteNote, WritePickup, GivesUp, At, Free
  <1>o. PICK o \in Order : o = worker[w].o /\ row[o] \in Row /\ worker[w] \in Job
    BY <1>b, <1>t, BusyHasJob DEF TypeOK
  <1>s. StoppersStay
    BY <1>b, <1>t, OthersStop DEF WriteNote, WritePickup, GivesUp
  <1>1. CASE GivesUp(w)
    BY <1>1, <1>s, SameRows, AllStayTold DEF GivesUp
  <1>2. CASE WriteNote(w)
    <2>1. /\ row' = [row EXCEPT ![o].meta = worker[w].meta]
          /\ o \notin lost' => worker[w].meta = row[o].meta
      BY <1>2, <1>o DEF WriteNote, LostAfter, Overwrites
    <2>2. \A p \in Order \ lost' : row'[p] = row[p]
      BY <1>o, <1>t, <2>1 DEF TypeOK, Row
    <2> QED
      BY <1>s, <2>2, AllStayTold DEF Told
  <1>3. CASE WritePickup(w)
    <2> DEFINE r == IF worker[w].number = worker[w].had THEN row[o]
                    ELSE [row[o] EXCEPT !.pickup = worker[w].number]
               m == [r EXCEPT !.meta = worker[w].meta]
    <2>1. worker[w].meta \in Meta /\ worker[w].number \in BOOLEAN
      BY <1>3, <1>o DEF WritePickup, At, Job
    <2>2. r \in Row /\ r.st = row[o].st /\ r.meta = row[o].meta /\ r.col = row[o].col
      BY <1>o, <2>1 DEF Row
    <2>3. CASE row' = [row EXCEPT ![o] = r]
      <3> HIDE DEF r
      <3>1. row'[o] = r /\ \A p \in Order \ {o} : Told(p)
        BY <1>o, <1>t, <2>3, OneRow
      <3>2. Told(o)
        BY <2>2, <3>1 DEF Told, SlipNeeded
      <3> QED
        BY <1>s, <3>1, <3>2, AllStayTold
    <2>4. CASE row' = [row EXCEPT ![o] = Marked(m, "PENDING")] /\ lost' = LostAfter(o, worker[w].meta)
      <3>1. m \in Row /\ m.st = row[o].st /\ m.meta = worker[w].meta
        BY <2>1, <2>2 DEF Row
      <3> HIDE DEF m
      <3>2. /\ Marked(m, "PENDING").st = row[o].st
            /\ Marked(m, "PENDING").col = "PENDING"
            /\ Marked(m, "PENDING").meta.slip = worker[w].meta.slip
            /\ Marked(m, "PENDING").meta.reprint = worker[w].meta.reprint
        BY <3>1 DEF Marked, Row, Meta
      <3>3. row'[o] = Marked(m, "PENDING") /\ \A p \in Order \ {o} : Told(p)
        BY <1>o, <1>t, <2>4, OneRow
      <3>4. o \notin lost' => worker[w].meta = row[o].meta
        BY <2>4 DEF LostAfter, Overwrites
      <3>5. o \notin lost' => Told(o)
        BY <3>2, <3>3, <3>4 DEF Told, SlipNeeded, MayExist
      <3> QED
        BY <1>s, <3>3, <3>5, AllStayTold
    <2> QED
      BY <1>3, <1>o, <2>3, <2>4 DEF WritePickup
  <1> QED
    BY <1>1, <1>2, <1>3

\* Every step.
LEMMA NextSlipExplained ==
  ASSUME Inv, [Next]_vars
  PROVE  SlipExplained
  <1>t. TypeOK
    BY DEF Inv
  <1>1. CASE UNCHANGED <<row, worker>>
    BY <1>1, SameRows, AllStayTold DEF StoppersStay
  <1>2. ASSUME NEW o \in Order, Open(o) \/ Quarantine(o) \/ Park(o)
        PROVE  SlipExplained
    <2>1. PICK r : row' = [row EXCEPT ![o] = r] /\ r.st = "open"
      <3>1. CASE Open(o)
        <4>1. PICK number \in BOOLEAN :
                LET q == [NoRow EXCEPT !.st = "open", !.pickup = number]
                IN row' = [row EXCEPT ![o] =
                             Marked(q, IF Waiting(q) THEN "NOT_ELIGIBLE" ELSE "PENDING")]
          BY <3>1 DEF Open
        <4> DEFINE q == [NoRow EXCEPT !.st = "open", !.pickup = number]
                   s == IF Waiting(q) THEN "NOT_ELIGIBLE" ELSE "PENDING"
        <4>2. q \in Row /\ q.st = "open"
          BY NoRowType DEF NoRow, Row
        <4>3. s \in Initial
          BY DEF Initial
        <4>4. row' = [row EXCEPT ![o] = Marked(q, s)]
          BY <4>1
        <4> HIDE DEF q, s
        <4>5. Marked(q, s).st = "open"
          BY <4>2, <4>3, MarkedFields
        <4> QED
          BY <4>4, <4>5
      <3>2. CASE Quarantine(o) \/ Park(o)
        <4>1. row[o] \in Row /\ row[o].st = "open"
          BY <1>t, <3>2 DEF TypeOK, Quarantine, Park
        <4>2. row' = [row EXCEPT ![o] = Marked(row[o], "UNKNOWN")]
                \/ row' = [row EXCEPT ![o] = Marked(row[o], "NOT_ELIGIBLE")]
          BY <3>2 DEF Quarantine, Park
        <4>3. \A s \in {"UNKNOWN", "NOT_ELIGIBLE"} : Marked(row[o], s).st = "open"
          BY <4>1, MarkedFields DEF Initial, Result
        <4> QED
          BY <4>2, <4>3
      <3> QED
        BY <1>2, <3>1, <3>2
    <2>2. row'[o].st = "open" /\ \A p \in Order \ {o} : Told(p)
      BY <1>t, <2>1, OneRow
    <2>3. Told(o) \/ ~ Untold(o)'
      BY <2>2 DEF Untold
    <2>4. StoppersStay
      BY <1>2 DEF Open, Quarantine, Park, StoppersStay
    <2> QED
      BY <2>2, <2>3, <2>4, StaysTold DEF SlipExplained
  <1>3. ASSUME NEW o \in Order, NEW w \in Worker,
               \/ Trigger(w, o) \/ AskReprint(w, o) \/ ReadNote(w, o)
               \/ \E by \in {"reject", "cancel"} : BeginEnd(w, o, by)
               \/ \E number \in BOOLEAN : ReadPickup(w, o, number)
        PROVE  SlipExplained
    <2>1. UNCHANGED row /\ ~ At(w, "stop") /\ \E job : Goes(w, job)
      BY <1>3 DEF Trigger, AskReprint, ReadNote, BeginEnd, ReadPickup, Free, At
    <2> QED
      BY <1>t, <2>1, OthersStop, SameRows, AllStayTold
  <1>4. ASSUME NEW w \in Worker, Step(w)
        PROVE  SlipExplained
    BY <1>4, TicketExplained, ReprintExplained, EndExplained, SlipStepsExplained,
       EditExplained DEF Step
  <1>5. CASE Crash
    <2>1. crashes' # crashes
      BY <1>5, <1>t, RestartAssumption DEF Crash, TypeOK
    <2> QED
      BY <2>1 DEF SlipExplained
  <1> QED
    BY <1>1, <1>2, <1>3, <1>4, <1>5 DEF Next, vars

\* An order that ended and whose ticket may be in the kitchen is left without a
\* slip only by a cancellation on an old copy, a reprint after the end or a
\* restart: no other interleaving of the kitchen's tickets, the merchant's ends,
\* the slips and the edits loses one.
THEOREM SlipsAreMissedInThreeWays == Spec => SlipMissedInThreeWays
  <1>1. Inv /\ [Next]_vars => [SlipExplained]_vars
    BY NextSlipExplained
  <1> QED
    BY <1>1, Invariance, PTL DEF Spec, SlipMissedInThreeWays
=============================================================================
