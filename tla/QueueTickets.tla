---------------------------- MODULE QueueTickets ----------------------------
(* The waiting queue of one merchant: tickets numbered per day and table    *)
(* size, called one after the other.  Of queue_service and api/v1/queue.    *)
(* A ticket's number is read without a lock and kept unique by an index,    *)
(* whose refusal sends the request around again; a call looks, without a    *)
(* lock, for a called ticket, then waits for the lock of the first waiting  *)
(* one, and then calls it.                                                  *)
EXTENDS Naturals, FiniteSets, FiniteSetsExt

CONSTANTS
  QueueType,       \* table sizes, each with a queue of its own
  Ticket,          \* ticket rows
  Visitor,         \* customers that take a ticket on their phone
  Kiosk,           \* requests that take a ticket, at the same time
  FrontDesk,       \* requests that call the next party, at the same time
  NoVisitor, NoType,
  SecondsPerDay, LastSecond,     \* bounds of the clock
  Attempts                       \* how often a number is tried

ASSUME QueueAssumption ==
  /\ NoVisitor \notin Visitor /\ NoType \notin QueueType
  /\ SecondsPerDay \in Nat \ {0} /\ LastSecond \in Nat /\ Attempts \in Nat \ {0}

VARIABLES
  second,          \* the clock, as fine as created_at
  ticket,          \* ticket -> its row
  asking,          \* kiosk -> the request it has open
  calling          \* front desk -> the queue it calls from and the row it has locked

queueVars == <<second, ticket, asking, calling>>

NoTicket == [status |-> "none", type |-> NoType, date |-> 0, sequence |-> 0, createdAt |-> 0,
             visitor |-> NoVisitor, reminders |-> 0]
NotAsking == [pc |-> "idle", type |-> NoType, visitor |-> NoVisitor, date |-> 0, sequence |-> 0,
              tries |-> 0]
NotCalling == [type |-> NoType, held |-> {}]

InitQueue ==
  /\ second = 0
  /\ ticket = [t \in Ticket |-> NoTicket]
  /\ asking = [k \in Kiosk |-> NotAsking]
  /\ calling = [d \in FrontDesk |-> NotCalling]

Waiting(q) == {t \in Ticket : ticket[t].status = "waiting" /\ ticket[t].type = q}
Called(q) == {t \in Ticket : ticket[t].status = "called" /\ ticket[t].type = q}
\* order by created_at: which of two tickets of the same second comes first is open
NextWaiting(q) ==
  {t \in Waiting(q) : \A x \in Waiting(q) : ticket[t].createdAt <= ticket[x].createdAt}
ActiveTickets(v) == {t \in Ticket : ticket[t].visitor = v /\ ticket[t].status \in {"waiting", "called"}}

Numbers(q, date) == {ticket[t].sequence : t \in {x \in Ticket : ticket[x].type = q /\ ticket[x].date = date}}
NextNumber(q, date) == Max({0} \cup Numbers(q, date)) + 1

\* A party asks for a ticket at the desk (NoVisitor) or on a phone; a customer whose
\* ticket is still active gets that one back.
AskTicket(k, v, q) ==
  /\ asking[k].pc = "idle"
  /\ v # NoVisitor => ActiveTickets(v) = {}
  /\ LET today == second \div SecondsPerDay IN
     asking' = [asking EXCEPT ![k] =
       [pc |-> "numbered", type |-> q, visitor |-> v, date |-> today,
        sequence |-> NextNumber(q, today), tries |-> 1]]
  /\ UNCHANGED <<second, ticket, calling>>

\* Mutant: no index.
AnyNumber(k) == TRUE
\* The unique index on (tenant, date, type, sequence).
NumberIsFree(k) == asking[k].sequence \notin Numbers(asking[k].type, asking[k].date)

CreateTicket(k, t) ==
  /\ asking[k].pc = "numbered" /\ ticket[t].status = "none"
  /\ NumberIsFree(k)
  /\ ticket' = [ticket EXCEPT ![t] =
       [status |-> "waiting", type |-> asking[k].type, date |-> asking[k].date,
        sequence |-> asking[k].sequence, createdAt |-> second, visitor |-> asking[k].visitor,
        reminders |-> 0]]
  /\ asking' = [asking EXCEPT ![k] = NotAsking]
  /\ UNCHANGED <<second, calling>>

\* Mutant: one attempt too many.
RetryOnceMore(k) ==
  /\ asking[k].pc = "numbered" /\ ~NumberIsFree(k)
  /\ asking' = [asking EXCEPT ![k] =
       IF asking[k].tries > Attempts THEN NotAsking
       ELSE [asking[k] EXCEPT !.sequence = NextNumber(asking[k].type, asking[k].date),
                              !.tries = asking[k].tries + 1]]
  /\ UNCHANGED <<second, ticket, calling>>

\* The number was taken meanwhile: the next one is read, until the attempts are used up.
RetryTicket(k) ==
  /\ asking[k].pc = "numbered" /\ ~NumberIsFree(k)
  /\ asking' = [asking EXCEPT ![k] =
       IF asking[k].tries = Attempts THEN NotAsking
       ELSE [asking[k] EXCEPT !.sequence = NextNumber(asking[k].type, asking[k].date),
                              !.tries = asking[k].tries + 1]]
  /\ UNCHANGED <<second, ticket, calling>>

\* The desk calls: blocked while a called party of this queue was neither seated nor skipped.
BeginCall(d, q) ==
  /\ calling[d] = NotCalling /\ Called(q) = {}
  /\ calling' = [calling EXCEPT ![d].type = q]
  /\ UNCHANGED <<second, ticket, asking>>

AnyRow(t) == TRUE    \* Mutant: the select does not ask for a lock.

\* A transaction that has locked a row keeps the others from locking or writing it.
RowIsFree(t) == \A d \in FrontDesk : t \notin calling[d].held

\* The locking select looks for the first ticket that waits by now, and waits for
\* its row as long as another call holds it.
LockNext(d, t) ==
  /\ calling[d].type # NoType /\ calling[d].held = {}
  /\ t \in NextWaiting(calling[d].type) /\ RowIsFree(t)
  /\ calling' = [calling EXCEPT ![d].held = {t}]
  /\ UNCHANGED <<second, ticket, asking>>

\* The party whose row the desk holds is called, its customer is reminded.
CallNext(d, t) ==
  /\ t \in calling[d].held
  /\ ticket' = [ticket EXCEPT ![t].status = "called", ![t].reminders = @ + 1]
  /\ calling' = [calling EXCEPT ![d] = NotCalling]
  /\ UNCHANGED <<second, asking>>

CallNobody(d) ==
  /\ calling[d].type # NoType /\ calling[d].held = {}
  /\ Waiting(calling[d].type) = {}
  /\ calling' = [calling EXCEPT ![d] = NotCalling]
  /\ UNCHANGED <<second, ticket, asking>>

\* The desk seats or skips any ticket it has on its screen, whatever became of it:
\* the UPDATE asks for the row only by its id, and waits for its lock.
\* (Nothing tells a party that was seated from one that was skipped.)
MarkTicket(t) ==
  /\ ticket[t].status # "none" /\ RowIsFree(t)
  /\ ticket' = [ticket EXCEPT ![t].status = "gone"]
  /\ UNCHANGED <<second, asking, calling>>

Tick ==
  /\ second < LastSecond
  /\ second' = second + 1
  /\ UNCHANGED <<ticket, asking, calling>>

NextQueue ==
  \/ \E k \in Kiosk, v \in Visitor \cup {NoVisitor}, q \in QueueType : AskTicket(k, v, q)
  \/ \E k \in Kiosk, t \in Ticket : CreateTicket(k, t)
  \/ \E k \in Kiosk : RetryTicket(k)
  \/ \E d \in FrontDesk, q \in QueueType : BeginCall(d, q)
  \/ \E d \in FrontDesk, t \in Ticket : LockNext(d, t) \/ CallNext(d, t)
  \/ \E d \in FrontDesk : CallNobody(d)
  \/ \E t \in Ticket : MarkTicket(t)
  \/ Tick

QueueSpec == InitQueue /\ [][NextQueue]_queueVars

-----------------------------------------------------------------------------
TicketRow == [status : {"none", "waiting", "called", "gone"}, type : QueueType \cup {NoType},
              date : Nat, sequence : Nat, createdAt : Nat, visitor : Visitor \cup {NoVisitor},
              reminders : Nat]
AskingRow == [pc : {"idle", "numbered"}, type : QueueType \cup {NoType},
              visitor : Visitor \cup {NoVisitor}, date : Nat, sequence : Nat, tries : 0..Attempts]
CallingRow == [type : QueueType \cup {NoType}, held : SUBSET Ticket]

\* Every row holds what its columns can hold.
QueueTypeOK ==
  /\ second \in 0..LastSecond
  /\ ticket \in [Ticket -> TicketRow]
  /\ asking \in [Kiosk -> AskingRow]
  /\ calling \in [FrontDesk -> CallingRow]

\* The tickets of a queue carry, each day, the numbers 1, 2, 3 ... without a gap or a
\* repetition, and an older ticket a lower one, however many are taken at once.
NumbersRunOn ==
  \A t1 \in Ticket : ticket[t1].status # "none" =>
    LET queue == {x \in Ticket : ticket[x].type = ticket[t1].type /\ ticket[x].date = ticket[t1].date}
    IN  /\ \A n \in 1..ticket[t1].sequence : \E x \in queue : ticket[x].sequence = n
        /\ \A x \in queue \ {t1} :
             /\ ticket[x].sequence # ticket[t1].sequence
             /\ ticket[x].createdAt < ticket[t1].createdAt => ticket[x].sequence < ticket[t1].sequence

\* A party is called once, and after every party of its queue that asked earlier and
\* still waits: two desks that call at the same time, while parties come and are
\* seated or skipped, neither call one party twice nor jump over one.
CalledInTurn ==
  [][\A t \in Ticket : ticket'[t].reminders # ticket[t].reminders =>
       /\ ticket'[t].reminders = 1
       /\ \A x \in Waiting(ticket[t].type) : ticket[t].createdAt <= ticket[x].createdAt]_queueVars

=============================================================================
