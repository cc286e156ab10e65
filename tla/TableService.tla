---------------------------- MODULE TableService ----------------------------
(* One table of one merchant that is billed when the guests leave: dining   *)
(* sessions opened by a scan, orders placed in them, the kitchen's status   *)
(* updates and the settlement of the whole table.  Of dining_session_       *)
(* service, orders.create_order, OrderLifecycleService.update_order_status  *)
(* and settle_table.  Whoever enters, opens or settles the table holds the  *)
(* row of its open session (or the index entry of the one being created)    *)
(* until it commits; a status update locks the order only and decides on    *)
(* the copy it read before that lock.                                       *)
EXTENDS Naturals, FiniteSets

CONSTANTS
  Sitting,         \* dining sessions the table can have, one after the other
  TableOrder,      \* order rows
  Request,         \* client request ids of orders
  Guest,           \* requests that place an order, at the same time
  Waiter,          \* requests that update an order's status
  Till,            \* requests that settle the table
  NoSitting, NoOrder, NoRequest

ASSUME TableAssumption ==
  NoSitting \notin Sitting /\ NoOrder \notin TableOrder /\ NoRequest \notin Request

VARIABLES
  printFirst,      \* the shop's fulfilment mode is PRINT_FIRST
  sitting,         \* session -> its row
  ordered,         \* order -> its row
  everEnded,       \* orders that were rejected or cancelled at some time
  posting,         \* guest -> the order request it has open
  copied,          \* waiter -> the order it read, as it was
  bill             \* till -> the session it holds and the orders read under it

tableVars == <<printFirst, sitting, ordered, everEnded, posting, copied, bill>>

NoSession == [status |-> "none", idle |-> FALSE]
NoOrderRow == [status |-> "none", session |-> NoSitting, request |-> NoRequest,
               paid |-> FALSE, credits |-> 0]
NotPosting == [pc |-> "idle", request |-> NoRequest, session |-> NoSitting,
               table |-> [s \in Sitting |-> NoSession]]
NoCopy == [order |-> NoOrder, row |-> NoOrderRow]
NoBill == [session |-> NoSitting, rows |-> [o \in TableOrder |-> NoOrderRow], collected |-> FALSE]

InitTable ==
  /\ printFirst \in BOOLEAN
  /\ sitting = [s \in Sitting |-> NoSession]
  /\ ordered = [o \in TableOrder |-> NoOrderRow]
  /\ everEnded = {}
  /\ posting = [g \in Guest |-> NotPosting]
  /\ copied = [w \in Waiter |-> NoCopy]
  /\ bill = [t \in Till |-> NoBill]

Terminal == {"settled", "cancelled", "rejected"}
Ending == {"cancelled", "rejected"}
Transitions == [pending |-> {"preparing", "rejected", "cancelled"}, preparing |-> {"done"},
                done |-> {"settled"}]
AllowedTargets(status) == IF status \in DOMAIN Transitions THEN Transitions[status] ELSE {}

OrdersOf(s) == {o \in TableOrder : ordered[o].session = s}
OpenSessions == {s \in Sitting : sitting[s].status = "OPEN"}
TableLocked ==
  \/ \E g \in Guest : posting[g].pc = "inside"
  \/ \E t \in Till : bill[t].session # NoSitting

\* The table after somebody sat down or came back to it: an open session is used
\* again, unless nothing happened in it for twelve hours and nothing in it waits
\* to be settled; then it expires and the next one opens.
SatDownAfterLongPause(s) ==    \* Mutant: an idle session expires whatever waits in it.
  IF OpenSessions # {} /\ \A x \in OpenSessions : ~sitting[x].idle
  THEN s \in OpenSessions
  ELSE s \in Sitting /\ sitting[s].status = "none"
SatDown(s) ==
  LET open == OpenSessions
      dead == {x \in open : sitting[x].idle /\ \A o \in OrdersOf(x) : ordered[o].status \in Terminal}
  IN  IF open # {} /\ dead = {}
      THEN s \in open
      ELSE s \in Sitting /\ sitting[s].status = "none"
TableOf(s) ==
  [x \in Sitting |->
     IF x = s THEN [status |-> "OPEN", idle |-> FALSE]
     ELSE IF x \in OpenSessions THEN [sitting[x] EXCEPT !.status = "EXPIRED"] ELSE sitting[x]]

\* A guest scans the code of the table.
ScanTable(s) ==
  /\ ~TableLocked /\ SatDown(s)
  /\ sitting' = TableOf(s)
  /\ UNCHANGED <<printFirst, ordered, everEnded, posting, copied, bill>>

\* Twelve hours pass without activity.
GoIdle(s) ==
  /\ ~TableLocked /\ sitting[s].status = "OPEN" /\ ~sitting[s].idle
  /\ sitting' = [sitting EXCEPT ![s].idle = TRUE]
  /\ UNCHANGED <<printFirst, ordered, everEnded, posting, copied, bill>>

\* A request whose id was used is answered with the order it made, and changes nothing.
Replayed(r) == \E o \in TableOrder : ordered[o].request = r

\* An order request whose id was not used yet goes on.
BeginPost(g, r, s) ==
  /\ posting[g].pc = "idle" /\ ~Replayed(r)
  /\ s # NoSitting => sitting[s].status # "none"
  /\ posting' = [posting EXCEPT ![g] = [NotPosting EXCEPT !.pc = "checked", !.request = r, !.session = s]]
  /\ UNCHANGED <<printFirst, sitting, ordered, everEnded, copied, bill>>

\* The guest names the session it knows: it is locked and must still be open.
EnterSession(g) ==
  /\ posting[g].pc = "checked" /\ posting[g].session # NoSitting
  /\ LET s == posting[g].session
     IN  IF sitting[s].status = "OPEN"
         THEN /\ ~TableLocked
              /\ posting' = [posting EXCEPT ![g].pc = "inside",
                                            ![g].table = [sitting EXCEPT ![s].idle = FALSE]]
         ELSE posting' = [posting EXCEPT ![g] = NotPosting]
  /\ UNCHANGED <<printFirst, sitting, ordered, everEnded, copied, bill>>

\* The owner orders for the table and opens a session when there is none.
OpenAndEnter(g, s) ==
  /\ posting[g].pc = "checked" /\ posting[g].session = NoSitting
  /\ ~TableLocked /\ SatDown(s)
  /\ posting' = [posting EXCEPT ![g].pc = "inside", ![g].session = s, ![g].table = TableOf(s)]
  /\ UNCHANGED <<printFirst, sitting, ordered, everEnded, copied, bill>>

\* Mutant: no index.
AnyRequest(r) == TRUE
\* The unique index on (tenant, request id).
RequestIsFree(r) == \A o \in TableOrder : ordered[o].request # r

\* The order is inserted and the transaction commits.
CreateOrder(g, o) ==
  /\ posting[g].pc = "inside" /\ ordered[o].status = "none"
  /\ RequestIsFree(posting[g].request)
  /\ ordered' = [ordered EXCEPT ![o] = [NoOrderRow EXCEPT
       !.status = "pending", !.session = posting[g].session, !.request = posting[g].request]]
  /\ sitting' = posting[g].table
  /\ posting' = [posting EXCEPT ![g] = NotPosting]
  /\ UNCHANGED <<printFirst, everEnded, copied, bill>>

\* The index refuses it and the request is answered with the order that is there,
\* or a dish or a coupon does: everything is rolled back.
AbandonPost(g) ==
  /\ posting[g].pc = "inside"
  /\ posting' = [posting EXCEPT ![g] = NotPosting]
  /\ UNCHANGED <<printFirst, sitting, ordered, everEnded, copied, bill>>

DiscoverOrder(w, o) ==
  /\ copied[w].order = NoOrder /\ ordered[o].status # "none"
  /\ copied' = [copied EXCEPT ![w] = [order |-> o, row |-> ordered[o]]]
  /\ UNCHANGED <<printFirst, sitting, ordered, everEnded, posting, bill>>

\* What the copy allows the merchant to do with an order of a table.
MayMove(row, target) ==
  /\ target \in AllowedTargets(row.status)
  /\ ~(printFirst /\ row.status = "pending" /\ target = "preparing")
  /\ target # "settled"                                   \* only with the whole table
  /\ ~(target \in Ending /\ row.paid /\ ~(row.status = "pending" /\ target = "rejected"))

UpdateStatus(w, target) ==
  /\ copied[w].order # NoOrder
  /\ copied' = [copied EXCEPT ![w] = NoCopy]
  /\ IF MayMove(copied[w].row, target)
     THEN /\ ordered' = [ordered EXCEPT ![copied[w].order].status = target]
          /\ everEnded' = IF target \in Ending THEN everEnded \cup {copied[w].order} ELSE everEnded
     ELSE UNCHANGED <<ordered, everEnded>>
  /\ UNCHANGED <<printFirst, sitting, posting, bill>>

\* An order that waits for the kitchen does not hold the table up where the printer
\* told the kitchen, once it is paid or the cashier says that the money is in.
SettleablePending(row, collected) == printFirst /\ row.status = "pending" /\ (row.paid \/ collected)
Blocking(row, collected) ==
  row.status \notin (Terminal \cup {"done"}) /\ ~SettleablePending(row, collected)
Settled(row, collected) == row.status = "done" \/ SettleablePending(row, collected)

\* Mutant: the session is not locked.
ReadTableUnlocked(t, s, collected) ==
  /\ bill[t].session = NoSitting /\ sitting[s].status = "OPEN"
  /\ \A o \in OrdersOf(s) : ~Blocking(ordered[o], collected)
  /\ bill' = [bill EXCEPT ![t] =
       [session |-> s, collected |-> collected,
        rows |-> [o \in TableOrder |-> IF o \in OrdersOf(s) THEN ordered[o] ELSE NoOrderRow]]]
  /\ UNCHANGED <<printFirst, sitting, ordered, everEnded, posting, copied>>

\* The till names a session, which is locked and must be open; then it reads the
\* orders without a lock and gives up when one of them is not finished.
ReadTable(t, s, collected) ==
  /\ bill[t].session = NoSitting
  /\ ~TableLocked /\ sitting[s].status = "OPEN"
  /\ \A o \in OrdersOf(s) : ~Blocking(ordered[o], collected)
  /\ bill' = [bill EXCEPT ![t] =
       [session |-> s, collected |-> collected,
        rows |-> [o \in TableOrder |-> IF o \in OrdersOf(s) THEN ordered[o] ELSE NoOrderRow]]]
  /\ UNCHANGED <<printFirst, sitting, ordered, everEnded, posting, copied>>

\* The session closes, the finished orders are settled and the unpaid ones are paid
\* and credited to the member, all as the copies say.
SettleTable(t) ==
  /\ bill[t].session # NoSitting
  /\ sitting' = [sitting EXCEPT ![bill[t].session] = [status |-> "CLOSED", idle |-> FALSE]]
  /\ ordered' = [o \in TableOrder |->
       LET row == bill[t].rows[o] IN
       IF ~Settled(row, bill[t].collected) THEN ordered[o]
       ELSE [ordered[o] EXCEPT !.status = "settled", !.paid = TRUE,
                               !.credits = @ + (IF row.paid THEN 0 ELSE 1)]]
  /\ bill' = [bill EXCEPT ![t] = NoBill]
  /\ UNCHANGED <<printFirst, everEnded, posting, copied>>

NextTable ==
  \/ \E s \in Sitting : ScanTable(s) \/ GoIdle(s)
  \/ \E g \in Guest, r \in Request, s \in Sitting \cup {NoSitting} : BeginPost(g, r, s)
  \/ \E g \in Guest : EnterSession(g) \/ AbandonPost(g)
  \/ \E g \in Guest, s \in Sitting : OpenAndEnter(g, s)
  \/ \E g \in Guest, o \in TableOrder : CreateOrder(g, o)
  \/ \E w \in Waiter, o \in TableOrder : DiscoverOrder(w, o)
  \/ \E w \in Waiter, target \in {"preparing", "done"} \cup Terminal : UpdateStatus(w, target)
  \/ \E t \in Till, s \in Sitting, collected \in BOOLEAN : ReadTable(t, s, collected)
  \/ \E t \in Till : SettleTable(t)

TableSpec == InitTable /\ [][NextTable]_tableVars

-----------------------------------------------------------------------------
OrderRow == [status : {"none", "pending", "preparing", "done"} \cup Terminal,
             session : Sitting \cup {NoSitting}, request : Request \cup {NoRequest},
             paid : BOOLEAN, credits : Nat]
SessionRow == [status : {"none", "OPEN", "CLOSED", "EXPIRED"}, idle : BOOLEAN]

PostingRow == [pc : {"idle", "checked", "inside"}, request : Request \cup {NoRequest},
               session : Sitting \cup {NoSitting}, table : [Sitting -> SessionRow]]
CopyRow == [order : TableOrder \cup {NoOrder}, row : OrderRow]
BillRow == [session : Sitting \cup {NoSitting}, rows : [TableOrder -> OrderRow], collected : BOOLEAN]

\* Every row and every copy holds what its columns can hold.
TableTypeOK ==
  /\ printFirst \in BOOLEAN
  /\ sitting \in [Sitting -> SessionRow]
  /\ ordered \in [TableOrder -> OrderRow]
  /\ everEnded \subseteq TableOrder
  /\ posting \in [Guest -> PostingRow]
  /\ copied \in [Waiter -> CopyRow]
  /\ bill \in [Till -> BillRow]

\* A meal never lands on a bill nobody will present: an order whose session is
\* over was paid, or was rejected or cancelled at some time.  This is what the row
\* locks of create_order and settle_table and the check before a session expires
\* are there for.
NoMealEscapesTheBill ==
  \A o \in TableOrder :
    ordered[o].status # "none" /\ sitting[ordered[o].session].status # "OPEN"
      => ordered[o].paid \/ o \in everEnded

\* A table is collected once: the member is credited once for an order that was
\* paid at the till, whoever settles the table again or at the same time.
BilledOnce ==
  \A o \in TableOrder : ordered[o].credits = (IF ordered[o].paid THEN 1 ELSE 0)

\* A request that is sent again, even at the same time or after the session changed,
\* makes one order.
OneOrderPerRequest ==
  \A o1, o2 \in TableOrder :
    ordered[o1].request = ordered[o2].request /\ ordered[o1].status # "none" => o1 = o2

=============================================================================
