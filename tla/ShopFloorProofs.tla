-------------------------- MODULE ShopFloorProofs ----------------------------
(***************************************************************************)
(* Tables, the queue and the payment codes of a shop.                      *)
(*                                                                         *)
(* Tables: no meal escapes the bill and none is collected twice, for any   *)
(* sessions, orders, guests, waiters and tills.                            *)
(*                                                                         *)
(* The argument is the row lock of the table's open session: at most one   *)
(* guest or till holds the table (OneAtTheTable), so what a guest is about *)
(* to write (PostsAreTrue) and what a till has read (BillsAreTrue) is not  *)
(* overtaken.  A waiter that writes what a stale copy allows only changes  *)
(* statuses: an order that was paid or ended once stays accounted for.     *)
(*                                                                         *)
(* The queue and the codes have their argument before their sections.      *)
(***************************************************************************)
EXTENDS TableService, QueueTickets, PaymentHandoff, FiniteSetTheorems, TLAPS

Accounted(o) == ordered[o].paid \/ o \in everEnded
GuestHolds(g) == posting[g].pc = "inside"
TillHolds(t) == bill[t].session # NoSitting

OneAtTheTable ==
  /\ \A g1, g2 \in Guest : GuestHolds(g1) /\ GuestHolds(g2) => g1 = g2
  /\ \A t1, t2 \in Till : TillHolds(t1) /\ TillHolds(t2) => t1 = t2
  /\ \A g \in Guest, t \in Till : ~(GuestHolds(g) /\ TillHolds(t))

\* A table on which every meal is accounted for or in the one open session, s.
SoundTable(table, s) ==
  /\ table[s].status = "OPEN"
  /\ \A x \in Sitting : table[x].status = "OPEN" => x = s
  /\ \A o \in TableOrder :
       ordered[o].status # "none" /\ table[ordered[o].session].status # "OPEN" => Accounted(o)

PostsAreTrue ==
  \A g \in Guest :
    /\ posting[g].pc # "idle" => posting[g].request \in Request
    /\ GuestHolds(g) => posting[g].session \in Sitting /\ SoundTable(posting[g].table, posting[g].session)

BillsAreTrue ==
  \A t \in Till : TillHolds(t) =>
    /\ sitting[bill[t].session].status = "OPEN"
    /\ \A o \in TableOrder :
         /\ ordered[o].session = bill[t].session =>
              Settled(bill[t].rows[o], bill[t].collected) \/ Accounted(o)
         /\ Settled(bill[t].rows[o], bill[t].collected) =>
              ordered[o].status # "none" /\ (ordered[o].paid <=> bill[t].rows[o].paid)

CopiesAreTrue ==
  \A w \in Waiter : copied[w].order # NoOrder => ordered[copied[w].order].status # "none"

OneOpen == \A x, y \in Sitting : sitting[x].status = "OPEN" /\ sitting[y].status = "OPEN" => x = y

OrdersAreTrue ==
  \A o \in TableOrder :
    /\ IF ordered[o].status = "none" THEN ordered[o] = NoOrderRow
       ELSE ordered[o].session \in Sitting /\ ordered[o].request \in Request
    /\ ordered[o].status = "settled" => ordered[o].paid
    /\ ordered[o].status \in Ending => o \in everEnded

TableInv ==
  /\ TableTypeOK /\ OneAtTheTable /\ PostsAreTrue /\ BillsAreTrue /\ CopiesAreTrue
  /\ OneOpen /\ OrdersAreTrue
  /\ NoMealEscapesTheBill /\ BilledOnce /\ OneOrderPerRequest

-----------------------------------------------------------------------------
\* Records at rest have their types.
LEMMA RestTypes ==
  /\ NoSession \in SessionRow /\ NoOrderRow \in OrderRow /\ NotPosting \in PostingRow
  /\ NoCopy \in CopyRow /\ NoBill \in BillRow
  <1>1. NoSession \in SessionRow /\ NoOrderRow \in OrderRow
    BY DEF NoSession, SessionRow, NoOrderRow, OrderRow
  <1> QED
    BY <1>1 DEF NotPosting, PostingRow, NoCopy, CopyRow, NoBill, BillRow

\* A request that takes the table keeps its type.
LEMMA EnteringTypes ==
  ASSUME NEW row \in PostingRow, NEW table \in [Sitting -> SessionRow]
  PROVE  /\ [row EXCEPT !.pc = "inside", !.table = table] \in PostingRow
         /\ \A s \in Sitting : [row EXCEPT !.pc = "inside", !.session = s, !.table = table] \in PostingRow
  BY DEF PostingRow

\* The table somebody sits down at has one open session, the one taken, and loses
\* no meal: the session that expires had none left to settle.
LEMMA SittingDown ==
  ASSUME TableInv, NEW s \in Sitting, SatDown(s)
  PROVE  TableOf(s) \in [Sitting -> SessionRow] /\ SoundTable(TableOf(s), s)
  <1> USE DEF TableInv
  <1>1. TableOf(s) \in [Sitting -> SessionRow]
    BY DEF TableTypeOK, TableOf, SessionRow, OpenSessions
  <1>2. /\ TableOf(s)[s].status = "OPEN"
        /\ \A x \in Sitting \ {s} :
             TableOf(s)[x].status = IF x \in OpenSessions THEN "EXPIRED" ELSE sitting[x].status
    BY DEF TableOf, TableTypeOK, SessionRow
  <1>3. \A x \in Sitting : TableOf(s)[x].status = "OPEN" => x = s
    BY <1>2 DEF OpenSessions
  <1>4. ASSUME NEW o \in TableOrder, ordered[o].status # "none",
               TableOf(s)[ordered[o].session].status # "OPEN"
        PROVE  Accounted(o)
    <2> DEFINE x == ordered[o].session
    <2>1. x \in Sitting \ {s}
      BY <1>2, <1>4 DEF OrdersAreTrue
    <2>2. CASE x \in OpenSessions
      <3>1. s \notin OpenSessions
        BY <2>1, <2>2 DEF OpenSessions, OneOpen
      <3>2. PICK y \in OpenSessions : \A q \in OrdersOf(y) : ordered[q].status \in Terminal
        BY <2>2, <3>1 DEF SatDown
      <3>3. y = x
        BY <2>2, <3>2 DEF OpenSessions, OneOpen
      <3>4. ordered[o].status \in Terminal
        BY <3>2, <3>3 DEF OrdersOf
      <3> QED
        BY <3>4 DEF Terminal, Ending, OrdersAreTrue, Accounted
    <2>3. CASE x \notin OpenSessions
      <3>1. sitting[x].status # "OPEN"
        BY <2>1, <2>3 DEF OpenSessions
      <3> QED
        BY <1>4, <3>1 DEF NoMealEscapesTheBill, Accounted
    <2> QED
      BY <2>2, <2>3
  <1> QED
    BY <1>1, <1>2, <1>3, <1>4 DEF SoundTable

-----------------------------------------------------------------------------
\* Every request leaves rows and copies their types.
LEMMA TableTypeKept ==
  ASSUME TableInv, [NextTable]_tableVars
  PROVE  TableTypeOK'
  <1>a. TableTypeOK
    BY DEF TableInv
  <1> USE <1>a, RestTypes DEF TableTypeOK
  <1>1. ASSUME NEW s \in Sitting, ScanTable(s)
        PROVE  TableTypeOK'
    BY <1>1, SittingDown DEF ScanTable
  <1>2. ASSUME NEW s \in Sitting, GoIdle(s)
        PROVE  TableTypeOK'
    BY <1>2 DEF GoIdle, SessionRow
  <1>3. ASSUME NEW g \in Guest, NEW r \in Request, NEW s \in Sitting \cup {NoSitting}, BeginPost(g, r, s)
        PROVE  TableTypeOK'
    <2>1. [NotPosting EXCEPT !.pc = "checked", !.request = r, !.session = s] \in PostingRow
      BY DEF PostingRow, NotPosting
    <2> QED
      BY <1>3, <2>1 DEF BeginPost
  <1>4. ASSUME NEW g \in Guest, EnterSession(g)
        PROVE  TableTypeOK'
    <2> DEFINE s == posting[g].session
               table == [sitting EXCEPT ![s].idle = FALSE]
    <2>1. table \in [Sitting -> SessionRow]
      BY DEF SessionRow
    <2>2. \/ posting' = [posting EXCEPT ![g] = NotPosting]
          \/ posting' = [posting EXCEPT ![g].pc = "inside", ![g].table = table]
      BY <1>4 DEF EnterSession
    <2> HIDE DEF table
    <2>3. [posting[g] EXCEPT !.pc = "inside", !.table = table] \in PostingRow
      BY <2>1, EnteringTypes
    <2>4. posting' \in [Guest -> PostingRow]
      BY <2>2, <2>3
    <2> QED
      BY <1>4, <2>4 DEF EnterSession
  <1>5. ASSUME NEW g \in Guest, AbandonPost(g)
        PROVE  TableTypeOK'
    BY <1>5 DEF AbandonPost
  <1>6. ASSUME NEW g \in Guest, NEW s \in Sitting, OpenAndEnter(g, s)
        PROVE  TableTypeOK'
    <2>1. TableOf(s) \in [Sitting -> SessionRow]
      BY <1>6, SittingDown DEF OpenAndEnter
    <2>2. posting' = [posting EXCEPT ![g].pc = "inside", ![g].session = s, ![g].table = TableOf(s)]
      BY <1>6 DEF OpenAndEnter
    <2>3. [posting[g] EXCEPT !.pc = "inside", !.session = s, !.table = TableOf(s)] \in PostingRow
      BY <2>1, EnteringTypes
    <2>4. posting' \in [Guest -> PostingRow]
      BY <2>2, <2>3
    <2> QED
      BY <1>6, <2>4 DEF OpenAndEnter
  <1>7. ASSUME NEW g \in Guest, NEW o \in TableOrder, CreateOrder(g, o)
        PROVE  TableTypeOK'
    <2>1. posting[g].request \in Request \cup {NoRequest} /\ posting[g].session \in Sitting \cup {NoSitting}
            /\ posting[g].table \in [Sitting -> SessionRow]
      BY DEF PostingRow
    <2>2. [NoOrderRow EXCEPT !.status = "pending", !.session = posting[g].session,
                             !.request = posting[g].request] \in OrderRow
      BY <2>1 DEF NoOrderRow, OrderRow
    <2> QED
      BY <1>7, <2>1, <2>2 DEF CreateOrder
  <1>8. ASSUME NEW w \in Waiter, NEW o \in TableOrder, DiscoverOrder(w, o)
        PROVE  TableTypeOK'
    BY <1>8 DEF DiscoverOrder, CopyRow
  <1>9. ASSUME NEW w \in Waiter, NEW target \in {"preparing", "done"} \cup Terminal, UpdateStatus(w, target)
        PROVE  TableTypeOK'
    <2>1. copied[w].order \in TableOrder
      BY <1>9 DEF UpdateStatus, CopyRow
    <2>2. [ordered EXCEPT ![copied[w].order].status = target] \in [TableOrder -> OrderRow]
      BY <2>1 DEF OrderRow
    <2>3. everEnded' \subseteq TableOrder
      BY <1>9, <2>1 DEF UpdateStatus
    <2>4. ordered' \in [TableOrder -> OrderRow]
      BY <1>9, <2>2 DEF UpdateStatus
    <2> QED
      BY <1>9, <2>3, <2>4 DEF UpdateStatus
  <1>10. ASSUME NEW t \in Till, NEW s \in Sitting, NEW collected \in BOOLEAN, ReadTable(t, s, collected)
         PROVE  TableTypeOK'
    <2> DEFINE rows == [o \in TableOrder |-> IF o \in OrdersOf(s) THEN ordered[o] ELSE NoOrderRow]
    <2>1. rows \in [TableOrder -> OrderRow]
      OBVIOUS
    <2>2. [session |-> s, collected |-> collected, rows |-> rows] \in BillRow
      BY <2>1 DEF BillRow
    <2>3. bill' = [bill EXCEPT ![t] = [session |-> s, collected |-> collected, rows |-> rows]]
      BY <1>10 DEF ReadTable
    <2> QED
      BY <1>10, <2>2, <2>3 DEF ReadTable
  <1>11. ASSUME NEW t \in Till, SettleTable(t)
         PROVE  TableTypeOK'
    <2>1. sitting' \in [Sitting -> SessionRow]
      BY <1>11 DEF SettleTable, SessionRow
    <2>2. ASSUME NEW o \in TableOrder, NEW n \in {0, 1}
          PROVE  [ordered[o] EXCEPT !.status = "settled", !.paid = TRUE, !.credits = @ + n] \in OrderRow
      <3>1. ordered[o] \in OrderRow /\ ordered[o].credits + n \in Nat
        BY DEF OrderRow
      <3> QED
        BY <3>1 DEF OrderRow, Terminal
    <2>3. ordered' = [o \in TableOrder |->
            IF ~Settled(bill[t].rows[o], bill[t].collected) THEN ordered[o]
            ELSE [ordered[o] EXCEPT !.status = "settled", !.paid = TRUE,
                                    !.credits = @ + (IF bill[t].rows[o].paid THEN 0 ELSE 1)]]
      BY <1>11 DEF SettleTable
    <2>4. ordered' \in [TableOrder -> OrderRow]
      BY <2>2, <2>3
    <2> QED
      BY <1>11, <2>1, <2>4 DEF SettleTable
  <1>12. CASE UNCHANGED tableVars
    BY <1>12 DEF tableVars
  <1> QED
    BY <1>1, <1>2, <1>3, <1>4, <1>5, <1>6, <1>7, <1>8, <1>9, <1>10, <1>11, <1>12 DEF NextTable

-----------------------------------------------------------------------------
\* The parts of the invariant beside the types.
Sound ==
  /\ OneAtTheTable /\ PostsAreTrue /\ BillsAreTrue /\ CopiesAreTrue /\ OneOpen /\ OrdersAreTrue
  /\ NoMealEscapesTheBill /\ BilledOnce /\ OneOrderPerRequest

\* A step that only begins, drops or copies something, and takes no lock, keeps them.
LEMMA Unlocking ==
  ASSUME TableInv, UNCHANGED <<printFirst, sitting, ordered, everEnded>>,
         \A g \in Guest : posting'[g].pc = "idle" \/ posting'[g] = posting[g]
                          \/ (posting'[g].pc = "checked" /\ posting'[g].request \in Request),
         \A w \in Waiter : copied'[w].order = NoOrder \/ copied'[w] = copied[w]
                           \/ ordered[copied'[w].order].status # "none",
         UNCHANGED bill
  PROVE  Sound'
  <1> USE DEF TableInv
  <1>1. OneAtTheTable'
    BY DEF OneAtTheTable, GuestHolds, TillHolds
  <1>2. PostsAreTrue'
    BY DEF PostsAreTrue, GuestHolds, SoundTable, Accounted
  <1>3. BillsAreTrue'
    BY DEF BillsAreTrue, TillHolds, Accounted, Settled, SettleablePending
  <1>4. CopiesAreTrue'
    BY DEF CopiesAreTrue
  <1>5. OneOpen' /\ OrdersAreTrue' /\ NoMealEscapesTheBill' /\ BilledOnce' /\ OneOrderPerRequest'
    BY DEF OneOpen, OrdersAreTrue, NoMealEscapesTheBill, BilledOnce, OneOrderPerRequest
  <1> QED
    BY <1>1, <1>2, <1>3, <1>4, <1>5 DEF Sound

\* A guest that takes a free table with a sound idea of it keeps them.
LEMMA Entering ==
  ASSUME TableInv, ~TableLocked, UNCHANGED <<printFirst, sitting, ordered, everEnded, copied, bill>>,
         NEW g \in Guest, posting[g].pc # "idle", posting'[g].request = posting[g].request,
         posting'[g].pc = "inside", posting'[g].session \in Sitting,
         SoundTable(posting'[g].table, posting'[g].session),
         \A x \in Guest \ {g} : posting'[x] = posting[x]
  PROVE  Sound'
  <1> USE DEF TableInv
  <1>1. /\ \A x \in Guest \ {g} : posting'[x] = posting[x] /\ ~GuestHolds(x)
        /\ \A t \in Till : ~TillHolds(t)
    BY DEF TableLocked, GuestHolds, TillHolds
  <1>2. OneAtTheTable' /\ BillsAreTrue'
    BY <1>1 DEF OneAtTheTable, BillsAreTrue, GuestHolds, TillHolds
  <1>3. PostsAreTrue'
    BY <1>1 DEF PostsAreTrue, GuestHolds, SoundTable, Accounted
  <1>4. CopiesAreTrue' /\ OneOpen' /\ OrdersAreTrue' /\ NoMealEscapesTheBill' /\ BilledOnce' /\ OneOrderPerRequest'
    BY DEF CopiesAreTrue, OneOpen, OrdersAreTrue, NoMealEscapesTheBill, BilledOnce, OneOrderPerRequest
  <1> QED
    BY <1>2, <1>3, <1>4 DEF Sound

-----------------------------------------------------------------------------
LEMMA ScanKeeps ==
  ASSUME TableInv, NEW s \in Sitting, ScanTable(s)
  PROVE  Sound'
  <1> USE DEF TableInv
  <1>1. /\ SoundTable(sitting', s) /\ sitting' = TableOf(s)
        /\ UNCHANGED <<printFirst, ordered, everEnded, posting, copied, bill>>
        /\ \A g \in Guest : ~GuestHolds(g)
        /\ \A t \in Till : ~TillHolds(t)
    BY SittingDown DEF ScanTable, TableLocked, GuestHolds, TillHolds
  <1>2. OneAtTheTable' /\ BillsAreTrue' /\ PostsAreTrue' /\ CopiesAreTrue'
    BY <1>1 DEF OneAtTheTable, BillsAreTrue, PostsAreTrue, CopiesAreTrue, GuestHolds, TillHolds
  <1>3. OneOpen' /\ NoMealEscapesTheBill'
    BY <1>1 DEF OneOpen, NoMealEscapesTheBill, SoundTable, Accounted
  <1>4. OrdersAreTrue' /\ BilledOnce' /\ OneOrderPerRequest'
    BY <1>1 DEF OrdersAreTrue, BilledOnce, OneOrderPerRequest
  <1> QED
    BY <1>2, <1>3, <1>4 DEF Sound

LEMMA IdleKeeps ==
  ASSUME TableInv, NEW s \in Sitting, GoIdle(s)
  PROVE  Sound'
  <1> USE DEF TableInv
  <1>1. /\ \A x \in Sitting : sitting'[x].status = sitting[x].status
        /\ UNCHANGED <<printFirst, ordered, everEnded, posting, copied, bill>>
        /\ \A g \in Guest : ~GuestHolds(g)
        /\ \A t \in Till : ~TillHolds(t)
    BY DEF GoIdle, TableLocked, GuestHolds, TillHolds, TableTypeOK, SessionRow
  <1>2. OneAtTheTable' /\ BillsAreTrue' /\ PostsAreTrue' /\ CopiesAreTrue'
    BY <1>1 DEF OneAtTheTable, BillsAreTrue, PostsAreTrue, CopiesAreTrue, GuestHolds, TillHolds
  <1>3. OneOpen' /\ NoMealEscapesTheBill'
    BY <1>1 DEF OneOpen, NoMealEscapesTheBill, OrdersAreTrue
  <1>4. OrdersAreTrue' /\ BilledOnce' /\ OneOrderPerRequest'
    BY <1>1 DEF OrdersAreTrue, BilledOnce, OneOrderPerRequest
  <1> QED
    BY <1>2, <1>3, <1>4 DEF Sound

LEMMA EnterKeeps ==
  ASSUME TableInv, NEW g \in Guest, EnterSession(g)
  PROVE  Sound'
  <1> USE DEF TableInv
  <1> DEFINE s == posting[g].session
             table == [sitting EXCEPT ![s].idle = FALSE]
  <1>1. s \in Sitting /\ posting[g].pc = "checked"
    BY DEF EnterSession, TableTypeOK, PostingRow
  <1>2. CASE sitting[s].status = "OPEN"
    <2>1. ~TableLocked /\ posting' = [posting EXCEPT ![g].pc = "inside", ![g].table = table]
            /\ UNCHANGED <<printFirst, sitting, ordered, everEnded, copied, bill>>
      BY <1>2 DEF EnterSession
    <2>2. \A x \in Sitting : table[x].status = sitting[x].status
      BY <1>1 DEF TableTypeOK, SessionRow
    <2> HIDE DEF table
    <2>3. SoundTable(table, s)
      BY <1>1, <1>2, <2>2 DEF SoundTable, OneOpen, NoMealEscapesTheBill, OrdersAreTrue, Accounted
    <2>4. posting'[g].request = posting[g].request /\ posting'[g].pc = "inside"
            /\ posting'[g].session = s /\ posting'[g].table = table
            /\ \A x \in Guest \ {g} : posting'[x] = posting[x]
      BY <2>1 DEF TableTypeOK, PostingRow
    <2> QED
      BY <1>1, <2>1, <2>3, <2>4, Entering
  <1>3. CASE sitting[s].status # "OPEN"
    <2>1. posting' = [posting EXCEPT ![g] = NotPosting]
            /\ UNCHANGED <<printFirst, sitting, ordered, everEnded, copied, bill>>
      BY <1>3 DEF EnterSession
    <2> QED
      BY <2>1, Unlocking DEF TableTypeOK, NotPosting
  <1> QED
    BY <1>2, <1>3

LEMMA OpenKeeps ==
  ASSUME TableInv, NEW g \in Guest, NEW s \in Sitting, OpenAndEnter(g, s)
  PROVE  Sound'
  <1>1. ~TableLocked /\ posting[g].pc = "checked" /\ SoundTable(TableOf(s), s)
          /\ UNCHANGED <<printFirst, sitting, ordered, everEnded, copied, bill>>
    BY SittingDown DEF OpenAndEnter
  <1>2. posting' = [posting EXCEPT ![g].pc = "inside", ![g].session = s, ![g].table = TableOf(s)]
    BY DEF OpenAndEnter
  <1>3. posting'[g].request = posting[g].request /\ posting'[g].pc = "inside"
          /\ posting'[g].session = s /\ posting'[g].table = TableOf(s)
          /\ \A x \in Guest \ {g} : posting'[x] = posting[x]
    BY <1>2 DEF TableInv, TableTypeOK, PostingRow
  <1> QED
    BY <1>1, <1>3, Entering

LEMMA CreateKeeps ==
  ASSUME TableInv, NEW g \in Guest, NEW o \in TableOrder, CreateOrder(g, o)
  PROVE  Sound'
  <1> USE DEF TableInv
  <1> DEFINE s == posting[g].session
  <1>1. /\ s \in Sitting /\ posting[g].request \in Request /\ SoundTable(posting[g].table, s)
        /\ sitting' = posting[g].table /\ UNCHANGED <<printFirst, everEnded, copied, bill>>
        /\ posting'[g].pc = "idle" /\ \A x \in Guest \ {g} : posting'[x] = posting[x] /\ ~GuestHolds(x)
        /\ \A t \in Till : ~TillHolds(t)
    BY DEF CreateOrder, PostsAreTrue, OneAtTheTable, GuestHolds, NotPosting, TableTypeOK
  <1>2. /\ ordered[o].status = "none"
        /\ ordered'[o].status = "pending" /\ ordered'[o].session = s
        /\ ordered'[o].request = posting[g].request
        /\ ~ordered'[o].paid /\ ordered'[o].credits = 0
        /\ \A x \in TableOrder \ {o} : ordered'[x] = ordered[x] /\ ordered[x].request # posting[g].request
    BY DEF CreateOrder, RequestIsFree, TableTypeOK, NoOrderRow, OrdersAreTrue
  <1> HIDE DEF s
  <1>3. OneAtTheTable' /\ PostsAreTrue' /\ BillsAreTrue'
    BY <1>1 DEF OneAtTheTable, PostsAreTrue, BillsAreTrue, GuestHolds, TillHolds
  <1>4. CopiesAreTrue'
    BY <1>1, <1>2 DEF CopiesAreTrue, TableTypeOK, CopyRow
  <1>5. OneOpen'
    BY <1>1 DEF OneOpen, SoundTable
  <1>6. OrdersAreTrue' /\ BilledOnce'
    BY <1>1, <1>2 DEF OrdersAreTrue, BilledOnce, Ending
  <1>7. NoMealEscapesTheBill'
    BY <1>1, <1>2 DEF NoMealEscapesTheBill, SoundTable, Accounted
  <1>8. OneOrderPerRequest'
    BY <1>1, <1>2 DEF OneOrderPerRequest
  <1> QED
    BY <1>3, <1>4, <1>5, <1>6, <1>7, <1>8 DEF Sound

\* What a stale copy allows changes a status and nothing else, and never to settled.
LEMMA UpdateKeeps ==
  ASSUME TableInv, NEW w \in Waiter, NEW target \in {"preparing", "done"} \cup Terminal,
         UpdateStatus(w, target)
  PROVE  Sound'
  <1> USE DEF TableInv
  <1> DEFINE o == copied[w].order
  <1>1. o \in TableOrder /\ ordered[o].status # "none"
          /\ UNCHANGED <<printFirst, sitting, posting, bill>>
          /\ copied'[w].order = NoOrder /\ \A x \in Waiter \ {w} : copied'[x] = copied[x]
    BY DEF UpdateStatus, CopiesAreTrue, TableTypeOK, CopyRow, NoCopy
  <1>2. CASE ~MayMove(copied[w].row, target)
    BY <1>1, <1>2, Unlocking DEF UpdateStatus
  <1>3. CASE MayMove(copied[w].row, target)
    <2>1. target \in {"preparing", "done", "cancelled", "rejected"}
      BY <1>3 DEF MayMove, Terminal
    <2>2. /\ ordered'[o].status = target /\ (target \in Ending => o \in everEnded')
          /\ everEnded \subseteq everEnded'
          /\ \A x \in TableOrder :
               /\ ordered'[x].session = ordered[x].session /\ ordered'[x].request = ordered[x].request
               /\ ordered'[x].paid = ordered[x].paid /\ ordered'[x].credits = ordered[x].credits
          /\ \A x \in TableOrder \ {o} : ordered'[x] = ordered[x]
      BY <1>1, <1>3 DEF UpdateStatus, TableTypeOK, OrderRow
    <2> HIDE DEF o
    <2>3. OneAtTheTable' /\ OneOpen'
      BY <1>1 DEF OneAtTheTable, OneOpen, GuestHolds, TillHolds
    <2>4. PostsAreTrue'
      BY <1>1, <2>2 DEF PostsAreTrue, SoundTable, GuestHolds, Accounted
    <2>5. BillsAreTrue'
      BY <1>1, <2>1, <2>2 DEF BillsAreTrue, TillHolds, Settled, SettleablePending, Accounted
    <2>6. CopiesAreTrue'
      BY <1>1, <2>1, <2>2 DEF CopiesAreTrue, TableTypeOK, CopyRow
    <2>7. OrdersAreTrue'
      BY <1>1, <2>1, <2>2 DEF OrdersAreTrue, Ending
    <2>8. NoMealEscapesTheBill' /\ BilledOnce' /\ OneOrderPerRequest'
      BY <1>1, <2>1, <2>2 DEF NoMealEscapesTheBill, BilledOnce, OneOrderPerRequest
    <2> QED
      BY <2>3, <2>4, <2>5, <2>6, <2>7, <2>8 DEF Sound
  <1> QED
    BY <1>2, <1>3

LEMMA ReadKeeps ==
  ASSUME TableInv, NEW t \in Till, NEW s \in Sitting, NEW collected \in BOOLEAN,
         ReadTable(t, s, collected)
  PROVE  Sound'
  <1> USE DEF TableInv
  <1>1. /\ UNCHANGED <<printFirst, sitting, ordered, everEnded, posting, copied>>
        /\ \A g \in Guest : ~GuestHolds(g)
        /\ \A x \in Till \ {t} : bill'[x] = bill[x] /\ ~TillHolds(x)
        /\ bill'[t].session = s /\ bill'[t].collected = collected
        /\ \A o \in TableOrder :
             bill'[t].rows[o] = IF o \in OrdersOf(s) THEN ordered[o] ELSE NoOrderRow
        /\ sitting[s].status = "OPEN"
        /\ \A o \in OrdersOf(s) : ~Blocking(ordered[o], collected)
    BY DEF ReadTable, TableLocked, GuestHolds, TillHolds, TableTypeOK
  <1>2. OneAtTheTable' /\ PostsAreTrue'
    BY <1>1 DEF OneAtTheTable, PostsAreTrue, GuestHolds, TillHolds, SoundTable, Accounted
  <1>3. ASSUME NEW o \in TableOrder, ordered[o].session = s
        PROVE  Settled(ordered[o], collected) \/ Accounted(o)
    <2>1. ~Blocking(ordered[o], collected)
      BY <1>1, <1>3 DEF OrdersOf
    <2>2. CASE ordered[o].status \in Terminal
      BY <2>2 DEF OrdersAreTrue, Terminal, Ending, Accounted
    <2>3. CASE ordered[o].status \notin Terminal
      BY <2>1, <2>3 DEF Blocking, Settled
    <2> QED
      BY <2>2, <2>3
  <1>4. ASSUME NEW o \in TableOrder, Settled(bill'[t].rows[o], collected)
        PROVE  ordered[o].status # "none" /\ bill'[t].rows[o] = ordered[o]
    BY <1>1, <1>4, TableAssumption DEF Settled, SettleablePending, NoOrderRow, OrdersOf, OrdersAreTrue
  <1>5. BillsAreTrue'
    <2>1. ASSUME NEW o \in TableOrder, ordered[o].session = s
          PROVE  Settled(bill'[t].rows[o], collected) \/ Accounted(o)
      BY <1>1, <1>3, <2>1 DEF OrdersOf
    <2>2. ASSUME NEW x \in Till, TillHolds(x)'
          PROVE  x = t
      BY <1>1, <2>2 DEF TillHolds
    <2> QED
      BY <1>1, <1>4, <2>1, <2>2 DEF BillsAreTrue, Settled, SettleablePending, Accounted
  <1>6. CopiesAreTrue' /\ OneOpen' /\ OrdersAreTrue' /\ NoMealEscapesTheBill' /\ BilledOnce' /\ OneOrderPerRequest'
    BY <1>1 DEF CopiesAreTrue, OneOpen, OrdersAreTrue, NoMealEscapesTheBill, BilledOnce, OneOrderPerRequest
  <1> QED
    BY <1>2, <1>5, <1>6 DEF Sound

\* The till settles what it read: the copies still agree with the rows on who paid.
LEMMA SettleKeeps ==
  ASSUME TableInv, NEW t \in Till, SettleTable(t)
  PROVE  Sound'
  <1> USE DEF TableInv
  <1> DEFINE s == bill[t].session
             done(o) == Settled(bill[t].rows[o], bill[t].collected)
  <1>1. /\ s \in Sitting /\ TillHolds(t) /\ UNCHANGED <<printFirst, everEnded, posting, copied>>
        /\ \A g \in Guest : ~GuestHolds(g)
        /\ \A x \in Till \ {t} : bill'[x] = bill[x] /\ ~TillHolds(x)
        /\ bill'[t].session = NoSitting
        /\ sitting'[s].status = "CLOSED" /\ \A x \in Sitting \ {s} : sitting'[x] = sitting[x]
    BY DEF SettleTable, TillHolds, GuestHolds, OneAtTheTable, TableTypeOK, BillRow, NoBill
  <1>2. ASSUME NEW o \in TableOrder
        PROVE  /\ ordered'[o].session = ordered[o].session /\ ordered'[o].request = ordered[o].request
               /\ IF done(o)
                  THEN /\ ordered'[o].status = "settled" /\ ordered'[o].paid /\ ordered'[o].credits = 1
                       /\ ordered[o].status # "none"
                  ELSE ordered'[o] = ordered[o]
    <2> HIDE DEF done
    <2>1. ordered'[o] = IF ~done(o) THEN ordered[o]
            ELSE [ordered[o] EXCEPT !.status = "settled", !.paid = TRUE,
                                    !.credits = @ + (IF bill[t].rows[o].paid THEN 0 ELSE 1)]
      BY DEF SettleTable, done
    <2>2. done(o) => ordered[o].status # "none" /\ (ordered[o].paid <=> bill[t].rows[o].paid)
      BY <1>1 DEF BillsAreTrue, done
    <2>3. ordered[o] \in OrderRow /\ ordered[o].credits = (IF ordered[o].paid THEN 1 ELSE 0)
      BY DEF TableTypeOK, BilledOnce
    <2> QED
      BY <2>1, <2>2, <2>3 DEF OrderRow
  <1>3. \A o \in TableOrder : ordered[o].session = s => done(o) \/ Accounted(o)
    BY <1>1 DEF BillsAreTrue
  <1> HIDE DEF s, done
  <1>4. OneAtTheTable' /\ PostsAreTrue' /\ BillsAreTrue'
    BY <1>1 DEF OneAtTheTable, PostsAreTrue, BillsAreTrue, GuestHolds, TillHolds
  <1>5. CopiesAreTrue'
    BY <1>1, <1>2 DEF CopiesAreTrue, TableTypeOK, CopyRow
  <1>6. OneOpen'
    BY <1>1 DEF OneOpen
  <1>7. OrdersAreTrue'
    BY <1>1, <1>2 DEF OrdersAreTrue, Ending
  <1>8. NoMealEscapesTheBill'
    BY <1>1, <1>2, <1>3 DEF NoMealEscapesTheBill, OrdersAreTrue, Accounted
  <1>9. BilledOnce' /\ OneOrderPerRequest'
    BY <1>2 DEF BilledOnce, OneOrderPerRequest
  <1> QED
    BY <1>4, <1>5, <1>6, <1>7, <1>8, <1>9 DEF Sound

-----------------------------------------------------------------------------
LEMMA TableInvKept ==
  ASSUME TableInv, [NextTable]_tableVars
  PROVE  TableInv'
  <1>t. TableTypeOK'
    BY TableTypeKept
  <1> SUFFICES Sound'
    BY <1>t DEF TableInv, Sound
  <1> USE DEF TableInv, TableTypeOK
  <1>1. ASSUME NEW g \in Guest, NEW r \in Request, NEW s \in Sitting \cup {NoSitting}, BeginPost(g, r, s)
        PROVE  Sound'
    BY <1>1, Unlocking DEF BeginPost, NotPosting
  <1>2. ASSUME NEW g \in Guest, AbandonPost(g)
        PROVE  Sound'
    BY <1>2, Unlocking DEF AbandonPost, NotPosting
  <1>3. ASSUME NEW w \in Waiter, NEW o \in TableOrder, DiscoverOrder(w, o)
        PROVE  Sound'
    BY <1>3, Unlocking DEF DiscoverOrder
  <1>4. CASE UNCHANGED tableVars
    BY <1>4, Unlocking DEF tableVars
  <1> QED
    BY <1>1, <1>2, <1>3, <1>4, ScanKeeps, IdleKeeps, EnterKeeps, OpenKeeps, CreateKeeps, UpdateKeeps,
      ReadKeeps, SettleKeeps DEF NextTable

LEMMA TableInvInit == InitTable => TableInv
  <1> SUFFICES ASSUME InitTable PROVE TableInv
    OBVIOUS
  <1>1. /\ \A g \in Guest : posting[g].pc = "idle"
        /\ \A w \in Waiter : copied[w].order = NoOrder
        /\ \A t \in Till : bill[t].session = NoSitting
        /\ \A s \in Sitting : sitting[s].status = "none"
        /\ \A o \in TableOrder : /\ ordered[o] = NoOrderRow /\ ordered[o].status = "none"
                                 /\ ~ordered[o].paid /\ ordered[o].credits = 0
    BY DEF InitTable, NotPosting, NoCopy, NoBill, NoSession, NoOrderRow
  <1>2. TableTypeOK
    BY RestTypes DEF InitTable, TableTypeOK
  <1> QED
    BY <1>1, <1>2 DEF TableInv, OneAtTheTable, PostsAreTrue, BillsAreTrue, CopiesAreTrue, OneOpen,
      OrdersAreTrue, NoMealEscapesTheBill, BilledOnce, OneOrderPerRequest, GuestHolds, TillHolds, Ending

\* Types, locks and the rest: the invariant the results rest on.
THEOREM TableInvHolds == TableSpec => []TableInv
  BY TableInvInit, TableInvKept, PTL DEF TableSpec

\* A meal whose session is over was paid, or was rejected or cancelled.
THEOREM MealsAreAccountedFor == TableSpec => []NoMealEscapesTheBill
  BY TableInvHolds, PTL DEF TableInv

\* Settling a table twice or at the same time credits the member once.
THEOREM TablesAreBilledOnce == TableSpec => []BilledOnce
  BY TableInvHolds, PTL DEF TableInv

\* A request that comes again makes one order.
THEOREM RequestsMakeOneOrder == TableSpec => []OneOrderPerRequest
  BY TableInvHolds, PTL DEF TableInv

-----------------------------------------------------------------------------
(***************************************************************************)
(* The waiting queue: numbers without gaps, calls in turn, for any queues, *)
(* tickets and desks, any length of a day and number of attempts.          *)
(*                                                                         *)
(* A number that was read before others were given out is either taken by  *)
(* now, and refused, or still the next one: all below it were given out    *)
(* (RequestsAreNumbered), and what was given out has no gap                *)
(* (NumbersAreDense).  A row that a call has locked stays the first one    *)
(* that waits until it is called (HeldIsNext).                             *)
(***************************************************************************)
\* What a row that exists, and one that does not, hold.
TicketsAreTrue ==
  \A t \in Ticket :
    /\ IF ticket[t].status = "none" THEN ticket[t].type = NoType
       ELSE ticket[t].type \in QueueType /\ ticket[t].createdAt <= second
    /\ ticket[t].status \in {"none", "waiting"} => ticket[t].reminders = 0

\* Every number below the one a request has read was given out.
RequestsAreNumbered ==
  \A k \in Kiosk : asking[k].pc = "numbered" =>
    /\ asking[k].type \in QueueType /\ asking[k].sequence # 0
    /\ 1..(asking[k].sequence - 1) \subseteq Numbers(asking[k].type, asking[k].date)

\* The numbers of a queue and a day are those up to the last one.
NumbersAreDense ==
  \A q \in QueueType, date \in Nat : \E last \in Nat : Numbers(q, date) = 1..last

\* Of two tickets of a queue and a day, the older has the lower number.
NumbersAreInOrder ==
  \A t1, t2 \in Ticket :
    /\ ticket[t1].status # "none" /\ ticket[t2].status # "none" /\ t1 # t2
    /\ ticket[t1].type = ticket[t2].type /\ ticket[t1].date = ticket[t2].date
    => /\ ticket[t1].sequence # ticket[t2].sequence
       /\ ticket[t2].createdAt < ticket[t1].createdAt => ticket[t2].sequence < ticket[t1].sequence

\* A locked row is held by one desk, and nobody that waits came before it.
HeldIsNext ==
  \A d \in FrontDesk : \A t \in calling[d].held :
    /\ ticket[t].status = "waiting"
    /\ \A x \in Waiting(ticket[t].type) : ticket[t].createdAt <= ticket[x].createdAt
    /\ \A e \in FrontDesk : t \in calling[e].held => e = d

QueueInv ==
  /\ QueueTypeOK /\ TicketsAreTrue /\ RequestsAreNumbered /\ NumbersAreDense /\ NumbersAreInOrder
  /\ HeldIsNext

\* The number after 1, 2, ... last is last + 1.
LEMMA NextIsAfterLast ==
  ASSUME NEW q, NEW date, NEW last \in Nat, Numbers(q, date) = 1..last
  PROVE  NextNumber(q, date) = last + 1
  <1>1. {0} \cup Numbers(q, date) = 0..last
    OBVIOUS
  <1>2. \A x \in 0..last : (\A y \in 0..last : x >= y) <=> x = last
    OBVIOUS
  <1>3. (CHOOSE x \in 0..last : \A y \in 0..last : x >= y) = last
    BY <1>2
  <1> QED
    BY <1>1, <1>3 DEF NextNumber, Max

\* What a request reads next has all the numbers below it given out.
LEMMA NextIsNew ==
  ASSUME NumbersAreDense, NEW q \in QueueType, NEW date \in Nat
  PROVE  /\ NextNumber(q, date) \in Nat \ {0}
         /\ 1..(NextNumber(q, date) - 1) \subseteq Numbers(q, date)
  <1>1. PICK last \in Nat : Numbers(q, date) = 1..last
    BY DEF NumbersAreDense
  <1> QED
    BY <1>1, NextIsAfterLast

LEMMA QueueInit == InitQueue => QueueInv
  <1> SUFFICES ASSUME InitQueue PROVE QueueInv
    OBVIOUS
  <1> USE DEF InitQueue
  <1>1. NoTicket \in TicketRow /\ NotAsking \in AskingRow /\ NotCalling \in CallingRow
    BY QueueAssumption DEF NoTicket, NotAsking, NotCalling, TicketRow, AskingRow, CallingRow
  <1>2. QueueTypeOK
    BY <1>1, QueueAssumption DEF QueueTypeOK
  <1>3. TicketsAreTrue /\ RequestsAreNumbered /\ NumbersAreInOrder /\ HeldIsNext
    BY DEF TicketsAreTrue, RequestsAreNumbered, NumbersAreInOrder, HeldIsNext, NoTicket, NotAsking, NotCalling
  <1>4. \A q \in QueueType, date \in Nat : Numbers(q, date) = 1..0
    BY QueueAssumption DEF Numbers, NoTicket
  <1>5. NumbersAreDense
    BY <1>4 DEF NumbersAreDense
  <1> QED
    BY <1>2, <1>3, <1>5 DEF QueueInv

\* Steps that give out no number leave those that were given out.
LEMMA NumbersStand ==
  ASSUME \A t \in Ticket :
           /\ ticket'[t].type = ticket[t].type /\ ticket'[t].date = ticket[t].date
           /\ ticket'[t].sequence = ticket[t].sequence
  PROVE  \A q, date : Numbers(q, date)' = Numbers(q, date)
  BY DEF Numbers

\* Steps that lock no further row and change no ticket leave the locked ones first.
LEMMA HeldStands ==
  ASSUME HeldIsNext, ticket' = ticket,
         \A d \in FrontDesk : calling'[d].held \subseteq calling[d].held
  PROVE  HeldIsNext'
  BY DEF HeldIsNext, Waiting

LEMMA AskKeeps ==
  ASSUME QueueInv, NEW k \in Kiosk, NEW v \in Visitor \cup {NoVisitor}, NEW q \in QueueType,
         AskTicket(k, v, q)
  PROVE  QueueInv'
  <1> DEFINE today == second \div SecondsPerDay
             new == [pc |-> "numbered", type |-> q, visitor |-> v, date |-> today,
                     sequence |-> NextNumber(q, today), tries |-> 1]
  <1>0. today \in Nat
    BY QueueAssumption DEF QueueInv, QueueTypeOK
  <1>1. asking' = [asking EXCEPT ![k] = new] /\ UNCHANGED <<second, ticket, calling>>
    BY DEF AskTicket
  <1>2. NextNumber(q, today) \in Nat \ {0} /\ 1..(NextNumber(q, today) - 1) \subseteq Numbers(q, today)
    BY <1>0, NextIsNew DEF QueueInv
  <1> HIDE DEF today
  <1>3. new \in AskingRow
    BY <1>0, <1>2, QueueAssumption DEF AskingRow
  <1>4. QueueTypeOK'
    BY <1>1, <1>3 DEF QueueInv, QueueTypeOK
  <1>5. \A n, date : Numbers(n, date)' = Numbers(n, date)
    BY <1>1, NumbersStand
  <1>6. RequestsAreNumbered'
    BY <1>1, <1>2, <1>5 DEF QueueInv, QueueTypeOK, RequestsAreNumbered
  <1>7. TicketsAreTrue' /\ NumbersAreDense' /\ NumbersAreInOrder'
    BY <1>1, <1>5 DEF QueueInv, TicketsAreTrue, NumbersAreDense, NumbersAreInOrder
  <1>8. HeldIsNext'
    BY <1>1, HeldStands DEF QueueInv
  <1> QED
    BY <1>4, <1>6, <1>7, <1>8 DEF QueueInv

LEMMA RetryKeeps ==
  ASSUME QueueInv, NEW k \in Kiosk, RetryTicket(k)
  PROVE  QueueInv'
  <1> DEFINE q == asking[k].type
             date == asking[k].date
             again == [asking[k] EXCEPT !.sequence = NextNumber(q, date), !.tries = @ + 1]
  <1>1. asking[k] \in AskingRow /\ q \in QueueType /\ date \in Nat
    BY DEF QueueInv, QueueTypeOK, RequestsAreNumbered, RetryTicket, AskingRow, TicketRow
  <1>2. /\ asking' = [asking EXCEPT ![k] = IF asking[k].tries = Attempts THEN NotAsking ELSE again]
        /\ UNCHANGED <<second, ticket, calling>>
    BY DEF RetryTicket, QueueInv, QueueTypeOK
  <1>3. NextNumber(q, date) \in Nat \ {0} /\ 1..(NextNumber(q, date) - 1) \subseteq Numbers(q, date)
    BY <1>1, NextIsNew DEF QueueInv
  <1>4. asking[k].tries # Attempts => again \in AskingRow
    <2>1. asking[k].tries \in 0..Attempts
      BY <1>1 DEF AskingRow
    <2>2. asking[k].tries # Attempts => asking[k].tries + 1 \in 0..Attempts
      BY <2>1, QueueAssumption
    <2>3. ASSUME NEW n \in Nat, NEW tries \in 0..Attempts
          PROVE  [asking[k] EXCEPT !.sequence = n, !.tries = tries] \in AskingRow
      BY <1>1 DEF AskingRow
    <2> QED
      BY <1>3, <2>2, <2>3
  <1>5. NotAsking \in AskingRow
    BY QueueAssumption DEF NotAsking, AskingRow
  <1>6. QueueTypeOK'
    BY <1>2, <1>4, <1>5 DEF QueueInv, QueueTypeOK
  <1>7. \A n, d : Numbers(n, d)' = Numbers(n, d)
    BY <1>2, NumbersStand
  <1>8. RequestsAreNumbered'
    <2> SUFFICES ASSUME NEW j \in Kiosk, asking'[j].pc = "numbered"
                 PROVE  /\ asking'[j].type \in QueueType /\ asking'[j].sequence # 0
                        /\ 1..(asking'[j].sequence - 1) \subseteq Numbers(asking'[j].type, asking'[j].date)
      BY <1>7 DEF RequestsAreNumbered
    <2>1. CASE j # k
      BY <2>1, <1>2 DEF QueueInv, QueueTypeOK, RequestsAreNumbered
    <2>2. CASE j = k
      <3>1. asking'[j] = again
        BY <2>2, <1>2 DEF QueueInv, QueueTypeOK, NotAsking
      <3>2. again.type = q /\ again.date = date /\ again.sequence = NextNumber(q, date)
        BY <1>1 DEF AskingRow
      <3> QED
        BY <3>1, <3>2, <1>1, <1>3
    <2> QED
      BY <2>1, <2>2
  <1>9. TicketsAreTrue' /\ NumbersAreDense' /\ NumbersAreInOrder'
    BY <1>2, <1>7 DEF QueueInv, TicketsAreTrue, NumbersAreDense, NumbersAreInOrder
  <1>10. HeldIsNext'
    BY <1>2, HeldStands DEF QueueInv
  <1> QED
    BY <1>6, <1>8, <1>9, <1>10 DEF QueueInv

LEMMA TicketKeeps ==
  ASSUME QueueInv, NEW k \in Kiosk, NEW t \in Ticket, CreateTicket(k, t)
  PROVE  QueueInv'
  <1>0. PICK q \in QueueType, date \in Nat, n \in Nat \ {0} :
          q = asking[k].type /\ date = asking[k].date /\ n = asking[k].sequence
    BY DEF QueueInv, QueueTypeOK, RequestsAreNumbered, CreateTicket, TicketRow, AskingRow
  <1> DEFINE new == [status |-> "waiting", type |-> q, date |-> date, sequence |-> n,
                     createdAt |-> second, visitor |-> asking[k].visitor, reminders |-> 0]
  <1>1. /\ asking[k].visitor \in Visitor \cup {NoVisitor}
        /\ 1..(n - 1) \subseteq Numbers(q, date)
    BY <1>0 DEF QueueInv, QueueTypeOK, RequestsAreNumbered, CreateTicket, AskingRow, TicketRow
  <1>2. /\ ticket' = [ticket EXCEPT ![t] = new]
        /\ asking' = [asking EXCEPT ![k] = NotAsking]
        /\ UNCHANGED <<second, calling>>
        /\ n \notin Numbers(q, date) /\ ticket[t].status = "none"
    BY <1>0 DEF CreateTicket, NumberIsFree
  <1>3. PICK last \in Nat : Numbers(q, date) = 1..last
    BY DEF QueueInv, NumbersAreDense
  <1>4. n = last + 1
    <2>1. n > last
      BY <1>2, <1>3
    <2>2. n - 1 # 0 => n - 1 \in 1..(n - 1)
      OBVIOUS
    <2> QED
      BY <1>1, <1>3, <2>1, <2>2
  <1>5. second \in Nat
    BY QueueAssumption DEF QueueInv, QueueTypeOK
  <1>6. /\ new.status = "waiting" /\ new.type = q /\ new.date = date /\ new.sequence = n
        /\ new.createdAt = second /\ new.reminders = 0 /\ new \in TicketRow
    BY <1>1, <1>5 DEF TicketRow
  <1> HIDE DEF new
  <1>7. /\ \A x \in Ticket : ticket'[x] = IF x = t THEN new ELSE ticket[x]
        /\ \A j \in Kiosk : asking'[j] = IF j = k THEN NotAsking ELSE asking[j]
    BY <1>2 DEF QueueInv, QueueTypeOK
  <1>8. NotAsking \in AskingRow
    BY QueueAssumption DEF NotAsking, AskingRow
  <1>9. QueueTypeOK'
    BY <1>2, <1>6, <1>8 DEF QueueInv, QueueTypeOK
  <1>10. ticket[t].type = NoType
    BY <1>2 DEF QueueInv, TicketsAreTrue
  <1>11. Numbers(q, date)' = 1..n
    <2>1. Numbers(q, date)' = Numbers(q, date) \cup {n}
      BY <1>6, <1>7, <1>10, QueueAssumption DEF Numbers
    <2> QED
      BY <2>1, <1>3, <1>4
  <1>12. \A p \in QueueType, d \in Nat : (p # q \/ d # date) => Numbers(p, d)' = Numbers(p, d)
    BY <1>6, <1>7, <1>10, QueueAssumption DEF Numbers
  <1>13. NumbersAreDense'
    BY <1>11, <1>12 DEF QueueInv, NumbersAreDense
  <1>14. TicketsAreTrue'
    BY <1>1, <1>2, <1>5, <1>6, <1>7 DEF QueueInv, TicketsAreTrue
  <1>15. RequestsAreNumbered'
    <2>1. \A p \in QueueType, d \in Nat : Numbers(p, d) \subseteq Numbers(p, d)'
      BY <1>3, <1>4, <1>11, <1>12
    <2>2. \A j \in Kiosk : asking'[j].pc = "numbered" => asking'[j] = asking[j]
      BY <1>7 DEF NotAsking
    <2>3. \A j \in Kiosk : asking[j].type \in QueueType \cup {NoType} /\ asking[j].date \in Nat
      BY DEF QueueInv, QueueTypeOK, TicketRow, AskingRow
    <2> QED
      BY <2>1, <2>2, <2>3 DEF QueueInv, RequestsAreNumbered
  <1>16. NumbersAreInOrder'
    <2>1. ASSUME NEW x \in Ticket, x # t, ticket[x].status # "none", ticket[x].type = q,
                 ticket[x].date = date
          PROVE  ticket[x].sequence < n /\ ticket[x].createdAt <= second
      <3>1. ticket[x].sequence \in Numbers(q, date)
        BY <2>1 DEF Numbers
      <3> QED
        BY <3>1, <2>1, <1>3, <1>4 DEF QueueInv, TicketsAreTrue
    <2>2. \A x \in Ticket : ticket[x].sequence \in Nat /\ ticket[x].createdAt \in Nat
      BY DEF QueueInv, QueueTypeOK, TicketRow
    <2> SUFFICES ASSUME NEW t1 \in Ticket, NEW t2 \in Ticket,
                        ticket'[t1].status # "none", ticket'[t2].status # "none", t1 # t2,
                        ticket'[t1].type = ticket'[t2].type, ticket'[t1].date = ticket'[t2].date
                 PROVE  /\ ticket'[t1].sequence # ticket'[t2].sequence
                        /\ ticket'[t2].createdAt < ticket'[t1].createdAt
                             => ticket'[t2].sequence < ticket'[t1].sequence
      BY DEF NumbersAreInOrder
    <2>3. CASE t1 = t
      BY <2>1, <2>2, <2>3, <1>1, <1>5, <1>6, <1>7
    <2>4. CASE t2 = t
      BY <2>1, <2>2, <2>4, <1>1, <1>5, <1>6, <1>7
    <2>5. CASE t1 # t /\ t2 # t
      BY <2>5, <1>7 DEF QueueInv, NumbersAreInOrder
    <2> QED
      BY <2>3, <2>4, <2>5
  <1>17. HeldIsNext'
    <2> SUFFICES ASSUME NEW d \in FrontDesk, NEW h \in calling[d].held
                 PROVE  /\ ticket'[h].status = "waiting"
                        /\ \A x \in Ticket : ticket'[x].status = "waiting" /\ ticket'[x].type = ticket'[h].type
                             => ticket'[h].createdAt <= ticket'[x].createdAt
                        /\ \A e \in FrontDesk : h \in calling[e].held => e = d
      BY <1>2 DEF HeldIsNext, Waiting
    <2>1. /\ h \in Ticket /\ ticket[h].status = "waiting"
          /\ \A x \in Waiting(ticket[h].type) : ticket[h].createdAt <= ticket[x].createdAt
          /\ \A e \in FrontDesk : h \in calling[e].held => e = d
      BY DEF QueueInv, QueueTypeOK, CallingRow, HeldIsNext
    <2>2. h # t /\ ticket'[h] = ticket[h]
      BY <2>1, <1>2, <1>7
    <2>3. ticket[h].createdAt <= second
      BY <2>1 DEF QueueInv, TicketsAreTrue
    <2>4. ASSUME NEW x \in Ticket, ticket'[x].status = "waiting", ticket'[x].type = ticket[h].type
          PROVE  ticket[h].createdAt <= ticket'[x].createdAt
      <3>1. CASE x = t
        BY <3>1, <2>3, <1>6, <1>7
      <3>2. CASE x # t
        BY <3>2, <2>1, <2>4, <1>7 DEF Waiting
      <3> QED
        BY <3>1, <3>2
    <2> QED
      BY <2>1, <2>2, <2>4
  <1> QED
    BY <1>9, <1>13, <1>14, <1>15, <1>16, <1>17 DEF QueueInv

\* A call, and a party that is seated or skipped, change the status of one ticket.
LEMMA CallKeeps ==
  ASSUME QueueInv, NEW t \in Ticket, NEW status \in {"called", "gone"}, NEW reminders \in Nat,
         ticket[t].status # "none",
         ticket' = [ticket EXCEPT ![t].status = status, ![t].reminders = reminders],
         calling' \in [FrontDesk -> CallingRow], UNCHANGED <<second, asking>>,
         \A d \in FrontDesk : calling'[d].held \subseteq calling[d].held \ {t}
  PROVE  QueueInv'
  <1> DEFINE new == [ticket[t] EXCEPT !.status = status, !.reminders = reminders]
  <1>1. ticket[t] \in TicketRow
    BY DEF QueueInv, QueueTypeOK
  <1>2. /\ new \in TicketRow /\ new.type = ticket[t].type /\ new.date = ticket[t].date
        /\ new.sequence = ticket[t].sequence /\ new.createdAt = ticket[t].createdAt
        /\ new.status = status
    BY <1>1 DEF TicketRow
  <1>3. ticket' = [ticket EXCEPT ![t] = new]
    OBVIOUS
  <1> HIDE DEF new
  <1>4. \A x \in Ticket : ticket'[x] = IF x = t THEN new ELSE ticket[x]
    BY <1>3 DEF QueueInv, QueueTypeOK
  <1>5. QueueTypeOK'
    <2>1. ticket' \in [Ticket -> TicketRow]
      BY <1>2, <1>3 DEF QueueInv, QueueTypeOK
    <2> QED
      BY <2>1 DEF QueueInv, QueueTypeOK
  <1>6. \A q, date : Numbers(q, date)' = Numbers(q, date)
    BY <1>2, <1>4, NumbersStand
  <1>7. \A x \in Ticket :
          /\ ticket'[x].type = ticket[x].type /\ ticket'[x].date = ticket[x].date
          /\ ticket'[x].sequence = ticket[x].sequence /\ ticket'[x].createdAt = ticket[x].createdAt
          /\ ticket'[x].status = "none" <=> ticket[x].status = "none"
          /\ ticket'[x].status \in {"none", "waiting"} => ticket'[x].reminders = ticket[x].reminders
                                                     /\ ticket'[x].status = ticket[x].status
    BY <1>2, <1>4
  <1>9. second' = second
    OBVIOUS
  <1>10. TicketsAreTrue'
    <2> SUFFICES ASSUME NEW x \in Ticket
                 PROVE  /\ IF ticket'[x].status = "none" THEN ticket'[x].type = NoType
                           ELSE ticket'[x].type \in QueueType /\ ticket'[x].createdAt <= second'
                        /\ ticket'[x].status \in {"none", "waiting"} => ticket'[x].reminders = 0
      BY DEF TicketsAreTrue
    <2>1. /\ IF ticket[x].status = "none" THEN ticket[x].type = NoType
             ELSE ticket[x].type \in QueueType /\ ticket[x].createdAt <= second
          /\ ticket[x].status \in {"none", "waiting"} => ticket[x].reminders = 0
      BY DEF QueueInv, TicketsAreTrue
    <2> QED
      BY <2>1, <1>7, <1>9
  <1>11. NumbersAreInOrder'
    <2> SUFFICES ASSUME NEW t1 \in Ticket, NEW t2 \in Ticket,
                        ticket'[t1].status # "none", ticket'[t2].status # "none", t1 # t2,
                        ticket'[t1].type = ticket'[t2].type, ticket'[t1].date = ticket'[t2].date
                 PROVE  /\ ticket'[t1].sequence # ticket'[t2].sequence
                        /\ ticket'[t2].createdAt < ticket'[t1].createdAt
                             => ticket'[t2].sequence < ticket'[t1].sequence
      BY DEF NumbersAreInOrder
    <2>1. ticket[t1].status # "none" /\ ticket[t2].status # "none"
      BY <1>7
    <2>2. ticket[t1].type = ticket[t2].type /\ ticket[t1].date = ticket[t2].date
      BY <1>7
    <2>3. /\ ticket[t1].sequence # ticket[t2].sequence
          /\ ticket[t2].createdAt < ticket[t1].createdAt => ticket[t2].sequence < ticket[t1].sequence
      BY <2>1, <2>2 DEF QueueInv, NumbersAreInOrder
    <2>4. \A x \in {t1, t2} :
            ticket'[x].sequence = ticket[x].sequence /\ ticket'[x].createdAt = ticket[x].createdAt
      BY <1>7
    <2> QED
      BY <2>3, <2>4
  <1>8. RequestsAreNumbered' /\ NumbersAreDense'
    BY <1>6 DEF QueueInv, RequestsAreNumbered, NumbersAreDense
  <1>12. HeldIsNext'
    <2> SUFFICES ASSUME NEW d \in FrontDesk, NEW h \in calling'[d].held
                 PROVE  /\ ticket'[h].status = "waiting"
                        /\ \A x \in Ticket : ticket'[x].status = "waiting" /\ ticket'[x].type = ticket'[h].type
                             => ticket'[h].createdAt <= ticket'[x].createdAt
                        /\ \A e \in FrontDesk : h \in calling'[e].held => e = d
      BY DEF HeldIsNext, Waiting
    <2>1. /\ h \in Ticket /\ h # t /\ ticket[h].status = "waiting"
          /\ \A x \in Waiting(ticket[h].type) : ticket[h].createdAt <= ticket[x].createdAt
          /\ \A e \in FrontDesk : h \in calling[e].held => e = d
      BY DEF QueueInv, QueueTypeOK, CallingRow, HeldIsNext
    <2>2. ticket'[h] = ticket[h]
      BY <2>1, <1>4
    <2>3. \A x \in Ticket : ticket'[x].status = "waiting" => x # t /\ ticket'[x] = ticket[x]
      BY <1>2, <1>4
    <2> QED
      BY <2>1, <2>2, <2>3 DEF Waiting
  <1> QED
    BY <1>5, <1>8, <1>10, <1>11, <1>12 DEF QueueInv

\* A step of a desk that changes no ticket concerns the locked rows only.
LEMMA CallingKeeps ==
  ASSUME QueueInv, UNCHANGED <<second, ticket, asking>>, calling' \in [FrontDesk -> CallingRow],
         HeldIsNext'
  PROVE  QueueInv'
  <1>1. \A n, date : Numbers(n, date)' = Numbers(n, date)
    BY NumbersStand
  <1> QED
    BY <1>1
    DEF QueueInv, QueueTypeOK, TicketsAreTrue, RequestsAreNumbered, NumbersAreDense, NumbersAreInOrder

LEMMA QueueStep == QueueInv /\ [NextQueue]_queueVars => QueueInv'
  <1> SUFFICES ASSUME QueueInv, [NextQueue]_queueVars PROVE QueueInv'
    OBVIOUS
  <1>1. ASSUME NEW k \in Kiosk, NEW v \in Visitor \cup {NoVisitor}, NEW q \in QueueType, AskTicket(k, v, q)
        PROVE  QueueInv'
    BY <1>1, AskKeeps
  <1>2. ASSUME NEW k \in Kiosk, NEW t \in Ticket, CreateTicket(k, t)
        PROVE  QueueInv'
    BY <1>2, TicketKeeps
  <1>3. ASSUME NEW k \in Kiosk, RetryTicket(k)
        PROVE  QueueInv'
    BY <1>3, RetryKeeps
  <1>4. ASSUME NEW d \in FrontDesk, NEW q \in QueueType, BeginCall(d, q)
        PROVE  QueueInv'
    <2>1. /\ UNCHANGED <<second, ticket, asking>> /\ calling' \in [FrontDesk -> CallingRow]
          /\ \A e \in FrontDesk : calling'[e].held = calling[e].held
      BY <1>4 DEF BeginCall, QueueInv, QueueTypeOK, CallingRow
    <2> QED
      BY <2>1, CallingKeeps, HeldStands DEF QueueInv
  <1>5. ASSUME NEW d \in FrontDesk, NEW t \in Ticket, LockNext(d, t)
        PROVE  QueueInv'
    <2>1. /\ UNCHANGED <<second, ticket, asking>> /\ calling' \in [FrontDesk -> CallingRow]
          /\ \A e \in FrontDesk : calling'[e].held = IF e = d THEN {t} ELSE calling[e].held
      BY <1>5 DEF LockNext, QueueInv, QueueTypeOK, CallingRow
    <2>2. /\ ticket[t].status = "waiting"
          /\ \A x \in Waiting(ticket[t].type) : ticket[t].createdAt <= ticket[x].createdAt
          /\ \A e \in FrontDesk : t \notin calling[e].held
      BY <1>5 DEF LockNext, NextWaiting, Waiting, RowIsFree
    <2>3. HeldIsNext'
      BY <2>1, <2>2 DEF QueueInv, HeldIsNext, Waiting
    <2> QED
      BY <2>1, <2>3, CallingKeeps
  <1>6. ASSUME NEW d \in FrontDesk, NEW t \in Ticket, CallNext(d, t)
        PROVE  QueueInv'
    <2>1. ticket[t].status = "waiting" /\ ticket[t].reminders + 1 \in Nat
      BY <1>6 DEF CallNext, HeldIsNext, QueueInv, QueueTypeOK, TicketRow
    <2>2. /\ ticket' = [ticket EXCEPT ![t].status = "called", ![t].reminders = ticket[t].reminders + 1]
          /\ UNCHANGED <<second, asking>>
          /\ calling' = [calling EXCEPT ![d] = NotCalling]
      BY <1>6 DEF CallNext, QueueInv, QueueTypeOK
    <2>3. calling' \in [FrontDesk -> CallingRow]
      BY <2>2, QueueAssumption DEF QueueInv, QueueTypeOK, CallingRow, NotCalling
    <2>4. \A e \in FrontDesk : calling'[e].held \subseteq calling[e].held \ {t}
      BY <1>6, <2>2 DEF CallNext, NotCalling, QueueInv, QueueTypeOK, HeldIsNext
    <2> QED
      BY <2>1, <2>2, <2>3, <2>4, CallKeeps
  <1>7. ASSUME NEW d \in FrontDesk, CallNobody(d)
        PROVE  QueueInv'
    <2>1. /\ UNCHANGED <<second, ticket, asking>> /\ calling' = [calling EXCEPT ![d] = NotCalling]
          /\ NotCalling \in CallingRow /\ NotCalling.held = {}
      BY <1>7, QueueAssumption DEF CallNobody, CallingRow, NotCalling
    <2>2. /\ calling' \in [FrontDesk -> CallingRow]
          /\ \A e \in FrontDesk : calling'[e].held \subseteq calling[e].held
      BY <2>1 DEF QueueInv, QueueTypeOK
    <2> QED
      BY <2>1, <2>2, CallingKeeps, HeldStands DEF QueueInv
  <1>8. ASSUME NEW t \in Ticket, MarkTicket(t)
        PROVE  QueueInv'
    <2>1. /\ ticket[t].status # "none" /\ ticket[t].reminders \in Nat
          /\ calling' \in [FrontDesk -> CallingRow]
          /\ \A d \in FrontDesk : calling'[d].held \subseteq calling[d].held \ {t}
      BY <1>8 DEF MarkTicket, RowIsFree, QueueInv, QueueTypeOK, TicketRow
    <2>2. ticket' = [ticket EXCEPT ![t].status = "gone", ![t].reminders = ticket[t].reminders]
      <3>1. ticket' = [ticket EXCEPT ![t].status = "gone"] /\ ticket[t] \in TicketRow
        BY <1>8 DEF MarkTicket, QueueInv, QueueTypeOK
      <3>2. [ticket[t] EXCEPT !.status = "gone"]
              = [ticket[t] EXCEPT !.status = "gone", !.reminders = ticket[t].reminders]
        BY <3>1 DEF TicketRow
      <3> QED
        BY <3>1, <3>2
    <2> QED
      BY <1>8, <2>1, <2>2, CallKeeps DEF MarkTicket
  <1>9. ASSUME Tick
        PROVE  QueueInv'
    <2>1. UNCHANGED <<ticket, asking, calling>> /\ second' \in 0..LastSecond /\ second' >= second
      BY <1>9, QueueAssumption DEF Tick, QueueInv, QueueTypeOK
    <2>2. \A n, date : Numbers(n, date)' = Numbers(n, date)
      BY <2>1, NumbersStand
    <2>3. TicketsAreTrue'
      BY <2>1, QueueAssumption DEF QueueInv, QueueTypeOK, TicketsAreTrue, TicketRow
    <2>4. HeldIsNext'
      BY <2>1, HeldStands DEF QueueInv
    <2> QED
      BY <2>1, <2>2, <2>3, <2>4
      DEF QueueInv, QueueTypeOK, RequestsAreNumbered, NumbersAreDense, NumbersAreInOrder
  <1>10. CASE UNCHANGED queueVars
    <2>1. UNCHANGED <<second, ticket, asking, calling>>
      BY <1>10 DEF queueVars
    <2> QED
      BY <2>1, CallingKeeps, HeldStands DEF QueueInv, QueueTypeOK
  <1> QED
    BY <1>1, <1>2, <1>3, <1>4, <1>5, <1>6, <1>7, <1>8, <1>9, <1>10 DEF NextQueue

\* The inductive invariant of the waiting queue (queue_service).
THEOREM QueueInvHolds == QueueSpec => []QueueInv
  BY QueueInit, QueueStep, PTL DEF QueueSpec

\* The tickets of a queue and a day carry the numbers 1, 2, 3 ... in the order in
\* which they were taken (the unique index and the retries of create_ticket).
THEOREM NumbersAreGivenInOrder == QueueSpec => []NumbersRunOn
  <1>1. QueueInv => NumbersRunOn
    <2> SUFFICES ASSUME QueueInv, NEW t1 \in Ticket, ticket[t1].status # "none"
                 PROVE  LET queue == {x \in Ticket : ticket[x].type = ticket[t1].type
                                                       /\ ticket[x].date = ticket[t1].date}
                        IN  /\ \A n \in 1..ticket[t1].sequence : \E x \in queue : ticket[x].sequence = n
                            /\ \A x \in queue \ {t1} :
                                 /\ ticket[x].sequence # ticket[t1].sequence
                                 /\ ticket[x].createdAt < ticket[t1].createdAt
                                      => ticket[x].sequence < ticket[t1].sequence
      BY DEF NumbersRunOn
    <2> DEFINE q == ticket[t1].type
               date == ticket[t1].date
               n1 == ticket[t1].sequence
    <2>1. q \in QueueType /\ date \in Nat /\ n1 \in Nat
      BY DEF QueueInv, QueueTypeOK, TicketsAreTrue, TicketRow
    <2>2. PICK last \in Nat : Numbers(q, date) = 1..last
      BY <2>1 DEF QueueInv, NumbersAreDense
    <2>3. n1 \in Numbers(q, date)
      BY DEF Numbers
    <2>4. 1..n1 \subseteq Numbers(q, date)
      BY <2>1, <2>2, <2>3
    <2>5. \A n \in 1..n1 : \E x \in Ticket :
            ticket[x].type = q /\ ticket[x].date = date /\ ticket[x].sequence = n
      BY <2>4 DEF Numbers
    <2>6. \A x \in Ticket \ {t1} : ticket[x].type = q /\ ticket[x].date = date =>
            /\ ticket[x].sequence # n1
            /\ ticket[x].createdAt < ticket[t1].createdAt => ticket[x].sequence < n1
      BY <2>1, QueueAssumption DEF QueueInv, TicketsAreTrue, NumbersAreInOrder
    <2> QED
      BY <2>5, <2>6
  <1> QED
    BY <1>1, QueueInvHolds, PTL

\* No party is called twice or before one that asked earlier and still waits
\* (the lock of call_next).
THEOREM PartiesAreCalledInTurn == QueueSpec => CalledInTurn
  <1>1. ASSUME QueueInv, [NextQueue]_queueVars, NEW t \in Ticket,
               ticket'[t].reminders # ticket[t].reminders
        PROVE  /\ ticket'[t].reminders = 1
               /\ \A x \in Waiting(ticket[t].type) : ticket[t].createdAt <= ticket[x].createdAt
    <2>1. ASSUME NEW d \in FrontDesk, NEW u \in Ticket, CallNext(d, u)
          PROVE  /\ ticket'[t].reminders = 1
                 /\ \A x \in Waiting(ticket[t].type) : ticket[t].createdAt <= ticket[x].createdAt
      <3>1. ticket' = [ticket EXCEPT ![u].status = "called", ![u].reminders = ticket[u].reminders + 1]
        BY <2>1 DEF CallNext
      <3>2. u = t /\ ticket'[t].reminders = ticket[t].reminders + 1
        BY <1>1, <3>1 DEF QueueInv, QueueTypeOK
      <3>3. /\ ticket[t].reminders = 0
            /\ \A x \in Waiting(ticket[t].type) : ticket[t].createdAt <= ticket[x].createdAt
        BY <1>1, <2>1, <3>2 DEF CallNext, QueueInv, HeldIsNext, TicketsAreTrue
      <3> QED
        BY <3>2, <3>3
    <2>2. ASSUME NEW k \in Kiosk, NEW u \in Ticket, CreateTicket(k, u)
          PROVE  FALSE
      <3>1. ticket[u].reminders = 0
        BY <1>1, <2>2 DEF CreateTicket, QueueInv, TicketsAreTrue
      <3>2. ticket'[u].reminders = 0 /\ \A x \in Ticket \ {u} : ticket'[x] = ticket[x]
        BY <1>1, <2>2 DEF CreateTicket, QueueInv, QueueTypeOK
      <3> QED
        BY <1>1, <3>1, <3>2
    <2>3. ASSUME NEW u \in Ticket, MarkTicket(u)
          PROVE  FALSE
      BY <1>1, <2>3 DEF MarkTicket, QueueInv, QueueTypeOK
    <2>4. ticket' # ticket
      BY <1>1
    <2> QED
      BY <1>1, <2>1, <2>2, <2>3, <2>4
      DEF NextQueue, queueVars, AskTicket, RetryTicket, BeginCall, LockNext, CallNobody, Tick
  <1>2. QueueInv /\ [NextQueue]_queueVars =>
          [\A t \in Ticket : ticket'[t].reminders # ticket[t].reminders =>
             /\ ticket'[t].reminders = 1
             /\ \A x \in Waiting(ticket[t].type) : ticket[t].createdAt <= ticket[x].createdAt]_queueVars
    BY <1>1
  <1> QED
    BY <1>2, QueueInvHolds, PTL DEF QueueSpec, CalledInTurn

(***************************************************************************)
(* Payment handoffs                                                        *)
(*                                                                         *)
(* One open code per order and none for a paid one, for any orders, codes, *)
(* guests and requests.                                                    *)
(*                                                                         *)
(* PaidLeavesNoHandoff is inductive only with what the row locks say:      *)
(* while a code is being made nobody can pay or cancel its order           *)
(* (RequestsAreTrue, OneHolder), a code that was paid has a paid order     *)
(* (RowsAreTrue), so a code that a guest may claim is the open one.        *)
(***************************************************************************)

HoldsOrder(p) == serving[p].pc \in {"creating", "paying"}

\* What an open request found still holds.
RequestsAreTrue ==
  \A p \in Server :
    /\ HoldsOrder(p) => serving[p].order \in Assisted
    /\ serving[p].pc = "creating" => Payable(assisted[serving[p].order])
    /\ serving[p].pc \in {"claiming", "looking"} =>
         serving[p].handoff \in Handoff /\ handoff[serving[p].handoff].status # "none"
    /\ serving[p].pc = "claiming" => serving[p].customer \in Scanner
    /\ serving[p].pc = "looking" /\ serving[p].paid =>
         assisted[handoff[serving[p].handoff].order].paid

\* The row lock of an order has one holder.
OneHolder ==
  \A p, q \in Server :
    HoldsOrder(p) /\ HoldsOrder(q) /\ serving[p].order = serving[q].order => p = q

RowsAreTrue ==
  \A h \in Handoff :
    /\ handoff[h].status # "none" => handoff[h].order \in Assisted
    /\ handoff[h].status = "PAID" => assisted[handoff[h].order].paid

OnlyOneActive == \A o \in Assisted : \A h1, h2 \in ActiveHandoffs(o) : h1 = h2

HandoffInv ==
  HandoffTypeOK /\ RequestsAreTrue /\ OneHolder /\ RowsAreTrue /\ OnlyOneActive /\ PaidLeavesNoHandoff

\* The number a new code gets is a number.
LEMMA CodesAreCounted == ASSUME NEW o PROVE Cardinality(HandoffsOf(o)) + 1 \in Nat
  <1>1. IsFiniteSet(HandoffsOf(o))
    BY HandoffAssumption, FS_Subset DEF HandoffsOf
  <1> QED
    BY <1>1, FS_CardinalityType

\* A request that ended, or began, has its type.
LEMMA RequestTypes ==
  /\ NotServing \in ServingRow
  /\ \A o \in Assisted, pc \in {"creating", "paying"} :
       [NotServing EXCEPT !.pc = pc, !.order = o] \in ServingRow
  /\ \A h \in Handoff, c \in Scanner :
       [NotServing EXCEPT !.pc = "claiming", !.handoff = h, !.customer = c] \in ServingRow
  /\ \A h \in Handoff, b \in BOOLEAN :
       [NotServing EXCEPT !.pc = "looking", !.handoff = h, !.paid = b] \in ServingRow
  BY DEF NotServing, ServingRow

\* A row whose status, or whose claim, is written keeps its type.
LEMMA RowTypes ==
  ASSUME NEW row \in HandoffRow
  PROVE  /\ \A st \in {"PENDING_SCAN", "CLAIMED", "none", "PAID", "CANCELLED", "EXPIRED"} :
              /\ [row EXCEPT !.status = st] \in HandoffRow
              /\ \A c \in Scanner : [row EXCEPT !.status = st, !.claimedBy = c] \in HandoffRow
         /\ [row EXCEPT !.lapsed = TRUE] \in HandoffRow
  BY DEF HandoffRow, ActiveStatuses

\* An order whose customer, payment or status is written keeps its type.
LEMMA OrderTypes ==
  ASSUME NEW row \in AssistedRow
  PROVE  \A st \in {"pending_payment", "pending", "cancelled"} :
           /\ [row EXCEPT !.status = st] \in AssistedRow
           /\ [row EXCEPT !.paid = TRUE, !.status = st] \in AssistedRow
           /\ \A c \in Scanner, b \in BOOLEAN :
                [row EXCEPT !.customer = c, !.paid = b, !.status = st] \in AssistedRow
  BY DEF AssistedRow

-----------------------------------------------------------------------------
\* Every request leaves rows and requests their types.
LEMMA HandoffTypeKept ==
  ASSUME HandoffTypeOK, RequestsAreTrue, RowsAreTrue, [NextHandoff]_handoffVars
  PROVE  HandoffTypeOK'
  <1> USE RequestTypes DEF HandoffTypeOK
  <1>1. ASSUME NEW p \in Server, NEW o \in Assisted, BeginCreate(p, o) \/ BeginPay(p, o)
        PROVE  HandoffTypeOK'
    BY <1>1 DEF BeginCreate, BeginPay
  <1>2. ASSUME NEW p \in Server, NEW h \in Handoff, CreateHandoff(p, h)
        PROVE  HandoffTypeOK'
    <2> DEFINE o == serving[p].order
               new == [NoHandoffRow EXCEPT !.status = "PENDING_SCAN", !.order = o,
                                           !.at = Cardinality(HandoffsOf(o)) + 1]
    <2>0. o \in Assisted \cup {NoAssisted}
      BY DEF ServingRow
    <2>1. new \in HandoffRow
      BY <2>0, CodesAreCounted DEF NoHandoffRow, HandoffRow, ActiveStatuses
    <2>2. handoff' = [x \in Handoff |->
            IF x = h THEN new
            ELSE IF x \in ActiveHandoffs(o) THEN [handoff[x] EXCEPT !.status = "CANCELLED"]
            ELSE handoff[x]]
      BY <1>2 DEF CreateHandoff
    <2> HIDE DEF new, o
    <2>3. handoff' \in [Handoff -> HandoffRow]
      BY <2>1, <2>2, RowTypes
    <2> QED
      BY <1>2, <2>3 DEF CreateHandoff
  <1>3. ASSUME NEW p \in Server, NEW h \in Handoff, LookUp(p, h)
        PROVE  HandoffTypeOK'
    <2>1. assisted[handoff[h].order].paid \in BOOLEAN
      BY <1>3 DEF LookUp, RowsAreTrue, ActiveStatuses, AssistedRow
    <2> QED
      BY <1>3, <2>1 DEF LookUp
  <1>4. ASSUME NEW p \in Server, NEW h \in Handoff, NEW c \in Scanner, BeginClaim(p, h, c)
        PROVE  HandoffTypeOK'
    BY <1>4 DEF BeginClaim
  <1>5. ASSUME NEW p \in Server, NEW pay \in BOOLEAN, ClaimHandoff(p, pay)
        PROVE  HandoffTypeOK'
    <2> DEFINE h == serving[p].handoff
               o == handoff[h].order
               c == serving[p].customer
               settles == pay /\ assisted[o].free
    <2>1. h \in Handoff /\ o \in Assisted /\ c \in Scanner
      BY <1>5 DEF ClaimHandoff, RequestsAreTrue, RowsAreTrue
    <2>2. CASE MayClaim(handoff[h], assisted[o], c)
      <3>1. handoff' = [handoff EXCEPT ![h].status = IF settles THEN "PAID" ELSE "CLAIMED",
                                       ![h].claimedBy = c]
        BY <1>5, <2>2 DEF ClaimHandoff
      <3>2. handoff' \in [Handoff -> HandoffRow]
        BY <2>1, <3>1, RowTypes
      <3>3. assisted' = [assisted EXCEPT ![o].customer = c, ![o].paid = settles,
                                         ![o].status = IF settles THEN "pending" ELSE @]
        BY <1>5, <2>2 DEF ClaimHandoff
      <3>4. settles \in BOOLEAN
        BY <2>1 DEF AssistedRow
      <3>5. (IF settles THEN "pending" ELSE assisted[o].status)
              \in {"pending_payment", "pending", "cancelled"}
        BY <2>1 DEF AssistedRow
      <3>6. assisted[o] \in AssistedRow
        BY <2>1
      <3>7. assisted' \in [Assisted -> AssistedRow]
        BY <2>1, <3>3, <3>4, <3>5, <3>6, OrderTypes
      <3> QED
        BY <1>5, <3>2, <3>7 DEF ClaimHandoff
    <2>3. CASE ~MayClaim(handoff[h], assisted[o], c)
      BY <1>5, <2>3 DEF ClaimHandoff
    <2> QED
      BY <2>2, <2>3
  <1>6. ASSUME NEW p \in Server, PayHandoff(p)
        PROVE  HandoffTypeOK'
    <2>1. handoff' \in [Handoff -> HandoffRow]
      BY <1>6, RowTypes DEF PayHandoff
    <2>2. assisted' \in [Assisted -> AssistedRow]
      <3> DEFINE o == serving[p].order
                 inTime == assisted[o].status = "pending_payment"
      <3>1. o \in Assisted
        BY <1>6 DEF PayHandoff, RequestsAreTrue, HoldsOrder
      <3>2. (IF inTime THEN "pending" ELSE assisted[o].status)
              \in {"pending_payment", "pending", "cancelled"}
        BY <3>1 DEF AssistedRow
      <3>3. assisted[o] \in AssistedRow
        BY <3>1
      <3>4. assisted' = [assisted EXCEPT ![o].paid = TRUE,
                                         ![o].status = IF inTime THEN "pending" ELSE @]
        BY <1>6 DEF PayHandoff
      <3> QED
        BY <3>1, <3>2, <3>3, <3>4, OrderTypes
    <2> QED
      BY <1>6, <2>1, <2>2 DEF PayHandoff
  <1>7. ASSUME NEW p \in Server, RollBack(p)
        PROVE  HandoffTypeOK'
    BY <1>7 DEF RollBack
  <1>8. ASSUME NEW p \in Server, WriteBack(p)
        PROVE  HandoffTypeOK'
    <2> DEFINE h == serving[p].handoff
               st == IF serving[p].paid THEN "PAID"
                     ELSE IF handoff[h].lapsed THEN "EXPIRED" ELSE handoff[h].status
    <2>0. h \in Handoff
      BY <1>8 DEF WriteBack, RequestsAreTrue
    <2>1. handoff' \in [Handoff -> HandoffRow]
      <3>1. st \in {"PENDING_SCAN", "CLAIMED", "none", "PAID", "CANCELLED", "EXPIRED"}
        BY <2>0 DEF HandoffRow, ActiveStatuses
      <3>2. handoff' = [handoff EXCEPT ![h].status = st]
        BY <1>8 DEF WriteBack
      <3> HIDE DEF st
      <3> QED
        BY <2>0, <3>1, <3>2, RowTypes
    <2> QED
      BY <1>8, <2>1 DEF WriteBack
  <1>9. ASSUME NEW h \in Handoff, Lapse(h)
        PROVE  HandoffTypeOK'
    BY <1>9, RowTypes DEF Lapse
  <1>10. ASSUME NEW o \in Assisted, EndUnpaid(o)
        PROVE  HandoffTypeOK'
    BY <1>10 DEF EndUnpaid, AssistedRow
  <1>11. CASE UNCHANGED handoffVars
    BY <1>11 DEF handoffVars
  <1> QED
    BY <1>1, <1>2, <1>3, <1>4, <1>5, <1>6, <1>7, <1>8, <1>9, <1>10, <1>11 DEF NextHandoff

-----------------------------------------------------------------------------
\* Every request keeps the rest of the invariant.
LEMMA HandoffInvKept ==
  ASSUME HandoffInv, [NextHandoff]_handoffVars
  PROVE  HandoffInv'
  <1>t. HandoffTypeOK'
    BY HandoffTypeKept DEF HandoffInv
  <1>a. HandoffTypeOK /\ RequestsAreTrue /\ OneHolder /\ RowsAreTrue /\ OnlyOneActive
          /\ PaidLeavesNoHandoff
    BY DEF HandoffInv
  <1> SUFFICES RequestsAreTrue' /\ OneHolder' /\ RowsAreTrue' /\ OnlyOneActive' /\ PaidLeavesNoHandoff'
    BY <1>t DEF HandoffInv
  <1> USE <1>a DEF Payable, ActiveStatuses
  <1>1. ASSUME NEW p \in Server, NEW o \in Assisted, BeginCreate(p, o) \/ BeginPay(p, o)
        PROVE  RequestsAreTrue' /\ OneHolder' /\ RowsAreTrue' /\ OnlyOneActive' /\ PaidLeavesNoHandoff'
    <2>1. /\ UNCHANGED <<assisted, handoff>> /\ ~OrderLocked(o)
          /\ serving'[p].order = o /\ serving'[p].pc \in {"creating", "paying"}
          /\ serving'[p].pc = "creating" => Payable(assisted[o])
          /\ \A q \in Server \ {p} : serving'[q] = serving[q]
      BY <1>1 DEF BeginCreate, BeginPay, HandoffTypeOK, NotServing
    <2> QED
      BY <2>1 DEF OrderLocked, RequestsAreTrue, OneHolder, RowsAreTrue, OnlyOneActive,
        PaidLeavesNoHandoff, HoldsOrder, ActiveHandoffs, HandoffsOf
  <1>2. ASSUME NEW p \in Server, NEW h \in Handoff, CreateHandoff(p, h)
        PROVE  RequestsAreTrue' /\ OneHolder' /\ RowsAreTrue' /\ OnlyOneActive' /\ PaidLeavesNoHandoff'
    <2> DEFINE o == serving[p].order
    <2>1. /\ UNCHANGED assisted /\ o \in Assisted /\ ~assisted[o].paid
          /\ handoff[h].status = "none"
          /\ handoff'[h].status = "PENDING_SCAN" /\ handoff'[h].order = o
          /\ \A x \in ActiveHandoffs(o) :
               handoff'[x].status = "CANCELLED" /\ handoff'[x].order = handoff[x].order
          /\ \A x \in Handoff \ ({h} \cup ActiveHandoffs(o)) : handoff'[x] = handoff[x]
          /\ serving'[p].pc = "idle"
          /\ \A q \in Server \ {p} : serving'[q] = serving[q]
      BY <1>2 DEF CreateHandoff, HandoffTypeOK, HandoffRow, NotServing, NoHandoffRow, RequestsAreTrue, HoldsOrder,
        ActiveHandoffs, HandoffsOf
    <2> HIDE DEF o
    <2>2. \A x \in Handoff : handoff'[x].status \in {"PENDING_SCAN", "CLAIMED"} /\ handoff'[x].order = o => x = h
      BY <2>1 DEF ActiveHandoffs, HandoffsOf
    <2>3. RequestsAreTrue' /\ RowsAreTrue'
      BY <2>1 DEF RequestsAreTrue, RowsAreTrue, HoldsOrder, ActiveHandoffs, HandoffsOf
    <2>4. OneHolder'
      BY <2>1 DEF OneHolder, HoldsOrder
    <2>5. OnlyOneActive' /\ PaidLeavesNoHandoff'
      BY <2>1, <2>2 DEF OnlyOneActive, PaidLeavesNoHandoff, ActiveHandoffs, HandoffsOf
    <2> QED
      BY <2>3, <2>4, <2>5
  <1>3. ASSUME NEW p \in Server, NEW h \in Handoff, LookUp(p, h)
        PROVE  RequestsAreTrue' /\ OneHolder' /\ RowsAreTrue' /\ OnlyOneActive' /\ PaidLeavesNoHandoff'
    <2>1. /\ UNCHANGED <<assisted, handoff>>
          /\ serving'[p].pc = "looking" /\ serving'[p].handoff = h /\ handoff[h].status # "none"
          /\ serving'[p].paid = assisted[handoff[h].order].paid
          /\ \A q \in Server \ {p} : serving'[q] = serving[q]
      BY <1>3 DEF LookUp, HandoffTypeOK, NotServing
    <2> QED
      BY <2>1 DEF RequestsAreTrue, OneHolder, RowsAreTrue, OnlyOneActive,
        PaidLeavesNoHandoff, HoldsOrder, ActiveHandoffs, HandoffsOf
  <1>4. ASSUME NEW p \in Server, NEW h \in Handoff, NEW c \in Scanner, BeginClaim(p, h, c)
        PROVE  RequestsAreTrue' /\ OneHolder' /\ RowsAreTrue' /\ OnlyOneActive' /\ PaidLeavesNoHandoff'
    <2>1. /\ UNCHANGED <<assisted, handoff>>
          /\ serving'[p].pc = "claiming" /\ serving'[p].handoff = h /\ handoff[h].status # "none"
          /\ serving'[p].customer = c
          /\ \A q \in Server \ {p} : serving'[q] = serving[q]
      BY <1>4 DEF BeginClaim, HandoffTypeOK, NotServing
    <2> QED
      BY <2>1 DEF RequestsAreTrue, OneHolder, RowsAreTrue, OnlyOneActive,
        PaidLeavesNoHandoff, HoldsOrder, ActiveHandoffs, HandoffsOf
  <1>5. ASSUME NEW p \in Server, NEW pay \in BOOLEAN, ClaimHandoff(p, pay)
        PROVE  RequestsAreTrue' /\ OneHolder' /\ RowsAreTrue' /\ OnlyOneActive' /\ PaidLeavesNoHandoff'
    <2> DEFINE h == serving[p].handoff
               o == handoff[h].order
               settles == pay /\ assisted[o].free
    <2>1. /\ h \in Handoff /\ o \in Assisted /\ handoff[h].status # "none" /\ ~OrderLocked(o)
          /\ serving'[p].pc = "idle"
          /\ \A q \in Server \ {p} : serving'[q] = serving[q]
      BY <1>5 DEF ClaimHandoff, HandoffTypeOK, NotServing, RequestsAreTrue, RowsAreTrue
    <2>2. CASE MayClaim(handoff[h], assisted[o], serving[p].customer)
      <3>1. h \in ActiveHandoffs(o)
        <4>1. handoff[h].status \notin {"none", "EXPIRED", "CANCELLED", "PAID"}
          BY <2>1, <2>2 DEF MayClaim, RowsAreTrue
        <4>2. handoff[h] \in HandoffRow
          BY <2>1 DEF HandoffTypeOK
        <4> QED
          BY <2>1, <4>1, <4>2 DEF ActiveHandoffs, HandoffsOf, HandoffRow
      <3>2. \A x \in ActiveHandoffs(o) : x = h
        BY <2>1, <3>1 DEF OnlyOneActive
      <3>3. /\ handoff'[h].order = o
            /\ handoff'[h].status = IF settles THEN "PAID" ELSE "CLAIMED"
            /\ \A x \in Handoff \ {h} : handoff'[x] = handoff[x]
        <4>1. handoff' = [handoff EXCEPT ![h].status = IF settles THEN "PAID" ELSE "CLAIMED",
                                         ![h].claimedBy = serving[p].customer]
          BY <1>5, <2>2 DEF ClaimHandoff
        <4>2. handoff[h] \in HandoffRow
          BY <2>1 DEF HandoffTypeOK
        <4> QED
          BY <2>1, <4>1, <4>2 DEF HandoffTypeOK, HandoffRow
      <3>4. /\ settles => assisted'[o].paid
            /\ \A x \in Assisted \ {o} : assisted'[x] = assisted[x]
            /\ ~settles => assisted'[o].paid = FALSE /\ assisted'[o].status = assisted[o].status
        <4>1. assisted' = [assisted EXCEPT ![o].customer = serving[p].customer, ![o].paid = settles,
                                           ![o].status = IF settles THEN "pending" ELSE @]
          BY <1>5, <2>2 DEF ClaimHandoff
        <4>2. assisted[o] \in AssistedRow
          BY <2>1 DEF HandoffTypeOK
        <4> HIDE DEF o, settles
        <4> QED
          BY <2>1, <4>1, <4>2 DEF HandoffTypeOK, AssistedRow
      <3>5. ~assisted[o].paid
        BY <2>2 DEF MayClaim
      <3> HIDE DEF h, o, settles
      <3>6. OneHolder' /\ RowsAreTrue'
        BY <2>1, <3>1, <3>3, <3>4, <3>5 DEF OneHolder, RowsAreTrue, HoldsOrder
      <3>8. RequestsAreTrue'
        <4>1. \A q \in Server : HoldsOrder(q) => serving[q].order # o
          BY <2>1 DEF OrderLocked, HoldsOrder
        <4>2. \A x \in Handoff : /\ handoff'[x].order = handoff[x].order
                                 /\ handoff[x].status # "none" => handoff'[x].status # "none"
          BY <3>3, <2>1 DEF o
        <4>3. \A x \in Assisted : assisted[x].paid => assisted'[x].paid
          BY <3>4, <3>5
        <4> QED
          BY <2>1, <3>4, <4>1, <4>2, <4>3 DEF RequestsAreTrue, RowsAreTrue, HoldsOrder
      <3>7. OnlyOneActive' /\ PaidLeavesNoHandoff'
        BY <2>1, <3>1, <3>2, <3>3, <3>4 DEF OnlyOneActive, PaidLeavesNoHandoff, ActiveHandoffs, HandoffsOf
      <3> QED
        BY <3>6, <3>7, <3>8
    <2>3. CASE ~MayClaim(handoff[h], assisted[o], serving[p].customer)
      <3>1. UNCHANGED <<assisted, handoff>>
        BY <1>5, <2>3 DEF ClaimHandoff
      <3> QED
        BY <2>1, <3>1 DEF RequestsAreTrue, OneHolder, RowsAreTrue, OnlyOneActive,
          PaidLeavesNoHandoff, HoldsOrder, ActiveHandoffs, HandoffsOf
    <2> QED
      BY <2>2, <2>3
  <1>6. ASSUME NEW p \in Server, PayHandoff(p)
        PROVE  RequestsAreTrue' /\ OneHolder' /\ RowsAreTrue' /\ OnlyOneActive' /\ PaidLeavesNoHandoff'
    <2> DEFINE o == serving[p].order
               inTime == assisted[o].status = "pending_payment"
               over == IF inTime THEN NewestActive(o) ELSE ActiveHandoffs(o)
    <2>1. /\ o \in Assisted /\ HoldsOrder(p) /\ serving'[p].pc = "idle"
          /\ \A q \in Server \ {p} : serving'[q] = serving[q]
      BY <1>6 DEF PayHandoff, HandoffTypeOK, NotServing, RequestsAreTrue, HoldsOrder
    <2>2. over = ActiveHandoffs(o)
      <3>1. NewestActive(o) = ActiveHandoffs(o)
        <4>1. \A x \in ActiveHandoffs(o) : handoff[x].at \in Nat
          BY DEF HandoffTypeOK, HandoffRow, ActiveHandoffs, HandoffsOf
        <4> QED
          BY <2>1, <4>1 DEF NewestActive, OnlyOneActive
      <3> QED
        BY <3>1
    <2>3. /\ assisted'[o].paid
          /\ \A x \in Assisted \ {o} : assisted'[x] = assisted[x]
      BY <1>6, <2>1 DEF PayHandoff, HandoffTypeOK, AssistedRow
    <2>4. /\ \A x \in ActiveHandoffs(o) :
               handoff'[x].status \in {"PAID", "CANCELLED"} /\ handoff'[x].order = o
          /\ \A x \in Handoff \ ActiveHandoffs(o) : handoff'[x] = handoff[x]
      <3>1. handoff' = [x \in Handoff |->
              IF x \in over THEN [handoff[x] EXCEPT !.status = IF inTime THEN "PAID" ELSE "CANCELLED"]
              ELSE handoff[x]]
        BY <1>6 DEF PayHandoff
      <3> QED
        BY <2>2, <3>1 DEF HandoffTypeOK, HandoffRow, ActiveHandoffs, HandoffsOf
    <2> HIDE DEF o, inTime, over
    <2>5. RowsAreTrue'
      BY <2>1, <2>3, <2>4 DEF RowsAreTrue, ActiveHandoffs, HandoffsOf
    <2>6. OneHolder'
      BY <2>1 DEF OneHolder, HoldsOrder
    <2>7. OnlyOneActive' /\ PaidLeavesNoHandoff'
      BY <2>1, <2>3, <2>4 DEF OnlyOneActive, PaidLeavesNoHandoff, ActiveHandoffs, HandoffsOf
    <2>8. RequestsAreTrue'
      <3>1. \A q \in Server \ {p} : HoldsOrder(q) => serving[q].order # o
        BY <2>1 DEF OneHolder, o
      <3>2. \A x \in Handoff : /\ handoff'[x].order = handoff[x].order
                               /\ handoff[x].status # "none" => handoff'[x].status # "none"
        BY <2>4 DEF ActiveHandoffs, HandoffsOf
      <3>3. \A x \in Assisted : assisted[x].paid => assisted'[x].paid
        BY <2>3
      <3> QED
        BY <2>1, <2>3, <3>1, <3>2, <3>3 DEF RequestsAreTrue, RowsAreTrue, HoldsOrder
    <2> QED
      BY <2>5, <2>6, <2>7, <2>8
  <1>7. ASSUME NEW p \in Server, RollBack(p)
        PROVE  RequestsAreTrue' /\ OneHolder' /\ RowsAreTrue' /\ OnlyOneActive' /\ PaidLeavesNoHandoff'
    <2>1. /\ UNCHANGED <<assisted, handoff>>
          /\ serving'[p].pc = "idle"
          /\ \A q \in Server \ {p} : serving'[q] = serving[q]
      BY <1>7 DEF RollBack, HandoffTypeOK, NotServing
    <2> QED
      BY <2>1 DEF RequestsAreTrue, OneHolder, RowsAreTrue, OnlyOneActive,
        PaidLeavesNoHandoff, HoldsOrder, ActiveHandoffs, HandoffsOf
  <1>8. ASSUME NEW p \in Server, WriteBack(p)
        PROVE  RequestsAreTrue' /\ OneHolder' /\ RowsAreTrue' /\ OnlyOneActive' /\ PaidLeavesNoHandoff'
    <2> DEFINE h == serving[p].handoff
    <2>1. /\ UNCHANGED assisted /\ h \in Handoff /\ handoff[h].status # "none"
          /\ serving[p].paid => assisted[handoff[h].order].paid
          /\ serving'[p].pc = "idle"
          /\ \A q \in Server \ {p} : serving'[q] = serving[q]
      BY <1>8 DEF WriteBack, HandoffTypeOK, NotServing, RequestsAreTrue
    <2>2. /\ handoff'[h].order = handoff[h].order
          /\ \/ serving[p].paid /\ handoff'[h].status = "PAID"
             \/ handoff'[h].status = "EXPIRED"
             \/ handoff'[h].status = handoff[h].status
          /\ \A x \in Handoff \ {h} : handoff'[x] = handoff[x]
      BY <1>8, <2>1 DEF WriteBack, HandoffTypeOK, HandoffRow
    <2> HIDE DEF h
    <2>3. RequestsAreTrue' /\ OneHolder' /\ RowsAreTrue'
      BY <2>1, <2>2 DEF RequestsAreTrue, OneHolder, RowsAreTrue, HoldsOrder
    <2>4. OnlyOneActive' /\ PaidLeavesNoHandoff'
      BY <2>1, <2>2 DEF OnlyOneActive, PaidLeavesNoHandoff, ActiveHandoffs, HandoffsOf
    <2> QED
      BY <2>3, <2>4
  <1>9. ASSUME NEW h \in Handoff, Lapse(h)
        PROVE  RequestsAreTrue' /\ OneHolder' /\ RowsAreTrue' /\ OnlyOneActive' /\ PaidLeavesNoHandoff'
    <2>1. /\ UNCHANGED <<assisted, serving>>
          /\ \A x \in Handoff : /\ handoff'[x].order = handoff[x].order
                                /\ handoff'[x].status = handoff[x].status
      BY <1>9 DEF Lapse, HandoffTypeOK, HandoffRow
    <2> QED
      BY <2>1 DEF RequestsAreTrue, OneHolder, RowsAreTrue, OnlyOneActive,
        PaidLeavesNoHandoff, HoldsOrder, ActiveHandoffs, HandoffsOf
  <1>10. ASSUME NEW o \in Assisted, EndUnpaid(o)
        PROVE  RequestsAreTrue' /\ OneHolder' /\ RowsAreTrue' /\ OnlyOneActive' /\ PaidLeavesNoHandoff'
    <2>1. /\ UNCHANGED <<handoff, serving>> /\ ~OrderLocked(o)
          /\ assisted'[o].paid = assisted[o].paid
          /\ \A x \in Assisted \ {o} : assisted'[x] = assisted[x]
      BY <1>10 DEF EndUnpaid, HandoffTypeOK, AssistedRow
    <2> QED
      BY <2>1 DEF OrderLocked, RequestsAreTrue, OneHolder, RowsAreTrue, OnlyOneActive,
        PaidLeavesNoHandoff, HoldsOrder, ActiveHandoffs, HandoffsOf
  <1>11. CASE UNCHANGED handoffVars
    BY <1>11 DEF handoffVars, RequestsAreTrue, OneHolder, RowsAreTrue, OnlyOneActive,
      PaidLeavesNoHandoff, HoldsOrder, ActiveHandoffs, HandoffsOf
  <1> QED
    BY <1>1, <1>2, <1>3, <1>4, <1>5, <1>6, <1>7, <1>8, <1>9, <1>10, <1>11 DEF NextHandoff

LEMMA HandoffInvInit == InitHandoff => HandoffInv
  <1> SUFFICES ASSUME InitHandoff PROVE HandoffInv
    OBVIOUS
  <1>1. /\ \A p \in Server : serving[p].pc = "idle"
        /\ \A h \in Handoff : handoff[h].status = "none"
    BY DEF InitHandoff, NotServing, NoHandoffRow
  <1>2. NoHandoffRow \in HandoffRow
    BY DEF NoHandoffRow, HandoffRow
  <1>3. HandoffTypeOK
    <2>1. handoff \in [Handoff -> HandoffRow] /\ serving \in [Server -> ServingRow]
      BY <1>2, RequestTypes DEF InitHandoff
    <2>2. assisted \in [Assisted -> AssistedRow]
      BY DEF InitHandoff, AssistedRow
    <2> QED
      BY <2>1, <2>2 DEF HandoffTypeOK
  <1>4. \A o \in Assisted : ActiveHandoffs(o) = {}
    BY <1>1 DEF ActiveHandoffs, HandoffsOf, ActiveStatuses
  <1> QED
    BY <1>1, <1>3, <1>4 DEF HandoffInv, RequestsAreTrue, OneHolder, RowsAreTrue, OnlyOneActive,
      PaidLeavesNoHandoff, HoldsOrder

\* The lock facts and the types hold in every state: the invariant the rest rests on.
THEOREM HandoffInvHolds == HandoffSpec => []HandoffInv
  BY HandoffInvInit, HandoffInvKept, PTL DEF HandoffSpec

\* However often a code is asked for, and whoever claims an older one meanwhile, an
\* order has one open code.
THEOREM OneCodePerOrder == HandoffSpec => []OneActiveHandoff
  <1>1. HandoffInv => OneActiveHandoff
    <2> SUFFICES ASSUME HandoffInv, NEW o \in Assisted
                 PROVE  Cardinality(ActiveHandoffs(o)) <= 1
      BY DEF OneActiveHandoff
    <2>1. CASE ActiveHandoffs(o) = {}
      BY <2>1, FS_EmptySet
    <2>2. CASE ActiveHandoffs(o) # {}
      <3>1. \E h \in ActiveHandoffs(o) : ActiveHandoffs(o) = {h}
        BY <2>2 DEF HandoffInv, OnlyOneActive
      <3> QED
        BY <3>1, FS_Singleton
    <2> QED
      BY <2>1, <2>2
  <1> QED
    BY <1>1, HandoffInvHolds, PTL

\* When the money is there no code of the order is open, however late it came.
THEOREM NoCodeAfterPayment == HandoffSpec => []PaidLeavesNoHandoff
  BY HandoffInvHolds, PTL DEF HandoffInv

\* Nobody takes over an order that has a customer.
THEOREM CustomerStays == HandoffSpec => CustomerIsKept
  <1> DEFINE kept == \A o \in Assisted : assisted[o].customer # NoScanner
                                           => assisted'[o].customer = assisted[o].customer
  <1>1. ASSUME HandoffInv, [NextHandoff]_handoffVars
        PROVE  kept
    <2> USE DEF HandoffInv, HandoffTypeOK, AssistedRow
    <2>1. ASSUME NEW p \in Server, NEW pay \in BOOLEAN, ClaimHandoff(p, pay)
          PROVE  kept
      <3> DEFINE o == handoff[serving[p].handoff].order
             settles == pay /\ assisted[o].free
             st == IF settles THEN "pending" ELSE assisted[o].status
      <3>1. UNCHANGED assisted \/
              /\ assisted[o].customer \in {NoScanner, serving[p].customer}
              /\ assisted' = [assisted EXCEPT ![o].customer = serving[p].customer,
                                              ![o].paid = settles, ![o].status = st]
        BY <2>1 DEF ClaimHandoff, MayClaim
      <3> HIDE DEF settles, st, o
      <3> SUFFICES ASSUME NEW x \in Assisted, assisted[x].customer # NoScanner
                   PROVE  assisted'[x].customer = assisted[x].customer
        OBVIOUS
      <3>2. assisted \in [Assisted -> AssistedRow]
        BY <1>1
      <3> QED
        BY <3>1, <3>2
    <2>2. ASSUME NEW p \in Server, PayHandoff(p)
          PROVE  kept
      <3> DEFINE o == serving[p].order
      <3>1. assisted' = [assisted EXCEPT ![o].paid = TRUE,
              ![o].status = IF assisted[o].status = "pending_payment" THEN "pending" ELSE @]
        BY <2>2 DEF PayHandoff
      <3> SUFFICES ASSUME NEW x \in Assisted
                   PROVE  assisted'[x].customer = assisted[x].customer
        OBVIOUS
      <3>2. assisted \in [Assisted -> AssistedRow]
        BY <1>1
      <3> QED
        BY <3>1, <3>2
    <2>3. ASSUME NEW o \in Assisted, EndUnpaid(o)
          PROVE  kept
      BY <2>3 DEF EndUnpaid
    <2>4. CASE UNCHANGED assisted
      BY <2>4
    <2> QED
      BY <1>1, <2>1, <2>2, <2>3, <2>4 DEF NextHandoff, BeginCreate, BeginPay, CreateHandoff, LookUp,
        BeginClaim, RollBack, WriteBack, Lapse, handoffVars
  <1> QED
    BY <1>1, HandoffInvHolds, PTL DEF CustomerIsKept, HandoffSpec
=============================================================================
