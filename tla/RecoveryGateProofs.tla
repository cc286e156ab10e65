-------------------------- MODULE RecoveryGateProofs --------------------------
(***************************************************************************)
(* One query at a time per order, a dictionary that stays in its bounds    *)
(* and queries that keep their distance, for any orders, callers, cap and  *)
(* delays.                                                                 *)
(*                                                                         *)
(* FlightIsRunning is inductive with the types: an entry in flight is      *)
(* never dropped (Room and Expired take entries at rest), so a caller that *)
(* finds nothing in flight finds nobody querying.                          *)
(***************************************************************************)
EXTENDS RecoveryGate, FiniteSetTheorems, TLAPS

\* The record of a missing entry is not an entry.
LEMMA NoEntryIsNone == NoEntry \notin Entry
  BY DEF NoEntry, Entry

\* A dictionary entry that is there is an entry.
LEMMA HeldIsEntry ==
  ASSUME TypeOK, NEW o \in Order, entries[o] # NoEntry
  PROVE  entries[o] \in Entry
  BY DEF TypeOK

\* A busy caller has a query or waits.
LEMMA CallerKinds ==
  ASSUME TypeOK, NEW c \in Caller
  PROVE  /\ caller[c].pc = "query" => caller[c] \in Query /\ caller[c].o \in Order
         /\ caller[c].pc = "wait" => caller[c] \in Wait /\ caller[c].o \in Order
         /\ caller[c] = Idle => caller[c].pc = "idle"
  BY DEF TypeOK, Query, Wait, Idle

\* What makes room in the dictionary is at rest.
LEMMA RoomAtRest ==
  ASSUME NEW gone \in Room, NEW o \in gone
  PROVE  o \in Order /\ AtRest(o)
  BY DEF Room, Expired, Oldest

\* Looking an order up gives it an entry, and drops none that is in flight.
LEMMA LookedKeeps ==
  ASSUME TypeOK, NEW o \in Order, NEW table \in Looked(o)
  PROVE  /\ table \in [Order -> Entry \cup {NoEntry}]
         /\ table[o] # NoEntry
         /\ entries[o] # NoEntry => table[o].flight = entries[o].flight
         /\ entries[o] = NoEntry => table[o].flight = Nobody
         /\ \A p \in Order \ {o} :
              table[p] = entries[p] \/ (AtRest(p) /\ table[p] = NoEntry)
  <1>n. now \in Nat
    BY CapAssumption DEF TypeOK
  <1>1. CASE entries[o] # NoEntry
    <2>1. table = [entries EXCEPT ![o].touched = now]
      BY <1>1 DEF Looked
    <2>2. entries[o] \in Entry
      BY <1>1, HeldIsEntry
    <2>3. [entries[o] EXCEPT !.touched = now] \in Entry
      BY <1>n, <2>2 DEF Entry
    <2>4. table[o] = [entries[o] EXCEPT !.touched = now]
      BY <2>1 DEF TypeOK
    <2>5. table[o].flight = entries[o].flight
      BY <2>2, <2>4 DEF Entry
    <2> QED
      BY <1>1, <2>1, <2>3, <2>4, <2>5, NoEntryIsNone DEF TypeOK
  <1>2. CASE entries[o] = NoEntry
    <2>1. PICK gone \in Room : table = [Without(gone) EXCEPT ![o] = NewEntry]
      BY <1>2 DEF Looked
    <2>2. NewEntry \in Entry /\ NewEntry.flight = Nobody
      BY <1>n DEF NewEntry, Entry
    <2>3. \A p \in gone : p \in Order /\ AtRest(p)
      BY RoomAtRest
    <2>4. Without(gone) \in [Order -> Entry \cup {NoEntry}]
      BY DEF Without, TypeOK
    <2>5. table[o] = NewEntry
      BY <2>1, <2>4
    <2>6. \A p \in Order \ {o} : table[p] = Without(gone)[p]
      BY <2>1, <2>4
    <2>7. \A p \in Order \ {o} :
            table[p] = entries[p] \/ (AtRest(p) /\ table[p] = NoEntry)
      BY <2>3, <2>6 DEF Without
    <2> QED
      BY <1>2, <2>1, <2>2, <2>4, <2>5, <2>7, NoEntryIsNone
  <1> QED
    BY <1>1, <1>2

GateInv == TypeOK /\ FlightIsRunning /\ WaitsForRunning

\* Waiting for, skipping or starting a query keeps the types.
LEMMA AskType ==
  ASSUME TypeOK, NEW c \in Caller, NEW o \in Order, NEW mode \in Mode,
         Join(c, o, mode) \/ SkipCooldown(c, o, mode) \/ Start(c, o, mode)
  PROVE  TypeOK'
  <1>n. now \in Nat
    BY CapAssumption DEF TypeOK
  <1>1. entries' \in [Order -> Entry \cup {NoEntry}]
    <2>1. CASE Join(c, o, mode) \/ SkipCooldown(c, o, mode)
      BY <2>1, LookedKeeps DEF Join, SkipCooldown
    <2>2. CASE Start(c, o, mode)
      <3>1. PICK table \in Looked(o) : entries' = [table EXCEPT ![o].flight = c]
        BY <2>2 DEF Start
      <3>2. table \in [Order -> Entry \cup {NoEntry}] /\ table[o] # NoEntry
        BY LookedKeeps
      <3>3. [table[o] EXCEPT !.flight = c] \in Entry
        BY <3>2 DEF Entry
      <3> QED
        BY <3>1, <3>2, <3>3
    <2> QED
      BY <2>1, <2>2
  <1>2. caller' \in [Caller -> Query \cup Wait \cup {Idle}]
    BY <1>n DEF Join, SkipCooldown, Start, TypeOK, Query, Wait
  <1>3. asked' \in [Order -> Nat \cup {Never}]
    BY <1>n DEF Join, SkipCooldown, Start, TypeOK, AskedAfter
  <1> QED
    BY <1>1, <1>2, <1>3 DEF TypeOK, Join, SkipCooldown, Start

\* Answering keeps every caller well typed.
LEMMA ResolveType ==
  ASSUME TypeOK, NEW c \in Caller
  PROVE  Resolve(c) \in [Caller -> Query \cup Wait \cup {Idle}]
  BY DEF Resolve, TypeOK

\* The entry of a query that ended is an entry.
LEMMA EntryEnds ==
  ASSUME NEW e \in Entry, NEW n \in 0..3, NEW f \in Nat \cup {Never}, NEW t \in Nat
  PROVE  /\ [e EXCEPT !.attempts = n, !.first = f, !.flight = Nobody, !.next = t] \in Entry
         /\ [e EXCEPT !.attempts = n, !.flight = Nobody, !.next = t] \in Entry
  BY DEF Entry

\* The end of a query keeps the types.
LEMMA EndsType ==
  ASSUME GateInv, NEW c \in Caller, Ends(c)
  PROVE  TypeOK'
  <1> USE DEF GateInv
  <1>0. /\ caller[c].pc = "query" /\ caller' = Resolve(c)
        /\ UNCHANGED now
    BY DEF Ends, Recovered, NotRecovered, Aborted
  <1>1. PICK o \in Order : o = caller[c].o
    BY <1>0, CallerKinds
  <1>2. caller[c].began \in Nat /\ now \in Nat
    BY <1>0, CallerKinds, CapAssumption DEF Query, TypeOK
  <1>3. entries[o] \in Entry
    BY <1>0, <1>1, HeldIsEntry DEF FlightIsRunning
  <1>4. CASE Recovered(c)
    BY <1>0, <1>4, ResolveType DEF Recovered, Without, TypeOK
  <1>5. CASE NotRecovered(c)
    <2> DEFINE n == More(entries[o].attempts)
               first == IF entries[o].first = Never THEN caller[c].began
                        ELSE entries[o].first
    <2>1. n \in 1..3 /\ first \in Nat
      BY <1>2, <1>3 DEF More, Entry
    <2>2. PICK d \in NextDelay(caller[c], n, first) :
            entries' = [entries EXCEPT ![o] =
              [@ EXCEPT !.attempts = n, !.first = first, !.flight = Nobody,
                        !.next = caller[c].began + d]]
      BY <1>1, <1>5 DEF NotRecovered
    <2> HIDE DEF n, first
    <2>3. d \in Nat
      BY <1>2, <2>1, DelayAssumption DEF NextDelay, FastDelay
    <2>4. [entries[o] EXCEPT !.attempts = n, !.first = first, !.flight = Nobody,
                             !.next = caller[c].began + d] \in Entry
      <3>1. caller[c].began + d \in Nat /\ n \in 0..3
        BY <1>2, <2>1, <2>3
      <3> QED
        BY <1>3, <2>1, <3>1, EntryEnds
    <2>5. entries' \in [Order -> Entry \cup {NoEntry}]
      BY <2>2, <2>4 DEF TypeOK
    <2> QED
      BY <1>0, <1>5, <2>5, ResolveType DEF NotRecovered, TypeOK
  <1>6. CASE Aborted(c)
    <2>1. PICK d \in MinCooldown..MaxCooldown :
            entries' = [entries EXCEPT ![o] = Released(@, caller[c].began + d)]
      BY <1>1, <1>6 DEF Aborted
    <2>2. caller[c].began + d \in Nat
      BY <1>2, <2>1, DelayAssumption
    <2>3. Released(entries[o], caller[c].began + d) \in Entry
      <3>1. More(entries[o].attempts) \in 0..3
        BY <1>3 DEF More, Entry
      <3> QED
        BY <1>3, <2>2, <3>1, EntryEnds DEF Released
    <2>4. entries' \in [Order -> Entry \cup {NoEntry}]
      BY <2>1, <2>3 DEF TypeOK
    <2> QED
      BY <1>0, <1>6, <2>4, ResolveType DEF Aborted, TypeOK
  <1> QED
    BY <1>4, <1>5, <1>6 DEF Ends

\* Who queries and who waits for what, after a step that answers c's query of o
\* and gives o's entry back.
LEMMA AnsweredInv ==
  ASSUME GateInv, TypeOK', NEW c \in Caller, caller[c].pc = "query",
         NEW o \in Order, o = caller[c].o, caller' = Resolve(c),
         entries'[o] = NoEntry \/ entries'[o].flight = Nobody,
         \A p \in Order \ {o} : entries'[p] = entries[p]
  PROVE  FlightIsRunning' /\ WaitsForRunning'
  <1> USE DEF GateInv
  <1>1. \A d \in Caller : caller[d].pc = "query" /\ caller[d].o = o => d = c
    BY DEF FlightIsRunning
  <1>2. \A d \in Caller :
          caller'[d] = IF d = c \/ (caller[d].pc = "wait" /\ caller[d].o = o)
                       THEN Idle ELSE caller[d]
    BY DEF Resolve
  <1>3. FlightIsRunning'
    <2> SUFFICES ASSUME NEW p \in Order, NEW d \in Caller
                 PROVE  caller'[d].pc = "query" /\ caller'[d].o = p
                          <=> entries'[p] # NoEntry /\ entries'[p].flight = d
      BY DEF FlightIsRunning
    <2>1. CASE p = o
      BY <1>1, <1>2, <2>1, NobodyAssumption DEF Idle
    <2>2. CASE p # o
      BY <1>2, <2>2 DEF FlightIsRunning, Idle
    <2> QED
      BY <2>1, <2>2
  <1>4. WaitsForRunning'
    <2> SUFFICES ASSUME NEW e \in Caller, caller'[e].pc = "wait"
                 PROVE  \E d \in Caller : caller'[d].pc = "query" /\ caller'[d].o = caller'[e].o
      BY DEF WaitsForRunning
    <2>1. caller'[e] = caller[e] /\ caller[e].o # o
      BY <1>2 DEF Idle
    <2>2. PICK d \in Caller : caller[d].pc = "query" /\ caller[d].o = caller[e].o
      BY <2>1 DEF WaitsForRunning
    <2>3. caller'[d] = caller[d]
      BY <1>2, <2>1, <2>2
    <2> QED
      BY <2>1, <2>2, <2>3
  <1> QED
    BY <1>3, <1>4

\* Asking the gate starts a query only where none runs.
LEMMA AskInv ==
  ASSUME GateInv, NEW c \in Caller, NEW o \in Order, NEW mode \in Mode,
         Join(c, o, mode) \/ SkipCooldown(c, o, mode) \/ Start(c, o, mode)
  PROVE  GateInv'
  <1> USE DEF GateInv
  <1>t. TypeOK'
    BY AskType
  <1>i. caller[c] = Idle /\ caller[c].pc = "idle"
    BY DEF Join, SkipCooldown, Start, Idle
  <1>1. CASE Join(c, o, mode) \/ SkipCooldown(c, o, mode)
    <2>1. entries' \in Looked(o) /\ entries[o] # NoEntry
      BY <1>1 DEF Join, SkipCooldown, AtRest
    <2>2. \A p \in Order : (entries'[p] = NoEntry <=> entries[p] = NoEntry)
                        /\ (entries[p] # NoEntry => entries'[p].flight = entries[p].flight)
      <3>1. entries' = [entries EXCEPT ![o].touched = now] /\ entries[o] \in Entry
        BY <2>1, HeldIsEntry DEF Looked
      <3> QED
        BY <2>1, <3>1, LookedKeeps DEF TypeOK
    <2>3. \/ UNCHANGED caller
          \/ /\ entries[o].flight # Nobody
             /\ caller' = [caller EXCEPT ![c] = [pc |-> "wait", o |-> o]]
      BY <1>1 DEF Join, SkipCooldown
    <2>4. \A d \in Caller : caller'[d].pc = "query" \/ caller[d].pc = "query"
                              => caller'[d] = caller[d]
      BY <1>i, <2>3 DEF TypeOK
    <2>5. FlightIsRunning'
      BY <2>2, <2>4 DEF FlightIsRunning
    <2>6. WaitsForRunning'
      <3> SUFFICES ASSUME NEW e \in Caller, caller'[e].pc = "wait"
                   PROVE  \E d \in Caller : caller'[d].pc = "query" /\ caller'[d].o = caller'[e].o
        BY DEF WaitsForRunning
      <3>1. CASE caller'[e] = caller[e]
        BY <2>4, <3>1 DEF WaitsForRunning
      <3>2. CASE caller'[e] # caller[e]
        <4>1. entries[o].flight # Nobody /\ caller'[e].o = o
          BY <2>3, <3>2 DEF TypeOK
        <4>2. entries[o].flight \in Caller
          BY <2>1, <4>1, HeldIsEntry DEF Entry
        <4>3. PICK d \in Caller : caller[d].pc = "query" /\ caller[d].o = o
          BY <2>1, <4>2 DEF FlightIsRunning
        <4> QED
          BY <2>4, <4>1, <4>3
      <3> QED
        BY <3>1, <3>2
    <2> QED
      BY <1>t, <2>5, <2>6
  <1>2. CASE Start(c, o, mode)
    <2>1. PICK table \in Looked(o) : /\ table[o].flight = Nobody
                                     /\ entries' = [table EXCEPT ![o].flight = c]
      BY <1>2 DEF Start
    <2>2. /\ table \in [Order -> Entry \cup {NoEntry}] /\ table[o] \in Entry
          /\ entries[o] # NoEntry => entries[o].flight = Nobody
          /\ \A p \in Order \ {o} :
               table[p] = entries[p] \/ (AtRest(p) /\ table[p] = NoEntry)
      BY <2>1, LookedKeeps
    <2>3. /\ entries'[o] # NoEntry /\ entries'[o].flight = c
          /\ \A p \in Order \ {o} : entries'[p] = table[p]
      <3>1. entries'[o] = [table[o] EXCEPT !.flight = c]
        BY <2>1, <2>2
      <3>2. entries'[o] \in Entry /\ entries'[o].flight = c
        BY <2>2, <3>1 DEF Entry
      <3> QED
        BY <2>1, <2>2, <3>2, NoEntryIsNone
    <2>4. /\ caller'[c].pc = "query" /\ caller'[c].o = o
          /\ \A d \in Caller \ {c} : caller'[d] = caller[d]
      BY <1>2 DEF Start, TypeOK
    <2>5. \A d \in Caller : ~ (caller[d].pc = "query" /\ caller[d].o = o)
      BY <2>2, NobodyAssumption DEF FlightIsRunning
    <2>6. FlightIsRunning'
      <3> SUFFICES ASSUME NEW p \in Order, NEW d \in Caller
                   PROVE  caller'[d].pc = "query" /\ caller'[d].o = p
                            <=> entries'[p] # NoEntry /\ entries'[p].flight = d
        BY DEF FlightIsRunning
      <3>1. CASE p = o
        BY <2>3, <2>4, <2>5, <3>1
      <3>2. CASE p # o
        <4>1. entries[p] # NoEntry /\ entries[p].flight = d
                <=> entries'[p] # NoEntry /\ entries'[p].flight = d
          BY <2>2, <2>3, <3>2, NobodyAssumption DEF AtRest
        <4>2. caller'[d].pc = "query" /\ caller'[d].o = p
                <=> caller[d].pc = "query" /\ caller[d].o = p
          BY <1>i, <2>4, <3>2
        <4> QED
          BY <4>1, <4>2 DEF FlightIsRunning
      <3> QED
        BY <3>1, <3>2
    <2>7. WaitsForRunning'
      BY <1>i, <2>4 DEF WaitsForRunning
    <2> QED
      BY <1>t, <2>6, <2>7
  <1> QED
    BY <1>1, <1>2

\* Every step preserves the invariant.
LEMMA GateNext ==
  ASSUME GateInv, [Next]_vars
  PROVE  GateInv'
  <1> USE DEF GateInv
  <1>1. ASSUME NEW c \in Caller, NEW o \in Order, NEW mode \in Mode,
               Join(c, o, mode) \/ SkipCooldown(c, o, mode) \/ Start(c, o, mode)
        PROVE  GateInv'
    BY <1>1, AskInv
  <1>2. ASSUME NEW c \in Caller, Ends(c)
        PROVE  GateInv'
    <2>1. TypeOK'
      BY <1>2, EndsType
    <2>2. caller[c].pc = "query" /\ caller' = Resolve(c)
      BY <1>2 DEF Ends, Recovered, NotRecovered, Aborted
    <2>3. PICK o \in Order : o = caller[c].o
      BY <2>2, CallerKinds
    <2>4. entries[o] \in Entry
      BY <2>2, <2>3, HeldIsEntry DEF FlightIsRunning
    <2>5. /\ entries'[o] = NoEntry \/ entries'[o].flight = Nobody
          /\ \A p \in Order \ {o} : entries'[p] = entries[p]
      <3>1. CASE Recovered(c)
        BY <2>3, <3>1 DEF Recovered, Without, TypeOK
      <3>2. CASE NotRecovered(c)
        BY <2>3, <2>4, <3>2 DEF NotRecovered, TypeOK, Entry
      <3>3. CASE Aborted(c)
        BY <2>3, <2>4, <3>3 DEF Aborted, Released, TypeOK, Entry
      <3> QED
        BY <1>2, <3>1, <3>2, <3>3 DEF Ends
    <2> QED
      BY <2>1, <2>2, <2>3, <2>5, AnsweredInv
  <1>3. ASSUME NEW c \in Caller, JoinerCancelled(c)
        PROVE  GateInv'
    <2>1. TypeOK'
      BY <1>3 DEF JoinerCancelled, TypeOK
    <2>2. /\ UNCHANGED entries
          /\ \A d \in Caller : caller'[d] = IF d = c THEN Idle ELSE caller[d]
          /\ caller[c].pc = "wait"
      BY <1>3 DEF JoinerCancelled, TypeOK
    <2>3. FlightIsRunning' /\ WaitsForRunning'
      BY <2>2 DEF FlightIsRunning, WaitsForRunning, Idle
    <2> QED
      BY <2>1, <2>3
  <1>4. CASE SweepExpired
    <2>1. \A p \in Order : entries'[p] = entries[p] \/ (AtRest(p) /\ entries'[p] = NoEntry)
      BY <1>4 DEF SweepExpired, Without, Expired
    <2>2. TypeOK'
      BY <1>4 DEF SweepExpired, Without, TypeOK
    <2>3. FlightIsRunning' /\ WaitsForRunning'
      BY <1>4, <2>1, NobodyAssumption
      DEF SweepExpired, FlightIsRunning, WaitsForRunning, AtRest
    <2> QED
      BY <2>2, <2>3
  <1>5. CASE Tick
    BY <1>5, CapAssumption DEF Tick, TypeOK, FlightIsRunning, WaitsForRunning
  <1>6. CASE UNCHANGED vars
    BY <1>6 DEF vars, TypeOK, FlightIsRunning, WaitsForRunning
  <1> QED
    BY <1>1, <1>2, <1>3, <1>4, <1>5, <1>6 DEF Next

\* The gate's invariant holds in every reachable state.
THEOREM GateInvariant == Spec => []GateInv
  <1>1. Init => GateInv
    BY CapAssumption
    DEF Init, GateInv, TypeOK, FlightIsRunning, WaitsForRunning, Idle
  <1>2. GateInv /\ [Next]_vars => GateInv'
    BY GateNext
  <1> QED
    BY <1>1, <1>2, PTL DEF Spec

\* The dictionary knows exactly the queries that run.
THEOREM FlightsAreRunning == Spec => []FlightIsRunning
  <1>1. GateInv => FlightIsRunning
    BY DEF GateInv
  <1> QED
    BY <1>1, GateInvariant, PTL

\* Whoever waits, waits for a query that runs.
THEOREM WaitersHaveAQuery == Spec => []WaitsForRunning
  <1>1. GateInv => WaitsForRunning
    BY DEF GateInv
  <1> QED
    BY <1>1, GateInvariant, PTL

\* Two callers never query for the same order at once.
SingleFlight ==
  \A c, d \in Caller :
    caller[c].pc = "query" /\ caller[d].pc = "query" /\ caller[c].o = caller[d].o => c = d

\* wxpay_recovery_gate.py: one provider query in flight per order, as long as the
\* coroutine that asked for it lives.
THEOREM OneQueryPerOrder == Spec => []SingleFlight
  <1>1. GateInv => SingleFlight
    BY CallerKinds DEF GateInv, FlightIsRunning, SingleFlight
  <1> QED
    BY <1>1, GateInvariant, PTL

(***************************************************************************)
(* The size of the dictionary                                              *)
(*                                                                         *)
(* A new entry takes the place of a dropped one, unless there is room or   *)
(* every entry is in flight: then no two belong to one caller.             *)
(***************************************************************************)

\* A set of numbers that is not empty has a least one.
LEMMA LeastNumber ==
  ASSUME NEW T \in SUBSET Nat, T # {}
  PROVE  \E m \in T : \A n \in T : m <= n
  <1> DEFINE R == StrictSubsetOrdering(Nat)
             below == {0..n : n \in T}
  <1>1. IsWellFoundedOn(R, FiniteSubsetsOf(Nat))
    BY FS_StrictSubsetOrderingWellFounded
  <1>2. below \subseteq FiniteSubsetsOf(Nat) /\ below # {}
    <2>1. ASSUME NEW n \in T
          PROVE  0..n \in FiniteSubsetsOf(Nat)
      <3>1. 0 \in Int /\ n \in Int /\ 0..n \in SUBSET Nat
        OBVIOUS
      <3>2. IsFiniteSet(0..n)
        BY <3>1, FS_Interval
      <3> QED
        BY <3>1, <3>2 DEF FiniteSubsetsOf
    <2>2. \A n \in T : 0..n \in FiniteSubsetsOf(Nat)
      BY <2>1
    <2> HIDE DEF R
    <2> QED
      BY <2>2
  <1>3. \A m, n \in T : n < m => <<0..n, 0..m>> \in R
    <2> SUFFICES ASSUME NEW m \in T, NEW n \in T, n < m
                 PROVE  <<0..n, 0..m>> \in R
      OBVIOUS
    <2>1. 0..n \subseteq Nat /\ 0..m \subseteq Nat /\ 0..n \subseteq 0..m
      OBVIOUS
    <2>2. 0..n # 0..m
      <3>1. m \in 0..m /\ m \notin 0..n
        OBVIOUS
      <3> QED
        BY <3>1
    <2> QED
      BY <2>1, <2>2 DEF StrictSubsetOrdering
  <1> HIDE DEF R, below
  <1>4. PICK b \in below : \A d \in below : ~ (<<d, b>> \in R)
    BY <1>1, <1>2, WFMin
  <1>5. PICK m \in T : b = 0..m
    BY DEF below
  <1>6. \A n \in T : ~ (n < m)
    BY <1>3, <1>4, <1>5 DEF below
  <1> QED
    BY <1>6

\* If anything is at rest, something can be dropped to make room.
LEMMA SomethingOldest ==
  ASSUME TypeOK, NEW o \in Order, AtRest(o)
  PROVE  Oldest # {}
  <1> DEFINE T == {entries[p].touched : p \in {q \in Order : AtRest(q)}}
  <1>1. T \in SUBSET Nat /\ T # {}
    BY HeldIsEntry DEF AtRest, Entry
  <1>2. PICK m \in T : \A n \in T : m <= n
    BY <1>1, LeastNumber
  <1>3. PICK p \in Order : AtRest(p) /\ entries[p].touched = m
    BY <1>2
  <1>4. p \in Oldest
    BY <1>2, <1>3 DEF Oldest
  <1> QED
    BY <1>4

BoundInv == IsFiniteSet(Held) /\ EntriesBounded

\* No entry is added.
LEMMA NoneAdded ==
  ASSUME BoundInv, Held' \subseteq Held
  PROVE  BoundInv'
  <1>1. /\ IsFiniteSet(Held') /\ Cardinality(Held') <= Cardinality(Held)
        /\ Cardinality(Held) \in Nat /\ Cardinality(Held') \in Nat
    BY FS_Subset, FS_CardinalityType DEF BoundInv
  <1>2. Cardinality(Caller) \in Nat /\ MaxEntries \in Nat
    BY CallerAssumption, CapAssumption, FS_CardinalityType
  <1> QED
    BY <1>1, <1>2 DEF BoundInv, EntriesBounded

\* A query that finds no entry of its order makes one.
LEMMA OneAdded ==
  ASSUME GateInv, GateInv', BoundInv, NEW c \in Caller, NEW o \in Order, NEW mode,
         entries[o] = NoEntry, Start(c, o, mode)
  PROVE  BoundInv'
  <1> USE DEF GateInv
  <1>1. PICK gone \in Room : entries' = [[Without(gone) EXCEPT ![o] = NewEntry]
                                            EXCEPT ![o].flight = c]
    BY DEF Start, Looked
  <1>2. Held' = (Held \ gone) \cup {o} /\ gone \subseteq Held /\ o \notin Held
    <2>1. gone \subseteq Held
      BY RoomAtRest DEF Held, AtRest
    <2>2. entries'[o] # NoEntry
      BY <1>1 DEF Without, NewEntry, NoEntry, TypeOK
    <2>3. \A p \in Order \ {o} : entries'[p] = IF p \in gone THEN NoEntry ELSE entries[p]
      BY <1>1 DEF Without
    <2> QED
      BY <2>1, <2>2, <2>3 DEF Held
  <1>3. /\ Cardinality(Held) \in Nat /\ Cardinality(Caller) \in Nat /\ MaxEntries \in Nat
        /\ IsFiniteSet(Held)
    BY CallerAssumption, CapAssumption, FS_CardinalityType DEF BoundInv
  <1>4. IsFiniteSet(Held \ gone) /\ Cardinality(Held \ gone) \in Nat
    BY <1>3, FS_Difference, FS_CardinalityType
  <1>5. /\ IsFiniteSet(Held') /\ Cardinality(Held') <= Cardinality(Held \ gone) + 1
        /\ Cardinality(Held') \in Nat
    <2>1. /\ IsFiniteSet((Held \ gone) \cup {o})
          /\ Cardinality((Held \ gone) \cup {o}) = Cardinality(Held \ gone) + 1
      BY <1>2, <1>4, FS_AddElement
    <2> QED
      BY <1>2, <1>4, <2>1
  <1>6. CASE gone # {}
    <2>1. PICK g \in gone : g \in Held
      BY <1>2, <1>6
    <2>2. /\ IsFiniteSet(Held \ {g}) /\ Cardinality(Held \ {g}) = Cardinality(Held) - 1
      BY <1>3, <2>1, FS_RemoveElement
    <2>3. Held \ gone \in SUBSET (Held \ {g})
      OBVIOUS
    <2>4. Cardinality(Held \ gone) <= Cardinality(Held \ {g})
      BY <2>2, <2>3, FS_Subset
    <2> QED
      BY <1>3, <1>4, <1>5, <2>2, <2>4 DEF BoundInv, EntriesBounded
  <1>7. CASE gone = {} /\ Cardinality(Held) < MaxEntries
    <2>1. Held \ gone = Held
      BY <1>7
    <2> QED
      BY <1>3, <1>5, <1>7, <2>1 DEF BoundInv, EntriesBounded
  <1>8. CASE gone = {} /\ ~ (Cardinality(Held) < MaxEntries)
    <2>1. Oldest = {}
      BY <1>1, <1>8 DEF Room
    <2>2. \A p \in Order : ~ AtRest(p)
      BY <2>1, SomethingOldest
    <2>3. \A p \in Held' : ~ AtRest(p)'
      <3>1. entries'[o].flight = c
        BY <1>1 DEF Without, NewEntry
      <3>2. \A p \in Held' \ {o} : entries'[p] = entries[p]
        BY <1>1, <1>8 DEF Without, Held
      <3> QED
        BY <2>2, <3>1, <3>2, NobodyAssumption DEF AtRest, Held
    <2> DEFINE f == [p \in Held' |-> entries'[p].flight]
    <2>4. \A p \in Held' : p \in Order /\ entries'[p] # NoEntry /\ f[p] \in Caller
      <3>1. ASSUME NEW p \in Held'
            PROVE  /\ p \in Order /\ entries'[p] # NoEntry
                   /\ entries'[p].flight \in Caller
        BY <2>3 DEF Held, AtRest, TypeOK, Entry
      <3> QED
        BY <3>1
    <2>5. \A p, q \in Held' : f[p] = f[q] => p = q
      BY <2>4 DEF FlightIsRunning
    <2>6. f \in Injection(Held', Caller)
      BY <2>4, <2>5 DEF Injection, IsInjective
    <2> HIDE DEF f
    <2>7. Cardinality(Held') <= Cardinality(Caller)
      BY <2>6, CallerAssumption, FS_Injection
    <2> QED
      BY <1>5, <2>7 DEF BoundInv, EntriesBounded
  <1> QED
    BY <1>6, <1>7, <1>8

\* Every step keeps the dictionary in its bounds.
LEMMA BoundNext ==
  ASSUME GateInv, GateInv', BoundInv, [Next]_vars
  PROVE  BoundInv'
  <1> USE DEF GateInv
  <1>1. ASSUME NEW c \in Caller, NEW o \in Order, NEW mode \in Mode,
               Join(c, o, mode) \/ SkipCooldown(c, o, mode)
        PROVE  Held' \subseteq Held
    <2>1. entries' = [entries EXCEPT ![o].touched = now] /\ entries[o] # NoEntry
      BY <1>1 DEF Join, SkipCooldown, AtRest, Looked
    <2> QED
      BY <2>1 DEF Held, TypeOK
  <1>2. ASSUME NEW c \in Caller, NEW o \in Order, NEW mode \in Mode, Start(c, o, mode)
        PROVE  BoundInv'
    <2>1. CASE entries[o] = NoEntry
      BY <1>2, <2>1, OneAdded
    <2>2. CASE entries[o] # NoEntry
      <3>1. \E t : entries' = [entries EXCEPT ![o] = t]
        BY <1>2, <2>2 DEF Start, Looked, TypeOK
      <3> QED
        BY <2>2, <3>1, NoneAdded DEF Held, TypeOK
    <2> QED
      BY <2>1, <2>2
  <1>3. ASSUME NEW c \in Caller, Ends(c)
        PROVE  Held' \subseteq Held
    <2>0. caller[c].pc = "query"
      BY <1>3, Zenon DEF Ends, Recovered, NotRecovered, Aborted
    <2>1. caller[c].o \in Order /\ entries[caller[c].o] # NoEntry
      BY <2>0, CallerKinds DEF FlightIsRunning
    <2>2. \A p \in Order \ {caller[c].o} : entries'[p] = entries[p]
      <3>1. CASE Recovered(c)
        BY <3>1 DEF Recovered, Without
      <3>2. \/ Recovered(c)
            \/ \E t : entries' = [entries EXCEPT ![caller[c].o] = t]
        BY <1>3, Zenon DEF Ends, NotRecovered, Aborted
      <3> QED
        BY <3>1, <3>2 DEF TypeOK
    <2> QED
      BY <2>1, <2>2 DEF Held
  <1>4. ASSUME NEW c \in Caller, JoinerCancelled(c)
        PROVE  Held' \subseteq Held
    BY <1>4 DEF JoinerCancelled, Held
  <1>5. CASE SweepExpired
    BY <1>5, NoneAdded DEF SweepExpired, Without, Held
  <1>6. CASE Tick \/ UNCHANGED vars
    BY <1>6, NoneAdded DEF Tick, vars, Held
  <1> QED
    BY <1>1, <1>2, <1>3, <1>4, <1>5, <1>6, NoneAdded DEF Next

\* _get_or_create: whatever is asked, swept, evicted and answered, the dictionary
\* outgrows its cap only by the queries that are in flight.
THEOREM DictionaryIsBounded == Spec => []EntriesBounded
  <1>1. Init => BoundInv
    <2> SUFFICES ASSUME Init PROVE BoundInv
      OBVIOUS
    <2>1. Held = {}
      BY DEF Init, Held
    <2> QED
      BY <2>1, CapAssumption, FS_EmptySet DEF BoundInv, EntriesBounded
  <1>2. GateInv /\ GateInv' /\ BoundInv /\ [Next]_vars => BoundInv'
    BY BoundNext
  <1>3. BoundInv => EntriesBounded
    BY DEF BoundInv
  <1> QED
    BY <1>1, <1>2, <1>3, GateInvariant, PTL DEF Spec

(***************************************************************************)
(* The time between two queries                                            *)
(*                                                                         *)
(* asked is never ahead of the entry's last touch, so an entry that        *)
(* outlived its TTL was asked longer ago than any cooldown, and an entry   *)
(* at rest with its attempts used up is not due before the cooldown.       *)
(***************************************************************************)

\* What is known of an order that was asked about at time t.
Spaced(o) ==
  /\ asked[o] <= now
  /\ entries[o] = NoEntry => asked[o] = Never \/ now - asked[o] >= MinCooldown
  /\ entries[o] # NoEntry => asked[o] <= entries[o].touched
  /\ AtRest(o) /\ entries[o].attempts = 3 /\ asked[o] # Never
       => entries[o].next >= asked[o] + MinCooldown
  /\ \A c \in Caller : caller[c].pc = "query" /\ caller[c].o = o
       => asked[o] = caller[c].began

SpacedInv == \A o \in Order : Spaced(o)

\* The delays and the clock are numbers.
LEMMA Numbers ==
  ASSUME TypeOK
  PROVE  /\ now \in Nat /\ \A o \in Order : asked[o] \in Int
         /\ MinCooldown \in Nat /\ MaxCooldown \in Nat /\ Ttl \in Nat
         /\ MinCooldown <= Ttl
  BY CapAssumption, DelayAssumption, TtlAssumption DEF TypeOK, Never

\* Looking an entry up, or leaving it alone, keeps what is known of its order.
LEMMA SpacedStays ==
  ASSUME TypeOK, TypeOK', NEW o \in Order, Spaced(o), asked'[o] = asked[o],
         now' \in {now, now + 1},
         \/ entries'[o] = entries[o]
         \/ entries[o] # NoEntry /\ entries'[o] = [entries[o] EXCEPT !.touched = now],
         \A c \in Caller : caller'[c].pc = "query" => caller'[c] = caller[c]
  PROVE  Spaced(o)'
  <1>1. CASE entries'[o] = entries[o]
    BY <1>1, Numbers DEF Spaced, AtRest, TypeOK
  <1>2. CASE entries[o] # NoEntry /\ entries'[o] = [entries[o] EXCEPT !.touched = now]
    <2>1. entries[o] \in Entry
      BY <1>2, HeldIsEntry
    <2>2. /\ entries'[o].touched = now /\ entries'[o].next = entries[o].next
          /\ entries'[o].attempts = entries[o].attempts
          /\ entries'[o].flight = entries[o].flight
      BY <1>2, <2>1 DEF Entry
    <2>3. entries'[o] # NoEntry
      <3>1. entries'[o] \in Entry
        BY <1>2, <2>1, Numbers DEF Entry
      <3> QED
        BY <3>1, NoEntryIsNone
    <2> QED
      BY <1>2, <2>2, <2>3, Numbers DEF Spaced, AtRest, TypeOK
  <1> QED
    BY <1>1, <1>2

\* An entry that expired was asked about longer ago than a cooldown.
LEMMA SpacedDropped ==
  ASSUME GateInv, NEW o \in Order, Spaced(o), AtRest(o), entries'[o] = NoEntry,
         asked'[o] = Never \/ (o \in Expired /\ asked'[o] = asked[o]), UNCHANGED now,
         \A c \in Caller : caller'[c].pc = "query" /\ caller'[c].o = o
                             => caller'[c] = caller[c]
  PROVE  Spaced(o)'
  <1> USE DEF GateInv
  <1>1. entries[o] \in Entry /\ entries[o].touched \in Nat
    BY HeldIsEntry DEF AtRest, Entry
  <1>2. \A c \in Caller : ~ (caller'[c].pc = "query" /\ caller'[c].o = o)
    BY NobodyAssumption DEF FlightIsRunning, AtRest
  <1>3. CASE asked'[o] = Never
    BY <1>2, <1>3, Numbers DEF Spaced, AtRest, Never
  <1>4. CASE o \in Expired /\ asked'[o] = asked[o]
    BY <1>1, <1>2, <1>4, Numbers DEF Spaced, AtRest, Expired
  <1> QED
    BY <1>3, <1>4

\* A query that starts is the one its order was asked about last.
LEMMA SpacedStart ==
  ASSUME GateInv, GateInv', SpacedInv, NEW c \in Caller, NEW o \in Order, NEW mode \in Mode,
         Start(c, o, mode)
  PROVE  SpacedInv'
  <1> USE DEF GateInv
  <1>1. PICK table \in Looked(o) : /\ entries' = [table EXCEPT ![o].flight = c]
                                   /\ asked' = [AskedAfter(table) EXCEPT ![o] = now]
    BY DEF Start
  <1>2. /\ caller'[c] = [pc |-> "query", o |-> o, mode |-> mode, began |-> now]
        /\ \A d \in Caller \ {c} : caller'[d] = caller[d]
        /\ UNCHANGED now
    BY DEF Start, TypeOK
  <1>3. /\ table \in [Order -> Entry \cup {NoEntry}] /\ table[o] \in Entry
        /\ \A p \in Order \ {o} :
             table[p] = entries[p] \/ (AtRest(p) /\ table[p] = NoEntry)
    BY LookedKeeps
  <1>4. ASSUME NEW p \in Order \ {o}
        PROVE  Spaced(p)'
    <2>1. entries'[p] = table[p] /\ asked'[p] = AskedAfter(table)[p]
      BY <1>1, <1>3 DEF AskedAfter
    <2>2. CASE table[p] = entries[p]
      <3>1. entries'[p] = entries[p] /\ asked'[p] = asked[p]
        BY <2>1, <2>2 DEF AskedAfter
      <3>2. \A d \in Caller : caller'[d].pc = "query" /\ caller'[d].o = p
                               => caller'[d] = caller[d]
        BY <1>2
      <3> QED
        BY <1>2, <3>1, <3>2 DEF SpacedInv, Spaced, AtRest
    <2>3. CASE AtRest(p) /\ table[p] = NoEntry
      <3>1. entries'[p] = NoEntry
        BY <2>1, <2>3
      <3>2. asked'[p] = Never \/ (p \in Expired /\ asked'[p] = asked[p])
        BY <2>1, <2>3 DEF AskedAfter, AtRest
      <3> QED
        BY <1>2, <2>3, <3>1, <3>2, SpacedDropped DEF SpacedInv
    <2> QED
      BY <1>3, <2>2, <2>3
  <1>5. Spaced(o)'
    <2>1. entries'[o] = [table[o] EXCEPT !.flight = c] /\ asked'[o] = now
      BY <1>1, <1>3 DEF AskedAfter
    <2>2. table[o].touched = now
      <3>1. CASE entries[o] # NoEntry
        BY <3>1, HeldIsEntry DEF Looked, TypeOK, Entry
      <3>2. CASE entries[o] = NoEntry
        BY <3>2 DEF Looked, Without, NewEntry
      <3> QED
        BY <3>1, <3>2
    <2>3. /\ entries'[o].touched = now /\ entries'[o].flight = c
          /\ entries'[o] # NoEntry
      BY <1>3, <2>1, <2>2, NoEntryIsNone DEF Entry
    <2>4. \A d \in Caller : caller'[d].pc = "query" /\ caller'[d].o = o => d = c
      BY <2>3 DEF FlightIsRunning
    <2> QED
      BY <1>2, <2>1, <2>3, <2>4, Numbers, NobodyAssumption DEF Spaced, AtRest
  <1> QED
    BY <1>4, <1>5 DEF SpacedInv

\* A query that ends leaves its order alone for a cooldown, or paid.
LEMMA SpacedEnds ==
  ASSUME GateInv, GateInv', SpacedInv, NEW c \in Caller, Ends(c)
  PROVE  SpacedInv'
  <1> USE DEF GateInv
  <1>0. caller[c].pc = "query" /\ caller' = Resolve(c) /\ UNCHANGED now
    BY Zenon DEF Ends, Recovered, NotRecovered, Aborted
  <1>1. PICK o \in Order : o = caller[c].o
    BY <1>0, CallerKinds
  <1>2. /\ entries[o] \in Entry /\ entries[o].flight = c
        /\ caller[c].began \in Nat /\ asked[o] = caller[c].began
    BY <1>0, <1>1, CallerKinds, HeldIsEntry DEF FlightIsRunning, Query, SpacedInv, Spaced
  <1>3. /\ \A d \in Caller : caller'[d].pc = "query" => caller'[d] = caller[d] /\ d # c
    BY <1>0 DEF Resolve, Idle
  <1>4. \A d \in Caller : ~ (caller'[d].pc = "query" /\ caller'[d].o = o)
    BY <1>2, <1>3 DEF FlightIsRunning
  <1>5. ASSUME NEW p \in Order \ {o}
        PROVE  Spaced(p)'
    <2>1. entries'[p] = entries[p] /\ asked'[p] = asked[p]
      <3>1. CASE Recovered(c)
        BY <1>1, <3>1 DEF Recovered, Without, TypeOK
      <3>2. CASE NotRecovered(c)
        BY <1>1, <3>2 DEF NotRecovered, TypeOK
      <3>3. CASE Aborted(c)
        BY <1>1, <3>3 DEF Aborted, TypeOK
      <3> QED
        BY <3>1, <3>2, <3>3 DEF Ends
    <2> QED
      BY <1>0, <1>3, <2>1, SpacedStays DEF SpacedInv
  <1>6. CASE Recovered(c)
    <2>1. entries'[o] = NoEntry /\ asked'[o] = Never
      BY <1>1, <1>6 DEF Recovered, Without, TypeOK
    <2> QED
      BY <1>0, <1>4, <1>5, <2>1, Numbers DEF SpacedInv, Spaced, AtRest, Never
  <1>7. CASE NotRecovered(c) \/ Aborted(c)
    <2>0. More(entries[o].attempts) \in 0..3
      BY <1>2 DEF More, Entry
    <2>1. /\ UNCHANGED asked /\ entries'[o].touched = entries[o].touched
          /\ entries'[o].attempts \in 0..3
          /\ entries'[o].attempts = 3
               => entries'[o].next >= caller[c].began + MinCooldown
      <3>1. CASE NotRecovered(c)
        <4> DEFINE n == More(entries[o].attempts)
                   first == IF entries[o].first = Never THEN caller[c].began
                            ELSE entries[o].first
        <4>1. PICK d \in NextDelay(caller[c], n, first) :
                entries' = [entries EXCEPT ![o] =
                  [@ EXCEPT !.attempts = n, !.first = first, !.flight = Nobody,
                            !.next = caller[c].began + d]]
          BY <1>1, <3>1, Zenon DEF NotRecovered
        <4>2. n = 3 => d \in Nat /\ d >= MinCooldown
          BY Numbers DEF NextDelay
        <4> HIDE DEF n, first
        <4>3. /\ entries'[o].attempts = n /\ entries'[o].touched = entries[o].touched
              /\ entries'[o].next = caller[c].began + d
          BY <1>2, <4>1 DEF TypeOK, Entry
        <4> QED
          BY <1>2, <2>0, <3>1, <4>2, <4>3, Numbers DEF NotRecovered, n
      <3>2. CASE Aborted(c)
        <4>1. PICK d \in MinCooldown..MaxCooldown :
                entries' = [entries EXCEPT ![o] = Released(@, caller[c].began + d)]
          BY <1>1, <3>2, Zenon DEF Aborted
        <4>2. /\ entries'[o].touched = entries[o].touched
              /\ entries'[o].next = caller[c].began + d
              /\ entries'[o].attempts = More(entries[o].attempts)
          BY <1>2, <4>1 DEF TypeOK, Entry, Released
        <4> QED
          BY <1>2, <2>0, <3>2, <4>1, <4>2, Numbers DEF Aborted
      <3> QED
        BY <1>7, <3>1, <3>2
    <2>2. entries'[o] # NoEntry /\ entries[o] # NoEntry
      BY <1>2, <2>1, NoEntryIsNone DEF NoEntry
    <2>3. Spaced(o)
      BY DEF SpacedInv
    <2>4. Spaced(o)'
      BY <1>0, <1>2, <1>4, <2>1, <2>2, <2>3, Numbers DEF Spaced, AtRest
    <2> QED
      BY <1>5, <2>4 DEF SpacedInv
  <1> QED
    BY <1>6, <1>7 DEF Ends

\* Every step keeps the queries of an order apart.
LEMMA SpacedNext ==
  ASSUME GateInv, GateInv', SpacedInv, [Next]_vars
  PROVE  SpacedInv'
  <1> USE DEF GateInv
  <1>1. ASSUME NEW c \in Caller, NEW o \in Order, NEW mode \in Mode,
               Join(c, o, mode) \/ SkipCooldown(c, o, mode)
        PROVE  SpacedInv'
    <2>1. entries' = [entries EXCEPT ![o].touched = now] /\ entries[o] # NoEntry
      BY <1>1 DEF Join, SkipCooldown, AtRest, Looked
    <2>2. UNCHANGED <<now, asked>>
      BY <1>1 DEF Join, SkipCooldown
    <2>3. \A d \in Caller : caller'[d].pc = "query" => caller'[d] = caller[d]
      BY <1>1 DEF Join, SkipCooldown, TypeOK
    <2>4. \A p \in Order : \/ entries'[p] = entries[p]
                           \/ /\ entries[p] # NoEntry
                              /\ entries'[p] = [entries[p] EXCEPT !.touched = now]
      BY <2>1 DEF TypeOK
    <2> QED
      BY <2>2, <2>3, <2>4, SpacedStays DEF SpacedInv
  <1>2. ASSUME NEW c \in Caller, NEW o \in Order, NEW mode \in Mode, Start(c, o, mode)
        PROVE  SpacedInv'
    BY <1>2, SpacedStart
  <1>3. ASSUME NEW c \in Caller, Ends(c)
        PROVE  SpacedInv'
    BY <1>3, SpacedEnds
  <1>4. ASSUME NEW c \in Caller, JoinerCancelled(c)
        PROVE  SpacedInv'
    <2>1. UNCHANGED <<entries, now, asked>>
          /\ \A d \in Caller : caller'[d].pc = "query" => caller'[d] = caller[d]
      BY <1>4 DEF JoinerCancelled, TypeOK, Idle
    <2> QED
      BY <2>1, SpacedStays DEF SpacedInv
  <1>5. CASE SweepExpired
    <2>1. UNCHANGED <<caller, now, asked>> /\ entries' = Without(Expired)
      BY <1>5 DEF SweepExpired
    <2>2. ASSUME NEW p \in Order
          PROVE  Spaced(p)'
      <3>1. CASE p \in Expired
        BY <2>1, <3>1, SpacedDropped DEF Without, Expired, SpacedInv
      <3>2. CASE p \notin Expired
        <4>1. entries'[p] = entries[p]
          BY <2>1, <3>2 DEF Without
        <4> QED
          BY <2>1, <4>1, SpacedStays DEF SpacedInv
      <3> QED
        BY <3>1, <3>2
    <2> QED
      BY <2>2 DEF SpacedInv
  <1>6. CASE Tick \/ UNCHANGED vars
    <2>1. UNCHANGED <<entries, caller, asked>> /\ now' \in {now, now + 1}
      BY <1>6 DEF Tick, vars
    <2> QED
      BY <2>1, SpacedStays DEF SpacedInv
  <1> QED
    BY <1>1, <1>2, <1>3, <1>4, <1>5, <1>6 DEF Next

\* What a step that starts a query must keep.
SpacedStarts ==
  \A c \in Caller : Starts(c) =>
    LET o == caller'[c].o
    IN asked[o] = Never \/ entries[o].attempts \in {0, 1, 2}
         \/ now - asked[o] >= MinCooldown

\* A query is only started when it is due.
LEMMA StartsAreSpaced ==
  ASSUME GateInv, SpacedInv, [Next]_vars
  PROVE  SpacedStarts
  <1> USE DEF GateInv
  <1> SUFFICES ASSUME NEW c \in Caller, Starts(c)
               PROVE  LET o == caller'[c].o
                      IN asked[o] = Never \/ entries[o].attempts \in {0, 1, 2}
                           \/ now - asked[o] >= MinCooldown
    BY DEF SpacedStarts
  <1>1. caller[c].pc = "idle" /\ caller'[c].pc = "query" /\ ~ Forces(caller'[c].mode)
    BY DEF Starts
  <1>2. PICK o \in Order, mode \in Mode : Start(c, o, mode)
    <2>1. ASSUME NEW d \in Caller, NEW o \in Order, NEW mode \in Mode,
                 Join(d, o, mode) \/ SkipCooldown(d, o, mode)
          PROVE  FALSE
      BY <1>1, <2>1 DEF Join, SkipCooldown, TypeOK
    <2>2. ASSUME NEW d \in Caller, Ends(d)
          PROVE  FALSE
      <3>1. caller' = Resolve(d)
        BY <2>2, Zenon DEF Ends, Recovered, NotRecovered, Aborted
      <3> QED
        BY <1>1, <3>1 DEF Resolve, Idle
    <2>3. ASSUME NEW d \in Caller, JoinerCancelled(d)
          PROVE  FALSE
      BY <1>1, <2>3 DEF JoinerCancelled, TypeOK, Idle
    <2>4. ~ UNCHANGED caller
      BY <1>1
    <2>5. ASSUME NEW d \in Caller, NEW o \in Order, NEW mode \in Mode, Start(d, o, mode)
          PROVE  d = c
      BY <1>1, <2>5 DEF Start, TypeOK
    <2> QED
      BY <2>1, <2>2, <2>3, <2>4, <2>5 DEF Next, vars, SweepExpired, Tick
  <1>3. caller'[c].o = o /\ caller'[c].mode = mode
    BY <1>2 DEF Start, TypeOK
  <1>4. PICK table \in Looked(o) : table[o].flight = Nobody /\ now >= table[o].next
    BY <1>1, <1>2, <1>3 DEF Start
  <1>5. Spaced(o)
    BY DEF SpacedInv
  <1>6. CASE entries[o] = NoEntry
    BY <1>3, <1>5, <1>6 DEF Spaced
  <1>7. CASE entries[o] # NoEntry
    <2>1. entries[o] \in Entry
      BY <1>7, HeldIsEntry
    <2>2. table[o].next = entries[o].next /\ table[o].flight = entries[o].flight
      BY <1>7, <2>1 DEF Looked, TypeOK, Entry
    <2>3. entries[o].attempts \in {0, 1, 2} \/ entries[o].attempts = 3
      BY <2>1 DEF Entry
    <2>4. entries[o].next \in Nat
      BY <2>1 DEF Entry
    <2> QED
      BY <1>3, <1>4, <1>5, <1>7, <2>2, <2>3, <2>4, Numbers DEF Spaced, AtRest
  <1> QED
    BY <1>6, <1>7

\* wxpay_recovery_gate.py: an order whose first attempts are used up is asked about
\* at most once a cooldown, unless a cancellation forces it, and neither a sweep,
\* an eviction of an expired entry nor a cancelled query resets the clock.
THEOREM QueriesAreSpaced == Spec => QueriesSpaced
  <1>1. Init => SpacedInv
    BY CapAssumption DEF Init, SpacedInv, Spaced, AtRest, Idle, Never
  <1>2. GateInv /\ GateInv' /\ SpacedInv /\ [Next]_vars => SpacedInv'
    BY SpacedNext
  <1>3. GateInv /\ SpacedInv /\ [Next]_vars => [SpacedStarts]_vars
    BY StartsAreSpaced
  <1>4. QueriesSpaced <=> [][SpacedStarts]_vars
    BY PTL DEF QueriesSpaced, SpacedStarts
  <1> QED
    BY <1>1, <1>2, <1>3, <1>4, GateInvariant, PTL DEF Spec

(***************************************************************************)
(* The gate implements SingleQuery                                         *)
(***************************************************************************)

SingleStep == [Single!Next]_(Single!vars)

\* One order's callers change.
LEMMA OneSetChanged ==
  ASSUME NEW F \in [Order -> SUBSET Caller], NEW G \in [Order -> SUBSET Caller],
         NEW o \in Order, NEW s,
         \A p \in Order : G[p] = IF p = o THEN s ELSE F[p]
  PROVE  G = [F EXCEPT ![o] = s]
  OBVIOUS

\* The mapped variables are functions to sets of callers, now and after a step.
LEMMA SetsOfCallers ==
  /\ Running \in [Order -> SUBSET Caller] /\ Joined \in [Order -> SUBSET Caller]
  /\ Running' \in [Order -> SUBSET Caller] /\ Joined' \in [Order -> SUBSET Caller]
  BY DEF Running, Joined

\* A step that changes who does what for no caller.
LEMMA CallersKept ==
  ASSUME UNCHANGED caller
  PROVE  SingleStep
  BY DEF SingleStep, Single!vars, Running, Joined

\* An idle caller neither queries nor waits.
LEMMA IdleIsFree ==
  ASSUME NEW c \in Caller, caller[c] = Idle
  PROVE  Single!Free(c)
  BY DEF Single!Free, Running, Joined, Idle

\* Asking the gate is joining, beginning a query, or nothing.
LEMMA AskIsSingle ==
  ASSUME GateInv, NEW c \in Caller, NEW o \in Order, NEW mode \in Mode,
         Join(c, o, mode) \/ SkipCooldown(c, o, mode) \/ Start(c, o, mode)
  PROVE  SingleStep
  <1>t. TypeOK /\ FlightIsRunning
    BY DEF GateInv
  <1>i. caller[c] = Idle /\ caller[c].pc = "idle" /\ Single!Free(c)
    BY IdleIsFree DEF Join, SkipCooldown, Start, Idle
  <1>1. CASE UNCHANGED caller
    BY <1>1, CallersKept
  <1>2. CASE Join(c, o, mode) /\ caller' # caller
    <2>1. \A d \in Caller :
            caller'[d] = IF d = c THEN [pc |-> "wait", o |-> o] ELSE caller[d]
      BY <1>t, <1>2 DEF Join, TypeOK
    <2>2. PICK d \in Caller : caller[d].pc = "query" /\ caller[d].o = o
      BY <1>t, <1>2, HeldIsEntry DEF Join, FlightIsRunning, Entry
    <2>3. Running[o] # {}
      BY <2>2 DEF Running
    <2>4. Running' = Running
      BY <1>i, <2>1 DEF Running
    <2>5. \A p \in Order : Joined'[p] = IF p = o THEN Joined[p] \cup {c} ELSE Joined[p]
      BY <1>i, <2>1 DEF Joined
    <2>6. Joined' = [Joined EXCEPT ![o] = @ \cup {c}]
      BY <2>5, OneSetChanged, SetsOfCallers
    <2>7. Single!Join(c, o)
      BY <1>i, <2>3, <2>4, <2>6 DEF Single!Join
    <2> QED
      BY <2>7 DEF SingleStep, Single!Next
  <1>3. CASE Start(c, o, mode)
    <2>1. \A d \in Caller :
            IF d = c THEN caller'[d].pc = "query" /\ caller'[d].o = o ELSE caller'[d] = caller[d]
      BY <1>t, <1>3 DEF Start, TypeOK
    <2>2. PICK table \in Looked(o) : table[o].flight = Nobody
      BY <1>3 DEF Start
    <2>3. entries[o] = NoEntry \/ entries[o].flight = Nobody
      BY <1>t, <2>2, LookedKeeps
    <2>4. Running[o] = {}
      BY <1>t, <2>3, NobodyAssumption DEF FlightIsRunning, Running
    <2>5. \A p \in Order : Running'[p] = IF p = o THEN {c} ELSE Running[p]
      <3>1. Running'[o] = {c}
        <4>1. \A d \in Caller : ~ (caller[d].pc = "query" /\ caller[d].o = o)
          BY <2>4 DEF Running
        <4> QED
          BY <2>1, <4>1 DEF Running
      <3>2. \A p \in Order \ {o} : Running'[p] = Running[p]
        BY <1>i, <2>1 DEF Running
      <3> QED
        BY <3>1, <3>2
    <2>6. Running' = [Running EXCEPT ![o] = {c}]
      BY <2>5, OneSetChanged, SetsOfCallers
    <2>7. Joined' = Joined
      BY <1>i, <2>1 DEF Joined
    <2>8. Single!Begin(c, o)
      BY <1>i, <2>4, <2>6, <2>7 DEF Single!Begin
    <2> QED
      BY <2>8 DEF SingleStep, Single!Next
  <1> QED
    BY <1>1, <1>2, <1>3 DEF SkipCooldown

\* The end of a query, whatever it is, answers everybody who joined it.
LEMMA EndsIsSingle ==
  ASSUME GateInv, NEW c \in Caller, Ends(c)
  PROVE  SingleStep
  <1> DEFINE o == caller[c].o
  <1>t. TypeOK /\ FlightIsRunning
    BY DEF GateInv
  <1>1. caller[c].pc = "query" /\ caller' = Resolve(c)
    BY Zenon DEF Ends, Recovered, NotRecovered, Aborted
  <1>2. o \in Order
    BY <1>t, <1>1, CallerKinds
  <1>3. \A d \in Caller : caller[d].pc = "query" /\ caller[d].o = o => d = c
    BY <1>t, <1>1, <1>2 DEF FlightIsRunning
  <1>4. \A d \in Caller :
          caller'[d] = IF d = c \/ (caller[d].pc = "wait" /\ caller[d].o = o)
                       THEN Idle ELSE caller[d]
    BY <1>1 DEF Resolve
  <1>5. \A p \in Order : Running'[p] = IF p = o THEN {} ELSE Running[p]
    BY <1>3, <1>4 DEF Running, Idle
  <1>6. \A p \in Order : Joined'[p] = IF p = o THEN {} ELSE Joined[p]
    BY <1>1, <1>4 DEF Joined, Idle
  <1>7. Running[o] # {}
    BY <1>1, <1>2 DEF Running
  <1>8. /\ Running' = [Running EXCEPT ![o] = {}]
        /\ Joined' = [Joined EXCEPT ![o] = {}]
    BY <1>2, <1>5, <1>6, OneSetChanged, SetsOfCallers
  <1>9. Single!Answer(o)
    BY <1>7, <1>8 DEF Single!Answer
  <1> QED
    BY <1>2, <1>9 DEF SingleStep, Single!Next

\* A joiner that is cancelled leaves alone.
LEMMA LeavingIsSingle ==
  ASSUME GateInv, NEW c \in Caller, JoinerCancelled(c)
  PROVE  SingleStep
  <1> DEFINE o == caller[c].o
  <1>1. caller[c].pc = "wait" /\ o \in Order
    BY CallerKinds DEF GateInv, JoinerCancelled
  <1>2. \A d \in Caller : caller'[d] = IF d = c THEN Idle ELSE caller[d]
    BY DEF JoinerCancelled, GateInv, TypeOK
  <1>3. Running' = Running
    BY <1>1, <1>2 DEF Running, Idle
  <1>4. \A p \in Order : Joined'[p] = IF p = o THEN Joined[p] \ {c} ELSE Joined[p]
    BY <1>1, <1>2 DEF Joined, Idle
  <1>5. Joined' = [Joined EXCEPT ![o] = @ \ {c}]
    BY <1>1, <1>4, OneSetChanged, SetsOfCallers
  <1>6. c \in Joined[o]
    BY <1>1 DEF Joined
  <1>7. Single!Leave(c, o)
    BY <1>3, <1>5, <1>6 DEF Single!Leave
  <1> QED
    BY <1>1, <1>7 DEF SingleStep, Single!Next

\* wxpay_recovery_gate.py: whatever its dictionary forgets and however its queries
\* end, the gate lets one query of an order run and answers all who joined it.
THEOREM GateIsSingleQuery == Spec => ImplementsSingleQuery
  <1>1. Init => Single!Init
    BY DEF Init, Single!Init, Single!Nowhere, Running, Joined, Idle
  <1>2. ASSUME GateInv, [Next]_vars
        PROVE  SingleStep
    <2>1. CASE SweepExpired \/ Tick \/ UNCHANGED vars
      BY <2>1, CallersKept DEF SweepExpired, Tick, vars
    <2> QED
      BY <1>2, <2>1, AskIsSingle, EndsIsSingle, LeavingIsSingle DEF Next
  <1>3. GateInv /\ [Next]_vars => [Single!Next]_(Single!vars)
    BY <1>2 DEF SingleStep
  <1> QED
    BY <1>1, <1>3, GateInvariant, PTL DEF Spec, Single!Spec, ImplementsSingleQuery
=============================================================================
