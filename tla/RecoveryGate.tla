----------------------------- MODULE RecoveryGate -----------------------------
(***************************************************************************)
(* wxpay_recovery_gate.py: the one entry point of every provider query for *)
(* a pending order.  Its state is a dictionary of one process; every       *)
(* action here is what one coroutine does between two awaits.              *)
(*                                                                         *)
(* OrderPayment uses the gate through what is checked here: one query at a *)
(* time per order, and whoever joined it is answered.                      *)
(***************************************************************************)
EXTENDS Integers, FiniteSets

CONSTANTS
  Order,        \* order ids
  Caller,       \* coroutines that ask the gate
  Nobody,       \* no future is in flight
  MaxEntries,   \* DEFAULT_MAX_ENTRIES
  Ttl,          \* DEFAULT_TTL_SECONDS
  SecondTry,    \* _FAST_LANE_DELAYS[1], after the first attempt
  ThirdTry,     \* _FAST_LANE_DELAYS[2]
  MinCooldown,  \* _TIER_2_5_MIN_COOLDOWN
  MaxCooldown,  \* _TIER_10_PLUS_MIN_COOLDOWN
  MaxTime       \* bound on the clock

ASSUME NobodyAssumption == Nobody \notin Caller
ASSUME CallerAssumption == IsFiniteSet(Caller)
ASSUME CapAssumption == MaxEntries \in Nat \ {0} /\ MaxTime \in Nat
ASSUME DelayAssumption ==
  /\ SecondTry \in Nat /\ ThirdTry \in Nat /\ SecondTry < ThirdTry
  /\ MinCooldown \in Nat /\ MaxCooldown \in Nat
  /\ ThirdTry < MinCooldown /\ MinCooldown <= MaxCooldown
ASSUME TtlAssumption == Ttl \in Nat /\ MaxCooldown <= Ttl

VARIABLES
  entries,  \* _entries: the gate's entry of each order, or NoEntry
  caller,   \* what each coroutine is doing
  now,      \* time.monotonic()
  asked     \* when the last query of each order started (history)

vars == <<entries, caller, now, asked>>

Never == -1

\* attempt_count, saturated where _next_delay stops looking at it.
Entry == [next : Nat, first : Nat \cup {Never}, touched : Nat, attempts : 0..3,
          flight : Caller \cup {Nobody}]
NoEntry == [attempts |-> -1]

\* What a caller asks for: a cancellation forces, background polling does not
\* wait, a client's poll waits, on the fast lane while its order is young.
Mode == {"force", "plain", "poll", "fastpoll"}

Idle == [pc |-> "idle"]
Query == [pc : {"query"}, o : Order, mode : Mode, began : Nat]
Wait == [pc : {"wait"}, o : Order]

Held == {o \in Order : entries[o] # NoEntry}

TypeOK ==
  /\ entries \in [Order -> Entry \cup {NoEntry}]
  /\ caller \in [Caller -> Query \cup Wait \cup {Idle}]
  /\ now \in 0..MaxTime
  /\ asked \in [Order -> Nat \cup {Never}]

Init ==
  /\ entries = [o \in Order |-> NoEntry]
  /\ caller = [c \in Caller |-> Idle]
  /\ now = 0
  /\ asked = [o \in Order |-> Never]

-----------------------------------------------------------------------------
(* The dictionary *)

\* Mutant: an entry is swept although its query runs.
AtRestAlways(o) == entries[o] # NoEntry

\* No query of order o is in flight, so its entry may be dropped.
AtRest(o) == entries[o] # NoEntry /\ entries[o].flight = Nobody

\* Mutant: the TTL is forgotten.
ExpiredSoon == {o \in Order : AtRest(o) /\ now - entries[o].touched > 0}

Expired == {o \in Order : AtRest(o) /\ now - entries[o].touched > Ttl}

\* The entries touched longest ago; equally old ones in any order.
Oldest == {o \in Order : AtRest(o) /\
             \A p \in Order : AtRest(p) => entries[o].touched <= entries[p].touched}

\* Mutant: a full dictionary is not swept.
RoomNone == {{}}

\* _get_or_create on a full dictionary: the sets of entries it may drop.
Room ==
  IF Cardinality(Held) < MaxEntries THEN {{}}
  ELSE IF Expired # {} THEN {Expired}
  ELSE IF Oldest # {} THEN {{o} : o \in Oldest} ELSE {{}}

NewEntry == [next |-> 0, first |-> Never, touched |-> now, attempts |-> 0,
             flight |-> Nobody]

Without(gone) == [o \in Order |-> IF o \in gone THEN NoEntry ELSE entries[o]]

\* The dictionary as _get_or_create leaves it.
Looked(o) ==
  IF entries[o] # NoEntry THEN {[entries EXCEPT ![o].touched = now]}
  ELSE {[Without(gone) EXCEPT ![o] = NewEntry] : gone \in Room}

\* History: eviction to make room is meant to forget when an order was asked.
AskedAfter(table) ==
  [o \in Order |-> IF entries[o] # NoEntry /\ table[o] = NoEntry /\ o \notin Expired
                   THEN Never ELSE asked[o]]

-----------------------------------------------------------------------------
(* attempt_recovery up to its await *)

Waits(mode) == mode # "plain"
Forces(mode) == mode = "force"

\* Somebody's query runs: wait for its future, or go away without an answer.
Join(c, o, mode) ==
  /\ caller[c] = Idle
  /\ entries[o] # NoEntry /\ entries[o].flight # Nobody
  /\ entries' \in Looked(o)
  /\ caller' = IF Waits(mode) THEN [caller EXCEPT ![c] = [pc |-> "wait", o |-> o]]
               ELSE caller
  /\ UNCHANGED <<now, asked>>

\* Too soon after the query before.
SkipCooldown(c, o, mode) ==
  /\ caller[c] = Idle
  /\ AtRest(o) /\ ~ Forces(mode) /\ now < entries[o].next
  /\ entries' \in Looked(o)
  /\ UNCHANGED <<caller, now, asked>>

Start(c, o, mode) ==
  /\ caller[c] = Idle
  /\ \E table \in Looked(o) :
       /\ table[o].flight = Nobody
       /\ Forces(mode) \/ now >= table[o].next
       /\ entries' = [table EXCEPT ![o].flight = c]
       /\ asked' = [AskedAfter(table) EXCEPT ![o] = now]
  /\ caller' = [caller EXCEPT ![c] =
                  [pc |-> "query", o |-> o, mode |-> mode, began |-> now]]
  /\ UNCHANGED now

-----------------------------------------------------------------------------
(* attempt_recovery after its await *)

\* Mutant: the future is dropped, not resolved.
ResolveNobody(c) == [caller EXCEPT ![c] = Idle]

\* set_result: the executor returns, and so does everybody who waits.
Resolve(c) ==
  [d \in Caller |-> IF d = c \/ (caller[d].pc = "wait" /\ caller[d].o = caller[c].o)
                    THEN Idle ELSE caller[d]]

More(n) == IF n < 3 THEN n + 1 ELSE 3

\* When attempt n + 1 is due, after the first.
FastDelay(n) == IF n = 1 THEN SecondTry ELSE ThirdTry

\* _next_delay: what is left of the schedule, else a cooldown of the age tiers.
NextDelay(job, n, first) ==
  LET left == first + FastDelay(n) - now
  IN IF job.mode = "fastpoll" /\ n < 3 /\ left > 0 THEN {left}
     ELSE MinCooldown..MaxCooldown

\* The payment was found: the entry is dropped.
Recovered(c) ==
  /\ caller[c].pc = "query"
  /\ entries' = Without({caller[c].o})
  /\ asked' = [asked EXCEPT ![caller[c].o] = Never]
  /\ caller' = Resolve(c)
  /\ UNCHANGED now

\* It was not; the delay counts from the time the query began.
NotRecovered(c) ==
  LET o == caller[c].o
      n == More(entries[o].attempts)
      first == IF entries[o].first = Never THEN caller[c].began ELSE entries[o].first
  IN /\ caller[c].pc = "query"
     /\ \E d \in NextDelay(caller[c], n, first) :
          entries' = [entries EXCEPT ![o] =
            [@ EXCEPT !.attempts = n, !.first = first, !.flight = Nobody,
                      !.next = caller[c].began + d]]
     /\ caller' = Resolve(c)
     /\ UNCHANGED <<now, asked>>

\* The entry of a query that was torn down.
Released(e, next) ==
  [e EXCEPT !.attempts = More(@), !.flight = Nobody, !.next = next]

\* The executor is cancelled, or the query raises: joiners get False.
Aborted(c) ==
  LET o == caller[c].o
  IN /\ caller[c].pc = "query"
     /\ \E d \in MinCooldown..MaxCooldown :
          entries' = [entries EXCEPT ![o] = Released(@, caller[c].began + d)]
     /\ caller' = Resolve(c)
     /\ UNCHANGED <<now, asked>>

\* A joiner is cancelled; the shield keeps the future out of it.
JoinerCancelled(c) ==
  /\ caller[c].pc = "wait"
  /\ caller' = [caller EXCEPT ![c] = Idle]
  /\ UNCHANGED <<entries, now, asked>>

\* sweep_expired, from the stale-order loop.
SweepExpired ==
  /\ Expired # {}
  /\ entries' = Without(Expired)
  /\ UNCHANGED <<caller, now, asked>>

Tick ==
  /\ now < MaxTime
  /\ now' = now + 1
  /\ UNCHANGED <<entries, caller, asked>>

Ends(c) == Recovered(c) \/ NotRecovered(c) \/ Aborted(c)

Next ==
  \/ \E c \in Caller :
       \/ \E o \in Order, mode \in Mode :
            Join(c, o, mode) \/ SkipCooldown(c, o, mode) \/ Start(c, o, mode)
       \/ Ends(c) \/ JoinerCancelled(c)
  \/ SweepExpired \/ Tick

Spec == Init /\ [][Next]_vars

-----------------------------------------------------------------------------

\* The entry says who queries, and nobody else does: no sweep, eviction,
\* cancellation or failure lets a second query of the same order start, or
\* leaves an order that can never be asked about again.
FlightIsRunning ==
  \A o \in Order, c \in Caller :
    caller[c].pc = "query" /\ caller[c].o = o
      <=> entries[o] # NoEntry /\ entries[o].flight = c

\* Whoever waits, waits for a query that runs.
WaitsForRunning ==
  \A c \in Caller : caller[c].pc = "wait" =>
    \E d \in Caller : caller[d].pc = "query" /\ caller[d].o = caller[c].o

\* The gate keeps what SingleQuery promises: through evictions, sweeps, failures
\* and cancellations (attempt_recovery) no query of an order starts while another
\* runs, and the end of a query answers whoever joined it, and nobody else.
Running == [o \in Order |-> {c \in Caller : caller[c].pc = "query" /\ caller[c].o = o}]
Joined == [o \in Order |-> {c \in Caller : caller[c].pc = "wait" /\ caller[c].o = o}]
Single == INSTANCE SingleQuery WITH runs <- Running, waits <- Joined
ImplementsSingleQuery == Single!Spec

\* The dictionary outgrows its cap only by queries that are in flight.
EntriesBounded ==
  \/ Cardinality(Held) <= MaxEntries
  \/ Cardinality(Held) <= Cardinality(Caller)

\* Once its first three attempts are used up, an order is not queried again
\* within a cooldown unless a cancellation forces it: neither a cancelled query,
\* a forced one nor an expired entry resets the clock.
Starts(c) == caller[c].pc = "idle" /\ caller'[c].pc = "query" /\ ~ Forces(caller'[c].mode)
QueriesSpaced ==
  [][\A c \in Caller : Starts(c) =>
       LET o == caller'[c].o
       IN asked[o] = Never \/ entries[o].attempts \in {0, 1, 2}
            \/ now - asked[o] >= MinCooldown]_vars

\* _FAST_LANE_DELAYS: attempt k + 1 is due SecondTry, ThirdTry after the first.
FastLaneOnSchedule ==
  [][\A c \in Caller : Starts(c) =>
       LET e == entries[caller'[c].o]
       IN e.attempts \in {1, 2} /\ e.first # Never => now >= e.first + FastDelay(e.attempts)]_vars
=============================================================================
