------------------------------ MODULE SingleQuery ------------------------------
(***************************************************************************)
(* What the recovery gate promises its callers, with no dictionary, clock, *)
(* cooldown or future: for each order one query runs at a time, a caller   *)
(* may join it, and its end answers everybody who did.                     *)
(***************************************************************************)
CONSTANTS Order, Caller

VARIABLES
  runs,   \* the callers whose query for an order is in flight
  waits   \* the callers who joined it

vars == <<runs, waits>>

Nowhere == [o \in Order |-> {}]

Init == runs = Nowhere /\ waits = Nowhere

Free(c) == \A o \in Order : c \notin runs[o] \cup waits[o]

Begin(c, o) ==
  /\ Free(c)
  /\ runs[o] = {}
  /\ runs' = [runs EXCEPT ![o] = {c}]
  /\ UNCHANGED waits

Join(c, o) ==
  /\ Free(c)
  /\ runs[o] # {}
  /\ waits' = [waits EXCEPT ![o] = @ \cup {c}]
  /\ UNCHANGED runs

\* The query ends, with an answer or without one.
Answer(o) ==
  /\ runs[o] # {}
  /\ runs' = [runs EXCEPT ![o] = {}]
  /\ waits' = [waits EXCEPT ![o] = {}]

\* Whoever joined may be cancelled; the query goes on.
Leave(c, o) ==
  /\ c \in waits[o]
  /\ waits' = [waits EXCEPT ![o] = @ \ {c}]
  /\ UNCHANGED runs

\* The process that keeps the gate in its memory restarts.
Restart == runs' = Nowhere /\ waits' = Nowhere

Next ==
  \/ \E o \in Order :
       \/ \E c \in Caller : Begin(c, o) \/ Join(c, o) \/ Leave(c, o)
       \/ Answer(o)
  \/ Restart

Spec == Init /\ [][Next]_vars
=============================================================================
