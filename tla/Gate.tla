-------------------------------- MODULE Gate --------------------------------
(***************************************************************************)
(* The gate before every expensive route (src/ratelimit.ts): a bucket of   *)
(* tokens per caller, and slots for the requests that are under way.       *)
(* Tokens are counted in ticks: a bucket gains one unit a tick, a pass     *)
(* costs Cost units, and Burst units are a full bucket.                    *)
(***************************************************************************)
EXTENDS Integers, FiniteSets

CONSTANTS
  Caller,        \* what clientKey returns
  Burst,         \* limit.burst passes
  Cost,          \* one pass: 60 seconds over limit.perMinute
  EvictAfter,    \* EVICT_AFTER_MS
  MaxInFlight,   \* limit.maxInFlight
  MaxRequests,   \* bound: requests
  MaxTime        \* bound: time

\* A bucket fills sooner than it is dropped: ten minutes against at most thirty seconds.
ASSUME GateAssumption ==
  /\ Burst \in Nat /\ Cost \in Nat /\ EvictAfter \in Nat /\ MaxInFlight \in Nat
  /\ MaxRequests \in Nat /\ MaxTime \in Nat
  /\ Cost > 0 /\ Burst <= EvictAfter

VARIABLES
  now,        \* Date.now()
  buckets,    \* per caller: tokens and updatedAt, or NoBucket
  inFlight,   \* the count of slots taken
  passes,     \* per request: none, held or released
  window      \* an observer: one caller's spending since one moment

gateVars == <<now, buckets, inFlight, passes, window>>

Request == 1..MaxRequests
NoBucket == [tokens |-> Burst, updatedAt |-> -1]
NoWindow == [of |-> "none", since |-> 0, spent |-> 0]

Least(a, b) == IF a <= b THEN a ELSE b

---------------------------------------------------------------------------
\* Defect for the checks: a bucket is dropped before it is full again.
SweptEarly(c) == buckets[c].updatedAt >= 0 /\ now - buckets[c].updatedAt > 1

\* sweep: what has been idle for long is dropped, of every caller.
Swept(c) == buckets[c].updatedAt >= 0 /\ now - buckets[c].updatedAt > EvictAfter

\* The bucket enter() works on: a new one is full.
Bucket(c) ==
  IF Swept(c) \/ buckets[c].updatedAt < 0 THEN [tokens |-> Burst, updatedAt |-> now] ELSE buckets[c]

Refilled(c) == Least(Burst, Bucket(c).tokens + (now - Bucket(c).updatedAt))

\* Every call sweeps, and stores the refill.
Store(c, tokens) ==
  buckets' = [d \in Caller |-> IF d = c THEN [tokens |-> tokens, updatedAt |-> now]
                               ELSE IF Swept(d) THEN NoBucket ELSE buckets[d]]

Spend(c) ==
  window' = IF window.of = c THEN [window EXCEPT !.spent = @ + Cost] ELSE window

\* enter: too many requests of this caller.
RefusedForRate(c) ==
  /\ Refilled(c) < Cost
  /\ Store(c, Refilled(c))
  /\ UNCHANGED <<now, inFlight, passes, window>>

\* enter: too many under way; the caller is not charged.
RefusedAsBusy(c) ==
  /\ Refilled(c) >= Cost /\ inFlight >= MaxInFlight
  /\ Store(c, Refilled(c))
  /\ UNCHANGED <<now, inFlight, passes, window>>

\* enter: a pass.
Passes(c, r) ==
  /\ passes[r] = "none"
  /\ Refilled(c) >= Cost /\ inFlight < MaxInFlight
  /\ Store(c, Refilled(c) - Cost) /\ Spend(c)
  /\ inFlight' = inFlight + 1
  /\ passes' = [passes EXCEPT ![r] = "held"]
  /\ UNCHANGED now

\* release, which whoever holds the pass may call more than once.
Release(r) ==
  /\ passes[r] # "none"
  /\ inFlight' = IF passes[r] = "held" THEN inFlight - 1 ELSE inFlight
  /\ passes' = [passes EXCEPT ![r] = "released"]
  /\ UNCHANGED <<now, buckets, window>>

Passing == now < MaxTime /\ now' = now + 1 /\ UNCHANGED <<buckets, inFlight, passes, window>>

\* The observer starts to count, once.
Watch(c) ==
  /\ window = NoWindow
  /\ window' = [of |-> c, since |-> now, spent |-> 0]
  /\ UNCHANGED <<now, buckets, inFlight, passes>>

GateInit ==
  /\ now = 0 /\ inFlight = 0 /\ window = NoWindow
  /\ buckets = [c \in Caller |-> NoBucket]
  /\ passes = [r \in Request |-> "none"]

NextRequest == {r \in Request : passes[r] = "none" /\ \A q \in 1..(r - 1) : passes[q] # "none"}

Enter(c) == RefusedForRate(c) \/ RefusedAsBusy(c) \/ \E r \in NextRequest : Passes(c, r)

GateNext ==
  \/ \E c \in Caller : Enter(c) \/ Watch(c)
  \/ \E r \in Request : Release(r)
  \/ Passing

GateSpec == GateInit /\ [][GateNext]_gateVars

---------------------------------------------------------------------------
(* Properties.                                                             *)

\* Whatever a caller does, retries, idles, is dropped from the map and comes back, it is
\* let through in any stretch of time no more than a full bucket and what that stretch
\* refills.
NoCallerOutspendsItsRate == window.of \in Caller => window.spent <= Burst + (now - window.since)

\* The slots that count as taken are those of the passes that are held, so that the limit
\* neither creeps down with passes that are lost nor up with passes given back twice
\* (ratelimit.ts 142-152).
SlotsAreOfPasses == inFlight = Cardinality({r \in Request : passes[r] = "held"})
=============================================================================
