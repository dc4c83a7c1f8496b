--------------------------- MODULE BasketPlanner ---------------------------
(***************************************************************************)
(* From an allocation to a sized basket and the guard's verdict on it:     *)
(* planBasket of src/planner.ts and stages 5 and 6 of src/pipeline.ts.     *)
(*                                                                         *)
(* Pools are read asset by asset, the basket is sized against what was     *)
(* read, and every leg is asked about again against pools that have moved  *)
(* on.                                                                     *)
(***************************************************************************)
EXTENDS PoolQuotes, FiniteSetsExt, Functions, TLC

CONSTANTS
  Pools,       \* what an asset's venues can look like: a set of sequences
  Legs,        \* allocations: sequences of [asset, weightBps]
  Notional,    \* what the caller wants to spend
  Requested,   \* the impact limits callers ask for
  Report,      \* what the engine says of an asset, and the contract of it
  MaxDrifts    \* bound on the pools' movements

\* Prices, weights, scores and amounts are numbers.
ASSUME PlanAssumption ==
  /\ Pools \subseteq Venues /\ \A venues \in Pools : Shallow(venues)
  /\ \A l \in Legs : Len(l) \in Nat /\ DOMAIN l = 1..Len(l) /\ \A i \in DOMAIN l : l[i].weightBps \in Nat
  /\ Notional \subseteq Nat /\ Requested \subseteq Nat
  /\ Report \subseteq [fairValue : Nat, confidence : Nat, gapRisk : Nat, publishable : BOOLEAN,
                       chain : {"valued", "withheld", "unread", "none"}]

VARIABLES
  pools,       \* per asset, its venues now
  legs,        \* the allocation being planned
  notional,    \* and its total
  limit,       \* guardMaxBps of the run
  walked,      \* per asset read, in the order of the legs, the venues planBasket read
  lines,       \* per leg, what was allocated to it; empty until sized
  unallocated,
  verdicts,    \* per judged leg: venues read, report, fill size, price, reason
  drifts

planVars == <<pools, legs, notional, limit, walked, lines, unallocated, verdicts, drifts>>
---------------------------------------------------------------------------
(* The basket.  allocation is a map from assets, not from legs.            *)

Naive(leg, total) == (total * leg.weightBps) \div 10000

\* No leg is rewritten beyond twice its weight.
Ceiling(leg, total) == (total * leg.weightBps * 2) \div 10000

Take(leg, cap, current, freed, total) ==
  LET headroom == Smaller(cap, Ceiling(leg, total)) - current
  IN IF headroom <= 0 THEN 0 ELSE Smaller(headroom, freed)

\* Pass 2: cap every leg, then hand the freed capital to the legs in order.
Allocate(targets, caps, total) ==
  LET n == Len(targets)
      Capped(i) == Smaller(Naive(targets[i], total), caps[i])
      capped == [a \in {targets[i].asset : i \in 1..n} |->
                   Capped(Max({i \in 1..n : targets[i].asset = a}))]
      freed == SumFunction([i \in 1..n |-> Naive(targets[i], total) - Capped(i)])
      give[i \in 0..n] ==
        IF i = 0 THEN [allocation |-> capped, freed |-> freed]
        ELSE LET before == give[i - 1]
                 a == targets[i].asset
                 take == Take(targets[i], caps[i], before.allocation[a], before.freed, total)
             IN [allocation |-> [before.allocation EXCEPT ![a] = @ + take],
                 freed |-> before.freed - take]
  IN give[n]
---------------------------------------------------------------------------
PlanInit ==
  /\ legs \in Legs /\ notional \in Notional
  /\ pools \in [{legs[i].asset : i \in DOMAIN legs} -> Pools]
  /\ limit \in {Smaller(r, Mandate.maxImpactBps) : r \in Requested}
  /\ walked = <<>> /\ lines = <<>> /\ unallocated = 0 /\ verdicts = <<>> /\ drifts = 0

\* venuesByAsset is a map from assets: of two reads of one asset the last counts.
VenuesOf(i) == walked[Max({j \in DOMAIN walked : legs[j].asset = legs[i].asset})]

\* planBasket reads the next leg's pools.
Walk ==
  /\ Len(walked) < Len(legs)
  /\ walked' = Append(walked, pools[legs[Len(walked) + 1].asset])
  /\ UNCHANGED <<pools, legs, notional, limit, lines, unallocated, verdicts, drifts>>

\* It sizes the basket on what it read; each line shows its asset's allocation.
Size ==
  /\ Len(walked) = Len(legs) /\ lines = <<>>
  /\ LET caps == [i \in DOMAIN legs |-> Capacity(VenuesOf(i), PlanningLimit(limit))]
         sized == Allocate(legs, caps, notional)
     IN /\ lines' = [i \in DOMAIN legs |-> sized.allocation[legs[i].asset]]
        /\ unallocated' = sized.freed
  /\ UNCHANGED <<pools, legs, notional, limit, walked, verdicts, drifts>>

\* Stage 6: the next line's pools are read again, and the mirror is asked about its own
\* fill, of one whole USDG at least, at the price of the best quote.
Judge ==
  /\ lines # <<>> /\ Len(verdicts) < Len(lines)
  /\ LET i == Len(verdicts) + 1
         venues == pools[legs[i].asset]
         n == IF lines[i] > 1 THEN lines[i] ELSE 1
         Says(r, price, reason) ==
           verdicts' = Append(verdicts, [venues |-> venues, report |-> r, size |-> n,
                                         price |-> price, reason |-> reason])
     IN \E r \in Report :
          \/ Quoting(venues, n) = {} /\ Says(r, 0, "NO_DATA")
          \/ \E k \in Quoting(venues, n) :
               LET price == (n * Average(venues[k], n)) \div Consumed(venues[k], n)
               IN /\ Best(venues, n, k)
                  /\ Says(r, price, MirrorVerdict(Told(r), price, Impact(venues[k], n), limit))
  /\ UNCHANGED <<pools, legs, notional, limit, walked, lines, unallocated, drifts>>

\* An asset's pools move.
Drift ==
  /\ drifts < MaxDrifts /\ Len(verdicts) < Len(legs)
  /\ \E a \in DOMAIN pools, venues \in Pools : pools' = [pools EXCEPT ![a] = venues]
  /\ drifts' = drifts + 1
  /\ UNCHANGED <<legs, notional, limit, walked, lines, unallocated, verdicts>>

PlanNext == Walk \/ Size \/ Judge \/ Drift

PlanSpec == PlanInit /\ [][PlanNext]_planVars
---------------------------------------------------------------------------
(* Properties.                                                             *)

Sized == lines # <<>>

Distinct == \A i, j \in DOMAIN legs : legs[i].asset = legs[j].asset => i = j

Planned == SumFunction(lines)

Wanted == SumFunction([i \in DOMAIN legs |-> Naive(legs[i], notional)])

\* Every line is of a size.
Sizes == \A i \in DOMAIN lines : lines[i] \in Nat

\* A basket of distinct assets spends no more and no less than its legs asked for,
\* no leg beyond what its pools absorbed or twice its weight; and what is reported as
\* unallocated really fits nowhere (planner.ts 303-309, 349-369).
CapitalGoesWhereItFits ==
  /\ Sizes
  /\ Sized /\ Distinct =>
       /\ Planned + unallocated = Wanted
       /\ \A i \in DOMAIN lines :
            LET room == Smaller(Capacity(VenuesOf(i), PlanningLimit(limit)), Ceiling(legs[i], notional))
            IN lines[i] <= room /\ (unallocated > 0 => lines[i] = room)

\* The pools of a leg moved by no more than the headroom: each as deep as it was, and
\* at most a ninth steeper.
Absorbed(before, now) ==
  /\ DOMAIN before = DOMAIN now
  /\ \A k \in DOMAIN now :
       /\ now[k].spot = before[k].spot /\ now[k].fee = before[k].fee
       /\ now[k].depth >= before[k].depth /\ 9 * now[k].slope <= 10 * before[k].slope

\* A leg is refused for its impact only if its pools moved by more than the headroom
\* since they were read (planner.ts 253-281, D89), as long as its venues agree on the
\* price; a leg sized to nothing is asked about at one USDG all the same.
HeadroomAbsorbsTheDrift ==
  \A i \in DOMAIN verdicts :
    verdicts[i].reason = "PRICE_IMPACT" /\ Aligned(VenuesOf(i)) /\ lines[i] > 0 =>
      ~Absorbed(VenuesOf(i), verdicts[i].venues)

\* A basket is sized as far as its pools go, and its sizes are still good a little later.
SizesFitAndLast == CapitalGoesWhereItFits /\ HeadroomAbsorbsTheDrift

\* What the mirror allows the contract allows, had it stored this very report, unless
\* it could not be asked (guard.ts 1-7; fairvalue.ts 700-723 rounds, the contract floors).
AllowedLegsPassTheContract ==
  \A i \in DOMAIN verdicts :
    LET v == verdicts[i]
    IN v.reason = "OK" /\ v.report.chain # "unread" =>
         /\ v.report.chain # "none"
         /\ CheckExecution(Payload(v.report, v.report.chain = "withheld"), 1, 0, v.price,
                           Mandate.maxGapRisk, Mandate.maxDeviationBps) = "OK"

\* planner.ts 303-309: capital goes to legs, and "Anything that still does not fit is
\* reported as unallocated".  Two legs of one asset share one entry of the map.
ThePlanSpendsWhatItWasGiven == Sized => Planned + unallocated = Wanted

\* planner.ts 311-313: the headroom is applied so that a caller cannot "hand back a plan
\* that fails its own guard".  Here the pools did not move at all.
ThePlanPassesItsGuard ==
  \A i \in DOMAIN verdicts :
    verdicts[i].reason = "PRICE_IMPACT" /\ lines[i] > 0 => verdicts[i].venues # VenuesOf(i)
=============================================================================
