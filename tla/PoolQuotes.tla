----------------------------- MODULE PoolQuotes -----------------------------
(***************************************************************************)
(* What the off-chain side makes of pools and of the engine's report, as   *)
(* pure operators: quotes and capacities (src/planner.ts over src/pool.ts) *)
(* and the mirror of the guard (src/guard.ts).                             *)
(*                                                                         *)
(* A venue is one pool of an asset: within the prefetched window its       *)
(* average price is linear in the size, which it is exactly while no tick  *)
(* is crossed; `depth` is where the window or the liquidity ends.  Prices  *)
(* and impacts are in basis points of one common price, to first order.    *)
(***************************************************************************)
EXTENDS Sequences, OracleReads

CONSTANT Seed   \* where the search for a capacity starts: 1,000 USDG

ASSUME SeedAssumption == Seed \in Nat \ {0}

\* DEFAULT_MANDATE of src/guard.ts.
Mandate == [maxGapRisk |-> 60, maxDeviationBps |-> 100, maxImpactBps |-> 50]

Unmeasured == 1000000   \* POSITIVE_INFINITY

Smaller(a, b) == IF a < b THEN a ELSE b

\* The sizes the search for a capacity goes through.
Doubled(k) == Seed * 2^k

\* An asset's venues; none of them is deeper than the search for a capacity goes.
VenueShape == [spot : Nat \ {0}, fee : Nat, slope : Nat, depth : Nat]
Venues == Seq(VenueShape)
Shallow(venues) == \A k \in DOMAIN venues : venues[k].depth < Doubled(20)
---------------------------------------------------------------------------
(* Quotes and capacity.                                                    *)

\* What the swap takes of `n`, and the average price it pays for that.
Consumed(v, n) == Smaller(n, v.depth)
Average(v, n) == v.spot + v.fee + v.slope * Consumed(v, n)
Impact(v, n) == v.fee + v.slope * Consumed(v, n)
Exhausted(v, n) == n > v.depth

\* The output is Consumed / Average: whether v gives more than w for the same n.
MoreOut(v, w, n) == Consumed(v, n) * Average(w, n) > Consumed(w, n) * Average(v, n)

Quoting(venues, n) == {k \in DOMAIN venues : Consumed(venues[k], n) > 0}

\* The first of the venues with the most output.
Best(venues, n, k) ==
  \A j \in Quoting(venues, n) :
    ~MoreOut(venues[j], venues[k], n) /\ (j < k => MoreOut(venues[k], venues[j], n))

BestQuote(venues, n) == venues[CHOOSE k \in Quoting(venues, n) : Best(venues, n, k)]

ImpactAt(venues, n) ==
  IF Quoting(venues, n) = {} \/ Exhausted(BestQuote(venues, n), n) THEN Unmeasured
  ELSE Impact(BestQuote(venues, n), n)

\* Defect for the checks: the pool's fee is not counted as impact.
FitsBesideTheFee(venues, n, maxTenths) ==
  LET i == ImpactAt(venues, n)
  IN 10 * (IF i = Unmeasured THEN i ELSE i - venues[1].fee) <= maxTenths

\* Limits on the impact of a size are in tenths of a basis point.
Fits(venues, n, maxTenths) == 10 * ImpactAt(venues, n) <= maxTenths

\* What the guard enforces: what a pool is measured against.
GuardLimit(guardMaxBps) == 10 * guardMaxBps

\* Defect for the checks: a basket is sized to all of the guard's limit.
PlanningLimitOfTheGuard(guardMaxBps) == 10 * guardMaxBps

\* What a basket is sized to: nine tenths of it.
PlanningLimit(guardMaxBps) == 9 * guardMaxBps

\* Doubling until a size is refused, which it is where the pools end.
Doublings(venues, maxTenths) ==
  CHOOSE k \in 0..20 :
    /\ ~Fits(venues, Doubled(k), maxTenths)
    /\ \A j \in 0..(k - 1) : Fits(venues, Doubled(j), maxTenths)

\* A halving of the range between a size that fits, or none, and one that does not.
Halved(venues, maxTenths, range) ==
  LET mid == (range.lo + range.hi) \div 2
  IN IF mid \in {range.lo, range.hi} THEN range
     ELSE IF Fits(venues, mid, maxTenths) THEN [range EXCEPT !.lo = mid]
     ELSE [range EXCEPT !.hi = mid]

\* capacityDetail: what 40 halvings leave.
Capacity(venues, maxTenths) ==
  LET hi == Doubled(Doublings(venues, maxTenths))
      half == hi \div 2
      lo == IF half > 0 /\ ~Fits(venues, half, maxTenths) THEN 0 ELSE half
      after[i \in 0..40] == IF i = 0 THEN [lo |-> lo, hi |-> hi]
                            ELSE Halved(venues, maxTenths, after[i - 1])
  IN IF venues = <<>> THEN 0 ELSE after[40].lo

\* All venues of a leg start from one price, so the cheapest is the least impact too.
Aligned(venues) == \A j, k \in DOMAIN venues : venues[j].spot = venues[k].spot
---------------------------------------------------------------------------
(* The guard's mirror.  confidence is in half basis points: the engine's   *)
(* is not a whole number, the contract's is.                               *)

\* src/fairvalue.ts toOraclePayload, as the contract would store it.
Payload(r, withheld) ==
  [NoObservation EXCEPT !.fairValueE8 = r.fairValue, !.hasValue = r.publishable /\ ~withheld,
                        !.gapRisk = r.gapRisk, !.confidenceBps = (r.confidence + 1) \div 2,
                        !.anchorAt = 1, !.updatedAt = 1]

\* Defect for the checks: only a missing observation is news.
ToldOfTheMissing(r) == [r EXCEPT !.publishable = @ /\ r.chain # "none"]

\* applyOnchainWithholding: the contract may hold back what the engine defends,
\* and a read that fails changes nothing.
Told(r) == [r EXCEPT !.publishable = @ /\ r.chain \notin {"none", "withheld"}]

\* checkExecution of src/guard.ts.
MirrorVerdict(r, price, impactBps, maxImpactBps) ==
  IF ~r.publishable \/ r.fairValue = 0 THEN "NO_REFERENCE"
  ELSE IF r.gapRisk > Mandate.maxGapRisk THEN "GAP_RISK"
  ELSE IF AbsDiff(price, r.fairValue) * 20000
            > (2 * Mandate.maxDeviationBps + r.confidence) * r.fairValue THEN "OFF_FAIR_VALUE"
  ELSE IF impactBps > maxImpactBps THEN "PRICE_IMPACT"
  ELSE "OK"
=============================================================================
