---------------------------- MODULE ExitTriggers ----------------------------
(***************************************************************************)
(* contracts/ExitTriggers.sol: the metrics a mandate's exit triggers are   *)
(* written in, and the running position they are measured against.  A      *)
(* library: pure operators on an observation `o`, a position `p` and the   *)
(* block time `t`.  Prices carry 8 decimals, capacity 6, moves are in      *)
(* basis points.                                                           *)
(***************************************************************************)
EXTENDS Integers

CONSTANT HOUR   \* one hour in units of block time

Metric == {"gapRisk", "basisBps", "confidenceBps", "stalenessHours",
           "drawdownBpsFromEntry", "capacityUsdg", "priceVsThesisEntryBps"}

Comparator == {"gt", "lt"}

Position == [units : Nat, costBasisE8 : Nat, entryFairValueE8 : Nat]

NoPosition == [units |-> 0, costBasisE8 |-> 0, entryFairValueE8 |-> 0]

\* Solidity's signed division rounds towards zero, \div rounds down.
TruncatedDiv(n, d) == IF n >= 0 THEN n \div d ELSE -((-n) \div d)

\* Where evaluate returns instead of reverting MetricUnavailable: a metric
\* whose input does not exist must stop the caller, not read as "not fired".
Available(metric, o, p) ==
  CASE metric = "stalenessHours" -> o.anchorAt # 0
    [] metric = "drawdownBpsFromEntry" ->
         p.units = 0 \/ p.costBasisE8 = 0 \/ o.hasValue
    [] metric = "priceVsThesisEntryBps" -> p.entryFairValueE8 = 0 \/ o.hasValue
    [] OTHER -> TRUE

\* The value of an available metric.
Evaluate(metric, o, p, t) ==
  CASE metric = "gapRisk" -> o.gapRisk
    [] metric = "basisBps" -> o.basisBps
    [] metric = "confidenceBps" -> o.confidenceBps
    [] metric = "capacityUsdg" -> o.capacityUsdg
    [] metric = "stalenessHours" ->
         IF t > o.anchorAt THEN (t - o.anchorAt) \div HOUR ELSE 0
    [] metric = "drawdownBpsFromEntry" ->
         IF p.units = 0 \/ p.costBasisE8 = 0 THEN 0
         ELSE TruncatedDiv((p.costBasisE8 - o.fairValueE8) * 10000, p.costBasisE8)
    [] metric = "priceVsThesisEntryBps" ->
         IF p.entryFairValueE8 = 0 THEN 0
         ELSE TruncatedDiv((o.fairValueE8 - p.entryFairValueE8) * 10000,
                           p.entryFairValueE8)

Fired(tr, o, p, t) ==
  IF tr.comparator = "gt" THEN Evaluate(tr.metric, o, p, t) > tr.threshold
                          ELSE Evaluate(tr.metric, o, p, t) < tr.threshold

\* An empty scope is basket-wide.
Covers(tr, asset) == tr.assets = {} \/ asset \in tr.assets

---------------------------------------------------------------------------
(* Folding a settled fill into the position.                               *)

\* An exit leaves the basis alone, so that a partial exit does not flatter
\* the drawdown of what remains; selling everything forgets it.
AfterExit(p, units) ==
  IF units >= p.units THEN NoPosition ELSE [p EXCEPT !.units = @ - units]

\* An entry opens a position at the price paid, or averages it in, rounding
\* the basis down.
AfterEntry(p, units, priceE8, fairValueE8) ==
  IF p.units = 0
  THEN [units |-> units, costBasisE8 |-> priceE8, entryFairValueE8 |-> fairValueE8]
  ELSE [p EXCEPT !.units = @ + units,
                 !.costBasisE8 = (p.units * @ + units * priceE8) \div (p.units + units)]

ApplyFill(p, fill) ==
  IF fill.isExit
  THEN AfterExit(p, fill.amountOut)
  ELSE AfterEntry(p, fill.amountOut, fill.executionPriceE8, fill.fairValueE8)
=============================================================================
