---------------------------- MODULE OracleReads ----------------------------
(***************************************************************************)
(* The read side of contracts/FairValueOracle.sol as pure operators on one *)
(* observation `o`, at block time `t`, under the freshness limit `age`.    *)
(* The contract's own state machine, the abstract feed it implements and   *)
(* the contracts that consume it all use these.                            *)
(***************************************************************************)
EXTENDS Integers

AbsDiff(x, y) == IF x > y THEN x - y ELSE y - x

\* How far `to` lies from `from`, in basis points of `from`, rounded down.
Bps(from, to) == (AbsDiff(from, to) * 10000) \div from

NoObservation == [fairValueE8 |-> 0, hasValue |-> FALSE, gapRisk |-> 0,
                  confidenceBps |-> 0, basisBps |-> 0, capacityUsdg |-> 0,
                  anchorAt |-> 0, updatedAt |-> 0]

Observation == [fairValueE8 : Nat, hasValue : BOOLEAN, gapRisk : Nat,
                confidenceBps : Nat, basisBps : Int, capacityUsdg : Nat,
                anchorAt : Nat, updatedAt : Nat]

HasData(o) == o.updatedAt # 0

\* `observation` returns, rather than reverting NoData or Stale.
Fresh(o, t, age) == HasData(o) /\ t <= o.updatedAt + age

\* `fairValue` returns, rather than reverting NoData, Stale or ValueWithheld.
FairValueReturns(o, t, age) == Fresh(o, t, age) /\ o.hasValue

\* The verdict a PolicyGuard acts on: "OK", or why the trade is refused.
CheckExecution(o, t, age, executionPriceE8, maxGapRisk, maxDeviationBps) ==
  IF ~HasData(o) THEN "NO_DATA"
  ELSE IF ~Fresh(o, t, age) THEN "STALE"
  ELSE IF ~o.hasValue \/ o.fairValueE8 = 0 THEN "NO_REFERENCE"
  ELSE IF o.gapRisk > maxGapRisk THEN "GAP_RISK"
  ELSE IF Bps(o.fairValueE8, executionPriceE8)
            > maxDeviationBps + o.confidenceBps THEN "OFF_FAIR_VALUE"
  ELSE "OK"
=============================================================================
