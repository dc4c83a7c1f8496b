------------------------ MODULE MCPolicyGuardOracle ------------------------
(***************************************************************************)
(* PolicyGuard against an oracle that moves, withholds and goes stale,     *)
(* with triggers and weights; or the history of marks that the width of    *)
(* the oracle's bands is measured of.  The two never touch each other, and *)
(* a behaviour is one of them.                                             *)
(***************************************************************************)
EXTENDS PolicyGuard, SampleStore

VARIABLE scene

Base == [maxWeightBps |-> 6000, minCashBufferBps |-> 1000, maxSlippageBps |-> 50,
         maxDeviationBps |-> 3000, maxGapRisk |-> 50, maxNotionalPerTrade |-> 10,
         maxFillsPerEpoch |-> 4, epochDuration |-> 9, minRebalanceInterval |-> 0,
         enforceWeights |-> FALSE]
MCPolicy == {[Base EXCEPT !.enforceWeights = TRUE]}
\* A stop on the gap risk of every asset, and a 15% drawdown stop.
MCTriggerList == {<<[metric |-> "gapRisk", comparator |-> "gt",
                     threshold |-> 40, assets |-> {}],
                    [metric |-> "drawdownBpsFromEntry", comparator |-> "gt",
                     threshold |-> 1500, assets |-> {}]>>}
MCFill == {[asset |-> a, isExit |-> exit, amountInUsdg |-> 10, amountOut |-> 1,
            executionPriceE8 |-> 100, slippageBps |-> 0]
             : a \in Asset, exit \in BOOLEAN}
\* The owner ends up mostly in cash, or all in the first asset.
MCHoldings == {[cash |-> 3, units |-> [a \in Asset |-> 1]],
               [cash |-> 0, units |-> [a \in Asset |-> 3]]}
R == [fairValueE8 |-> 100, hasValue |-> TRUE, gapRisk |-> 0, confidenceBps |-> 0,
      basisBps |-> 0, capacityUsdg |-> 0, anchorAt |-> 1]
MCReading == {R, [R EXCEPT !.fairValueE8 = 80],
              [R EXCEPT !.fairValueE8 = 0, !.hasValue = FALSE, !.gapRisk = 60]}
MCUnitOf == [a \in Asset |-> 1]

\* Trading under a mandate nobody stops: the breaker, closing and the revocation
\* of the guard's right to write belong to MCPolicyGuardLimits.
TradingNext ==
  \/ \E caller, agent, executor \in Account, p \in Policy, assets \in AssetArrays :
       CreateMandate(caller, agent, executor, p, assets)
  \/ \E caller \in Account, id \in DOMAIN mandates :
       \/ \E trs \in TriggerList : SetTriggers(caller, id, trs)
       \/ \E asset \in Asset, allow \in BOOLEAN :
            SetAssetAllowed(caller, id, asset, allow)
       \/ \E fills \in Batches, holdings \in Holdings :
            ValidateAndRecord(caller, id, fills, holdings)
  \/ OracleAction

HistoryInit ==
  /\ scene \in {"trading", "history"}
  /\ Init /\ StoreInit

HistoryNext ==
  /\ UNCHANGED scene
  /\ \/ scene = "trading" /\ TradingNext /\ UNCHANGED storeVars
     \/ scene = "history" /\ StoreNext /\ UNCHANGED vars

SceneSpec == HistoryInit /\ [][HistoryNext]_<<scene, vars, storeVars>>
=============================================================================
