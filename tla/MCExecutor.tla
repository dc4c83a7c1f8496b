----------------------------- MODULE MCExecutor -----------------------------
(* The executor with one asset: 200 of cash buy 2 units at a value of 100,  *)
(* at a fee of 50 basis points (1 of cash) or none.  A sale brings 180, or  *)
(* the 2 of a pool that has been drained.  The run executor_selling gives   *)
(* it two assets and a policy with portfolio weights (below).               *)
(*                                                                         *)
(* In scenes of their own, the wallet that funds itself (FundingSwap); and  *)
(* the plan of an order against the terms it will settle on: 20000 of cash  *)
(* or units, two tiers, an oracle that lapses or goes silent, two moves of  *)
(* anything else, and an executor that would trade the other tier elsewhere. *)
EXTENDS Executor, FundingSwap, OrderPlan

VARIABLE scene

\* What a sale can bring lies inside the slippage, inside it and the floor's tolerance,
\* on its edge, and beyond; one pool is too shallow.
Pool(buy, sell, depth) == [buy |-> buy, sell |-> sell, depth |-> depth]
MCBook == {Pool(10070, 9950, 40000), Pool(10140, 9700, 40000), Pool(10160, 9860, 40000),
           Pool(10040, 10020, 10000)}

Ask(kind, agent, acknowledged, claims) ==
  [kind |-> kind, size |-> 20000, sender |-> "owner", agent |-> agent,
   acknowledged |-> acknowledged, claims |-> claims, id |-> 2]
ByCommand(r) == [r EXCEPT !.id = 0]
MCRequest == {ByCommand(Ask("entry", "owner", FALSE, TRUE)),
              ByCommand(Ask("exit", "owner", FALSE, FALSE)),
              Ask("entry", "owner", FALSE, TRUE), Ask("exit", "owner", FALSE, FALSE),
              Ask("exit", "owner", TRUE, FALSE), Ask("exit", "key", FALSE, FALSE)}

\* The oracle stands behind a value a little above one, or behind none: twenty thousand
\* of cash are 19900 units.
MCObserved ==
  {[NoObservation EXCEPT !.fairValueE8 = v, !.hasValue = v > 0, !.anchorAt = 1] : v \in {10050, 0}}
MCTerms == {[maxNotional |-> 20000, maxSlippageBps |-> 100, maxDeviationBps |-> 100,
             maxGapRisk |-> 60]}
MCDerived == {1}

NoOrder == /\ clock = 0 /\ seen = NoObservation /\ mandate = <<>> /\ pools = <<>> /\ wallet = 0
           /\ published = FALSE /\ order = NoPlan /\ moves = 0

MCPolicy == {[maxWeightBps |-> 10000, minCashBufferBps |-> 1000, maxSlippageBps |-> 1500,
              maxDeviationBps |-> 3000, maxGapRisk |-> 50, maxNotionalPerTrade |-> 200,
              maxFillsPerEpoch |-> 4, epochDuration |-> 9, minRebalanceInterval |-> 0,
              enforceWeights |-> TRUE]}
MCReading == {[fairValueE8 |-> 100, hasValue |-> TRUE, gapRisk |-> 0,
               confidenceBps |-> 0, basisBps |-> 0, capacityUsdg |-> 0, anchorAt |-> 1],
              [fairValueE8 |-> 0, hasValue |-> FALSE, gapRisk |-> 60,
               confidenceBps |-> 0, basisBps |-> 0, capacityUsdg |-> 0, anchorAt |-> 1]}
MCLeg == {[asset |-> a, amountInUsdg |-> 200, minAmountOut |-> 1] : a \in Asset}
MCExitLeg == {[asset |-> a, amountIn |-> 2, minAmountOutUsdg |-> 1] : a \in Asset}
Of(token, amount) == [token |-> token, amount |-> amount]
MCPermit == {[permitted |-> <<Of(Cash, 400)>>, nonce |-> 1, deadline |-> 2],
             [permitted |-> <<Of(Cash, 200)>>, nonce |-> 2, deadline |-> 3]} \cup
            {[permitted |-> <<Of(a, 2), Of(a, 2)>>, nonce |-> 2, deadline |-> 3] : a \in Asset} \cup
            {[permitted |-> <<Of(a, 2)>>, nonce |-> 3, deadline |-> 3] : a \in Asset}
MCUnits == [a \in Asset |-> 4]
MCUnitOf == [a \in Asset |-> 1]
MCNone == {<<>>}
MCNoHoldings == {[cash |-> 0, units |-> [a \in Asset |-> 0]]}
MCNoFill == {}

\* Trading under one mandate: what its owner may change besides is PolicyGuard's.
SettlingInit == ExecInit /\ feeBps \in {0, MAX_FEE_BPS}

SettlingNext ==
  \/ \E caller \in Account, id \in DOMAIN mandates : Trade(caller, id)
  \/ \E o \in Account, permit \in Permit : Sign(o, permit)
  \/ /\ \/ \E caller, agent \in Account, p \in Policy, a \in Asset :
             CreateMandate(caller, agent, This, p, <<a>>)
        \/ OracleAction
     /\ UNCHANGED <<feeVars, tokenVars>>
  \/ FeeStep
  \/ Withdraw

---------------------------------------------------------------------------
\* 200 to swap, or everything: nothing wrapped yet, or by an earlier run.  The second hop
\* pays at par, one or two percent off, or stops short; one first pool is too shallow.
Holding(okb, wokb) ==
  [okb |-> okb, wokb |-> wokb, allowance |-> 0, usdg |-> 0, stranded |-> 0]
MCStart == {Holding(330, 0), Holding(240, 200)}
TwoHops(rate, first, second) == [rate |-> rate, first |-> first, second |-> second]
MCPools == {TwoHops(100, 400, 400), TwoHops(98, 400, 400), TwoHops(100, 400, 199),
            TwoHops(101, 150, 400)}

NoFunding ==
  /\ balances = Holding(0, 0) /\ behindBalances = Holding(0, 0)
  /\ reserves = TwoHops(100, 400, 400) /\ sent = <<>> /\ job = NoJob
  /\ swapRuns = 0 /\ poolMoves = 0
---------------------------------------------------------------------------
ExecutorInit ==
  /\ scene \in {"executor", "order", "funding"}
  /\ IF scene = "executor" THEN SettlingInit ELSE ExecInit /\ feeBps = 0
  /\ IF scene = "order" THEN OrderInit ELSE NoOrder
  /\ IF scene = "funding" THEN FundingInit ELSE NoFunding

ExecutorNext ==
  /\ UNCHANGED scene
  /\ \/ scene = "executor" /\ SettlingNext /\ UNCHANGED <<orderVars, fundingVars>>
     \/ scene = "order" /\ OrderNext /\ UNCHANGED <<execVars, fundingVars>>
     \/ scene = "funding" /\ FundingNext /\ UNCHANGED <<execVars, orderVars>>

sceneVars == <<scene, execVars, orderVars, fundingVars>>
ExecutorSpec == ExecutorInit /\ [][ExecutorNext]_sceneVars

---------------------------------------------------------------------------
(* The executor under a policy with portfolio weights: two assets at a      *)
(* value of 100, cash counted in the same units, no fee at these sizes.     *)

WeightedPolicy == {[maxWeightBps |-> 6000, minCashBufferBps |-> 1000, maxSlippageBps |-> 2500,
              maxDeviationBps |-> 5000, maxGapRisk |-> 50, maxNotionalPerTrade |-> 9,
              maxFillsPerEpoch |-> 5, epochDuration |-> 9, minRebalanceInterval |-> 0,
              enforceWeights |-> TRUE]}
WeightedReading == {[fairValueE8 |-> 100, hasValue |-> TRUE, gapRisk |-> 0,
               confidenceBps |-> 0, basisBps |-> 0, capacityUsdg |-> 0, anchorAt |-> 1]}
WeightedLeg == {[asset |-> a, amountInUsdg |-> 2, minAmountOut |-> 1] : a \in Asset}
WeightedExitLeg == {[asset |-> a, amountIn |-> 4, minAmountOutUsdg |-> 1] : a \in Asset}
WeightedPermit == {[permitted |-> <<Of(Cash, 4)>>, nonce |-> n, deadline |-> 9] : n \in 1 .. 2}
            \cup {[permitted |-> <<Of(a, 4)>>, nonce |-> 3, deadline |-> 9] : a \in Asset}
WeightedUnits == [a \in Asset |-> IF a = CHOOSE x \in Asset : TRUE THEN 4 ELSE 6]

TradingNext ==
  \/ \E caller \in Account, id \in DOMAIN mandates : Trade(caller, id)
  \/ \E o \in Account, permit \in Permit : Sign(o, permit)
  \/ /\ \/ \E caller, agent \in Account, p \in Policy, assets \in AssetArrays :
             CreateMandate(caller, agent, This, p, assets)
        \/ \E caller \in Account, id \in DOMAIN mandates, asset \in Asset,
              allow \in BOOLEAN :
             SetAssetAllowed(caller, id, asset, allow)
        \/ OracleAction
     /\ UNCHANGED <<feeVars, tokenVars>>

TradingSpec ==
  /\ scene = "executor" /\ ExecInit /\ NoOrder /\ NoFunding
  /\ [][TradingNext /\ UNCHANGED <<scene, orderVars, fundingVars>>]_sceneVars
=============================================================================
