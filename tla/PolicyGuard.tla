---------------------------- MODULE PolicyGuard ----------------------------
(***************************************************************************)
(* contracts/PolicyGuard.sol: mandates stored on-chain and the gate that   *)
(* validates a completed batch of fills against them, in the transaction   *)
(* that made the fills, and records it.                                    *)
(*                                                                         *)
(* The oracle is the abstract feed of OracleFeed, the record is            *)
(* ReceiptRegistry, the trigger arithmetic is ExitTriggers.  A transaction *)
(* that reverts changes nothing, so each one is a single step guarded by   *)
(* everything it checks.  The fills a batch reports and the balances the   *)
(* owner is left with are the caller's here; Executor computes them.       *)
(*                                                                         *)
(* Left out: the events, the evidence strings, the revert reasons.         *)
(***************************************************************************)
EXTENDS OracleFeed, ExitTriggers, ReceiptRegistry

CONSTANTS
  Account,       \* accounts that own, propose or execute
  Guard,         \* this contract's own address, as the registry sees it
  Policy,        \* policies an owner may submit
  TriggerList,   \* trigger arrays an owner may install
  Fill,          \* fills a batch may report
  Holdings,      \* balances the owner may be left with
  UnitOf,        \* 10^decimals of each asset, 0 where decimals() gives none
  CASH_UNIT,     \* scales a cash balance (6 decimals) to a price (8 decimals)
  MAX_ASSETS, MAX_TRIGGERS,
  MAX_MANDATES, MAX_VERSION, MAX_RECEIPTS, MAX_FILLS, MAX_TIME   \* bounds

\* What the contract's types guarantee of its inputs.
ASSUME GuardAssumption ==
  /\ Policy \subseteq
       [maxWeightBps : Nat, minCashBufferBps : Nat, maxSlippageBps : Nat,
        maxDeviationBps : Nat, maxGapRisk : Nat, maxNotionalPerTrade : Nat,
        maxFillsPerEpoch : Nat, epochDuration : Nat, minRebalanceInterval : Nat,
        enforceWeights : BOOLEAN]
  /\ Fill \subseteq
       [asset : Asset, isExit : BOOLEAN, amountInUsdg : Nat, amountOut : Nat,
        executionPriceE8 : Nat, slippageBps : Nat]
  /\ Reading \subseteq
       [fairValueE8 : Nat, hasValue : BOOLEAN, gapRisk : Nat, confidenceBps : Nat,
        basisBps : Int, capacityUsdg : Nat, anchorAt : Nat]

VARIABLES
  mandates,    \* _mandates: mandate n at index n, so nextMandateId is Len + 1
  triggers,    \* _triggers
  positions,   \* _positions
  allowed,     \* isAllowedAsset, as the set of assets it maps to true
  assetList,   \* _assetList; an asset is _listed when it occurs in it
  rules        \* history: policy and triggers of every version of a mandate

guardVars == <<mandates, triggers, positions, allowed, assetList, rules>>
vars == <<guardVars, receipts, isWriter, now, obs, maxAge>>

\* A single-field change of one mandate, everything else untouched.
Amend(id, m) == mandates' = [mandates EXCEPT ![id] = m]

NextVersion(id) == mandates[id].version + 1

Init ==
  /\ FeedInit
  /\ RegistryInit({Guard})
  /\ mandates = <<>>
  /\ triggers = <<>>
  /\ positions = <<>>
  /\ allowed = <<>>
  /\ assetList = <<>>
  /\ rules = <<>>

---------------------------------------------------------------------------
(* Lifecycle.                                                              *)

ValidPolicy(p) ==
  /\ p.maxWeightBps \in 1 .. 10000
  /\ p.minCashBufferBps <= 10000
  /\ p.maxGapRisk <= 100
  /\ p.maxFillsPerEpoch # 0
  /\ p.epochDuration # 0

\* The list after _allowAsset: membership in it is tracked apart from the
\* allow flag, so re-allowing an asset must not append it a second time.
Listed(list, asset) == IF Contains(list, asset) THEN list ELSE Append(list, asset)

CreateMandate(caller, agent, executor, p, assets) ==
  /\ Len(mandates) < MAX_MANDATES
  /\ ValidPolicy(p)
  /\ Len(assets) <= MAX_ASSETS
  /\ mandates' = Append(mandates,
       [owner |-> caller, agent |-> agent, executor |-> executor, version |-> 1,
        active |-> TRUE, circuitBreaker |-> FALSE, lastActionAt |-> 0,
        epochStart |-> now, fillsThisEpoch |-> 0, policy |-> p])
  /\ triggers' = Append(triggers, <<>>)
  /\ positions' = Append(positions, [a \in Asset |-> NoPosition])
  /\ allowed' = Append(allowed, ToSet(assets))
  /\ assetList' = Append(assetList, FoldLeft(Listed, <<>>, assets))
  /\ rules' = Append(rules, <<[policy |-> p, triggers |-> <<>>]>>)
  /\ UNCHANGED <<registryVars, feedVars>>

Owns(caller, id) == mandates[id].owner = caller

\* Defect for the checks: the version stays.
UpdatePolicyInPlace(caller, id, p) ==
  /\ Owns(caller, id)
  /\ ValidPolicy(p)
  /\ Amend(id, [mandates[id] EXCEPT !.policy = p])
  /\ UNCHANGED <<triggers, positions, allowed, assetList, rules, registryVars,
                 feedVars>>

UpdatePolicy(caller, id, p) ==
  /\ Owns(caller, id)
  /\ NextVersion(id) <= MAX_VERSION
  /\ ValidPolicy(p)
  /\ Amend(id, [mandates[id] EXCEPT !.policy = p, !.version = NextVersion(id)])
  /\ rules' = [rules EXCEPT ![id] =
                 Append(@, [policy |-> p, triggers |-> triggers[id]])]
  /\ UNCHANGED <<triggers, positions, allowed, assetList, registryVars, feedVars>>

\* Replaces wholesale; there is no append.
SetTriggers(caller, id, trs) ==
  /\ Owns(caller, id)
  /\ NextVersion(id) <= MAX_VERSION
  /\ Len(trs) <= MAX_TRIGGERS
  /\ triggers' = [triggers EXCEPT ![id] = trs]
  /\ Amend(id, [mandates[id] EXCEPT !.version = NextVersion(id)])
  /\ rules' = [rules EXCEPT ![id] =
                 Append(@, [policy |-> mandates[id].policy, triggers |-> trs])]
  /\ UNCHANGED <<positions, allowed, assetList, registryVars, feedVars>>

SetAgent(caller, id, agent) ==
  /\ Owns(caller, id)
  /\ Amend(id, [mandates[id] EXCEPT !.agent = agent])
  /\ UNCHANGED <<triggers, positions, allowed, assetList, rules, registryVars, feedVars>>

SetExecutor(caller, id, executor) ==
  /\ Owns(caller, id)
  /\ Amend(id, [mandates[id] EXCEPT !.executor = executor])
  /\ UNCHANGED <<triggers, positions, allowed, assetList, rules, registryVars, feedVars>>

SetAssetAllowed(caller, id, asset, allow) ==
  /\ Owns(caller, id)
  /\ allow /\ ~Contains(assetList[id], asset) => Len(assetList[id]) < MAX_ASSETS
  /\ assetList' = IF allow THEN [assetList EXCEPT ![id] = Listed(@, asset)]
                           ELSE assetList
  /\ allowed' = [allowed EXCEPT ![id] = IF allow THEN @ \cup {asset} ELSE @ \ {asset}]
  /\ UNCHANGED <<mandates, triggers, positions, rules, registryVars, feedVars>>

SetCircuitBreaker(caller, id, tripped) ==
  /\ Owns(caller, id)
  /\ Amend(id, [mandates[id] EXCEPT !.circuitBreaker = tripped])
  /\ UNCHANGED <<triggers, positions, allowed, assetList, rules, registryVars, feedVars>>

CloseMandate(caller, id) ==
  /\ Owns(caller, id)
  /\ Amend(id, [mandates[id] EXCEPT !.active = FALSE])
  /\ UNCHANGED <<triggers, positions, allowed, assetList, rules, registryVars, feedVars>>

---------------------------------------------------------------------------
(* The gate: what validateAndRecord requires of a batch.                   *)

FreshNow(a) == Fresh(obs[a], now, maxAge)

IntervalElapsed(m) ==
  m.lastActionAt = 0 \/ now >= m.lastActionAt + m.policy.minRebalanceInterval

EpochOver(m) == now >= m.epochStart + m.policy.epochDuration

UsedThisEpoch(m) == IF EpochOver(m) THEN 0 ELSE m.fillsThisEpoch

\* Defect for the checks: a batch counts as one fill against the limit.
WithinRateByBatch(m, fills) ==
  /\ IntervalElapsed(m)
  /\ UsedThisEpoch(m) + 1 <= m.policy.maxFillsPerEpoch

WithinRate(m, fills) ==
  /\ IntervalElapsed(m)
  /\ UsedThisEpoch(m) + Len(fills) <= m.policy.maxFillsPerEpoch

WithinLimits(id, f) ==
  /\ f.asset \in allowed[id]
  /\ f.amountInUsdg <= mandates[id].policy.maxNotionalPerTrade
  /\ f.slippageBps <= mandates[id].policy.maxSlippageBps

\* The oracle is advisory on the way out and binding on the way in.
OracleAccepts(p, f) ==
  \/ f.isExit
  \/ CheckExecution(obs[f.asset], now, maxAge, f.executionPriceE8,
                    p.maxGapRisk, p.maxDeviationBps) = "OK"

\* The oracle's own view, stamped into the record: its value only where it
\* stands behind one, its last known risk score in any case.
Stamped(f) ==
  [asset |-> f.asset, isExit |-> f.isExit, amountInUsdg |-> f.amountInUsdg,
   amountOut |-> f.amountOut, executionPriceE8 |-> f.executionPriceE8,
   slippageBps |-> f.slippageBps,
   fairValueE8 |-> IF FairValueReturns(obs[f.asset], now, maxAge)
                   THEN obs[f.asset].fairValueE8 ELSE 0,
   gapRisk |-> obs[f.asset].gapRisk]

\* Defect for the checks: only the first trigger is looked at.
FirstTriggerBlocks(id, asset) ==
  /\ triggers[id] # <<>>
  /\ \/ ~FreshNow(asset)
     \/ LET tr == triggers[id][1] IN
        /\ Covers(tr, asset)
        /\ \/ ~Available(tr.metric, obs[asset], positions[id][asset])
           \/ Fired(tr, obs[asset], positions[id][asset], now)

\* A trigger that fires, or that cannot be evaluated, stops the batch.
TriggerBlocks(id, asset) ==
  /\ triggers[id] # <<>>
  /\ \/ ~FreshNow(asset)
     \/ \E tr \in ToSet(triggers[id]) :
          /\ Covers(tr, asset)
          /\ \/ ~Available(tr.metric, obs[asset], positions[id][asset])
             \/ Fired(tr, obs[asset], positions[id][asset], now)

AllExits(fills) == \A i \in DOMAIN fills : fills[i].isExit

\* The owner's balances, priced by the oracle, entry by entry of the list.
WeightsHold(id, holdings) ==
  LET p == mandates[id].policy
      list == SelectSeq(assetList[id], LAMBDA a : a \in allowed[id])
      Worth(a) == IF holdings.units[a] = 0 THEN 0
                  ELSE (holdings.units[a] * obs[a].fairValueE8) \div UnitOf[a]
      cashWorth == holdings.cash * CASH_UNIT
      total == FoldLeft(LAMBDA sum, a : sum + Worth(a), cashWorth, list)
  IN /\ \A a \in ToSet(list) :
          /\ UnitOf[a] # 0
          /\ holdings.units[a] # 0 => FairValueReturns(obs[a], now, maxAge)
     /\ total # 0 =>
          /\ \A a \in ToSet(list) : (Worth(a) * 10000) \div total <= p.maxWeightBps
          /\ (cashWorth * 10000) \div total >= p.minCashBufferBps

Accepts(id, fills, holdings) ==
  LET m == mandates[id] IN
  /\ m.active
  /\ ~m.circuitBreaker
  /\ fills # <<>>
  /\ WithinRate(m, fills)
  /\ \A i \in DOMAIN fills : /\ WithinLimits(id, fills[i])
                             /\ OracleAccepts(m.policy, fills[i])
  \* Against the position as it stood before these fills.
  /\ \A i \in DOMAIN fills : ~fills[i].isExit => ~TriggerBlocks(id, fills[i].asset)
  /\ m.policy.enforceWeights /\ ~AllExits(fills) => WeightsHold(id, holdings)

Settle(pos, fill) == [pos EXCEPT ![fill.asset] = ApplyFill(@, fill)]

\* Defect for the checks: the fills are accounted before they are stamped.
PositionsUnstamped(id, fills) ==
  FoldLeft(Settle, positions[id],
           [i \in DOMAIN fills |-> fills[i] @@ [fairValueE8 |-> 0, gapRisk |-> 0]])

PositionsAfter(id, fills) ==
  FoldLeft(Settle, positions[id], [i \in DOMAIN fills |-> Stamped(fills[i])])

ValidateAndRecord(caller, id, fills, holdings) ==
  LET m == mandates[id] IN
  /\ Len(receipts) < MAX_RECEIPTS
  /\ caller = m.executor
  /\ Accepts(id, fills, holdings)
  /\ positions' = [positions EXCEPT ![id] = PositionsAfter(id, fills)]
  /\ Amend(id, [m EXCEPT !.epochStart = IF EpochOver(m) THEN now ELSE @,
                         !.fillsThisEpoch = UsedThisEpoch(m) + Len(fills),
                         !.lastActionAt = now])
  /\ AppendReceipt(Guard, [mandateId |-> id, policyVersion |-> m.version,
                           agent |-> m.agent, timestamp |-> now,
                           fills |-> [i \in DOMAIN fills |-> Stamped(fills[i])]])
  /\ UNCHANGED <<triggers, allowed, assetList, rules, feedVars>>

\* What the dryRun view answers for the same batch.
DryRunOk(id, fills) ==
  LET m == mandates[id] IN
  /\ m.active
  /\ ~m.circuitBreaker
  /\ fills # <<>>
  /\ WithinRate(m, fills)
  /\ \A i \in DOMAIN fills : /\ WithinLimits(id, fills[i])
                             /\ OracleAccepts(m.policy, fills[i])

\* firedTriggers: what it reports, where it does not revert.  An asset without
\* fresh data is set apart; one whose data is fresh and whose metric cannot be
\* evaluated makes the whole read revert.
TriggersOn(id, asset) == {tr \in ToSet(triggers[id]) : Covers(tr, asset)}

StaleAssets(id) == {a \in allowed[id] : ~FreshNow(a)}

TriggersReadReverts(id) ==
  \E a \in allowed[id] \ StaleAssets(id) :
    \E tr \in TriggersOn(id, a) : ~Available(tr.metric, obs[a], positions[id][a])

FiringAssets(id) ==
  {a \in allowed[id] \ StaleAssets(id) :
     \E tr \in TriggersOn(id, a) : Fired(tr, obs[a], positions[id][a], now)}

---------------------------------------------------------------------------
(* Next-state relation.                                                    *)

Batches == UNION {[1 .. n -> Fill] : n \in 0 .. MAX_FILLS}

AssetArrays == {<<>>} \cup {<<a>> : a \in Asset} \cup (Asset \X Asset)

OwnerAction(caller, id) ==
  \/ \E p \in Policy : UpdatePolicy(caller, id, p)
  \/ \E trs \in TriggerList : SetTriggers(caller, id, trs)
  \/ \E agent \in Account : SetAgent(caller, id, agent)
  \/ \E executor \in Account : SetExecutor(caller, id, executor)
  \/ \E asset \in Asset, allow \in BOOLEAN : SetAssetAllowed(caller, id, asset, allow)
  \/ \E tripped \in BOOLEAN : SetCircuitBreaker(caller, id, tripped)
  \/ CloseMandate(caller, id)

\* The oracle publishes, or a block is mined.
OracleAction ==
  /\ \/ \E a \in Asset, r \in Reading : FeedWrite(a, r)
     \/ now < MAX_TIME /\ FeedTick
  /\ UNCHANGED <<guardVars, registryVars>>

\* The registry's admin grants or revokes this guard's right to write.
SetGuardWriter(allow) ==
  /\ SetWriter(Guard, allow)
  /\ UNCHANGED <<guardVars, feedVars>>

Next ==
  \/ \E caller, agent, executor \in Account, p \in Policy, assets \in AssetArrays :
       CreateMandate(caller, agent, executor, p, assets)
  \/ \E caller \in Account, id \in DOMAIN mandates : OwnerAction(caller, id)
  \/ \E caller \in Account, id \in DOMAIN mandates, fills \in Batches,
        holdings \in Holdings :
       ValidateAndRecord(caller, id, fills, holdings)
  \/ \E allow \in BOOLEAN : SetGuardWriter(allow)
  \/ OracleAction

Spec == Init /\ [][Next]_vars

---------------------------------------------------------------------------
(* Correctness.                                                            *)

RuleOf(r) == rules[r.mandateId][r.policyVersion]

\* Type invariant.
TypeOK ==
  /\ now \in Nat \ {0}
  /\ obs \in [Asset -> Observation]
  /\ \A id \in DOMAIN mandates :
       LET m == mandates[id] IN
       /\ m.owner \in Account /\ m.agent \in Account /\ m.executor \in Account
       /\ m.policy \in Policy /\ ValidPolicy(m.policy)
       /\ m.version \in 1 .. MAX_VERSION /\ m.version = Len(rules[id])
       /\ m.active \in BOOLEAN /\ m.circuitBreaker \in BOOLEAN
       /\ m.lastActionAt \in 0 .. now /\ m.epochStart \in 1 .. now
       /\ positions[id] \in [Asset -> Position]
       /\ allowed[id] \subseteq Asset
       /\ Len(triggers[id]) <= MAX_TRIGGERS

\* However its batches fall around the epoch boundary, a mandate never trades
\* more than twice maxFillsPerEpoch within any stretch of one epochDuration
\* under one policy version: the epoch restarts at the first action after it
\* ran out, so two full epochs can be adjacent, and never three.
FillsInWindow(id, v, from, to) ==
  SumFunctionOnSet([i \in DOMAIN receipts |-> Len(receipts[i].fills)],
                   {i \in DOMAIN receipts : /\ receipts[i].mandateId = id
                                            /\ receipts[i].policyVersion = v
                                            /\ receipts[i].timestamp \in from .. to})

SlidingWindowBudget ==
  \A id \in DOMAIN mandates : \A v \in DOMAIN rules[id] : \A t \in 1 .. now :
    LET p == rules[id][v].policy IN
    FillsInWindow(id, v, t, t + p.epochDuration - 1) <= 2 * p.maxFillsPerEpoch

\* Two settlements of a mandate are never closer than the interval that the
\* later one's policy version asks for, even when the owner lowers or raises
\* the interval in between.
SettlementsKeepTheInterval ==
  \A i, j \in DOMAIN receipts :
    i < j /\ receipts[i].mandateId = receipts[j].mandateId =>
      receipts[j].timestamp >= receipts[i].timestamp
                                 + RuleOf(receipts[j]).policy.minRebalanceInterval

\* The version stamped into a receipt is the policy its fills were held to:
\* whatever the owner changed since, an auditor who looks that version up
\* finds every fill inside its limits, and every entry inside its risk limit.
ReceiptsObeyTheirVersion ==
  \A i \in DOMAIN receipts : \A j \in DOMAIN receipts[i].fills :
    LET f == receipts[i].fills[j]
        p == RuleOf(receipts[i]).policy
    IN /\ f.amountInUsdg <= p.maxNotionalPerTrade
       /\ f.slippageBps <= p.maxSlippageBps
       /\ ~f.isExit => f.gapRisk <= p.maxGapRisk /\ f.fairValueE8 # 0

\* Each asset is listed once, however often it is allowed, disallowed and
\* allowed again: a second entry would count its balance twice in the total
\* every weight is measured against, and the weight cap would stop binding.
AllowlistCountsEachAssetOnce ==
  \A id \in DOMAIN mandates :
    /\ IsInjective(assetList[id])
    /\ allowed[id] \subseteq ToSet(assetList[id])
    /\ Len(assetList[id]) <= MAX_ASSETS

\* What a mandate's receipts, taken in order, leave of an empty position.
Replayed(id, before, r) ==
  IF r.mandateId = id THEN FoldLeft(Settle, before, r.fills) ELSE before

Replay(id) ==
  LET after[n \in 0 .. Len(receipts)] ==
        IF n = 0 THEN [a \in Asset |-> NoPosition]
        ELSE Replayed(id, after[n - 1], receipts[n])
  IN after[Len(receipts)]

\* The positions triggers are measured against are exactly what the recorded
\* fills replay to, so that anyone can recompute a drawdown from the record.
PositionsReplayFromReceipts ==
  \A id \in DOMAIN mandates : positions[id] = Replay(id)

\* What bounds an exit, and nothing else: no state of the oracle, no trigger
\* and no weight rule can refuse a sale that the limits allow.
ExitsNeedNoOracle ==
  \A id \in DOMAIN mandates, fills \in Batches, holdings \in Holdings :
    LET m == mandates[id] IN
    /\ fills # <<>> /\ AllExits(fills)
    /\ m.active /\ ~m.circuitBreaker
    /\ WithinRate(m, fills)
    /\ \A i \in DOMAIN fills : WithinLimits(id, fills[i])
    => Accepts(id, fills, holdings)

\* "A dryRun that refused something the real call would allow is worse than
\* no dryRun": whatever settles, the dry run said yes to.
DryRunNeverRefusesWhatSettles ==
  \A id \in DOMAIN mandates, fills \in Batches, holdings \in Holdings :
    Accepts(id, fills, holdings) => DryRunOk(id, fills)

\* "Same checks, no state change" (the comment on dryRun): a batch the dry run
\* permits would settle, whatever balances the trade leaves.
DryRunRunsTheSameChecks ==
  \A id \in DOMAIN mandates, fills \in Batches, holdings \in Holdings :
    DryRunOk(id, fills) => Accepts(id, fills, holdings)

\* "Assets whose oracle data is missing or stale are reported as staleAssets"
\* (the comment on firedTriggers): the read always answers.
TriggersReadAnswers == \A id \in DOMAIN mandates : ~TriggersReadReverts(id)

NewReceipt == receipts'[Len(receipts')]

\* A mandate that is closed or tripped settles nothing, and closing is final:
\* no later change of policy, triggers, agent, executor or breaker reopens it.
StoppedMandatesSettleNothing ==
  [][\A id \in DOMAIN mandates :
       /\ ~mandates[id].active => ~mandates'[id].active
       /\ receipts' # receipts /\ NewReceipt.mandateId = id =>
            mandates[id].active /\ ~mandates[id].circuitBreaker]_vars

\* No entry is added to a position while a trigger of its own thesis fires
\* against it, or cannot be evaluated -- the position as it was before the
\* batch, so that the batch cannot average its way out.
NoEntryPastAFiredTrigger ==
  [][receipts' # receipts =>
       LET id == NewReceipt.mandateId IN
       \A i \in DOMAIN NewReceipt.fills :
         LET f == NewReceipt.fills[i] IN
         ~f.isExit =>
           \A tr \in ToSet(rules[id][NewReceipt.policyVersion].triggers) :
             Covers(tr, f.asset) =>
               /\ Available(tr.metric, obs[f.asset], positions[id][f.asset])
               /\ ~Fired(tr, obs[f.asset], positions[id][f.asset], now)]_vars

\* The record never carries a value the oracle would not stand behind at that
\* moment: a stale or withheld value is stamped as 0, never as the last one.
ReceiptsNeverStampAStaleValue ==
  [][receipts' # receipts =>
       \A i \in DOMAIN NewReceipt.fills :
         LET f == NewReceipt.fills[i] IN
         f.fairValueE8 # 0 => /\ FreshNow(f.asset) /\ obs[f.asset].hasValue
                              /\ f.fairValueE8 = obs[f.asset].fairValueE8]_vars
=============================================================================
