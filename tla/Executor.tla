------------------------------ MODULE Executor ------------------------------
(***************************************************************************)
(* contracts/Executor.sol with the pools of contracts/V3Swapper.sol: the   *)
(* mandate's agent spends one Permit2 signature of the owner, every leg    *)
(* goes straight to a pool, the fee is split off, and the guard validates  *)
(* and records what came out.  The whole call is one transaction and so    *)
(* one step: everything it requires is a guard of the action.              *)
(*                                                                         *)
(* PolicyGuard, the registry and the oracle's feed are composed by         *)
(* conjunction: the gate of PolicyGuard is a conjunct of each action.      *)
(* External, modelled by what the contract relies on: the tokens (a ledger *)
(* of balances), Permit2 (a signature moves at most what it names, before  *)
(* its deadline, once) and the pools.  A pool may give anything for what   *)
(* it takes and, out of liquidity, take less than it was offered.  Nobody  *)
(* else moves a token, and nobody else calls FeeCollector.record.          *)
(***************************************************************************)
EXTENDS PolicyGuard, FeeCollector

CONSTANTS
  This,           \* the executor's address
  Collector,      \* the fee collector's address
  Market,         \* the other side of every swap
  Cash,           \* the settlement currency
  Leg,            \* [asset, amountInUsdg, minAmountOut] an agent may submit
  ExitLeg,        \* [asset, amountIn, minAmountOutUsdg]
  Permit,         \* [permitted, nonce, deadline] an owner may sign
  PoolOut,        \* amounts a pool may pay out
  Shortfall,      \* what of its input a pool may leave unspent
  InitialCash, InitialUnits,
  MAX_LEGS

Holder == Account \cup FeeAddress \cup {This, Collector, Market}

\* What Solidity's types and the addresses of deployed contracts guarantee: amounts are
\* unsigned, and no account that signs or collects fees is one of the contracts.
ASSUME ExecutorAssumption ==
  /\ Leg \subseteq [asset : Asset, amountInUsdg : Nat, minAmountOut : Nat]
  /\ ExitLeg \subseteq [asset : Asset, amountIn : Nat, minAmountOutUsdg : Nat]
  /\ PoolOut \subseteq Nat /\ Shortfall \subseteq Nat
  /\ InitialCash \in Nat /\ InitialUnits \in [Asset -> Nat]
  /\ MAX_FEE_BPS \in 0 .. 10000
  /\ {This, Collector, Market} \cap (Account \cup FeeAddress) = {}
  /\ This # Collector /\ This # Market /\ Collector # Market

\* A permit lists the tokens it lets go, each with an amount.
ASSUME PermitAssumption ==
  \A p \in Permit : p.permitted \in Seq([token : Asset \cup {Cash}, amount : Nat])

VARIABLES
  purse,        \* cash balance of every holder
  units,        \* balance of every asset of every holder
  signed,       \* permits each owner has signed
  usedNonces,   \* Permit2: nonces each owner's signatures have spent
  feeEvents     \* FeeTaken events of these transactions, in order, by leg

tokenVars == <<purse, units, signed, usedNonces, feeEvents>>
execVars == <<vars, feeVars, tokenVars>>

ExecInit ==
  /\ Init
  /\ FeeInit
  /\ purse = [h \in Holder |-> IF h \in Account \cup {Market} THEN InitialCash
                               ELSE 0]
  /\ units = [h \in Holder |-> [a \in Asset |->
                IF h \in Account \cup {Market} THEN InitialUnits[a] ELSE 0]]
  /\ signed = [o \in Account |-> {}]
  /\ usedNonces = [o \in Account |-> {}]
  /\ feeEvents = <<>>

Total(f) == SumFunction(f)

\* What a batch moves of one asset.
TotalOf(legs, amount, a) ==
  Total([i \in DOMAIN legs |-> IF legs[i].asset = a THEN amount[i] ELSE 0])

---------------------------------------------------------------------------
(* Fills, as the guard will see them.                                      *)

\* Settlement currency per whole asset unit, 8 decimals.
PriceE8(a, cashAmount, assetAmount) ==
  (cashAmount * UnitOf[a] * CASH_UNIT) \div assetAmount

UINT16_MAX == 65535

\* Realised shortfall against the value the oracle stands behind: paying above
\* it on the way in, receiving below it on the way out, 0 where there is none.
ShortfallBps(a, price, isExit) ==
  LET fair == obs[a].fairValueE8
      worse == IF isExit THEN price < fair ELSE price > fair
  IN IF FreshNow(a) /\ obs[a].hasValue /\ fair # 0 /\ worse
     THEN IF Bps(fair, price) > UINT16_MAX THEN UINT16_MAX ELSE Bps(fair, price)
     ELSE 0

\* The fee is taken off the input before anything reaches a pool.
SwapAmount(leg) == leg.amountInUsdg - FeeOn(leg.amountInUsdg)

EntryFill(leg, out) ==
  LET price == PriceE8(leg.asset, SwapAmount(leg), out) IN
  [asset |-> leg.asset, isExit |-> FALSE, amountInUsdg |-> SwapAmount(leg),
   amountOut |-> out, executionPriceE8 |-> price,
   slippageBps |-> ShortfallBps(leg.asset, price, FALSE)]

\* Defect for the checks: the cash where the units belong.
ExitFillInCash(leg, out) ==
  LET price == PriceE8(leg.asset, out, leg.amountIn) IN
  [asset |-> leg.asset, isExit |-> TRUE, amountInUsdg |-> out,
   amountOut |-> out, executionPriceE8 |-> price,
   slippageBps |-> ShortfallBps(leg.asset, price, TRUE)]

\* The cash is what comes out, gross; amountOut carries the units sold.
ExitFill(leg, out) ==
  LET price == PriceE8(leg.asset, out, leg.amountIn) IN
  [asset |-> leg.asset, isExit |-> TRUE, amountInUsdg |-> out,
   amountOut |-> leg.amountIn, executionPriceE8 |-> price,
   slippageBps |-> ShortfallBps(leg.asset, price, TRUE)]

---------------------------------------------------------------------------
(* Permit2.                                                                *)

Sign(owner, permit) ==
  /\ signed' = [signed EXCEPT ![owner] = @ \cup {permit}]
  /\ UNCHANGED <<vars, feeVars, purse, units, usedNonces, feeEvents>>

\* permitTransferFrom would move `requested` out of the owner's wallet.
PermitTransfers(owner, permit, requested) ==
  /\ permit \in signed[owner]
  /\ now <= permit.deadline
  /\ permit.nonce \notin usedNonces[owner]
  /\ Len(requested) = Len(permit.permitted)
  /\ \A i \in DOMAIN requested : requested[i] <= permit.permitted[i].amount

---------------------------------------------------------------------------
(* Transactions.                                                           *)

\* Who may call, for both directions.
MayCall(caller, id) == caller = mandates[id].agent /\ mandates[id].executor = This

HoldingsOf(o, cash, held) == [cash |-> cash[o], units |-> held[o]]

\* Defect for the checks: the fee is pulled on top of the amounts.
CashAfterEntryFeeOnTop(o, legs, unspent) ==
  LET spent == Total([i \in DOMAIN legs |-> legs[i].amountInUsdg])
      fees == Total([i \in DOMAIN legs |-> FeeOn(legs[i].amountInUsdg)])
      kept == Total(unspent)
  IN [purse EXCEPT ![o] = @ - spent - fees, ![Collector] = @ + fees,
                   ![This] = @ + kept, ![Market] = @ + spent - kept]

\* Cash and assets once an entry settled: `outs` from the pools, `unspent`
\* what they did not take.
CashAfterEntry(o, legs, unspent) ==
  LET spent == Total([i \in DOMAIN legs |-> legs[i].amountInUsdg])
      fees == Total([i \in DOMAIN legs |-> FeeOn(legs[i].amountInUsdg)])
      kept == Total(unspent)
  IN [purse EXCEPT ![o] = @ - spent, ![Collector] = @ + fees,
                   ![This] = @ + kept, ![Market] = @ + spent - fees - kept]

UnitsAfterEntry(o, legs, outs) ==
  [units EXCEPT ![o] = [a \in Asset |-> @[a] + TotalOf(legs, outs, a)],
                ![Market] = [a \in Asset |-> @[a] - TotalOf(legs, outs, a)]]

CashAfterExit(o, outs) ==
  LET proceeds == Total(outs)
      fees == Total([i \in DOMAIN outs |-> FeeOn(outs[i])])
  IN [purse EXCEPT ![o] = @ + proceeds - fees, ![Collector] = @ + fees,
                   ![Market] = @ - proceeds]

UnitsAfterExit(o, legs, unspent) ==
  LET sold == [i \in DOMAIN legs |-> legs[i].amountIn] IN
  [units EXCEPT
     ![o] = [a \in Asset |-> @[a] - TotalOf(legs, sold, a)],
     ![This] = [a \in Asset |-> @[a] + TotalOf(legs, unspent, a)],
     ![Market] = [a \in Asset |-> @[a] + TotalOf(legs, sold, a)
                                       - TotalOf(legs, unspent, a)]]

\* Defect for the checks: only the settlement currency is looked at.
NoCashResidue(cash, held, legs) == cash[This] = 0

\* Nothing may rest in the executor: asserted, not assumed.
NoResidue(cash, held, legs) ==
  /\ cash[This] = 0
  /\ \A i \in DOMAIN legs : held[This][legs[i].asset] = 0

\* The events FeeCollector.record emits in one transaction, none for a fee of zero.
FeesTaken(id, legs, notionals) ==
  [mandateId |-> id,
   fees |-> [i \in {i \in DOMAIN legs : FeeOn(notionals[i]) > 0} |-> FeeOn(notionals[i])]]

Execute(caller, id, legs, permit, outs, unspent) ==
  LET o == mandates[id].owner
      amounts == [i \in DOMAIN legs |-> legs[i].amountInUsdg]
      total == Total(amounts)
  IN /\ legs # <<>>
     /\ MayCall(caller, id)
     /\ Len(permit.permitted) = 1
     /\ permit.permitted[1].token = Cash
     /\ PermitTransfers(o, permit, <<total>>)
     /\ total <= purse[o]
     /\ \A i \in DOMAIN legs : /\ SwapAmount(legs[i]) # 0
                               /\ outs[i] # 0 /\ outs[i] >= legs[i].minAmountOut
                               /\ unspent[i] < SwapAmount(legs[i])
     /\ \A a \in Asset : TotalOf(legs, outs, a) <= units[Market][a]
     /\ purse' = CashAfterEntry(o, legs, unspent)
     /\ units' = UnitsAfterEntry(o, legs, outs)
     /\ NoResidue(purse', units', legs)
     /\ ValidateAndRecord(This, id, [i \in DOMAIN legs |-> EntryFill(legs[i], outs[i])],
                          HoldingsOf(o, purse', units'))
     /\ usedNonces' = [usedNonces EXCEPT ![o] = @ \cup {permit.nonce}]
     /\ feeEvents' = Append(feeEvents, FeesTaken(id, legs, amounts))
     /\ UNCHANGED <<feeVars, signed>>

\* What exit requires of the legs and the permit, the guard apart.
ExitRuns(id, legs, permit, outs, unspent) ==
  LET o == mandates[id].owner
      sold == [i \in DOMAIN legs |-> legs[i].amountIn]
  IN /\ Len(permit.permitted) = Len(legs)
     /\ \A i \in DOMAIN legs : /\ legs[i].asset # Cash
                               /\ permit.permitted[i].token = legs[i].asset
     /\ PermitTransfers(o, permit, sold)
     /\ \A a \in Asset : TotalOf(legs, sold, a) <= units[o][a]
     /\ \A i \in DOMAIN legs : /\ sold[i] # 0 /\ unspent[i] < sold[i]
                               /\ outs[i] # 0 /\ outs[i] >= legs[i].minAmountOutUsdg
     /\ Total(outs) <= purse[Market]

ExitFills(legs, outs) == [i \in DOMAIN legs |-> ExitFill(legs[i], outs[i])]

ExitPositions(caller, id, legs, permit, outs, unspent) ==
  LET o == mandates[id].owner IN
  /\ legs # <<>>
  /\ MayCall(caller, id)
  /\ ExitRuns(id, legs, permit, outs, unspent)
  /\ purse' = CashAfterExit(o, outs)
  /\ units' = UnitsAfterExit(o, legs, unspent)
  /\ NoResidue(purse', units', legs)
  /\ ValidateAndRecord(This, id, ExitFills(legs, outs), HoldingsOf(o, purse', units'))
  /\ usedNonces' = [usedNonces EXCEPT ![o] = @ \cup {permit.nonce}]
  /\ feeEvents' = Append(feeEvents, FeesTaken(id, legs, outs))
  /\ UNCHANGED <<feeVars, signed>>

\* Anyone may sweep the collected fees, to the treasury and nowhere else.
Withdraw ==
  /\ purse[Collector] # 0
  /\ purse' = [purse EXCEPT ![Collector] = 0, ![treasury] = @ + purse[Collector]]
  /\ UNCHANGED <<vars, feeVars, units, signed, usedNonces, feeEvents>>

---------------------------------------------------------------------------
(* Next-state relation.                                                    *)

UpTo(n, S) == UNION {[1 .. k -> S] : k \in 1 .. n}

\* The agent trades, one way or the other, against whatever the pools do.
Trade(caller, id) ==
  \E permit \in Permit :
    \/ \E legs \in UpTo(MAX_LEGS, Leg) :
         \E outs \in [DOMAIN legs -> PoolOut], unspent \in [DOMAIN legs -> Shortfall] :
           Execute(caller, id, legs, permit, outs, unspent)
    \/ \E legs \in UpTo(MAX_LEGS, ExitLeg) :
         \E outs \in [DOMAIN legs -> PoolOut], unspent \in [DOMAIN legs -> Shortfall] :
           ExitPositions(caller, id, legs, permit, outs, unspent)

\* Everything the guard's owner and the oracle may do between two trades.
Around ==
  /\ \/ \E caller, agent \in Account, executor \in Account \cup {This},
           p \in Policy, assets \in AssetArrays :
          CreateMandate(caller, agent, executor, p, assets)
     \/ \E caller \in Account, id \in DOMAIN mandates : OwnerAction(caller, id)
     \/ OracleAction
  /\ UNCHANGED <<feeVars, tokenVars>>

FeeStep == FeeNext /\ UNCHANGED <<vars, tokenVars>>

ExecNext ==
  \/ \E caller \in Account, id \in DOMAIN mandates : Trade(caller, id)
  \/ \E owner \in Account, permit \in Permit : Sign(owner, permit)
  \/ Around
  \/ FeeStep
  \/ Withdraw

ExecSpec == ExecInit /\ [][ExecNext]_execVars

---------------------------------------------------------------------------
(* Correctness.                                                            *)

\* Type invariant.
ExecTypeOK ==
  /\ purse \in [Holder -> Nat]
  /\ units \in [Holder -> [Asset -> Nat]]
  /\ feeBps \in 0 .. MAX_FEE_BPS /\ {feeAdmin, treasury} \subseteq FeeAddress
  /\ \A o \in Account : signed[o] \subseteq Permit
  /\ \A i \in DOMAIN receipts : \A j \in DOMAIN receipts[i].fills :
       receipts[i].fills[j].slippageBps \in 0 .. UINT16_MAX

\* The contract is never custodial (Executor.sol 155-162): whatever the pools left
\* unspent, nothing of anyone's rests in it between two transactions.
ExecutorHoldsNothing ==
  purse[This] = 0 /\ \A a \in Asset : units[This][a] = 0

\* What one receipt says was paid or earned, and bought or sold of one asset.
CashIn(r, exit) ==
  Total([j \in DOMAIN r.fills |-> IF r.fills[j].isExit = exit THEN r.fills[j].amountInUsdg ELSE 0])

UnitsIn(r, exit, a) ==
  Total([j \in DOMAIN r.fills |->
           IF r.fills[j].isExit = exit /\ r.fills[j].asset = a THEN r.fills[j].amountOut ELSE 0])

OwnerOf(e) == mandates[e.mandateId].owner

\* The same over an owner's receipts, and the fees of the owner's trades.
CashRecorded(o, exit) ==
  Total([i \in DOMAIN receipts |-> IF OwnerOf(receipts[i]) = o THEN CashIn(receipts[i], exit) ELSE 0])

UnitsRecorded(o, exit, a) ==
  Total([i \in DOMAIN receipts |-> IF OwnerOf(receipts[i]) = o THEN UnitsIn(receipts[i], exit, a) ELSE 0])

FeesOf(o) ==
  Total([i \in DOMAIN feeEvents |-> IF OwnerOf(feeEvents[i]) = o THEN Total(feeEvents[i].fees) ELSE 0])

\* The record is the money: replaying an owner's receipts and fee events gives
\* back exactly the owner's wallet, in cash and in every asset, whichever legs
\* were entries and whichever exits, and none of what left it rests in the executor.
\* An owner who is the treasury as well also has what it swept.
RecordReplaysTheWallet ==
  /\ ExecutorHoldsNothing
  /\ \A o \in Account \ FeeAddress :
       /\ purse[o] = InitialCash - CashRecorded(o, FALSE) + CashRecorded(o, TRUE) - FeesOf(o)
       /\ \A a \in Asset :
            units[o][a] = InitialUnits[a] + UnitsRecorded(o, FALSE, a) - UnitsRecorded(o, TRUE, a)

\* What the guard stamps and what the executor measured agree: no recorded fill,
\* bought or sold, was further on the wrong side of the value stamped beside it
\* than the slippage limit of the policy version it names.
FillsStayNearTheStampedValue ==
  \A i \in DOMAIN receipts : \A j \in DOMAIN receipts[i].fills :
    LET f == receipts[i].fills[j]
        worse == IF f.isExit THEN f.executionPriceE8 < f.fairValueE8
                 ELSE f.executionPriceE8 > f.fairValueE8
    IN f.fairValueE8 # 0 /\ worse =>
         Bps(f.fairValueE8, f.executionPriceE8)
           <= RuleOf(receipts[i]).policy.maxSlippageBps

PermittedOf(permit, token) ==
  Total([i \in DOMAIN permit.permitted |->
           IF permit.permitted[i].token = token THEN permit.permitted[i].amount ELSE 0])

\* Nothing leaves an owner's wallet, fees included, but under one signature of
\* the owner that names that token, for no more than it names, inside its
\* deadline, and that signature is spent with it.
NothingLeavesUnsigned ==
  [][\A o \in Account :
       LET Spent(token, loss) ==
             loss > 0 =>
               \E permit \in signed[o] :
                 /\ permit.nonce \in usedNonces'[o] \ usedNonces[o]
                 /\ now <= permit.deadline
                 /\ loss <= PermittedOf(permit, token)
       IN /\ Spent(Cash, purse[o] - purse'[o])
          /\ \A a \in Asset : Spent(a, units[o][a] - units'[o][a])]_execVars

\* The limits that are about the portfolio hold of the wallet the entry leaves
\* behind, not of the one it found: after any batch with an entry in it, every
\* allowed asset is inside its weight and the cash buffer stands.
EntriesLeaveThePortfolioInside ==
  [][receipts' # receipts =>
       LET id == NewReceipt.mandateId
           m == mandates[id]
       IN m.policy.enforceWeights /\ ~AllExits(NewReceipt.fills) =>
            WeightsHold(id, [cash |-> purse'[m.owner], units |-> units'[m.owner]])]_execVars

\* "Selling reduces an asset's weight and raises the cash balance, so neither
\* maxWeightBps nor minCashBufferBps can be breached by leaving" (the comment
\* in validateAndRecord): an exit that would settle from a portfolio inside its
\* weights leaves one.
SellingNeverBreachesTheWeights ==
  \A id \in DOMAIN mandates, permit \in Permit, legs \in UpTo(MAX_LEGS, ExitLeg) :
    \A outs \in [DOMAIN legs -> PoolOut] :
      LET o == mandates[id].owner
          nothing == [i \in DOMAIN legs |-> 0]
          after == HoldingsOf(o, CashAfterExit(o, outs), UnitsAfterExit(o, legs, nothing))
      IN /\ ExitRuns(id, legs, permit, outs, nothing)
         /\ Accepts(id, ExitFills(legs, outs), after)
         /\ WeightsHold(id, HoldingsOf(o, purse, units))
         => WeightsHold(id, after)
=============================================================================
