----------------------------- MODULE FundingSwap -----------------------------
(***************************************************************************)
(* How the deployer funds itself: pnpm swap (src/src/swap.ts) wraps OKB,   *)
(* approves contracts/PoolSwapper.sol and swaps through two pools, and is  *)
(* run again when it dies on the way.  Every read may reach a node that is *)
(* behind (NodeReads), a transaction may be sent and not yet mined when    *)
(* the run that sent it is gone, and the pools move.                       *)
(*                                                                         *)
(* One run at a time, of one wallet; the hop to the stable coin is at par, *)
(* and `rate` is what the second pays for one of it.  Nothing else moves   *)
(* the wallet's balances.                                                  *)
(***************************************************************************)
EXTENDS Integers, Sequences

CONSTANTS
  Want,             \* amounts a run may be asked for; Everything names none
  Everything,
  Start,            \* what the wallet may hold at first
  Pools,            \* rates and depths of the two pools
  GAS_RESERVE, LEAST_GAS,   \* kept back when everything is swapped; always left
  TX_GAS,           \* what a transaction costs
  MaxSwapRuns,      \* bound on runs
  MaxPoolMoves      \* bound on how often the pools move

ASSUME FundingAssumption ==
  /\ Want \subseteq Nat \cup {Everything} /\ Everything \notin Int
  /\ {GAS_RESERVE, LEAST_GAS, TX_GAS, MaxSwapRuns, MaxPoolMoves} \subseteq Nat
  /\ Start \subseteq [okb : Nat, wokb : Nat, allowance : Nat, usdg : Nat, stranded : Nat]
  /\ Pools \subseteq [rate : Nat, first : Nat, second : Nat]

VARIABLES
  balances, behindBalances,   \* the wallet's, and what the swapper was left with
  reserves,               \* the pools
  sent,                   \* transactions sent and not mined, in order of their nonces
  job,                    \* the run under way
  swapRuns, poolMoves

fundingVars == <<balances, behindBalances, reserves, sent, job, swapRuns, poolMoves>>

Nodes == INSTANCE NodeReads WITH head <- balances, behind <- behindBalances

Least(a, b) == IF a < b THEN a ELSE b
---------------------------------------------------------------------------
(* PoolSwapper.swapExactInput over two hops.                               *)

\* A pool that runs out takes less than it is given; what the second leaves stays behind.
HopOne(amount) == Least(amount, reserves.first)
HopTwo(amount) == Least(HopOne(amount), reserves.second)
AmountOut(amount) == HopTwo(amount) * reserves.rate

Deposit(amount) == [kind |-> "deposit", amount |-> amount, minOut |-> 0]
Approval(amount) == [kind |-> "approve", amount |-> amount, minOut |-> 0]
SwapOf(amount, minOut) == [kind |-> "swap", amount |-> amount, minOut |-> minOut]

\* Whether the chain would take the transaction in state `w`.
Takes(w, tx) ==
  CASE tx.kind = "deposit" -> w.okb >= tx.amount + TX_GAS
    [] tx.kind = "approve" -> w.okb >= TX_GAS
    [] OTHER -> /\ w.okb >= TX_GAS /\ tx.amount > 0 /\ HopOne(tx.amount) > 0
                /\ w.wokb >= HopOne(tx.amount) /\ w.allowance >= HopOne(tx.amount)
                /\ AmountOut(tx.amount) >= tx.minOut

Taken(w, tx) ==
  LET paid == [w EXCEPT !.okb = @ - TX_GAS]
  IN CASE tx.kind = "deposit" -> [paid EXCEPT !.okb = @ - tx.amount, !.wokb = @ + tx.amount]
       [] tx.kind = "approve" -> [paid EXCEPT !.allowance = tx.amount]
       [] OTHER -> [paid EXCEPT !.wokb = @ - HopOne(tx.amount),
                                !.allowance = @ - HopOne(tx.amount),
                                !.usdg = @ + AmountOut(tx.amount),
                                !.stranded = @ + HopOne(tx.amount) - HopTwo(tx.amount)]

\* A transaction that reverts costs its gas.
Reverted(w) == [w EXCEPT !.okb = IF @ < TX_GAS THEN 0 ELSE @ - TX_GAS]

Mines ==
  /\ sent # <<>>
  /\ Nodes!Land(IF Takes(balances, Head(sent)) THEN Taken(balances, Head(sent)) ELSE Reverted(balances))
  /\ sent' = Tail(sent)
  /\ job' = IF Takes(balances, Head(sent)) /\ Head(sent).kind = "swap" /\ job.pc = "received"
            THEN [job EXCEPT !.paid = AmountOut(Head(sent).amount)] ELSE job
  /\ UNCHANGED <<reserves, swapRuns, poolMoves>>
---------------------------------------------------------------------------
(* A run of pnpm swap.  `sound` is history: every balance the run decided  *)
(* by was the wallet's, with nothing of an earlier run still to be mined.  *)

NoJob == [pc |-> "off", want |-> 0, okb |-> 0, held |-> 0, amount |-> 0, wrap |-> 0,
          minOut |-> 0, before |-> 0, paid |-> 0, reported |-> 0, sound |-> TRUE]

Goes(next) == job' = next /\ UNCHANGED <<balances, behindBalances, reserves, sent, swapRuns, poolMoves>>

\* A run that throws, is killed, or is done, is over; a killed one may have sent something.
Over == [job EXCEPT !.pc = "off"]

Invoked ==
  /\ job.pc = "off" /\ swapRuns < MaxSwapRuns
  /\ swapRuns' = swapRuns + 1
  /\ \E w \in Want : job' = [NoJob EXCEPT !.pc = "balance", !.want = w]
  /\ UNCHANGED <<balances, behindBalances, reserves, sent, poolMoves>>

Settled(w) == w = balances /\ sent = <<>>

ReadsBalance ==
  /\ job.pc = "balance"
  /\ \E w \in Nodes!Served :
       Goes([job EXCEPT !.pc = "held", !.okb = w.okb, !.sound = @ /\ Settled(w)])

\* What is held wrapped already counts, and is not taken from the balance again.
ToWrap(amount, held) == IF amount > held THEN amount - held ELSE 0

\* Defect for the checks: what a run before wrapped is wrapped once more.
ReadsHeldAfresh ==
  /\ job.pc = "held"
  /\ \E w \in Nodes!Served :
       LET amount == IF job.want = Everything THEN job.okb + w.wokb - GAS_RESERVE ELSE job.want
       IN IF amount <= 0 \/ job.okb - amount < LEAST_GAS THEN Goes(Over)
          ELSE Goes([job EXCEPT !.pc = "quote", !.held = w.wokb, !.amount = amount,
                                !.wrap = amount, !.sound = @ /\ Settled(w)])

ReadsHeld ==
  /\ job.pc = "held"
  /\ \E w \in Nodes!Served :
       LET amount == IF job.want = Everything THEN job.okb + w.wokb - GAS_RESERVE ELSE job.want
           wrap == ToWrap(amount, w.wokb)
       IN IF amount <= 0 \/ job.okb - wrap < LEAST_GAS THEN Goes(Over)
          ELSE Goes([job EXCEPT !.pc = "quote", !.held = w.wokb, !.amount = amount,
                                !.wrap = wrap, !.sound = @ /\ Settled(w)])

\* A quote beyond the pools is refused; one percent less than it is the least taken.
Quotes ==
  /\ job.pc = "quote"
  /\ IF job.amount > reserves.first \/ job.amount > reserves.second THEN Goes(Over)
     ELSE Goes([job EXCEPT !.pc = IF job.wrap = 0 THEN "allowance" ELSE "wrap",
                           !.minOut = (AmountOut(job.amount) * 9900) \div 10000])

\* The gas of a transaction is estimated by some node, which refuses what would fail there.
Sends(tx, next) ==
  \E w \in Nodes!Served :
    IF Takes(w, tx)
    THEN /\ sent' = Append(sent, tx) /\ job' = [job EXCEPT !.pc = next]
         /\ UNCHANGED <<balances, behindBalances, reserves, swapRuns, poolMoves>>
    ELSE Goes(Over)

Wraps == job.pc = "wrap" /\ Sends(Deposit(job.wrap), "wrapped")

\* waitUntil: any node may be the one that shows it.
SeesWrapped ==
  /\ job.pc = "wrapped"
  /\ \E w \in Nodes!Served : w.wokb >= job.amount
  /\ Goes([job EXCEPT !.pc = "allowance"])

ReadsAllowance ==
  /\ job.pc = "allowance"
  /\ \E w \in Nodes!Served :
       Goes([job EXCEPT !.pc = IF w.allowance < job.amount THEN "approve" ELSE "before"])

Approves == job.pc = "approve" /\ Sends(Approval(job.amount), "approved")

SeesAllowance ==
  /\ job.pc = "approved"
  /\ \E w \in Nodes!Served : w.allowance >= job.amount
  /\ Goes([job EXCEPT !.pc = "before"])

ReadsBefore ==
  /\ job.pc = "before"
  /\ \E w \in Nodes!Served :
       Goes([job EXCEPT !.pc = "swap", !.before = w.usdg, !.sound = @ /\ Settled(w)])

Swaps == job.pc = "swap" /\ Sends(SwapOf(job.amount, job.minOut), "received")

\* The balance before is all that tells this swap's output from what was there.
Reports ==
  /\ job.pc = "received"
  /\ \E w \in Nodes!Served :
       w.usdg > job.before /\ Goes([job EXCEPT !.pc = "off", !.reported = w.usdg - job.before])

\* A read that fails, a wait that takes too long, a kill.
Dies == job.pc # "off" /\ Goes(Over)

PoolsMove ==
  /\ poolMoves < MaxPoolMoves /\ poolMoves' = poolMoves + 1
  /\ reserves' \in Pools \ {reserves}
  /\ UNCHANGED <<balances, behindBalances, sent, job, swapRuns>>

FundingSyncs == Nodes!Sync /\ UNCHANGED <<reserves, sent, job, swapRuns, poolMoves>>

FundingInit ==
  /\ \E w \in Start : Nodes!ReadsInit(w)
  /\ reserves \in Pools
  /\ sent = <<>> /\ job = NoJob /\ swapRuns = 0 /\ poolMoves = 0

SwapRun ==
  \/ Invoked \/ ReadsBalance \/ ReadsHeld \/ Quotes \/ Wraps \/ SeesWrapped \/ ReadsAllowance
  \/ Approves \/ SeesAllowance \/ ReadsBefore \/ Swaps \/ Reports \/ Dies

FundingNext == SwapRun \/ Mines \/ PoolsMove \/ FundingSyncs

FundingSpec == FundingInit /\ [][FundingNext]_fundingVars
---------------------------------------------------------------------------
\* A run that decided by what the wallet really held, whatever earlier runs left behind: it
\* wraps only what is missing, so that it never swaps less than it wrapped and leaves gas
\* for what follows; and what it reports as received is what its own swap paid, no less than
\* it would take (swap.ts 102-128, 185-191 and 258-289).
ResumedRunsAreExact ==
  job.sound =>
    /\ job.pc = "wrapped" /\ sent = <<>> =>
         balances.wokb = job.amount /\ balances.okb >= LEAST_GAS - TX_GAS
    /\ job.pc = "off" /\ job.reported > 0 => job.reported = job.paid /\ job.paid >= job.minOut

\* "It holds nothing between transactions" (PoolSwapper.sol 13-18).  It does, when the second
\* pool takes less than the first one paid: the output is all that is compared.
TheSwapperHoldsNothing == balances.stranded = 0

\* "Wrapping again would ... silently double the position" (swap.ts 185-189), and no run
\* wraps what one before it wrapped.  It does, when that is not mined or not seen yet.
NoRunWrapsTwice == balances.wokb <= job.amount \/ job.pc # "received"
=============================================================================
