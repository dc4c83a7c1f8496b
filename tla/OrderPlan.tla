------------------------------ MODULE OrderPlan ------------------------------
(***************************************************************************)
(* From a request to a settled order: prepareFill (src/fill.ts) and        *)
(* prepareExit (src/exit-plan.ts) read the mandate, the wallet, the pools, *)
(* the thesis and the oracle one after another, predict the fill, ask the  *)
(* guard and archive the evidence; the plan is signed later, and settles   *)
(* later still, on the terms it carries.  pnpm execute (src/execute.ts)    *)
(* asks the same in another order and finds its mandate by itself, pnpm    *)
(* exit (src/exit.ts) sizes the sale and finds the mandate before it plans.*)
(*                                                                         *)
(* Every read sees the moment it is made, and anything may move between    *)
(* two of them.  One asset, one unit of which is worth a cash unit at a    *)
(* price of PAR.  A pool pays one average price for what it takes, up to   *)
(* its depth.  Mandates carry neither triggers nor weights: dryRun asks    *)
(* about neither (PolicyGuard states that difference).                     *)
(***************************************************************************)
EXTENDS OracleReads, Sequences, FiniteSets

CONSTANTS
  TIERS,       \* fee tiers, read in order
  Book,        \* what a tier's pool may be: [buy, sell, depth]
  Derived,     \* tiers where the executor derives the pool the factory lists
  LAST_ID,     \* the newest mandate
  Request,     \* what is asked for: a command has id 0
  Observed,    \* what the oracle may publish (at a time of its own)
  Terms,       \* of a mandate: [maxNotional, maxSlippageBps, maxDeviationBps, maxGapRisk]
  HELD,        \* what a wallet that is not empty holds, of cash and of units
  FEE_BPS, MAX_AGE, LIFE,   \* of the collector, the oracle and a permit
  MaxTime, MaxMoves         \* bounds

Tier == 1 .. TIERS
Ids == 1 .. LAST_ID

Key == {"owner", "key"}   \* that may sign as an agent: the owner's and another

AskedFor == [kind : {"entry", "exit"}, size : Nat, sender : Key, agent : Key,
             acknowledged : BOOLEAN, claims : BOOLEAN, id : Ids \cup {0}]

\* A fee is at most the collector's ceiling, a pool sells at some price.
ASSUME OrderAssumption ==
  /\ TIERS \in Nat /\ LAST_ID \in Nat \ {0} /\ HELD \in Nat
  /\ FEE_BPS \in 0 .. 50 /\ MAX_AGE \in Nat /\ LIFE \in Nat /\ MaxMoves \in Nat
  /\ Derived \subseteq Tier
  /\ Book \subseteq [buy : Nat \ {0}, sell : Nat, depth : Nat]
  /\ Request \subseteq AskedFor /\ Observed \subseteq Observation
  /\ Terms \subseteq [maxNotional : Nat, maxSlippageBps : Nat, maxDeviationBps : Nat,
                      maxGapRisk : Nat]

PAR == 10000

VARIABLES
  clock,      \* the time, of blocks and servers
  seen,       \* the oracle's observation of the asset
  mandate,    \* per id: [active, breaker, ours, owner, agent, policy]
  pools,      \* per tier
  wallet,     \* the owner's [cash, units]
  published,  \* the thesis claimed is in the registry
  order,      \* the plan in the making, and what became of it
  moves       \* what moved besides the order and the time

orderVars == <<clock, seen, mandate, pools, wallet, published, order, moves>>
world == <<clock, seen, mandate, pools, wallet, published, moves>>

TOLERANCE == 100   \* DEFAULT_SLIPPAGE_TOLERANCE_BPS

NoRequest == [kind |-> "entry", size |-> 0, sender |-> "owner", agent |-> "owner",
              acknowledged |-> FALSE, claims |-> FALSE, id |-> 0]

\* What is known of an order: the request, the mandate's id, the pools read so far, when
\* it was asked for, the units held; the tier, output, floor and price; what was peeked and
\* made of it; the verdict and the policy's limit; the permit's deadline, the price paid.
NoPlan ==
  [pc |-> "idle", request |-> NoRequest, id |-> 0, quotes |-> <<>>, since |-> 0, at |-> 0, held |-> 0,
   tier |-> 0, out |-> 0, least |-> 0, price |-> 0,
   peeked |-> NoObservation, measured |-> FALSE, slippageBps |-> 0,
   allow |-> FALSE, signable |-> FALSE, archived |-> FALSE, limit |-> 0,
   deadline |-> 0, paid |-> 0]
---------------------------------------------------------------------------
(* Quotes.                                                                 *)

Exit(request) == request.kind = "exit"

Consumed(pool, n) == IF n < pool.depth THEN n ELSE pool.depth

\* What a pool gives for n: the asset for cash, or cash for the asset.
Output(kind, pool, n) ==
  IF kind = "exit" THEN (Consumed(pool, n) * pool.sell) \div PAR
  ELSE (Consumed(pool, n) * PAR) \div pool.buy

Exhausted(pool, n) == n > pool.depth

\* The tiers a quote may come from: a sale drops the ones it would exhaust.
Candidates(request, quotes) ==
  {k \in DOMAIN quotes : /\ Output(request.kind, quotes[k], request.size) > 0
                         /\ Exit(request) => ~Exhausted(quotes[k], request.size)}

\* The first of those with the most output.
Best(request, quotes) ==
  CHOOSE k \in Candidates(request, quotes) : \A j \in Candidates(request, quotes) :
    LET Gives(i) == Output(request.kind, quotes[i], request.size)
    IN Gives(j) <= Gives(k) /\ (j < k => Gives(j) < Gives(k))

Floor(out) == (out * (10000 - TOLERANCE)) \div 10000

\* executionPriceE8, and Executor._priceE8.
Price(cash, units) == (cash * PAR) \div units

\* shortfallBps: what is paid above the value.
Overpaid(price, o) ==
  IF o.hasValue /\ o.fairValueE8 > 0 /\ price > o.fairValueE8 THEN Bps(o.fairValueE8, price) ELSE 0

\* Defect for the checks: the comparison of the way in.
ShortOfEntries(price, o, stale) == IF stale THEN 0 ELSE Overpaid(price, o)

\* exitShortfallBps: what is received below it, nothing where nothing is measured.
Short(price, o, stale) ==
  IF ~stale /\ o.hasValue /\ o.fairValueE8 > 0 /\ price < o.fairValueE8
  THEN Bps(o.fairValueE8, price) ELSE 0

Measured(o, stale) == o.hasValue /\ ~stale

Stale(o) == ~Fresh(o, clock, MAX_AGE)

\* The guard's checks of one fill, as dryRun and validateAndRecord share them, but for the
\* pace and the allowlist (TOO_SOON, EPOCH_LIMIT, ASSET_NOT_ALLOWED), which are PolicyGuard's:
\* time alone only ever lifts them between a plan and its settlement.
GuardAllows(m, exit, cash, price, slippageBps) ==
  LET p == m.policy
  IN /\ m.active /\ ~m.breaker
     /\ cash <= p.maxNotional /\ slippageBps <= p.maxSlippageBps
     /\ exit \/ CheckExecution(seen, clock, MAX_AGE, price, p.maxGapRisk, p.maxDeviationBps) = "OK"
---------------------------------------------------------------------------
OrderInit ==
  /\ clock = 1 /\ moves = 0 /\ published \in BOOLEAN /\ order = NoPlan
  /\ \E o \in Observed : seen = [o EXCEPT !.updatedAt = 1]
  /\ \E p \in Terms : mandate = [id \in Ids |->
       [active |-> TRUE, breaker |-> FALSE, ours |-> TRUE,
        owner |-> "owner", agent |-> "owner", policy |-> p]]
  /\ pools \in [Tier -> Book]
  /\ wallet = [cash |-> HELD, units |-> HELD]

Becomes(o) == order' = o /\ UNCHANGED world

\* A request that cannot honestly be planned is an error, and its plan is gone.
Throw == Becomes(NoPlan)

Command(r) == r.id = 0
Executes(r) == Command(r) /\ ~Exit(r)

Asked ==
  /\ order.pc = "idle"
  /\ \E r \in Request :
       Becomes([NoPlan EXCEPT !.request = r, !.id = r.id, !.since = moves, !.at = clock,
                !.pc = IF Executes(r) THEN "pools" ELSE IF Command(r) THEN "held"
                       ELSE "mandate"])

\* pnpm exit: a target in cash is units at the oracle's value, however old it is, and no
\* more of them than were held.
HeldRead ==
  /\ order.pc = "held"
  /\ IF wallet.units = 0 THEN Throw
     ELSE Becomes([order EXCEPT !.pc = "size", !.held = wallet.units])

UnitsFor(target, o) == (target * PAR) \div o.fairValueE8

SizeSale ==
  /\ order.pc = "size"
  /\ IF ~seen.hasValue \/ seen.fairValueE8 = 0 THEN Throw
     ELSE LET units == UnitsFor(order.request.size, seen)
          IN IF units \in 1 .. order.held
             THEN Becomes([order EXCEPT !.pc = "scan", !.request.size = units, !.id = LAST_ID])
             ELSE Throw

Usable(m) == m.active /\ m.owner = "owner" /\ m.ours

\* The newest usable mandate, one read each, downwards from the newest.
Scan ==
  /\ order.pc = "scan"
  /\ IF Usable(mandate[order.id]) THEN Becomes([order EXCEPT !.pc = "mandate"])
     ELSE IF order.id > 1 THEN Becomes([order EXCEPT !.id = @ - 1]) ELSE Throw

\* pnpm execute reads it once more, and does not ask again whether it is open.
CheckMandate ==
  /\ order.pc = "mandate" /\ Executes(order.request)
  /\ LET m == mandate[order.id]
     IN IF m.ours /\ m.owner = order.request.sender /\ m.agent = order.request.agent
        THEN Becomes([order EXCEPT !.pc = "oracle"]) ELSE Throw

\* The mandate must be open, on this executor, and name this agent and this owner.
ReadMandate ==
  /\ order.pc = "mandate" /\ ~Executes(order.request)
  /\ LET r == order.request
         m == mandate[order.id]
     IN IF m.active /\ m.ours /\ m.agent = r.agent /\ m.owner = r.sender
        THEN Becomes([order EXCEPT !.pc = IF Exit(r) THEN "balance" ELSE "pools"])
        ELSE Throw

\* A sale needs the units; a purchase is not asked whether the cash is there.
ReadBalance ==
  /\ order.pc = "balance"
  /\ IF wallet.units >= order.request.size THEN Becomes([order EXCEPT !.pc = "pools"])
     ELSE Throw

ReadTier ==
  /\ order.pc = "pools" /\ Len(order.quotes) < TIERS
  /\ Becomes([order EXCEPT !.quotes = Append(@, pools[Len(@) + 1])])

\* The best tier, refused when it ran dry or when the executor would go elsewhere.
Quote ==
  /\ order.pc = "pools" /\ Len(order.quotes) = TIERS
  /\ LET r == order.request
         best == Best(r, order.quotes)
     IN IF Candidates(r, order.quotes) = {} \/ Exhausted(order.quotes[best], r.size)
             \/ best \notin Derived
        THEN Throw
        ELSE LET out == Output(r.kind, order.quotes[best], r.size)
             IN Becomes([order EXCEPT !.pc = "thesis", !.tier = best, !.out = out,
                  !.least = Floor(out),
                  !.price = IF Exit(r) THEN Price(out, r.size) ELSE Price(r.size, out)])

ReadThesis ==
  /\ order.pc = "thesis" /\ ~Executes(order.request)
  /\ IF order.request.claims /\ ~published THEN Throw
     ELSE Becomes([order EXCEPT !.pc = "oracle"])

CommandThesis ==
  /\ order.pc = "thesis" /\ Executes(order.request)
  /\ IF order.request.claims /\ ~published THEN Throw
     ELSE Becomes([order EXCEPT !.pc = "scan", !.id = LAST_ID])

\* peek, and what the plan will say was known.
Saw(slip) ==
  Becomes([order EXCEPT !.pc = "ask", !.peeked = seen,
           !.measured = Measured(seen, Stale(seen)), !.slippageBps = slip])

Observe ==
  /\ order.pc = "oracle" /\ ~Executes(order.request)
  /\ Saw(IF Exit(order.request) THEN Short(order.price, seen, Stale(seen))
         ELSE Overpaid(order.price, seen))

CommandObserves ==
  /\ order.pc = "oracle" /\ Executes(order.request)
  /\ Saw(Overpaid(order.price, seen))

\* dryRun answers; evidence is archived for a plan that may be signed.  A purchase is
\* the guard's to refuse, a sale nobody measured is refused here unless acknowledged.
\* A command that may not sign ends.
Planned(allow, signable) ==
  Becomes([order EXCEPT !.pc = "planned", !.allow = allow, !.signable = signable,
           !.archived = allow /\ signable, !.limit = mandate[order.id].policy.maxSlippageBps])

AskGuard ==
  /\ order.pc = "ask" /\ ~Executes(order.request)
  /\ LET r == order.request
         cash == IF Exit(r) THEN order.out ELSE r.size
         allow == GuardAllows(mandate[order.id], Exit(r), cash, order.price, order.slippageBps)
         signable == Exit(r) => order.measured \/ r.acknowledged
     IN IF Command(r) /\ ~(allow /\ signable) THEN Throw ELSE Planned(allow, signable)

CommandAsks ==
  /\ order.pc = "ask" /\ Executes(order.request)
  /\ IF GuardAllows(mandate[order.id], FALSE, order.request.size, order.price, order.slippageBps)
     THEN Planned(TRUE, TRUE) ELSE Throw

\* The owner signs whenever they like: the plan has no age, the permit has.
SignPlan ==
  /\ order.pc = "planned" /\ order.allow /\ order.signable
  /\ Becomes([order EXCEPT !.pc = "signed", !.deadline = clock + LIFE])

\* The swap: all of the input or nothing, and no less than the plan's floor.
Swapped(o) == IF Exit(o.request) THEN o.request.size
              ELSE o.request.size - (o.request.size * FEE_BPS) \div 10000

Received(o) == Output(o.request.kind, pools[o.tier], Swapped(o))

SettlingPrice(o) ==
  IF Exit(o.request) THEN Price(Received(o), Swapped(o)) ELSE Price(Swapped(o), Received(o))

\* Executor.execute and Executor.exit, with the guard's verdict at the end.
WouldSettle(o) ==
  /\ mandate[o.id].ours /\ mandate[o.id].agent = o.request.agent
  /\ IF Exit(o.request) THEN wallet.units >= o.request.size ELSE wallet.cash >= o.request.size
  /\ ~Exhausted(pools[o.tier], Swapped(o))
  /\ Received(o) > 0 /\ Received(o) >= o.least
  /\ GuardAllows(mandate[o.id], Exit(o.request),
                 IF Exit(o.request) THEN Received(o) ELSE Swapped(o),
                 SettlingPrice(o),
                 IF Stale(seen) THEN 0
                 ELSE IF Exit(o.request) THEN Short(SettlingPrice(o), seen, FALSE)
                 ELSE Overpaid(SettlingPrice(o), seen))

SettleOrder ==
  /\ order.pc = "signed"
  /\ IF clock <= order.deadline /\ WouldSettle(order)
     THEN Becomes([order EXCEPT !.pc = "settled", !.paid = SettlingPrice(order)])
     ELSE Becomes([order EXCEPT !.pc = "reverted"])
---------------------------------------------------------------------------
(* What moves meanwhile.                                                   *)

Elsewhere == moves < MaxMoves /\ moves' = moves + 1 /\ UNCHANGED <<clock, order>>

OraclePublishes ==
  /\ Elsewhere /\ \E o \in Observed : seen' = [o EXCEPT !.updatedAt = clock]
  /\ UNCHANGED <<mandate, pools, wallet, published>>

PoolMoves ==
  /\ Elsewhere /\ \E k \in Tier, b \in Book : pools' = [pools EXCEPT ![k] = b]
  /\ UNCHANGED <<seen, mandate, wallet, published>>

OwnerEdits ==
  /\ Elsewhere
  /\ \E id \in Ids :
       mandate' \in {[mandate EXCEPT ![id].active = FALSE], [mandate EXCEPT ![id].breaker = ~@],
                     [mandate EXCEPT ![id].ours = ~@]}
                    \cup {[mandate EXCEPT ![id].agent = a] : a \in Key}
                    \cup {[mandate EXCEPT ![id].policy = p] : p \in Terms}
  /\ UNCHANGED <<seen, pools, wallet, published>>

WalletMoves ==
  /\ Elsewhere /\ wallet' \in [cash : {0, HELD}, units : {0, HELD}]
  /\ UNCHANGED <<seen, mandate, pools, published>>

ThesisAppears ==
  /\ Elsewhere /\ ~published /\ published' = TRUE
  /\ UNCHANGED <<seen, mandate, pools, wallet>>

Passes ==
  /\ clock < MaxTime /\ clock' = clock + 1
  /\ UNCHANGED <<seen, mandate, pools, wallet, published, order, moves>>

OrderNext == Asked \/ HeldRead \/ SizeSale \/ Scan \/ CheckMandate \/ CommandThesis
             \/ CommandObserves \/ CommandAsks \/ ReadMandate \/ ReadBalance \/ ReadTier \/ Quote \/ ReadThesis \/ Observe
             \/ AskGuard \/ SignPlan \/ SettleOrder \/ OraclePublishes \/ PoolMoves \/ OwnerEdits
             \/ WalletMoves \/ ThesisAppears \/ Passes

OrderSpec == OrderInit /\ [][OrderNext]_orderVars
---------------------------------------------------------------------------
(* Properties.                                                             *)

\* A sale that was measured when it was planned settles near the value it was measured
\* against, within the policy's slippage and the floor's tolerance, though the oracle
\* may have lapsed or gone silent since and the chain then measures nothing
\* (exit-plan.ts 353, 405-415).  One basis point is the rounding of the shortfall's, and
\* the price is rounded as its floor was, by a unit of cash spread over the units sold.
Lost(size) == 1 + (PAR + size - 1) \div size

MeasuredSalesKeepTheirMeasure ==
  order.pc = "settled" /\ Exit(order.request) /\ order.measured =>
    (order.paid + Lost(order.request.size)) * 10000 >=
      order.peeked.fairValueE8 * (10000 - order.limit - TOLERANCE - 1)

\* A purchase of at least as many units as its price: a price of fewer may be a rounding
\* better than what it settles at.  A unit is the last of 18 decimals.
Sizeable(o) == Received(o) >= pools[o.tier].buy

\* A plan that may be signed settles if nothing moved since it was asked for and the
\* wallet has the cash: the floor leaves room for the fee, and the guard is asked about
\* what the executor will report (fill.ts 226, 301-324; exit-plan.ts 423-450).
AnUnmovedPlanSettles ==
  /\ order.pc = "planned" /\ order.allow /\ order.signable
  /\ order.since = moves /\ order.at = clock
  /\ Exit(order.request) \/ (wallet.cash >= order.request.size /\ Sizeable(order))
  => WouldSettle(order)

\* What was shown when a plan was made holds when it settles, and lets it settle.
PlansKeepTheirTerms == MeasuredSalesKeepTheirMeasure /\ AnUnmovedPlanSettles
=============================================================================
