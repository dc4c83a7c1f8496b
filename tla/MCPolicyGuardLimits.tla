------------------------ MODULE MCPolicyGuardLimits ------------------------
(***************************************************************************)
(* The limits, on chain and before it, in five parts that never touch.     *)
(* The guard, with an oracle that always answers: what its rate limits,    *)
(* policy versions and lifecycle allow over time.  The basket sized to pass *)
(* it: two legs, of two assets or of one, over every kind of pool, one of  *)
(* which moves once.  One such pool itself, of seventeen ticks, that moves  *)
(* while it is loaded.  The board that says what would pass: two workers    *)
(* that walk twice, or once while two requests read it.  And the Safe      *)
(* behind which the settings of the other contracts are: two of three      *)
(* owners, two machines.                                                   *)
(***************************************************************************)
EXTENDS PolicyGuard, BasketPlanner, Board, SafeAdmin, TickWalk

VARIABLE scene

\* Two fills per epoch of two, then one per epoch of three with an interval.
Base == [maxWeightBps |-> 10000, minCashBufferBps |-> 0, maxSlippageBps |-> 50,
         maxDeviationBps |-> 100, maxGapRisk |-> 50, maxNotionalPerTrade |-> 10,
         maxFillsPerEpoch |-> 2, epochDuration |-> 2, minRebalanceInterval |-> 0,
         enforceWeights |-> FALSE]
MCPolicy == {Base,
             [Base EXCEPT !.maxFillsPerEpoch = 1, !.epochDuration = 3,
                          !.minRebalanceInterval = 2, !.maxNotionalPerTrade = 20],
             [Base EXCEPT !.maxFillsPerEpoch = 0]}
MCTriggerList == {<<>>}
MCFill == {[asset |-> a, isExit |-> FALSE, amountInUsdg |-> n, amountOut |-> 1,
            executionPriceE8 |-> 100, slippageBps |-> 0] : a \in Asset, n \in {10, 20}}
MCHoldings == {[cash |-> 0, units |-> [a \in Asset |-> 0]]}
MCReading == {[fairValueE8 |-> 100, hasValue |-> TRUE, gapRisk |-> 0,
               confidenceBps |-> 0, basisBps |-> 0, capacityUsdg |-> 0,
               anchorAt |-> 1]}
MCUnitOf == [a \in Asset |-> 1]
---------------------------------------------------------------------------
Venue(spot, fee, slope, depth) == [spot |-> spot, fee |-> fee, slope |-> slope, depth |-> depth]

\* No pool; one pool that drifts within the headroom and beyond; a shallow one; two
\* tiers at one price; two tiers an arbitrage apart.
MCPools ==
  {<<>>, <<Venue(10000, 5, 9, 40)>>, <<Venue(10000, 5, 10, 40)>>, <<Venue(10000, 5, 14, 40)>>,
   <<Venue(10000, 5, 2, 3)>>, <<Venue(10000, 5, 9, 40), Venue(10000, 30, 1, 60)>>,
   <<Venue(10000, 5, 20, 40), Venue(10035, 30, 1, 60)>>}

Leg(a, w) == [asset |-> a, weightBps |-> w]

\* Weights that add up, that leave the legs room to take each other's, and one asset twice.
MCLegs ==
  {<<Leg("A", 6000), Leg("B", 4000)>>, <<Leg("A", 1200), Leg("B", 5000)>>,
   <<Leg("A", 3000), Leg("A", 6000)>>}

Says(v, c, risk, on) ==
  [fairValue |-> v, confidence |-> c, gapRisk |-> risk, publishable |-> TRUE, chain |-> on]

\* A price at the edge of the two roundings, and every way the contract can answer.
MCReport ==
  {Says(9900, c, 10, "valued") : c \in {69, 91}}
  \cup {Says(10000, 20, 10, on) : on \in {"withheld", "unread", "none"}}
  \cup {Says(10000, 20, 70, "valued")}

\* Priced; held back by the contract; never pooled; not read.
MCFinding ==
  LET Found(venues, read, report) ==
        [venues |-> venues, listed |-> venues # <<>>, read |-> read, report |-> report]
  IN {Found(<<Venue(10000, 30, 1, 60)>>, TRUE, Says(10000, 20, 10, "valued")),
      Found(<<Venue(10000, 5, 4, 30), Venue(10000, 30, 1, 60)>>, TRUE,
            Says(10000, 20, 10, "withheld")),
      Found(<<>>, TRUE, Says(10000, 20, 10, "none")),
      Found(<<>>, FALSE, Says(10000, 20, 10, "none"))}

MCCommitted == [measuredAt |-> 1, writer |-> "laptop", priced |-> 1, totals |-> "shipped"]

\* Two runs may want the same value, another one of the same setting, or another setting.
Asking(setting, value, yes) == [setting |-> setting, value |-> value, yes |-> yes]
MCRequest == {Asking("fee", 1, FALSE), Asking("fee", 2, FALSE), Asking("fee", 3, FALSE),
              Asking("writer", 0, FALSE), Asking("writer", 0, TRUE)}

NoBasket ==
  /\ pools = <<>> /\ legs = <<>> /\ notional = 0 /\ limit = 0 /\ walked = <<>> /\ lines = <<>>
  /\ unallocated = 0 /\ verdicts = <<>> /\ drifts = 0

---------------------------------------------------------------------------
\* Prices from 8 to 72; one position over all ticks, nested ones, a gap between two, and a
\* deep one that begins beyond the first word.  The pool is on an edge, just below one, or
\* between two.
MCMinTick == -8
MCRatioAt == [t \in -8..8 |-> 40 + 4 * t]
Open(low, high, size) == [low |-> low, high |-> high, size |-> size]
MCProvided == {{Open(-8, 8, 100)}, {Open(-2, 2, 300), Open(-6, 6, 50)},
               {Open(-6, -2, 200), Open(0, 4, 200)}, {Open(-8, 8, 60), Open(2, 4, 400)}}
MCSlot == {[tick |-> 0, price |-> 40], [tick |-> 1, price |-> 46], [tick |-> -3, price |-> 32]}

NoWalks ==
  /\ venue = [slot |-> Nowhere, provided |-> {}] /\ venueMoves = 0
  /\ snapshot = Unloaded /\ quote = NoWalk /\ paid = NoWalk
---------------------------------------------------------------------------
Effort ==
  measured <= 1 \/ (cache.board = NoBoard /\ \A r \in Reader : fetching[r].pc = "idle")

LimitsInit ==
  /\ scene \in {"guard", "basket", "board", "safe", "walk"}
  /\ Init /\ BoardInit /\ SafeInit
  /\ IF scene = "basket" THEN PlanInit ELSE NoBasket
  /\ IF scene = "walk" THEN WalkInit ELSE NoWalks

LimitsNext ==
  /\ UNCHANGED scene
  /\ \/ scene = "guard" /\ Next /\ UNCHANGED <<planVars, boardVars, safeVars, walkVars>>
     \/ scene = "basket" /\ PlanNext /\ UNCHANGED <<vars, boardVars, safeVars, walkVars>>
     \/ scene = "board" /\ BoardNext /\ UNCHANGED <<vars, planVars, safeVars, walkVars>>
     \/ scene = "safe" /\ SafeNext /\ UNCHANGED <<vars, planVars, boardVars, walkVars>>
     \/ scene = "walk" /\ WalkNext /\ UNCHANGED <<vars, planVars, boardVars, safeVars>>

LimitsSpec == LimitsInit /\ [][LimitsNext]_<<scene, vars, planVars, boardVars, safeVars, walkVars>>
=============================================================================
