------------------------- MODULE MCFairValueOracle -------------------------
(***************************************************************************)
(* What the deployed contracts hold and who reads it, in four              *)
(* parts that never touch each other, one of them a behaviour.  The        *)
(* oracle: one tick is fifteen minutes, with the day-long anchor window    *)
(* shortened to six ticks so that it can lapse.  The record: the receipts  *)
(* page over three receipts.  The evidence: two bundles, the site and a    *)
(* developer's machine.  The health route: two requests, while the world   *)
(* changes twice.                                                          *)
(*                                                                         *)
(* By hand, CycleSpec drives the oracle by the one publisher that the      *)
(* repository runs, with the contract's own constants.                     *)
(***************************************************************************)
EXTENDS FairValueOracle, Evidence, HealthRoute, TrackRecord

CONSTANT CYCLE   \* time between two publications

VARIABLES
  scene,
  price, gapped, nextAt   \* of the market and its publisher

\* 100 -> 120 and 150 -> 120 sit exactly on the 20% bound, 100 <-> 150 and
\* 120 -> 150 are beyond it.
MCValue == {0, 100, 120, 150}
MCGapRisk == {100, 101}
MCMeasure == {[confidenceBps |-> 0, basisBps |-> 0,
               capacityUsdg |-> 0, anchorAt |-> 0]}
---------------------------------------------------------------------------
Bought(a, notional, slippage) ==
  [asset |-> a, exit |-> FALSE, notional |-> notional, slippageBps |-> slippage, fairValue |-> 1]
Sold(slippage, value) ==
  [asset |-> "t", exit |-> TRUE, notional |-> 70, slippageBps |-> slippage, fairValue |-> value]

\* A basket, a sale nothing measured, and one that something did.
MCRecordable == {<<Bought("t", 100, 10), Bought("n", 50, 30)>>, <<Sold(0, 0)>>, <<Sold(20, 1)>>}
---------------------------------------------------------------------------
MCPurse == {[balance |-> b, price |-> p] : b \in {3, 8}, p \in {1}} \cup {[balance |-> 8, price |-> 0]}

\* One fact of each kind is watched, for all of its kind; what has no part in it stays.
Usual == [balance |-> 8, price |-> 1]
TheAsset == CHOOSE a \in Held : TRUE

Watching ==
  /\ watched \in ({"usable", "unusable", "allowed"} \X {TheAsset})
                 \cup {<<"runway", "long">>, <<"word", "closed">>,
                      <<"chain", "silent">>, <<"list", "empty">>}
  /\ setup \in {{}, Configured} /\ (watched[1] # "runway" => purse = Usual /\ setup = Configured)
  /\ watched[1] # "word" => word = "closed"
  /\ watched[1] \in {"runway", "word", "chain"} => allowed = {TheAsset}

Unwatched ==
  /\ watched = <<"chain", "silent">> /\ setup = Configured /\ purse = Usual
  /\ word = "closed" /\ allowed = {}

\* Two requests at once read a list of one asset, one request a list of two.
Focus ==
  /\ purse' # purse => watched[1] = "runway"
  /\ word' # word => watched[1] = "word"
  /\ peeks' # peeks => watched[1] \in {"usable", "unusable"}
  /\ allowed' # allowed => watched[1] \in {"usable", "unusable", "allowed", "list"}
  /\ Cardinality(allowed') > 1 => Cardinality({g \in Getter : UnderWay(g)'}) <= 1

---------------------------------------------------------------------------
cycleVars == <<price, gapped, nextAt>>
NoCycle == price = [a \in Asset |-> 0] /\ gapped = FALSE /\ nextAt = 0

ChainInit ==
  /\ scene \in {"oracle", "record", "evidence", "health"}
  /\ Init /\ RecordInit /\ EvidenceInit /\ NoCycle
  /\ HealthInit /\ (IF scene = "health" THEN Watching ELSE Unwatched)

ChainNext ==
  /\ UNCHANGED <<scene, cycleVars>>
  /\ \/ scene = "oracle" /\ Next /\ UNCHANGED <<recordVars, evidenceVars, healthVars>>
     \/ scene = "record" /\ RecordNext /\ UNCHANGED <<vars, evidenceVars, healthVars>>
     \/ scene = "evidence" /\ EvidenceNext /\ UNCHANGED <<vars, recordVars, healthVars>>
     \/ scene = "health" /\ HealthNext /\ Focus /\ UNCHANGED <<vars, recordVars, evidenceVars>>

chainVars == <<scene, cycleVars, vars, recordVars, evidenceVars, healthVars>>
ChainSpec == ChainInit /\ [][ChainNext]_chainVars
---------------------------------------------------------------------------
(* FairValueOracle driven by a machine that publishes the price it sees    *)
(* every CYCLE units of time and does nothing else.  The price gaps once,  *)
(* beyond the bound, and stays.                                            *)

CycleValue == {0, 100, 150}
CycleGapRisk == {0}

CycleInit ==
  /\ scene = "cycle"
  /\ Init /\ RecordInit /\ EvidenceInit /\ HealthInit /\ Unwatched
  /\ price \in [Asset -> Value \ {0}]
  /\ gapped = FALSE
  /\ nextAt = now

\* The market: every price may gap once, to any value beyond the bound.
Gap ==
  /\ ~gapped
  /\ gapped' = TRUE
  /\ price' \in [Asset -> Value \ {0}]
  /\ \A a \in Asset : price'[a] = price[a] \/ ~InBound(price[a], price'[a])
  /\ UNCHANGED <<vars, nextAt>>

PublishCycle ==
  /\ now = nextAt
  /\ nextAt' = nextAt + CYCLE
  /\ \E a \in Asset :
       \E p \in Publication :
         /\ p.asset = a /\ p.hasValue /\ p.fairValueE8 = price[a]
         /\ Publish(admin, p)
  /\ UNCHANGED <<price, gapped>>

TimePasses ==
  /\ now < nextAt
  /\ Tick
  /\ UNCHANGED <<price, gapped, nextAt>>

CycleNext ==
  /\ Gap \/ PublishCycle \/ TimePasses
  /\ UNCHANGED <<scene, recordVars, evidenceVars, healthVars>>

CycleSpec == CycleInit /\ [][CycleNext]_chainVars

\* "Four confirmation delays -- enough that an honest publisher on a
\* fifteen-minute cycle has several attempts" (FairValueOracle.sol, the
\* comment on PENDING_TTL): a gap the publisher keeps reporting is settled
\* before its announcement expires.
HonestJumpSettlesWithinTTL ==
  \A a \in Asset :
    HasData(obs[a]) /\ withheldSince[a] # 0 => now <= withheldSince[a] + PENDING_TTL
=============================================================================
