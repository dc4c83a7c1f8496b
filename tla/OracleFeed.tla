----------------------------- MODULE OracleFeed -----------------------------
(***************************************************************************)
(* What contracts/FairValueOracle.sol promises the contracts that read it, *)
(* with the publishers, the anchors and the batches left out: one          *)
(* observation per asset, overwritten whole at the current block time,     *)
(* never back-dated, never carrying a zero as a value, and a freshness     *)
(* limit that stays inside MAX_MAX_AGE.  FairValueOracle implements this   *)
(* specification; PolicyGuard and Executor are checked against it.         *)
(***************************************************************************)
EXTENDS OracleReads

CONSTANTS
  Asset,            \* token addresses
  MAX_MAX_AGE,      \* ceiling on maxAge
  DEFAULT_MAX_AGE,  \* maxAge as deployed
  Reading           \* what a publication may leave in the feed (no updatedAt)

VARIABLES
  now,     \* block.timestamp
  obs,     \* _obs
  maxAge

feedVars == <<now, obs, maxAge>>

FeedInit ==
  /\ now = 1
  /\ obs = [a \in Asset |-> NoObservation]
  /\ maxAge = DEFAULT_MAX_AGE

\* A publication lands for asset a.
FeedWrite(a, r) ==
  /\ r.gapRisk <= 100
  /\ r.hasValue <=> r.fairValueE8 # 0
  /\ obs' = [obs EXCEPT ![a] =
               [fairValueE8 |-> r.fairValueE8, hasValue |-> r.hasValue,
                gapRisk |-> r.gapRisk, confidenceBps |-> r.confidenceBps,
                basisBps |-> r.basisBps, capacityUsdg |-> r.capacityUsdg,
                anchorAt |-> r.anchorAt, updatedAt |-> now]]
  /\ UNCHANGED <<now, maxAge>>

FeedSetMaxAge(newMaxAge) ==
  /\ newMaxAge \in 1 .. MAX_MAX_AGE
  /\ maxAge' = newMaxAge
  /\ UNCHANGED <<now, obs>>

FeedTick ==
  /\ now' = now + 1
  /\ UNCHANGED <<obs, maxAge>>

FeedNext ==
  \/ \E a \in Asset, r \in Reading : FeedWrite(a, r)
  \/ \E newMaxAge \in 1 .. MAX_MAX_AGE : FeedSetMaxAge(newMaxAge)
  \/ FeedTick

FeedSpec == FeedInit /\ [][FeedNext]_feedVars
=============================================================================
