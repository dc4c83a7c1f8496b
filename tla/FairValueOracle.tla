-------------------------- MODULE FairValueOracle --------------------------
(***************************************************************************)
(* contracts/FairValueOracle.sol: the on-chain oracle that publishes, per  *)
(* tokenised equity, a fair value with the width of its own uncertainty    *)
(* and a gap-risk score, and that refuses to believe a jump it has not     *)
(* seen announced first.                                                   *)
(*                                                                         *)
(* One transaction is one step, except publishMany, whose items are        *)
(* admitted one after the other: `batch` holds the items still to be       *)
(* admitted, and nothing else can happen until it is empty (a transaction  *)
(* is never interleaved).  Block time is the variable `now`.               *)
(*                                                                         *)
(* Left out: the market state of an observation, which no contract reads,  *)
(* and the events.  The other fields this contract only passes through     *)
(* (basisBps, capacityUsdg, anchorAt) come in one piece from `Measure`.    *)
(***************************************************************************)
EXTENDS OracleReads, Sequences, TLC

CONSTANTS
  Asset,               \* token addresses
  Address,             \* accounts that may call; NoAddress is address(0)
  NoAddress,
  Value,               \* fair values a publication may carry (8 decimals)
  GapRisk,             \* gap-risk scores a caller may pass, some out of range
  Measure,             \* the measurements passed through unread
  MAX_JUMP_BPS, JUMP_CONFIRM_DELAY, PENDING_TTL, ANCHOR_MAX_AGE, MAX_MAX_AGE,
  DEFAULT_MAX_AGE,     \* maxAge as deployed
  MAX_BATCH,           \* bound: longest publishMany
  MAX_TIME             \* bound: last block time

ASSUME OracleAssumption ==
  /\ Value \subseteq Nat
  /\ GapRisk \subseteq Nat
  /\ Measure \subseteq [confidenceBps : Nat, basisBps : Int,
                         capacityUsdg : Nat, anchorAt : Nat]
  /\ NoAddress \notin Address
  /\ MAX_JUMP_BPS \in Nat
  /\ JUMP_CONFIRM_DELAY \in Nat \ {0}
  /\ PENDING_TTL \in Nat
  /\ ANCHOR_MAX_AGE \in Nat
  /\ MAX_MAX_AGE \in Nat
  /\ DEFAULT_MAX_AGE \in 1 .. MAX_MAX_AGE
  \* The contract's comment: the TTL "must be strictly inside ANCHOR_MAX_AGE".
  /\ JUMP_CONFIRM_DELAY <= PENDING_TTL
  /\ PENDING_TTL < ANCHOR_MAX_AGE

VARIABLES
  now,           \* block.timestamp
  obs,           \* _obs
  anchor,        \* _anchor
  isPublisher,   \* the accounts isPublisher maps to true
  admin,
  maxAge,
  batch,         \* items of the running publishMany still to be admitted
  withheldSince  \* history: when the asset's value was last withdrawn from
                 \* consumers, 0 while it has one.  No action reads it.

vars == <<now, obs, anchor, isPublisher, admin, maxAge, batch, withheldSince>>

Time == Nat

Publication == [asset : Asset, fairValueE8 : Value, hasValue : BOOLEAN,
                gapRisk : GapRisk, measure : Measure]

Anchor == [valueE8 : Nat, at : Time, pendingE8 : Nat, pendingAt : Time]

NoAnchor == [valueE8 |-> 0, at |-> 0, pendingE8 |-> 0, pendingAt |-> 0]

Init ==
  /\ now = 1
  /\ obs = [a \in Asset |-> NoObservation]
  /\ anchor = [a \in Asset |-> NoAnchor]
  /\ admin \in Address
  /\ isPublisher = {admin}
  /\ maxAge = DEFAULT_MAX_AGE
  /\ batch = <<>>
  /\ withheldSince = [a \in Asset |-> 1]

---------------------------------------------------------------------------
(* Admitting a value.                                                      *)

\* The bound is on the ratio: a jump is measured in basis points of `from`.
InBound(from, to) == Bps(from, to) <= MAX_JUMP_BPS

\* Genesis, or a feed that lapsed past the window its tolerance fits.
NoUsableAnchor(an) == an.valueE8 = 0 \/ now > an.at + ANCHOR_MAX_AGE

\* Defect for the checks: the announcement need not be old.
ConfirmableAtOnce(an, v) ==
  /\ an.pendingAt # 0
  /\ now <= an.pendingAt + PENDING_TTL
  /\ InBound(an.pendingE8, v)

\* The announced jump is old enough, not too old, and agrees with the value.
Confirmable(an, v) ==
  /\ an.pendingAt # 0
  /\ now >= an.pendingAt + JUMP_CONFIRM_DELAY
  /\ now <= an.pendingAt + PENDING_TTL
  /\ InBound(an.pendingE8, v)

Admits(an, v) ==
  \/ NoUsableAnchor(an)
  \/ InBound(an.valueE8, v)
  \/ Confirmable(an, v)

AnchorTo(v) == [valueE8 |-> v, at |-> now, pendingE8 |-> 0, pendingAt |-> 0]

\* A refused value becomes the pending one, whatever was pending before.
AfterAdmit(an, v) ==
  IF Admits(an, v)
  THEN AnchorTo(v)
  ELSE [an EXCEPT !.pendingE8 = v, !.pendingAt = now]

TakesEffect(p) == p.hasValue /\ Admits(anchor[p.asset], p.fairValueE8)

\* Defect for the checks: a refused value leaves the last observation standing.
WriteUnlessRefused(p) ==
  /\ anchor' = IF p.hasValue
               THEN [anchor EXCEPT ![p.asset] = AfterAdmit(@, p.fairValueE8)]
               ELSE anchor
  /\ obs' = IF p.hasValue /\ ~TakesEffect(p) THEN obs
            ELSE [obs EXCEPT ![p.asset] =
                    p.measure @@ [fairValueE8 |-> p.fairValueE8,
                                  hasValue |-> p.hasValue,
                                  gapRisk |-> p.gapRisk, updatedAt |-> now]]
  /\ UNCHANGED withheldSince

\* What publish writes for one item whose validity was already established.
WriteObservation(p) ==
  /\ anchor' = IF p.hasValue
               THEN [anchor EXCEPT ![p.asset] = AfterAdmit(@, p.fairValueE8)]
               ELSE anchor
  /\ obs' = [obs EXCEPT ![p.asset] =
               [fairValueE8 |-> IF TakesEffect(p) THEN p.fairValueE8 ELSE 0,
                hasValue |-> TakesEffect(p),
                gapRisk |-> p.gapRisk,
                confidenceBps |-> p.measure.confidenceBps,
                basisBps |-> p.measure.basisBps,
                capacityUsdg |-> p.measure.capacityUsdg,
                anchorAt |-> p.measure.anchorAt,
                updatedAt |-> now]]
  /\ withheldSince' = [withheldSince EXCEPT ![p.asset] =
                         IF TakesEffect(p) THEN 0
                         ELSE IF @ # 0 THEN @ ELSE now]

\* Defect for the checks: a zero may be published as a value.
ValidWithZero(p) == p.gapRisk <= 100

\* The conditions publish reverts without.
Valid(p) ==
  /\ p.gapRisk <= 100
  /\ ~(p.hasValue /\ p.fairValueE8 = 0)

---------------------------------------------------------------------------
(* Transactions.                                                           *)

Idle == batch = <<>>

Publish(caller, p) ==
  /\ Idle
  /\ caller \in isPublisher
  /\ Valid(p)
  /\ WriteObservation(p)
  /\ UNCHANGED <<now, isPublisher, admin, maxAge, batch>>

\* publishMany: one invalid item reverts the whole transaction, and an item's
\* validity does not depend on the items before it.
PublishMany(caller, items) ==
  /\ Idle
  /\ caller \in isPublisher
  /\ \A i \in DOMAIN items : Valid(items[i])
  /\ batch' = items
  /\ UNCHANGED <<now, obs, anchor, isPublisher, admin, maxAge, withheldSince>>

PublishNextItem ==
  /\ ~Idle
  /\ WriteObservation(Head(batch))
  /\ batch' = Tail(batch)
  /\ UNCHANGED <<now, isPublisher, admin, maxAge>>

SetPublisher(caller, publisher, allowed) ==
  /\ Idle
  /\ caller = admin
  /\ isPublisher' = IF allowed THEN isPublisher \cup {publisher}
                               ELSE isPublisher \ {publisher}
  /\ UNCHANGED <<now, obs, anchor, admin, maxAge, batch, withheldSince>>

SetMaxAge(caller, newMaxAge) ==
  /\ Idle
  /\ caller = admin
  /\ newMaxAge # 0
  /\ newMaxAge <= MAX_MAX_AGE
  /\ maxAge' = newMaxAge
  /\ UNCHANGED <<now, obs, anchor, isPublisher, admin, batch, withheldSince>>

SetAdmin(caller, newAdmin) ==
  /\ Idle
  /\ caller = admin
  /\ newAdmin # NoAddress
  /\ admin' = newAdmin
  /\ UNCHANGED <<now, obs, anchor, isPublisher, maxAge, batch, withheldSince>>

\* The next block is mined.
Tick ==
  /\ Idle
  /\ now < MAX_TIME
  /\ now' = now + 1
  /\ UNCHANGED <<obs, anchor, isPublisher, admin, maxAge, batch, withheldSince>>

Batches == UNION {[1 .. n -> Publication] : n \in 1 .. MAX_BATCH}

Next ==
  \/ \E caller \in Address, p \in Publication : Publish(caller, p)
  \/ \E caller \in Address, items \in Batches : PublishMany(caller, items)
  \/ PublishNextItem
  \/ \E caller, publisher \in Address, allowed \in BOOLEAN :
       SetPublisher(caller, publisher, allowed)
  \/ \E caller \in Address, newMaxAge \in 0 .. MAX_MAX_AGE + 1 :
       SetMaxAge(caller, newMaxAge)
  \/ \E caller \in Address, newAdmin \in Address \cup {NoAddress} :
       SetAdmin(caller, newAdmin)
  \/ Tick

Spec == Init /\ [][Next]_vars

---------------------------------------------------------------------------
(* Correctness.                                                            *)

\* Type invariant.
TypeOK ==
  /\ now \in Time
  /\ obs \in [Asset -> Observation]
  /\ anchor \in [Asset -> Anchor]
  /\ isPublisher \subseteq Address
  /\ admin \in Address
  /\ maxAge \in 1 .. MAX_MAX_AGE
  /\ batch \in Seq(Publication)
  /\ withheldSince \in [Asset -> Time]

\* What a consumer can be given is exactly what the bound last admitted: the
\* observation and the anchor, two mappings written on different paths, agree
\* on the value and on when it took effect, and the value is never the zero
\* that checkExecution would divide by.
ValueIsTheAnchor ==
  \A a \in Asset : obs[a].hasValue =>
    /\ obs[a].fairValueE8 = anchor[a].valueE8
    /\ obs[a].updatedAt = anchor[a].at
    /\ obs[a].fairValueE8 # 0

\* While a jump waits for its confirmation no mandate executes an entry, at
\* any price and with any tolerance: neither against the announced value nor
\* against the one it would replace, however long maxAge still calls that one
\* fresh.
NothingExecutesOnAPendingJump ==
  \A a \in Asset : anchor[a].pendingAt # 0 =>
    /\ ~FairValueReturns(obs[a], now, maxAge)
    /\ \A price \in Value, risk \in GapRisk, m \in Measure :
         CheckExecution(obs[a], now, maxAge, price, risk, m.confidenceBps) # "OK"

\* Whoever executes an entry does so on a value the bound admitted, the one it measures
\* the next against, and with no other announced.
OnlyAdmittedValuesExecute == ValueIsTheAnchor /\ NothingExecutesOnAPendingJump

\* A pending jump is one the bound refuses, announced after the anchor it is
\* measured against and not in the future: clearing it is never forgotten
\* when the anchor moves.
PendingIsAJump ==
  \A a \in Asset : anchor[a].pendingAt # 0 =>
    /\ anchor[a].valueE8 # 0
    /\ ~InBound(anchor[a].valueE8, anchor[a].pendingE8)
    /\ anchor[a].at <= anchor[a].pendingAt
    /\ anchor[a].pendingAt <= now

\* A value further than MAX_JUMP_BPS from a live anchor takes effect only
\* after consumers have been without any value, without a break, for at least
\* the confirmation delay: whatever the publishers sent in between, in one
\* batch or in several, the jump costs thirty minutes of withheld value.
JumpCostsTheDelay ==
  [][\A a \in Asset :
       /\ obs'[a].hasValue
       /\ anchor[a].valueE8 # 0
       /\ now <= anchor[a].at + ANCHOR_MAX_AGE
       /\ ~InBound(anchor[a].valueE8, obs'[a].fairValueE8)
       => /\ withheldSince[a] # 0
          /\ now >= withheldSince[a] + JUMP_CONFIRM_DELAY]_vars

---------------------------------------------------------------------------
(* What consumers rely on.                                                 *)

Feed == INSTANCE OracleFeed WITH
  Reading <- [fairValueE8 : Value \cup {0}, hasValue : BOOLEAN, gapRisk : GapRisk,
              confidenceBps : {m.confidenceBps : m \in Measure},
              basisBps : {m.basisBps : m \in Measure},
              capacityUsdg : {m.capacityUsdg : m \in Measure},
              anchorAt : {m.anchorAt : m \in Measure}]

\* The contract implements the feed: whatever publishers, batches, jumps and
\* admins do, a consumer sees one whole observation per asset at a time,
\* stamped with the block it landed in, whose value is zero exactly when it
\* is withheld, under a freshness limit the admin cannot raise past its
\* ceiling.
ImplementsFeed == Feed!FeedSpec
=============================================================================
