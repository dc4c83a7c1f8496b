------------------------ MODULE FairValueOracleProofs -----------------------
(***************************************************************************)
(* Type correctness of FairValueOracle and its safety properties, for      *)
(* every set of assets, callers and values and every setting of the bound  *)
(* and the delays that OracleAssumption allows; and, for any requests and  *)
(* any durations, how old the health route's answers about it are.         *)
(***************************************************************************)
EXTENDS FairValueOracle, HealthRoute, TLAPS

---------------------------------------------------------------------------
(* Type correctness.                                                       *)

\* Admitting a value or announcing a jump leaves a well-formed anchor.
LEMMA AfterAdmitType ==
  ASSUME NEW an \in Anchor, NEW v \in Nat, now \in Time
  PROVE  AfterAdmit(an, v) \in Anchor
BY DEF AfterAdmit, AnchorTo, Anchor, Time

\* The items of a publishMany form a sequence of publications.
LEMMA BatchIsASequence ==
  ASSUME NEW items \in Batches
  PROVE  items \in Seq(Publication)
BY DEF Batches

\* Every step that writes an observation keeps the types of what it writes.
LEMMA WriteObservationType ==
  ASSUME TypeOK, NEW p \in Publication, WriteObservation(p)
  PROVE  /\ obs' \in [Asset -> Observation]
         /\ anchor' \in [Asset -> Anchor]
         /\ withheldSince' \in [Asset -> Time]
<1> USE OracleAssumption
<1>1. /\ p.asset \in Asset
      /\ p.fairValueE8 \in Nat
      /\ p.hasValue \in BOOLEAN
      /\ p.gapRisk \in Nat
      /\ p.measure.confidenceBps \in Nat
      /\ p.measure.basisBps \in Int
      /\ p.measure.capacityUsdg \in Nat
      /\ p.measure.anchorAt \in Nat
  BY DEF Publication
<1>2. obs' \in [Asset -> Observation]
  <2>1. TakesEffect(p) \in BOOLEAN
    BY <1>1 DEF TakesEffect, Admits, NoUsableAnchor, InBound, Confirmable
  <2>2. QED
    BY <1>1, <2>1 DEF TypeOK, WriteObservation, Observation, Time
<1>3. anchor' \in [Asset -> Anchor]
  <2>1. AfterAdmit(anchor[p.asset], p.fairValueE8) \in Anchor
    BY <1>1, AfterAdmitType DEF TypeOK
  <2>2. QED
    BY <1>1, <2>1 DEF TypeOK, WriteObservation
<1>4. withheldSince' \in [Asset -> Time]
  BY <1>1 DEF TypeOK, WriteObservation, Time
<1>5. QED
  BY <1>2, <1>3, <1>4

\* The type invariant holds in every reachable state.
THEOREM TypeCorrect == Spec => []TypeOK
<1> USE OracleAssumption
<1>1. Init => TypeOK
  BY DEF Init, TypeOK, NoObservation, NoAnchor, Observation, Anchor, Time
<1>2. TypeOK /\ [Next]_vars => TypeOK'
  <2> SUFFICES ASSUME TypeOK, [Next]_vars
               PROVE  TypeOK'
    OBVIOUS
  <2>1. ASSUME NEW caller \in Address, NEW p \in Publication, Publish(caller, p)
        PROVE  TypeOK'
    <3>1. WriteObservation(p)
      BY <2>1 DEF Publish
    <3>2. QED
      BY <2>1, <3>1, WriteObservationType DEF TypeOK, Publish
  <2>2. ASSUME NEW caller \in Address, NEW items \in Batches,
               PublishMany(caller, items)
        PROVE  TypeOK'
    BY <2>2, BatchIsASequence DEF TypeOK, PublishMany
  <2>3. CASE PublishNextItem
    <3>1. /\ Head(batch) \in Publication
          /\ Tail(batch) \in Seq(Publication)
      BY <2>3 DEF TypeOK, PublishNextItem, Idle
    <3>2. WriteObservation(Head(batch))
      BY <2>3 DEF PublishNextItem
    <3>3. QED
      BY <2>3, <3>1, <3>2, WriteObservationType DEF TypeOK, PublishNextItem
  <2>4. ASSUME NEW caller \in Address, NEW publisher \in Address,
               NEW may \in BOOLEAN, SetPublisher(caller, publisher, may)
        PROVE  TypeOK'
    BY <2>4 DEF TypeOK, SetPublisher
  <2>5. ASSUME NEW caller \in Address, NEW newMaxAge \in 0 .. MAX_MAX_AGE + 1,
               SetMaxAge(caller, newMaxAge)
        PROVE  TypeOK'
    BY <2>5 DEF TypeOK, SetMaxAge
  <2>6. ASSUME NEW caller \in Address, NEW newAdmin \in Address \cup {NoAddress},
               SetAdmin(caller, newAdmin)
        PROVE  TypeOK'
    BY <2>6 DEF TypeOK, SetAdmin
  <2>7. CASE Tick
    BY <2>7 DEF TypeOK, Tick, Time
  <2>8. CASE UNCHANGED vars
    BY <2>8 DEF TypeOK, vars
  <2>9. QED
    BY <2>1, <2>2, <2>3, <2>4, <2>5, <2>6, <2>7, <2>8 DEF Next
<1>3. QED
  BY <1>1, <1>2, PTL DEF Spec

---------------------------------------------------------------------------
(* The safety invariant.  ValueIsTheAnchor and PendingIsAJump hold of each *)
(* asset on their own; what makes the rest inductive is that an announced  *)
(* jump and a usable value exclude each other, and that the announcement   *)
(* was made no earlier than the value was withdrawn.                       *)

\* The inductive invariant of one asset.
AssetInv(a) ==
  /\ obs[a].hasValue => /\ obs[a].fairValueE8 = anchor[a].valueE8
                        /\ obs[a].updatedAt = anchor[a].at
                        /\ obs[a].fairValueE8 # 0
                        /\ anchor[a].pendingAt = 0
  /\ obs[a].hasValue <=> withheldSince[a] = 0
  /\ anchor[a].at <= now
  /\ withheldSince[a] <= now
  /\ anchor[a].pendingAt # 0 => /\ anchor[a].valueE8 # 0
                                /\ ~InBound(anchor[a].valueE8, anchor[a].pendingE8)
                                /\ anchor[a].at <= anchor[a].pendingAt
                                /\ anchor[a].pendingAt <= now
                                /\ withheldSince[a] <= anchor[a].pendingAt

\* Block time is never zero, so a pendingAt just written is not taken for
\* "none pending"; and no batch in progress carries a zero value.
IInv ==
  /\ now >= 1
  /\ \A i \in DOMAIN batch : Valid(batch[i])
  /\ \A a \in Asset : AssetInv(a)

\* Admitting one valid publication keeps every asset's invariant.
LEMMA WriteObservationInv ==
  ASSUME TypeOK, IInv, NEW p \in Publication, Valid(p), WriteObservation(p),
         now' = now
  PROVE  \A a \in Asset : AssetInv(a)'
<1> USE OracleAssumption
<1>1. /\ p.asset \in Asset
      /\ p.fairValueE8 \in Nat
      /\ p.hasValue \in BOOLEAN
  BY DEF Publication
<1>2. ASSUME NEW a \in Asset, a # p.asset
      PROVE  AssetInv(a)'
  <2>1. /\ obs'[a] = obs[a]
        /\ anchor'[a] = anchor[a]
        /\ withheldSince'[a] = withheldSince[a]
    BY <1>1, <1>2 DEF WriteObservation, TypeOK
  <2>2. QED
    BY <2>1 DEF IInv, AssetInv, InBound
<1>3. AssetInv(p.asset)'
  <2> DEFINE a == p.asset
             an == anchor[a]
             v == p.fairValueE8
  <2>1. /\ a \in Asset
        /\ an \in Anchor
        /\ an.valueE8 \in Nat /\ an.at \in Nat /\ an.pendingE8 \in Nat
        /\ an.pendingAt \in Nat
        /\ now \in Nat /\ now >= 1
        /\ withheldSince[a] \in Nat
        /\ AssetInv(a)
    BY <1>1 DEF TypeOK, IInv, Anchor, Time
  <2>2. CASE TakesEffect(p)
    <3>1. v # 0 /\ p.hasValue
      BY <2>2 DEF Valid, TakesEffect
    <3>2. anchor'[a] = AnchorTo(v)
      BY <1>1, <2>2, <3>1 DEF WriteObservation, TakesEffect, AfterAdmit, TypeOK
    <3>3. /\ obs'[a].hasValue
          /\ obs'[a].fairValueE8 = v
          /\ obs'[a].updatedAt = now
          /\ withheldSince'[a] = 0
      BY <1>1, <2>2 DEF WriteObservation, TypeOK
    <3>4. QED
      BY <2>1, <3>1, <3>2, <3>3 DEF AssetInv, AnchorTo
  <2>3. CASE ~TakesEffect(p) /\ p.hasValue
    <3>1. /\ ~InBound(an.valueE8, v)
          /\ an.valueE8 # 0
      BY <2>3 DEF TakesEffect, Admits, NoUsableAnchor
    <3>2. /\ anchor'[a].valueE8 = an.valueE8
          /\ anchor'[a].at = an.at
          /\ anchor'[a].pendingE8 = v
          /\ anchor'[a].pendingAt = now
      BY <1>1, <2>1, <2>3
         DEF WriteObservation, TakesEffect, AfterAdmit, TypeOK, Anchor
    <3>3. /\ ~obs'[a].hasValue
          /\ withheldSince'[a] # 0
          /\ withheldSince'[a] <= now
      <4>1. withheldSince[a] <= now
        BY <2>1 DEF AssetInv
      <4>2. QED
        BY <1>1, <2>1, <2>3, <4>1 DEF WriteObservation, TypeOK
    <3>4. InBound(anchor'[a].valueE8, anchor'[a].pendingE8)
            = InBound(an.valueE8, v)
      BY <3>2
    <3>5. QED
      BY <2>1, <3>1, <3>2, <3>3, <3>4 DEF AssetInv, InBound
  <2>4. CASE ~p.hasValue
    <3>1. /\ anchor'[a] = an
          /\ ~obs'[a].hasValue
      BY <1>1, <2>4 DEF WriteObservation, TakesEffect, TypeOK
    <3>2. /\ withheldSince'[a] # 0
          /\ withheldSince'[a] <= now
          /\ an.pendingAt # 0 => withheldSince'[a] = withheldSince[a]
      BY <1>1, <2>1, <2>4 DEF WriteObservation, TakesEffect, TypeOK, AssetInv
    <3>3. QED
      BY <2>1, <3>1, <3>2 DEF AssetInv, InBound
  <2>5. QED
    BY <2>2, <2>3, <2>4
<1>4. QED
  BY <1>2, <1>3

\* Steps that write no observation keep it as long as time does not go back.
LEMMA UntouchedInv ==
  ASSUME TypeOK, IInv, UNCHANGED <<obs, anchor, withheldSince>>,
         now' \in Time, now' >= now
  PROVE  \A a \in Asset : AssetInv(a)'
<1> SUFFICES ASSUME NEW a \in Asset
             PROVE  AssetInv(a)'
  OBVIOUS
<1>1. /\ anchor[a].at \in Nat /\ anchor[a].pendingAt \in Nat
      /\ withheldSince[a] \in Nat /\ now \in Nat
      /\ AssetInv(a)
  BY DEF TypeOK, Anchor, Time, IInv
<1>2. QED
  BY <1>1 DEF AssetInv, InBound, Time

\* Nothing is observed or anchored at first.
LEMMA InitInv == Init => IInv
BY DEF Init, IInv, AssetInv, NoObservation, NoAnchor

\* Every transaction keeps the invariant.
LEMMA NextInv == TypeOK /\ TypeOK' /\ IInv /\ [Next]_vars => IInv'
<1> USE OracleAssumption
<1> SUFFICES ASSUME TypeOK, TypeOK', IInv, [Next]_vars
             PROVE  IInv'
  OBVIOUS
<1>0. now \in Nat /\ now' \in Nat /\ now >= 1
  BY DEF TypeOK, Time, IInv
<1>1. ASSUME NEW caller \in Address, NEW p \in Publication, Publish(caller, p)
      PROVE  IInv'
  <2>1. \A a \in Asset : AssetInv(a)'
    BY <1>1, WriteObservationInv DEF Publish
  <2>2. QED
    BY <1>1, <2>1 DEF IInv, Publish, Valid
<1>2. ASSUME NEW caller \in Address, NEW items \in Batches,
             PublishMany(caller, items)
      PROVE  IInv'
  <2>1. \A a \in Asset : AssetInv(a)'
    BY <1>0, <1>2, UntouchedInv DEF PublishMany, Time
  <2>2. QED
    BY <1>0, <1>2, <2>1 DEF IInv, PublishMany, Valid
<1>3. CASE PublishNextItem
  <2>1. /\ Head(batch) \in Publication
        /\ Valid(Head(batch))
        /\ WriteObservation(Head(batch))
        /\ now' = now
    BY <1>3 DEF TypeOK, IInv, PublishNextItem, Idle
  <2>2. \A a \in Asset : AssetInv(a)'
    BY <2>1, WriteObservationInv
  <2>3. \A i \in DOMAIN batch' : Valid(batch[i + 1])
    BY <1>3 DEF TypeOK, IInv, PublishNextItem, Idle
  <2>4. \A i \in DOMAIN batch' : batch'[i] = batch[i + 1]
    BY <1>3 DEF TypeOK, PublishNextItem, Idle
  <2>5. QED
    BY <1>0, <2>1, <2>2, <2>3, <2>4 DEF IInv, Valid
<1>4. CASE Tick
  <2>1. \A a \in Asset : AssetInv(a)'
    BY <1>0, <1>4, UntouchedInv DEF Tick, Time
  <2>2. QED
    BY <1>0, <1>4, <2>1 DEF IInv, Tick, Valid
<1>5. ASSUME UNCHANGED <<now, obs, anchor, batch, withheldSince>>
      PROVE  IInv'
  <2>1. \A a \in Asset : AssetInv(a)'
    BY <1>0, <1>5, UntouchedInv DEF Time
  <2>2. QED
    BY <1>0, <1>5, <2>1 DEF IInv, Valid
<1>6. QED
  BY <1>1, <1>2, <1>3, <1>4, <1>5
     DEF Next, SetPublisher, SetMaxAge, SetAdmin, vars

\* The observation and the anchor of every asset keep to each other, whoever publishes what.
THEOREM Invariance == Spec => [](TypeOK /\ IInv)
<1>1. TypeOK /\ IInv /\ TypeOK' /\ [Next]_vars => IInv'
  BY NextInv
<1>2. QED
  BY TypeCorrect, InitInv, <1>1, PTL DEF Spec

---------------------------------------------------------------------------
(* The properties.                                                         *)

\* A value consumers can read is the one the bound last admitted.
THEOREM ValueIsTheAnchorHolds == Spec => []ValueIsTheAnchor
<1>1. IInv => ValueIsTheAnchor
  BY DEF IInv, AssetInv, ValueIsTheAnchor
<1>2. QED
  BY Invariance, <1>1, PTL

\* A pending jump is beyond the bound and announced after its anchor.
THEOREM PendingIsAJumpHolds == Spec => []PendingIsAJump
<1>1. IInv => PendingIsAJump
  BY DEF IInv, AssetInv, PendingIsAJump
<1>2. QED
  BY Invariance, <1>1, PTL

\* No entry is ever permitted while a jump is pending.
THEOREM PendingJumpBlocksExecution == Spec => []NothingExecutesOnAPendingJump
<1>1. IInv => NothingExecutesOnAPendingJump
  BY DEF IInv, AssetInv, NothingExecutesOnAPendingJump, FairValueReturns,
         CheckExecution
<1>2. QED
  BY Invariance, <1>1, PTL

\* So whoever executes an entry executes it on an admitted value.
THEOREM OnlyAdmittedValuesExecuteHolds == Spec => []OnlyAdmittedValuesExecute
<1>1. ValueIsTheAnchor /\ NothingExecutesOnAPendingJump => OnlyAdmittedValuesExecute
  BY DEF OnlyAdmittedValuesExecute
<1>2. QED
  BY <1>1, ValueIsTheAnchorHolds, PendingJumpBlocksExecution, PTL

\* Every jump costs the confirmation delay without a value.
THEOREM JumpCostsTheDelayHolds == Spec => JumpCostsTheDelay
<1> DEFINE Costs(a) ==
      (/\ obs'[a].hasValue
       /\ anchor[a].valueE8 # 0
       /\ now <= anchor[a].at + ANCHOR_MAX_AGE
       /\ ~InBound(anchor[a].valueE8, obs'[a].fairValueE8))
      => (/\ withheldSince[a] # 0
          /\ now >= withheldSince[a] + JUMP_CONFIRM_DELAY)
<1> USE OracleAssumption
<1>1. ASSUME TypeOK, IInv, NEW p \in Publication, WriteObservation(p),
             NEW a \in Asset
      PROVE  Costs(a)
  <2> SUFFICES ASSUME obs'[a].hasValue,
                      anchor[a].valueE8 # 0,
                      now <= anchor[a].at + ANCHOR_MAX_AGE,
                      ~InBound(anchor[a].valueE8, obs'[a].fairValueE8)
               PROVE  /\ withheldSince[a] # 0
                      /\ now >= withheldSince[a] + JUMP_CONFIRM_DELAY
    OBVIOUS
  <2>1. /\ AssetInv(a)
        /\ anchor[a].at \in Nat /\ anchor[a].pendingAt \in Nat
        /\ withheldSince[a] \in Nat /\ now \in Nat
    BY <1>1 DEF TypeOK, Anchor, Time, IInv
  <2>2. a = p.asset
    <3>1. ASSUME a # p.asset
          PROVE  FALSE
      <4>1. obs'[a] = obs[a]
        BY <1>1, <3>1 DEF WriteObservation, TypeOK
      <4>2. InBound(anchor[a].valueE8, anchor[a].valueE8)
        <5>1. obs[a].hasValue /\ obs[a].fairValueE8 = anchor[a].valueE8
          BY <2>1, <4>1 DEF AssetInv
        <5>2. anchor[a].valueE8 \in Nat /\ anchor[a].valueE8 # 0
          BY <1>1 DEF TypeOK, Anchor
        <5>3. Bps(anchor[a].valueE8, anchor[a].valueE8) = 0
          BY <5>2 DEF Bps, AbsDiff
        <5>4. QED
          BY <5>3 DEF InBound
      <4>3. QED
        BY <2>1, <4>1, <4>2 DEF AssetInv
    <3>2. QED
      BY <3>1
  <2>3. TakesEffect(p) /\ obs'[a].fairValueE8 = p.fairValueE8
    BY <1>1, <2>2 DEF WriteObservation, TypeOK
  <2>4. Confirmable(anchor[a], p.fairValueE8)
    BY <2>1, <2>2, <2>3 DEF TakesEffect, Admits, NoUsableAnchor
  <2>5. QED
    BY <2>1, <2>4 DEF Confirmable, AssetInv
<1>2. ASSUME TypeOK, IInv, UNCHANGED <<obs, anchor>>, NEW a \in Asset
      PROVE  Costs(a)
  <2>1. ASSUME obs[a].hasValue, anchor[a].valueE8 # 0
        PROVE  InBound(anchor[a].valueE8, obs[a].fairValueE8)
    <3>1. /\ anchor[a].valueE8 \in Nat
          /\ obs[a].fairValueE8 = anchor[a].valueE8
      BY <1>2, <2>1 DEF TypeOK, Anchor, IInv, AssetInv
    <3>2. Bps(anchor[a].valueE8, anchor[a].valueE8) = 0
      BY <2>1, <3>1 DEF Bps, AbsDiff
    <3>3. QED
      BY <3>1, <3>2 DEF InBound
  <2>2. QED
    BY <1>2, <2>1
<1>3. TypeOK /\ IInv /\ [Next]_vars => [\A a \in Asset : Costs(a)]_vars
  <2> SUFFICES ASSUME TypeOK, IInv, Next
               PROVE  \A a \in Asset : Costs(a)
    OBVIOUS
  <2>1. ASSUME NEW caller \in Address, NEW p \in Publication, Publish(caller, p)
        PROVE  \A a \in Asset : Costs(a)
    BY <1>1, <2>1 DEF Publish
  <2>2. CASE PublishNextItem
    <3>1. Head(batch) \in Publication /\ WriteObservation(Head(batch))
      BY <2>2 DEF TypeOK, PublishNextItem, Idle
    <3>2. QED
      BY <1>1, <3>1
  <2>3. CASE UNCHANGED <<obs, anchor>>
    BY <1>2, <2>3
  <2>4. QED
    BY <2>1, <2>2, <2>3
       DEF Next, PublishMany, SetPublisher, SetMaxAge, SetAdmin, Tick
<1>4. QED
  BY Invariance, <1>3, PTL DEF Spec, JumpCostsTheDelay

---------------------------------------------------------------------------
(* The contract implements the feed its consumers are checked against.     *)

\* What one publication leaves behind is one write of the abstract feed.
LEMMA WriteObservationIsAFeedWrite ==
  ASSUME TypeOK, NEW p \in Publication, Valid(p), WriteObservation(p),
         UNCHANGED <<now, maxAge>>
  PROVE  Feed!FeedNext
<1> USE OracleAssumption
<1> DEFINE r == [fairValueE8 |-> IF TakesEffect(p) THEN p.fairValueE8 ELSE 0,
                 hasValue |-> TakesEffect(p), gapRisk |-> p.gapRisk,
                 confidenceBps |-> p.measure.confidenceBps,
                 basisBps |-> p.measure.basisBps,
                 capacityUsdg |-> p.measure.capacityUsdg,
                 anchorAt |-> p.measure.anchorAt]
           Readings == [fairValueE8 : Value \cup {0}, hasValue : BOOLEAN,
                        gapRisk : GapRisk,
                        confidenceBps : {m.confidenceBps : m \in Measure},
                        basisBps : {m.basisBps : m \in Measure},
                        capacityUsdg : {m.capacityUsdg : m \in Measure},
                        anchorAt : {m.anchorAt : m \in Measure}]
<1>1. TakesEffect(p) \in BOOLEAN /\ p.asset \in Asset /\ p.measure \in Measure
  BY DEF TakesEffect, Publication, Admits, NoUsableAnchor, InBound, Confirmable
<1>2. r \in Readings
  BY <1>1 DEF Publication
<1>3. TakesEffect(p) => p.fairValueE8 # 0
  BY DEF TakesEffect, Valid
<1>4. Feed!FeedWrite(p.asset, r)
  <2>1. r.gapRisk <= 100
    BY DEF Valid
  <2>2. r.hasValue <=> r.fairValueE8 # 0
    BY <1>1, <1>3
  <2>3. obs' = [obs EXCEPT ![p.asset] =
                  [fairValueE8 |-> r.fairValueE8, hasValue |-> r.hasValue,
                   gapRisk |-> r.gapRisk, confidenceBps |-> r.confidenceBps,
                   basisBps |-> r.basisBps, capacityUsdg |-> r.capacityUsdg,
                   anchorAt |-> r.anchorAt, updatedAt |-> now]]
    BY DEF WriteObservation
  <2>4. QED
    BY <2>1, <2>2, <2>3 DEF Feed!FeedWrite
<1>5. QED
  BY <1>1, <1>2, <1>4 DEF Feed!FeedNext

\* Every behaviour of the contract, seen by its consumers, is one of the feed.
THEOREM OracleImplementsFeed == Spec => ImplementsFeed
<1> USE OracleAssumption
<1>1. Init => Feed!FeedInit
  BY DEF Init, NoObservation, Feed!FeedInit, Feed!NoObservation
<1>2. TypeOK /\ IInv /\ [Next]_vars => [Feed!FeedNext]_(Feed!feedVars)
  <2> SUFFICES ASSUME TypeOK, IInv, [Next]_vars
               PROVE  Feed!FeedNext \/ UNCHANGED <<now, obs, maxAge>>
    BY DEF Feed!feedVars
  <2>1. ASSUME NEW caller \in Address, NEW p \in Publication, Publish(caller, p)
        PROVE  Feed!FeedNext
    BY <2>1, WriteObservationIsAFeedWrite DEF Publish
  <2>2. CASE PublishNextItem
    <3>1. Head(batch) \in Publication /\ Valid(Head(batch))
      BY <2>2 DEF TypeOK, IInv, PublishNextItem, Idle
    <3>2. QED
      BY <2>2, <3>1, WriteObservationIsAFeedWrite DEF PublishNextItem
  <2>3. ASSUME NEW caller \in Address, NEW newMaxAge \in 0 .. MAX_MAX_AGE + 1,
               SetMaxAge(caller, newMaxAge)
        PROVE  Feed!FeedNext
    <3>1. newMaxAge \in 1 .. MAX_MAX_AGE
      BY <2>3 DEF SetMaxAge
    <3>2. Feed!FeedSetMaxAge(newMaxAge)
      BY <2>3, <3>1 DEF SetMaxAge, Feed!FeedSetMaxAge
    <3>3. QED
      BY <3>1, <3>2 DEF Feed!FeedNext
  <2>4. CASE Tick
    BY <2>4 DEF Tick, Feed!FeedTick, Feed!FeedNext
  <2>5. QED
    BY <2>1, <2>2, <2>3, <2>4
       DEF Next, PublishMany, SetPublisher, SetAdmin, vars
<1>3. QED
  BY Invariance, <1>1, <1>2, PTL DEF Spec, ImplementsFeed, Feed!FeedSpec
---------------------------------------------------------------------------
(* The health route.                                                       *)

Findings ==
  [block : BOOLEAN, list : SUBSET Held, at : Int, left : SUBSET Held, usable : SUBSET Held,
   runway : {"unread", "unmeasurable", "long", "short"}, silent : BOOLEAN, word : Words]
Requests ==
  [pc : {"unasked", "block", "list", "peek", "gas", "word", "done"}, began : Nat,
   found : Findings]

HealthTypes ==
  /\ clock \in Nat
  /\ allowed \in SUBSET Held /\ word \in Words
  /\ peeks \in [Held -> [at : Int, has : BOOLEAN]] /\ \A a \in Held : peeks[a].at <= clock
  /\ gets \in [Getter -> Requests]
  /\ watched \in Fact /\ heldAt \in Int

\* The observer looks at every step.
Observed == Holds(watched) => heldAt = clock

\* What was found since `began` was so at some moment since.
Supported(f, began) ==
  /\ \A a \in f.usable : watched = <<"usable", a>> => heldAt >= began
  /\ \A a \in f.list \ (f.usable \cup f.left) : watched = <<"unusable", a>> => heldAt >= began
  /\ \A a \in f.list : watched = <<"allowed", a>> => heldAt >= began
  /\ f.runway \in {"long", "short"} /\ watched = <<"runway", f.runway>> => heldAt >= began
  /\ f.silent /\ watched = <<"chain", "silent">> => heldAt >= began

\* What an asset holds that would be usable by the age the route counts was usable since it
\* read the list: when it did, or when the oracle wrote it.
UsableSince(f, began) ==
  \A a \in Held : watched = <<"usable", a>> /\ ~StaleAt(peeks[a], f.at) /\ peeks[a].has
                    => heldAt >= began

\* Where a request is tells what it has found.
Midway(r) ==
  /\ r.pc = "block" => r.found = NoFindings
  /\ r.pc = "list" => r.found = [NoFindings EXCEPT !.block = TRUE]
  /\ r.pc = "peek" =>
       /\ r.found.at \in r.began..clock /\ UsableSince(r.found, r.began)
       /\ ~r.found.silent /\ r.found.left # {} /\ r.found.left \subseteq r.found.list
       /\ r.found.usable \subseteq r.found.list
  /\ r.pc \in {"gas", "word"} =>
       /\ r.found.left = {} /\ r.found.usable \subseteq r.found.list
       /\ r.found.block /\ r.found.list = {} /\ ~r.found.silent /\ watched = <<"list", "empty">>
            => heldAt >= r.began

Investigated ==
  \A g \in Getter : UnderWay(g) =>
    /\ gets[g].began <= clock /\ clock <= gets[g].began + SPAN
    /\ Supported(gets[g].found, gets[g].began)
    /\ Midway(gets[g])

UpNamesAnAsset(answer) ==
  answer.status # "down" =>
    \E a \in Held : {<<"usable", a>>, <<"allowed", a>>} \subseteq answer.claims

\* What is kept was so within a request before it was kept.
KeptWell ==
  /\ cached.at \in Int /\ given \in Int
  /\ cached.at # Never => UpNamesAnAsset(cached) /\ cached.at <= clock
  /\ cached.at # Never /\ watched \in cached.claims => heldAt >= 0 /\ cached.at <= heldAt + SPAN
  /\ given # Never => cached.at # Never /\ given < cached.at + TTL

HealthInv == HealthTypes /\ Observed /\ Investigated /\ KeptWell

\* Nothing is found and nothing is kept yet.
LEMMA HealthInitInv == HealthInit => HealthInv
<1> SUFFICES ASSUME HealthInit PROVE HealthInv
  OBVIOUS
<1> USE DEF HealthInit
<1>1. NoFindings \in Findings
  BY DEF NoFindings, Findings, Never, Words
<1>2. Unasked \in Requests
  BY <1>1 DEF Unasked, Requests
<1>3. HealthTypes
  BY <1>2 DEF HealthTypes, Never
<1>4. Observed
  BY DEF Observed
<1>5. Investigated
  BY DEF Investigated, UnderWay, Unasked
<1>6. KeptWell
  BY DEF KeptWell, NoAnswer, Never
<1>7. QED
  BY <1>3, <1>4, <1>5, <1>6 DEF HealthInv

\* A step of the world: time or one fact moves, no request does.
LEMMA WorldMovesInv ==
  ASSUME HealthInv, Watches, UNCHANGED <<cached, gets, given>>,
         clock' \in Nat, clock' >= clock,
         \A g \in Getter : UnderWay(g) => clock' <= gets[g].began + SPAN,
         allowed' \in SUBSET Held, word' \in Words,
         peeks' \in [Held -> [at : Int, has : BOOLEAN]],
         \A a \in Held : peeks'[a] = peeks[a] \/ (peeks'[a].at = clock /\ clock' = clock),
         SPAN \in Nat, FRESH \in Nat
  PROVE  HealthInv'
<1> USE DEF HealthInv
<1>1. /\ watched' = watched /\ heldAt' \in Int
      /\ heldAt' = heldAt \/ heldAt' = clock'
      /\ Observed'
  BY DEF Watches, Observed, HealthTypes
<1>2. HealthTypes'
  BY <1>1 DEF HealthTypes
<1>3. \A b \in Int : b <= clock /\ heldAt >= b => heldAt' >= b
  BY <1>1 DEF HealthTypes
<1>4. ASSUME NEW g \in Getter, UnderWay(g)
      PROVE  /\ gets[g].began <= clock' /\ clock' <= gets[g].began + SPAN
             /\ Supported(gets[g].found, gets[g].began)' /\ Midway(gets[g])'
  <2> DEFINE r == gets[g]
  <2>1. r \in Requests /\ r.began \in Int /\ r.began <= clock /\ r' = r
    BY <1>4 DEF HealthTypes, Requests, Investigated
  <2>2. Supported(r.found, r.began) /\ Midway(r)
    BY <1>4 DEF Investigated
  <2>3. heldAt >= r.began => heldAt' >= r.began
    BY <1>3, <2>1
  <2>4. Supported(r.found, r.began)'
    BY <1>1, <2>1, <2>2, <2>3 DEF Supported
  <2>5. ASSUME r.pc = "peek" PROVE UsableSince(r.found, r.began)'
    <3>1. UsableSince(r.found, r.began) /\ r.found.at \in r.began..clock
      BY <2>2, <2>5 DEF Midway
    <3>2. SUFFICES ASSUME NEW a \in Held, watched = <<"usable", a>>,
                          ~StaleAt(peeks'[a], r.found.at), peeks'[a].has
                   PROVE  heldAt' >= r.began
      BY <1>1, <2>1 DEF UsableSince, StaleAt
    <3>3. CASE peeks'[a] = peeks[a]
      BY <2>3, <3>1, <3>2, <3>3 DEF UsableSince
    <3>4. CASE peeks'[a].at = clock /\ clock' = clock
      <4>1. ~StaleAt(peeks'[a], clock')
        BY <3>2, <3>4 DEF StaleAt, HealthTypes
      <4>2. UsableNow(a)'
        BY <3>2, <4>1 DEF UsableNow, StaleAt
      <4>3. Holds(watched)'
        BY <1>1, <3>2, <4>2 DEF Holds
      <4>4. heldAt' = clock'
        BY <4>3 DEF Watches
      <4>5. QED
        BY <2>1, <3>4, <4>4
    <3>5. QED
      BY <3>3, <3>4
  <2>6. Midway(r)'
    BY <1>1, <2>1, <2>2, <2>3, <2>5 DEF Midway, HealthTypes
  <2>7. r.began <= clock' /\ clock' <= r.began + SPAN
    BY <1>4, <2>1 DEF HealthTypes
  <2>8. QED
    BY <2>4, <2>6, <2>7
<1>5. Investigated'
  BY <1>4 DEF Investigated, UnderWay
<1>6. KeptWell'
  <2>1. UpNamesAnAsset(cached)' <=> UpNamesAnAsset(cached)
    BY DEF UpNamesAnAsset
  <2>2. heldAt >= 0 /\ cached.at <= heldAt + SPAN /\ cached.at <= clock /\ cached.at \in Int
          => heldAt' >= 0 /\ cached.at <= heldAt' + SPAN
    BY <1>1, <1>3 DEF HealthTypes
  <2>3. cached.at <= clock /\ cached.at \in Int => cached.at <= clock'
    BY DEF HealthTypes
  <2>4. QED
    BY <1>1, <2>1, <2>2, <2>3 DEF KeptWell
<1>7. QED
  BY <1>1, <1>2, <1>5, <1>6

\* A step of one request leaves the others, and the world, as they are.
LEMMA ProceedsInv ==
  ASSUME HealthInv, NEW g \in Getter, NEW request \in Requests, Proceeds(g, request),
         request.pc \notin {"unasked", "done"} =>
           /\ request.began <= clock /\ clock <= request.began + SPAN
           /\ Supported(request.found, request.began) /\ Midway(request)
  PROVE  HealthTypes' /\ Observed' /\ Investigated'
<1> USE DEF HealthInv
<1>1. /\ UNCHANGED <<clock, setup, chainUp, allowed, peeks, purse, word, turns, watched, heldAt>>
      /\ gets' = [gets EXCEPT ![g] = request]
  BY DEF Proceeds, world
<1>2. HealthTypes'
  BY <1>1 DEF HealthTypes
<1>3. Observed'
  BY <1>1 DEF Observed, Holds, UsableNow, StaleAt, RunwayOf, Runs
<1>4. \A f, b : Supported(f, b)' <=> Supported(f, b)
  BY <1>1 DEF Supported
<1>5. \A f, b : UsableSince(f, b)' <=> UsableSince(f, b)
  BY <1>1 DEF UsableSince, StaleAt
<1>6. ASSUME NEW h \in Getter, UnderWay(h)'
      PROVE  /\ gets'[h].began <= clock /\ clock <= gets'[h].began + SPAN
             /\ Supported(gets'[h].found, gets'[h].began)
             /\ Midway(gets'[h])
  <2>1. CASE h = g
    <3>1. gets'[h] = request
      BY <1>1, <2>1 DEF HealthTypes
    <3>2. QED
      BY <1>6, <3>1 DEF UnderWay
  <2>2. CASE h # g
    <3>1. gets'[h] = gets[h]
      BY <1>1, <2>2 DEF HealthTypes
    <3>2. QED
      BY <1>6, <3>1 DEF UnderWay, Investigated
  <2>3. QED
    BY <2>1, <2>2
<1>7. \A r : Midway(r) => Midway(r)'
  BY <1>1, <1>5 DEF Midway
<1>8. Investigated'
  BY <1>1, <1>4, <1>6, <1>7 DEF Investigated
<1>9. QED
  BY <1>2, <1>3, <1>8

\* What is noted must have been found, and be where the request then is.
LEMMA NotesInv ==
  ASSUME HealthInv, NEW g \in Getter, UnderWay(g), NEW f \in Findings,
         NEW pc \in {"block", "list", "peek", "gas", "word"}, Notes(g, pc, f),
         Supported(f, gets[g].began),
         Midway([gets[g] EXCEPT !.pc = pc, !.found = f])
  PROVE  HealthInv'
<1> DEFINE request == [gets[g] EXCEPT !.pc = pc, !.found = f]
<1>1. /\ request \in Requests
      /\ request.pc = pc /\ request.found = f /\ request.began = gets[g].began
  BY DEF HealthInv, HealthTypes, Requests
<1>2. Proceeds(g, request) /\ UNCHANGED <<cached, given>>
  BY DEF Notes
<1>3. request.began <= clock /\ clock <= request.began + SPAN
  BY <1>1 DEF HealthInv, Investigated
<1>4. HealthTypes' /\ Observed' /\ Investigated'
  BY <1>1, <1>2, <1>3, ProceedsInv
<1>5. KeptWell'
  BY <1>2 DEF HealthInv, KeptWell, UpNamesAnAsset, Proceeds
<1>6. QED
  BY <1>4, <1>5 DEF HealthInv

\* A read that fails saw a chain that does not answer.
LEMMA SilenceIsSupported ==
  ASSUME HealthInv, NEW f \in Findings, NEW began \in Nat, began <= clock,
         Supported(f, began), ~chainUp
  PROVE  Unread(f) \in Findings /\ Supported(Unread(f), began)
<1>1. /\ Unread(f) \in Findings /\ Unread(f).silent
      /\ Unread(f).list = f.list /\ Unread(f).left = f.left /\ Unread(f).usable = f.usable
      /\ Unread(f).runway = f.runway
  BY DEF Unread, Findings
<1>2. watched = <<"chain", "silent">> => heldAt >= began
  BY DEF HealthInv, HealthTypes, Observed, Holds
<1>3. QED
  BY <1>1, <1>2 DEF Supported

\* The block answers, or the chain is silent and the list is never read.
LEMMA ReadsBlockInv == ASSUME HealthInv, NEW g \in Getter, ReadsBlock(g) PROVE HealthInv'
<1> DEFINE f == gets[g].found
<1>1. gets[g].pc = "block" /\ UnderWay(g)
  BY DEF ReadsBlock, UnderWay
<1>2. /\ gets[g] \in Requests /\ f \in Findings /\ gets[g].began \in Nat /\ gets[g].began <= clock
      /\ Supported(f, gets[g].began) /\ f = NoFindings
  BY <1>1 DEF HealthInv, HealthTypes, Requests, Investigated, Midway
<1>3. CASE chainUp
  <2> DEFINE next == [f EXCEPT !.block = TRUE]
  <2>1. next \in Findings /\ next = [NoFindings EXCEPT !.block = TRUE]
    BY <1>2 DEF Findings
  <2>2. Supported(next, gets[g].began)
    BY <2>1 DEF Supported, NoFindings
  <2>3. Midway([gets[g] EXCEPT !.pc = "list", !.found = next])
    BY <1>2, <2>1 DEF Midway, Requests
  <2>4. Notes(g, "list", next)
    BY <1>3 DEF ReadsBlock
  <2>5. QED
    BY <1>1, <2>1, <2>2, <2>3, <2>4, NotesInv
<1>4. CASE ~chainUp
  <2> DEFINE next == Unread(f)
  <2>1. next \in Findings /\ Supported(next, gets[g].began)
    BY <1>2, <1>4, SilenceIsSupported
  <2>2. next.silent /\ next.left = {} /\ next.usable = {}
    BY <1>2 DEF Unread, NoFindings
  <2>3. Midway([gets[g] EXCEPT !.pc = "word", !.found = next])
    BY <1>2, <2>1, <2>2 DEF Midway, Requests
  <2>4. Notes(g, "word", next)
    BY <1>1, <1>4 DEF ReadsBlock
  <2>5. QED
    BY <1>1, <2>1, <2>3, <2>4, NotesInv
<1>5. QED
  BY <1>3, <1>4

\* The allowlist is read as it then is, and every asset on it is still to be looked at.
LEMMA ReadsListInv == ASSUME HealthInv, NEW g \in Getter, ReadsList(g) PROVE HealthInv'
<1> DEFINE f == gets[g].found
           began == gets[g].began
<1>1. gets[g].pc = "list" /\ UnderWay(g)
  BY DEF ReadsList, UnderWay
<1>2. /\ gets[g] \in Requests /\ f \in Findings /\ began \in Nat /\ began <= clock
      /\ clock \in Nat /\ allowed \in SUBSET Held
      /\ Supported(f, began) /\ f = [NoFindings EXCEPT !.block = TRUE]
  BY <1>1 DEF HealthInv, HealthTypes, Requests, Investigated, Midway
<1>3. Holds(watched) => heldAt >= began
  BY <1>2 DEF HealthInv, Observed
<1>4. CASE chainUp
  <2> DEFINE next == [f EXCEPT !.list = allowed, !.left = allowed, !.at = clock]
             pc == IF allowed = {} THEN "gas" ELSE "peek"
  <2>1. /\ next \in Findings /\ next.block /\ ~next.silent /\ next.usable = {}
        /\ next.list = allowed /\ next.left = allowed /\ next.at = clock
        /\ next.runway = "unread"
    <3>1. f.block /\ ~f.silent /\ f.usable = {} /\ f.runway = "unread" /\ clock \in Int
      BY <1>2 DEF NoFindings
    <3>2. f \in Findings /\ allowed \in SUBSET Held
      BY <1>2
    <3> HIDE DEF f
    <3>3. QED
      BY ONLY <3>1, <3>2 DEF Findings
  <2>2. Supported(next, began)
    BY <1>3, <2>1 DEF Supported, Holds
  <2>3. allowed = {} /\ watched = <<"list", "empty">> => heldAt >= began
    BY <1>3 DEF Holds
  <2>4. UsableSince(next, began)
    BY <1>3, <2>1 DEF UsableSince, Holds, UsableNow
  <2>5. Midway([gets[g] EXCEPT !.pc = pc, !.found = next])
    <3> HIDE DEF next
    <3>1. CASE allowed = {}
      BY <1>2, <2>1, <2>3, <3>1 DEF Midway, Requests
    <3>2. CASE allowed # {}
      BY <1>2, <2>1, <2>4, <3>2 DEF Midway, Requests
    <3>3. QED
      BY <3>1, <3>2
  <2>6. Notes(g, pc, next)
    BY <1>4 DEF ReadsList
  <2>7. QED
    BY <1>1, <2>1, <2>2, <2>5, <2>6, NotesInv
<1>5. CASE ~chainUp
  <2> DEFINE next == Unread(f)
  <2>1. next \in Findings /\ Supported(next, began)
    BY <1>2, <1>5, SilenceIsSupported
  <2>2. next.silent /\ next.left = {} /\ next.usable = {}
    <3>1. f.left = {} /\ f.usable = {}
      BY <1>2 DEF NoFindings
    <3>2. QED
      BY <1>2, <3>1 DEF Unread, Findings
  <2>3. Midway([gets[g] EXCEPT !.pc = "gas", !.found = next])
    BY <1>2, <2>1, <2>2 DEF Midway, Requests
  <2>4. Notes(g, "gas", next)
    BY <1>1, <1>5 DEF ReadsList
  <2>5. QED
    BY <1>1, <2>1, <2>3, <2>4, NotesInv
<1>6. QED
  BY <1>4, <1>5

\* What is usable by the route's age was so since it began; what is not, is not now either.
LEMMA PeekIsSupported ==
  ASSUME HealthInv, NEW g \in Getter, gets[g].pc = "peek", NEW a \in gets[g].found.left,
         FRESH \in Nat,
         NEW next, next = [gets[g].found EXCEPT !.left = @ \ {a},
           !.usable = IF StaleAt(peeks[a], gets[g].found.at) \/ ~peeks[a].has THEN @
                      ELSE @ \cup {a}]
  PROVE  /\ next \in Findings /\ Supported(next, gets[g].began)
         /\ next.usable \subseteq next.list
<1> DEFINE f == gets[g].found
           began == gets[g].began
           fit == ~StaleAt(peeks[a], f.at) /\ peeks[a].has
<1>1. UnderWay(g)
  BY DEF UnderWay
<1>2. /\ f \in Findings /\ began \in Nat /\ began <= clock /\ clock \in Nat
      /\ Supported(f, began) /\ f.at \in began..clock /\ UsableSince(f, began)
      /\ f.left \subseteq f.list /\ f.usable \subseteq f.list
  BY <1>1 DEF HealthInv, HealthTypes, Requests, Investigated, Midway
<1>3. a \in Held /\ a \in f.list
  BY <1>2 DEF Findings
<1>4. /\ next \in Findings /\ next.list = f.list /\ next.left = f.left \ {a}
      /\ next.usable = (IF fit THEN f.usable \cup {a} ELSE f.usable)
      /\ next.runway = f.runway /\ next.silent = f.silent
  BY <1>2, <1>3 DEF Findings
<1>5. fit /\ watched = <<"usable", a>> => heldAt >= began
  BY <1>2, <1>3 DEF UsableSince
<1>6. ~fit /\ watched = <<"unusable", a>> => heldAt >= began
  <2>1. ~fit => ~UsableNow(a)
    BY <1>2, <1>3 DEF UsableNow, StaleAt, HealthInv, HealthTypes
  <2>2. ~UsableNow(a) /\ watched = <<"unusable", a>> => Holds(watched)
    BY DEF Holds
  <2>3. QED
    BY <1>2, <2>1, <2>2 DEF HealthInv, Observed
<1>7. QED
  BY <1>2, <1>3, <1>4, <1>5, <1>6 DEF Supported

\* One asset more, or the whole list is given up.
LEMMA PeeksInv ==
  ASSUME HealthInv, FRESH \in Nat, NEW g \in Getter, Peeks(g) PROVE HealthInv'
<1> DEFINE f == gets[g].found
           began == gets[g].began
<1>1. gets[g].pc = "peek" /\ UnderWay(g)
  BY DEF Peeks, UnderWay
<1>2. /\ gets[g] \in Requests /\ f \in Findings /\ began \in Nat /\ began <= clock
      /\ Supported(f, began) /\ f.at \in began..clock /\ UsableSince(f, began)
      /\ ~f.silent /\ f.left \subseteq f.list /\ f.usable \subseteq f.list /\ f.left # {}
  BY <1>1 DEF HealthInv, HealthTypes, Requests, Investigated, Midway
<1>3. ASSUME chainUp PROVE HealthInv'
  <2>1. PICK a \in f.left :
               Notes(g, IF f.left = {a} THEN "gas" ELSE "peek",
                     [f EXCEPT !.left = @ \ {a},
                        !.usable = IF StaleAt(peeks[a], f.at) \/ ~peeks[a].has THEN @
                                   ELSE @ \cup {a}])
    BY <1>3 DEF Peeks
  <2> DEFINE next == [f EXCEPT !.left = @ \ {a},
                        !.usable = IF StaleAt(peeks[a], f.at) \/ ~peeks[a].has THEN @
                                   ELSE @ \cup {a}]
             pc == IF f.left = {a} THEN "gas" ELSE "peek"
  <2>2. next \in Findings /\ Supported(next, began) /\ next.usable \subseteq next.list
    BY <1>1, PeekIsSupported
  <2>3. /\ next.left = f.left \ {a} /\ next.list = f.list /\ next.at = f.at
        /\ ~next.silent /\ next.list # {}
    BY <1>2 DEF Findings
  <2>4. UsableSince(next, began)
    BY <1>2, <2>3 DEF UsableSince
  <2>5. /\ next.left \subseteq next.list
        /\ IF f.left = {a} THEN next.left = {} ELSE next.left # {}
    BY <1>2, <2>3
  <2>6. Midway([gets[g] EXCEPT !.pc = pc, !.found = next])
    <3> HIDE DEF next
    <3>1. QED
      BY <1>2, <2>2, <2>3, <2>4, <2>5 DEF Midway, Requests
  <2>7. QED
    <3> HIDE DEF next
    <3>1. QED
      BY <1>1, <2>1, <2>2, <2>6, NotesInv DEF next
<1>4. ASSUME ~chainUp PROVE HealthInv'
  <2> DEFINE next == [Unread(f) EXCEPT !.list = {}, !.left = {}, !.usable = {}]
  <2>1. Unread(f) \in Findings /\ Supported(Unread(f), began)
    BY <1>2, <1>4, SilenceIsSupported
  <2>2. next \in Findings /\ next.silent /\ next.left = {} /\ next.usable = {} /\ next.list = {}
        /\ next.runway = Unread(f).runway /\ Unread(f).silent
    BY <2>1 DEF Findings, Unread
  <2>3. Supported(next, began)
    BY <2>1, <2>2 DEF Supported
  <2>4. Midway([gets[g] EXCEPT !.pc = "gas", !.found = next])
    BY <1>2, <2>2 DEF Midway, Requests
  <2>5. Notes(g, "gas", next)
    BY <1>1, <1>4 DEF Peeks
  <2>6. QED
    BY <1>1, <2>2, <2>3, <2>4, <2>5, NotesInv
<1>5. QED
  BY <1>3, <1>4

\* The runway is the purse's own at that moment.
LEMMA ReadsGasInv == ASSUME HealthInv, NEW g \in Getter, ReadsGas(g) PROVE HealthInv'
<1> DEFINE f == gets[g].found
           began == gets[g].began
<1>1. gets[g].pc = "gas" /\ UnderWay(g)
  BY DEF ReadsGas, UnderWay
<1>2. /\ gets[g] \in Requests /\ f \in Findings /\ began \in Nat /\ began <= clock
      /\ Supported(f, began) /\ Midway(gets[g])
  BY <1>1 DEF HealthInv, HealthTypes, Requests, Investigated
<1>3. CASE chainUp
  <2> DEFINE next == [f EXCEPT !.runway = RunwayOf(purse)]
  <2>1. RunwayOf(purse) \in {"unmeasurable", "long", "short"}
    BY DEF RunwayOf
  <2>2. /\ next \in Findings /\ next.runway = RunwayOf(purse) /\ next.list = f.list
        /\ next.left = f.left /\ next.usable = f.usable /\ next.silent = f.silent
        /\ next.block = f.block
    BY <1>2, <2>1 DEF Findings
  <2>3. watched = <<"runway", RunwayOf(purse)>> => heldAt >= began
    BY <1>2 DEF HealthInv, Observed, Holds
  <2>4. Supported(next, began)
    BY <1>2, <2>2, <2>3 DEF Supported
  <2>5. Midway([gets[g] EXCEPT !.pc = "word", !.found = next])
    <3> HIDE DEF next
    <3>1. QED
      BY <1>1, <1>2, <2>2 DEF Midway, Requests
  <2>6. Notes(g, "word", next)
    BY <1>3 DEF ReadsGas
  <2>7. QED
    BY <1>1, <2>2, <2>4, <2>5, <2>6, NotesInv
<1>4. CASE ~chainUp
  <2> DEFINE next == Unread(f)
  <2>1. next \in Findings /\ Supported(next, began)
    BY <1>2, <1>4, SilenceIsSupported
  <2>2. next.silent /\ next.left = f.left /\ next.usable = f.usable /\ next.list = f.list
    BY <1>2 DEF Unread, Findings
  <2>3. Midway([gets[g] EXCEPT !.pc = "word", !.found = next])
    <3> HIDE DEF next
    <3>1. QED
      BY <1>1, <1>2, <2>1, <2>2 DEF Midway, Requests
  <2>4. Notes(g, "word", next)
    BY <1>4 DEF ReadsGas
  <2>5. QED
    BY <1>1, <2>1, <2>3, <2>4, NotesInv
<1>5. QED
  BY <1>3, <1>4

\* An answer says of the world what was found, and nothing else.
LEMMA ClaimsAreSupported ==
  ASSUME NEW f \in Findings, NEW began \in Nat, NEW w \in Words, Supported(f, began),
         f.left = {}, watched \in Fact, heldAt \in Int,
         f.block /\ f.list = {} /\ ~f.silent /\ watched = <<"list", "empty">> => heldAt >= began,
         watched = <<"word", w>> => heldAt >= began,
         watched \in Claims([f EXCEPT !.word = w])
  PROVE  heldAt >= began
<1> DEFINE n == [f EXCEPT !.word = w]
<1>1. /\ n.list = f.list /\ n.usable = f.usable /\ n.runway = f.runway /\ n.silent = f.silent
      /\ n.block = f.block /\ n.word = w
  BY DEF Findings
<1>2. \/ \E a \in f.usable : watched = <<"usable", a>>
      \/ \E a \in f.list \ f.usable : watched = <<"unusable", a>>
      \/ \E a \in f.list : watched = <<"allowed", a>>
      \/ f.runway \in {"long", "short"} /\ watched = <<"runway", f.runway>>
      \/ f.silent /\ watched = <<"chain", "silent">>
      \/ f.block /\ f.list = {} /\ ~f.silent /\ watched = <<"list", "empty">>
      \/ watched = <<"word", w>>
  <2> HIDE DEF n
  <2>1. watched \in Claims(n)
    BY DEF n
  <2>2. QED
    BY <1>1, <2>1 DEF Claims
<1>3. QED
  BY <1>2 DEF Supported

\* A system that is not down has an asset that is allowed and usable.
LEMMA UpHasAnAsset ==
  ASSUME NEW f \in Findings, f.usable \subseteq f.list, StatusOf(f) # "down"
  PROVE  \E a \in Held : {<<"usable", a>>, <<"allowed", a>>} \subseteq Claims(f)
<1>1. f.word \in Words /\ CauseOfWord(f.word) # "none"
  BY DEF Findings, CauseOfWord, Words
<1>2. f.usable # {}
  BY <1>1 DEF StatusOf, CauseOfFindings
<1>3. PICK a \in f.usable : a \in Held
  BY <1>2 DEF Findings
<1>4. {<<"usable", a>>, <<"allowed", a>>} \subseteq Claims(f)
  BY <1>3 DEF Claims
<1>5. QED
  BY <1>3, <1>4

\* A request begins with nothing and ends with nothing.
LEMMA DoneIsARequest == Unasked \in Requests /\ Done \in Requests /\ Done.pc = "done"
<1>1. NoFindings \in Findings
  BY DEF NoFindings, Findings, Never, Words
<1>2. QED
  BY <1>1 DEF Unasked, Done, Requests

\* The answer is kept with what was found during its request.
LEMMA AnswersInv ==
  ASSUME HealthInv, SPAN \in Nat, TTL \in Nat \ {0}, NEW g \in Getter, Answers(g)
  PROVE  HealthInv'
<1> DEFINE f == gets[g].found
           began == gets[g].began
           said == [f EXCEPT !.word = word]
<1>1. gets[g].pc = "word" /\ UnderWay(g)
  BY DEF Answers, UnderWay
<1>2. /\ f \in Findings /\ began \in Nat /\ began <= clock /\ clock <= began + SPAN
      /\ clock \in Nat /\ word \in Words /\ watched \in Fact /\ heldAt \in Int
      /\ Supported(f, began) /\ f.left = {} /\ f.usable \subseteq f.list
      /\ f.block /\ f.list = {} /\ ~f.silent /\ watched = <<"list", "empty">> => heldAt >= began
  BY <1>1 DEF HealthInv, HealthTypes, Requests, Investigated, Midway
<1>3. Proceeds(g, Done) /\ cached' = AnswerOf(said) /\ given' = clock
  BY DEF Answers, Serves
<1>4. HealthTypes' /\ Observed' /\ Investigated'
  BY <1>3, DoneIsARequest, ProceedsInv
<1>5. said \in Findings /\ said.usable \subseteq said.list
  BY <1>2 DEF Findings
<1>6. /\ cached'.at = clock /\ cached'.status = StatusOf(said) /\ cached'.claims = Claims(said)
  BY <1>3 DEF AnswerOf
<1>7. UpNamesAnAsset(cached')
  BY <1>5, <1>6, UpHasAnAsset DEF UpNamesAnAsset
<1>8. watched = <<"word", word>> => heldAt >= began
  BY <1>2 DEF HealthInv, Observed, Holds
<1>9. watched \in cached'.claims => heldAt >= began
  BY <1>2, <1>6, <1>8, ClaimsAreSupported
<1>10. clock' = clock /\ watched' = watched /\ heldAt' = heldAt
  BY <1>3 DEF Proceeds
<1>11. UpNamesAnAsset(cached)'
  BY <1>7 DEF UpNamesAnAsset
<1>12. KeptWell'
  <2> HIDE DEF said, f, began
  <2>1. QED
    BY <1>2, <1>3, <1>6, <1>9, <1>10, <1>11 DEF KeptWell
<1>13. QED
  BY <1>4, <1>12 DEF HealthInv

\* A kept answer is served while it is younger than TTL.
LEMMA HitsInv == ASSUME HealthInv, NEW g \in Getter, Hits(g) PROVE HealthInv'
<1>1. Kept /\ Proceeds(g, Done) /\ cached' = cached /\ given' = clock
  BY DEF Hits, Serves
<1>2. HealthTypes' /\ Observed' /\ Investigated'
  BY <1>1, DoneIsARequest, ProceedsInv
<1>3. clock' = clock /\ watched' = watched /\ heldAt' = heldAt /\ clock \in Nat
  BY <1>1 DEF Proceeds, HealthInv, HealthTypes
<1>4. cached.at \in Int /\ clock < cached.at + TTL
  <2>1. cached.at \in Int /\ TTL \in Nat
    BY HealthAssumption DEF HealthInv, KeptWell
  <2>2. QED
    BY <1>1, <1>3, <2>1 DEF Kept
<1>5. KeptWell'
  <2>1. UpNamesAnAsset(cached)' <=> UpNamesAnAsset(cached)
    BY <1>1 DEF UpNamesAnAsset
  <2>2. KeptWell /\ cached.at # Never
    BY <1>1 DEF HealthInv, Kept
  <2>3. clock \in Int
    BY <1>3
  <2>4. QED
    BY <1>1, <1>3, <1>4, <2>1, <2>2, <2>3 DEF KeptWell
<1>6. QED
  BY <1>2, <1>5 DEF HealthInv

\* A request begins with the time it has left.
LEMMA MissesInv == ASSUME HealthInv, SPAN \in Nat, NEW g \in Getter, Misses(g) PROVE HealthInv'
<1> DEFINE request == [Unasked EXCEPT !.pc = "block", !.began = clock]
<1>1. Proceeds(g, request) /\ UNCHANGED <<cached, given>>
  BY DEF Misses
<1>2. clock \in Nat
  BY DEF HealthInv, HealthTypes
<1>3. /\ request \in Requests /\ request.pc = "block" /\ request.began = clock
      /\ request.found = NoFindings
  BY <1>2, DoneIsARequest DEF Requests, Unasked
<1>4. Supported(NoFindings, clock)
  BY DEF Supported, NoFindings
<1>5. Midway(request)
  BY <1>3 DEF Midway
<1>6. HealthTypes' /\ Observed' /\ Investigated'
  <2> HIDE DEF request
  <2>1. QED
    BY <1>1, <1>2, <1>3, <1>4, <1>5, ProceedsInv
<1>7. KeptWell'
  BY <1>1 DEF HealthInv, KeptWell, UpNamesAnAsset, Proceeds
<1>8. QED
  BY <1>6, <1>7 DEF HealthInv

\* A request that is ended leaves nothing behind.
LEMMA EndedInv == ASSUME HealthInv, NEW g \in Getter, Ended(g) PROVE HealthInv'
<1>1. Proceeds(g, Done) /\ UNCHANGED <<cached, given>>
  BY DEF Ended
<1>2. HealthTypes' /\ Observed' /\ Investigated'
  BY <1>1, DoneIsARequest, ProceedsInv
<1>3. KeptWell'
  BY <1>1 DEF HealthInv, KeptWell, UpNamesAnAsset, Proceeds
<1>4. QED
  BY <1>2, <1>3 DEF HealthInv

\* The five ways the world changes, and time.
LEMMA WorldInv ==
  ASSUME HealthInv, SPAN \in Nat, FRESH \in Nat,
         Published \/ Relisted \/ ChainTurns \/ Paid \/ Spoke \/ Minute
  PROVE  HealthInv'
<1>1. /\ Watches /\ UNCHANGED <<cached, gets, given>>
      /\ clock' = clock \/ (Minute /\ clock' = clock + 1)
  BY DEF Published, Relisted, ChainTurns, Paid, Spoke, Minute, Turns
<1>2. clock \in Nat /\ clock' \in Nat /\ clock' >= clock
  BY <1>1 DEF HealthInv, HealthTypes
<1>3. \A g \in Getter : UnderWay(g) => clock' <= gets[g].began + SPAN
  <2>1. ASSUME NEW g \in Getter, UnderWay(g)
        PROVE  clock <= gets[g].began + SPAN /\ gets[g].began \in Nat
    BY <2>1 DEF HealthInv, HealthTypes, Requests, Investigated
  <2>2. QED
    BY <1>1, <1>2, <2>1 DEF Minute
<1>4. allowed' \in SUBSET Held /\ word' \in Words
  BY DEF Published, Relisted, ChainTurns, Paid, Spoke, Minute, world, HealthInv, HealthTypes
<1>5. /\ peeks' \in [Held -> [at : Int, has : BOOLEAN]]
      /\ \A a \in Held : peeks'[a] = peeks[a] \/ (peeks'[a].at = clock /\ clock' = clock)
  <2>1. CASE Published
    <3>1. clock' = clock
      BY <2>1 DEF Published, Turns
    <3>2. QED
      BY <1>2, <2>1, <3>1 DEF Published
  <2>2. CASE peeks' = peeks
    BY <2>2 DEF HealthInv, HealthTypes
  <2>3. QED
    BY <2>1, <2>2 DEF Relisted, ChainTurns, Paid, Spoke, Minute, world
<1>6. QED
  BY <1>1, <1>2, <1>3, <1>4, <1>5, WorldMovesInv

\* The inductive invariant of the requests and of the answer that is kept.
THEOREM Investigating == HealthSpec => []HealthInv
<1> USE HealthAssumption
<1>1. HealthInit => HealthInv
  BY HealthInitInv
<1>2. HealthInv /\ [HealthNext]_healthVars => HealthInv'
  <2>1. ASSUME HealthInv, UNCHANGED healthVars PROVE HealthInv'
    BY <2>1 DEF healthVars, world, HealthInv, HealthTypes, Observed, Holds, UsableNow, StaleAt,
       RunwayOf, Runs, Investigated, UnderWay, Supported, Midway, UsableSince, KeptWell,
       UpNamesAnAsset
  <2>2. ASSUME HealthInv, NEW g \in Getter, Get(g) PROVE HealthInv'
    BY <2>2, HitsInv, MissesInv, ReadsBlockInv, ReadsListInv, PeeksInv, ReadsGasInv, AnswersInv,
       EndedInv DEF Get
  <2>3. QED
    BY <2>1, <2>2, WorldInv DEF HealthNext
<1>3. QED
  BY <1>1, <1>2, PTL DEF HealthSpec

\* For any requests, any durations and any world: what an answer says was so less than a
\* TTL and a request before, and an answer that is not `down` names an asset that was
\* allowed and usable (health.ts 198-221, route.ts 50-179).
THEOREM ServedAnswersAreRecentHolds == HealthSpec => []ServedAnswersAreRecent
<1>1. HealthInv => ServedAnswersAreRecent
  <2>1. SUFFICES ASSUME HealthInv, given # Never PROVE ServedAnswersAreRecent
    BY DEF ServedAnswersAreRecent
  <2>2. /\ cached.at # Never /\ given < cached.at + TTL /\ UpNamesAnAsset(cached)
        /\ cached.at \in Int /\ given \in Int /\ heldAt \in Int
        /\ watched \in cached.claims => heldAt >= 0 /\ cached.at <= heldAt + SPAN
    BY <2>1 DEF HealthInv, KeptWell, HealthTypes
  <2>3. watched \in cached.claims => heldAt # Never /\ given - heldAt < TTL + SPAN
    BY <2>2, HealthAssumption DEF Never
  <2>4. HttpStatus(cached) = 200 => cached.status # "down"
    BY DEF HttpStatus
  <2>5. QED
    BY <2>2, <2>3, <2>4 DEF ServedAnswersAreRecent, UpNamesAnAsset
<1>2. QED
  BY <1>1, Investigating, PTL
=============================================================================
