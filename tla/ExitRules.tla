----------------------------- MODULE ExitRules -----------------------------
(***************************************************************************)
(* From the disconfirming conditions of a thesis to the triggers installed *)
(* on chain: compileMandate (src/thesis.ts) resolves entities to assets    *)
(* once the allocation exists, encodeTriggers (src/triggers.ts) scopes the *)
(* rules to the mandate's allowlist, scales their thresholds, and drops    *)
(* the ones that could never fire.  The form encodes again at every pick.  *)
(*                                                                         *)
(* A condition names its metric, comparator and threshold, and the         *)
(* entities it is about (none: the whole basket); one the system cannot    *)
(* measure has no metric.  Thresholds are in halves, for a model may write *)
(* 60.5.                                                                   *)
(***************************************************************************)
EXTENDS ExitTriggers, Sequences

CONSTANTS
  Theses,       \* sequences of conditions
  Expressing,   \* allocations: sets of <<asset, entity it expresses>>
  Symbol,       \* assets a mandate can be allowed to hold
  UNIT,         \* raw units of one USDG
  Seen          \* of the properties: [o, p, t], an observation, a position and a time

\* What the form may hand over, and what may be measured: cash has whole halves, and every
\* observation lies in its metric's domain, the age of an anchor included (triggers.ts 98-106).
StatedInHalves(th) == \A i \in DOMAIN th : th[i].comparator \in Comparator /\ th[i].halves \in Int
OfPairs(allocation) == \A p \in allocation : p = <<p[1], p[2]>>
Measurable(s) ==
  /\ s.p \in Position /\ s.t \in Nat
  /\ s.o.fairValueE8 \in Nat /\ s.o.capacityUsdg \in Nat /\ s.o.anchorAt \in Nat
  /\ s.o.basisBps \in Int /\ s.o.gapRisk \in Nat /\ s.o.gapRisk <= 100
  /\ s.o.confidenceBps \in Nat /\ s.o.confidenceBps <= 10000
  /\ s.t > s.o.anchorAt => (s.t - s.o.anchorAt) \div HOUR <= 8760

RulesAssumption ==
  /\ UNIT \in Nat /\ UNIT % 2 = 0 /\ HOUR \in Nat \ {0}
  /\ \A th \in Theses : StatedInHalves(th)
  /\ \A allocation \in Expressing : OfPairs(allocation)
  /\ \A s \in Seen : Measurable(s)

VARIABLES
  conditions,   \* of the thesis that was compiled
  expresses,    \* its allocation
  picked        \* the allowlist chosen in the form

ruleVars == <<conditions, expresses, picked>>

CashDenominated == {"capacityUsdg"}
---------------------------------------------------------------------------
\* Cash at its decimals, everything else cut to a whole number.
ScaleThreshold(metric, halves) ==
  IF metric \in CashDenominated THEN (halves * UNIT) \div 2 ELSE TruncatedDiv(halves, 2)

\* METRIC_DOMAIN: the bounds of each metric, where it has them.
Lowest == [gapRisk |-> 0, confidenceBps |-> 0, stalenessHours |-> 0,
           drawdownBpsFromEntry |-> 0, capacityUsdg |-> 0]
Highest == [gapRisk |-> 100, confidenceBps |-> 10000, stalenessHours |-> 8760,
            drawdownBpsFromEntry |-> 10000]

Reachability(metric, comparator, scaled) ==
  LET below == metric \in DOMAIN Lowest
      above == metric \in DOMAIN Highest
  IN IF comparator = "gt"
     THEN IF above /\ scaled >= Highest[metric] THEN "never"
          ELSE IF below /\ scaled < Lowest[metric] THEN "always" ELSE "ok"
     ELSE IF below /\ scaled <= Lowest[metric] THEN "never"
          ELSE IF above /\ scaled > Highest[metric] THEN "always" ELSE "ok"

\* compileMandate: the assets whose legs express one of the condition's entities.
Resolved(c) == {p[1] : p \in {q \in expresses : q[2] \in c.appliesTo}}

Observable(c) == c.metric \in Metric

TriggerOf(c) ==
  [metric |-> c.metric, comparator |-> c.comparator,
   threshold |-> ScaleThreshold(c.metric, c.halves), assets |-> Resolved(c) \cap picked]

\* Defect for the checks: a scope emptied by the allowlist is installed as it is.
InstallsTheEmptied(c) ==
  /\ Observable(c)
  /\ Reachability(c.metric, c.comparator, ScaleThreshold(c.metric, c.halves)) # "never"

\* encodeTriggers: a rule none of whose assets the mandate may hold is dropped, never
\* widened to the basket; so is one outside its metric's domain.
Installs(c) ==
  /\ Observable(c)
  /\ c.appliesTo = {} \/ TriggerOf(c).assets # {}
  /\ Reachability(c.metric, c.comparator, ScaleThreshold(c.metric, c.halves)) # "never"

Triggers == {TriggerOf(c) : c \in {d \in {conditions[i] : i \in DOMAIN conditions} : Installs(d)}}
---------------------------------------------------------------------------
RulesInit == conditions = <<>> /\ expresses = {} /\ picked = {}

\* A thesis is compiled and handed to the form; nothing may be held yet.
Compile ==
  /\ conditions = <<>>
  /\ conditions' \in Theses /\ expresses' \in Expressing
  /\ picked' = {}

\* The form's allowlist changes, and the rules are encoded again.
Pick ==
  /\ conditions # <<>>
  /\ picked' \in SUBSET Symbol
  /\ UNCHANGED <<conditions, expresses>>

RulesNext == Compile \/ Pick

RulesSpec == RulesInit /\ [][RulesNext]_ruleVars
---------------------------------------------------------------------------
(* Properties.                                                             *)

Whole(c) == c.metric \in CashDenominated \/ c.halves % 2 = 0

\* The condition as it was stated, for an asset it is about.
Meant(c, asset) == c.appliesTo = {} \/ \E e \in c.appliesTo : <<asset, e>> \in expresses

Holds(c, s) ==
  LET value == Evaluate(c.metric, s.o, s.p, s.t) * 2
      bound == c.halves * (IF c.metric \in CashDenominated THEN UNIT ELSE 1)
  IN IF c.comparator = "gt" THEN value > bound ELSE value < bound

AtAGain(s) == s.p.units > 0 /\ s.o.fairValueE8 > s.p.costBasisE8

SaysTheSame(asset, s) ==
  (\E i \in DOMAIN conditions :
     LET c == conditions[i]
     IN Observable(c) /\ Meant(c, asset) /\ Available(c.metric, s.o, s.p) /\ Holds(c, s))
  <=> (\E tr \in Triggers :
         Covers(tr, asset) /\ Available(tr.metric, s.o, s.p) /\ Fired(tr, s.o, s.p, s.t))

\* For every asset the mandate may hold, the chain fires exactly when a condition of the
\* thesis that is about it holds: scoping, scaling and dropping rules lose nothing and
\* invent nothing (triggers.ts 150-163).  A fractional threshold is cut to a whole one on
\* purpose, and a position at a gain is the exception below.
TheRulesSayWhatTheThesisSays ==
  \A asset \in picked : \A s \in Seen :
    (\A i \in DOMAIN conditions : Whole(conditions[i])) /\ ~AtAGain(s) => SaysTheSame(asset, s)

\* triggers.ts 113: 'never' means that "no observation satisfies it".  A drawdown is
\* negative while the position is at a gain, and its domain here starts at zero.
TheUnreachableNeverFires ==
  \A i \in DOMAIN conditions, s \in Seen :
    LET c == conditions[i]
    IN Observable(c) /\ Available(c.metric, s.o, s.p)
         /\ Reachability(c.metric, c.comparator, ScaleThreshold(c.metric, c.halves)) = "never"
       => ~Fired(TriggerOf(c), s.o, s.p, s.t)
=============================================================================
