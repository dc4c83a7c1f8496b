--------------------------- MODULE MCMandateDesk ---------------------------
(***************************************************************************)
(* Two parts of the mandate page, one a behaviour.  The desk: two mandates *)
(* and three transactions are a creation, and an edit that another edit,   *)
(* or another creation, has overtaken.  The rules: theses of one or two    *)
(* conditions, at and around every bound of a metric's domain.             *)
(***************************************************************************)
EXTENDS MandateDesk, ExitRules

VARIABLE scene

\* Thresholds in halves: whole ones, a fraction, and what can never or always fire.
Stated ==
  {<<"gapRisk", "gt", 120>>, <<"gapRisk", "gt", 200>>, <<"gapRisk", "lt", 0>>,
   <<"gapRisk", "gt", -2>>, <<"gapRisk", "gt", 121>>, <<"capacityUsdg", "lt", 3>>,
   <<"capacityUsdg", "lt", 0>>, <<"confidenceBps", "gt", 20000>>,
   <<"confidenceBps", "lt", 200>>, <<"drawdownBpsFromEntry", "gt", 4000>>,
   <<"drawdownBpsFromEntry", "lt", -4000>>, <<"stalenessHours", "gt", 4>>,
   <<"basisBps", "lt", -200>>, <<"priceVsThesisEntryBps", "lt", -200>>, <<"none", "gt", 0>>}

Condition(s, entities) ==
  [metric |-> s[1], comparator |-> s[2], halves |-> s[3], appliesTo |-> entities]

\* The entity u is expressed by no asset.
MCTheses ==
  {<<Condition(s, scope)>> : s \in Stated, scope \in {{}, {"e"}, {"f"}, {"e", "f"}, {"u"}}}
  \cup {<<Condition(<<"gapRisk", "gt", 120>>, {"e"}), Condition(s, {"f"})>> : s \in Stated}

MCExpressing ==
  {{<<"A", "e">>, <<"B", "f">>}, {<<"A", "e">>, <<"B", "e">>}, {<<"A", "e">>}}

Observed(g, c, cap, b, v, has) ==
  [gapRisk |-> g, confidenceBps |-> c, capacityUsdg |-> cap, basisBps |-> b,
   fairValueE8 |-> v, hasValue |-> has, anchorAt |-> 1, updatedAt |-> 2]

\* Both sides of every threshold, with and without a position bought at 100.
MCSeen ==
  [o : {Observed(g, c, cap, b, v, has) :
          g \in {0, 60, 61, 100}, c \in {0, 100, 10000}, cap \in {0, 2, 3, 4},
          b \in {-101, -100}, v \in {70, 80, 100, 130}, has \in BOOLEAN},
   p : {[units |-> u, costBasisE8 |-> 100 * u, entryFairValueE8 |-> 100 * u] : u \in {0, 1}},
   t : {2, 4}]

ASSUME RulesAssumption

Init == scene \in {"desk", "rules"} /\ DeskInit /\ RulesInit

Next ==
  /\ UNCHANGED scene
  /\ \/ scene = "desk" /\ DeskNext /\ UNCHANGED ruleVars
     \/ scene = "rules" /\ RulesNext /\ UNCHANGED deskVars

Spec == Init /\ [][Next]_<<scene, deskVars, ruleVars>> /\ DeskFairness
=============================================================================
