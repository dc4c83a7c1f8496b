---------------------------- MODULE MCTradeDesk ----------------------------
(***************************************************************************)
(* Two parts of a trade that never touch each other, one a behaviour.      *)
(* The desk: two forms, two runs of fill() and sell(), two nonces.  Effort *)
(* bounds how much happens at once: one run may follow three quotes, two   *)
(* runs one; forms change without limit.  The theses: two hashes, whose    *)
(* registry is a chain of its own.                                         *)
(***************************************************************************)
EXTENDS TradeDesk, ThesisDesk

CONSTANTS x, y, f, g   \* model values

VARIABLE scene

Alike == Permutations({x, y}) \cup Permutations({f, g})

Effort == asked + 2 * Cardinality({k \in Flow : flows[k].pc # "off"}) <= 5

Init == scene \in {"desk", "theses"} /\ TradeInit /\ ThesisInit

Next ==
  /\ UNCHANGED scene
  /\ \/ scene = "desk" /\ TradeNext /\ UNCHANGED thesisVars
     \/ scene = "theses" /\ ThesisNext /\ UNCHANGED tradeVars

Spec == Init /\ [][Next]_<<scene, tradeVars, thesisVars>>
=============================================================================
