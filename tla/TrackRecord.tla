----------------------------- MODULE TrackRecord ----------------------------
(***************************************************************************)
(* What the receipts page says of the past: src/track-record.ts joins the  *)
(* two registries and src/receipts-view.ts counts, while theses are        *)
(* published and trades settle, over nodes that lag.                       *)
(***************************************************************************)
EXTENDS Integers, Sequences, FiniteSets, NodeReads, FiniteSetsExt, Functions

CONSTANTS
  Thesis,        \* content hashes
  Recordable,    \* what a receipt may record: sequences of fills
  MaxReceipts, MaxSeconds   \* bounds

FillRecord == [asset : STRING, exit : BOOLEAN, notional : Nat, slippageBps : Nat, fairValue : Nat]

ASSUME RecordAssumption == Recordable \subseteq Seq(FillRecord) /\ MaxReceipts \in Nat

VARIABLES
  second, \* the time
  page    \* one load of the receipts page, and of one receipt

recordVars == <<head, behind, second, page>>

NoThesis == "none"
NoPage == [pc |-> "off", theses |-> 0, receipts |-> 0, id |-> 0]

RecordInit ==
  /\ ReadsInit([theses |-> <<>>, receipts |-> <<>>])
  /\ second = 1 /\ page = NoPage
---------------------------------------------------------------------------
(* The chain.  A thesis remembers how many receipts there were, for the    *)
(* properties only: a block's transactions share its second.               *)

Publishes ==
  /\ \E h \in Thesis :
       /\ \A t \in Range(head.theses) : t.hash # h
       /\ Land([head EXCEPT !.theses = Append(@,
            [hash |-> h, at |-> second, settled |-> Len(head.receipts)])])
  /\ UNCHANGED <<second, page>>

\* The executor takes any thesis hash.
Settles ==
  /\ Len(head.receipts) < MaxReceipts
  /\ \E h \in Thesis \cup {NoThesis}, fills \in Recordable :
       Land([head EXCEPT !.receipts = Append(@,
         [thesis |-> h, at |-> second, fills |-> fills])])
  /\ UNCHANGED <<second, page>>

Second == second < MaxSeconds /\ second' = second + 1 /\ UNCHANGED <<head, behind, page>>
RecordSyncs == Sync /\ UNCHANGED <<second, page>>
---------------------------------------------------------------------------
(* The page.  Records never change once they are there, so what was read   *)
(* is known by how many there were, and the index of stored records makes  *)
(* no difference to it.                                                    *)

Shows(p) == page' = p /\ UNCHANGED <<head, behind, second>>

\* loadRegistry: the theses are counted first.
CountsTheses ==
  /\ page.pc = "off"
  /\ \E s \in Served : Shows([NoPage EXCEPT !.pc = "theses", !.theses = Len(s.theses)])

\* loadReceipts, while the theses are being read.
CountsReceipts ==
  /\ page.pc = "theses"
  /\ \E s \in Served : Shows([page EXCEPT !.pc = "shown", !.receipts = Len(s.receipts)])

\* A read that throws makes the page say that it could not look.
Unreadable == page.pc = "theses" /\ Shows([page EXCEPT !.pc = "unreadable"])

ShownTheses == {head.theses[i] : i \in 1 .. page.theses}
ShownReceipts == 1 .. page.receipts

Mine(t) == {i \in ShownReceipts : head.receipts[i].thesis = t.hash}
Orphans == {i \in ShownReceipts : /\ head.receipts[i].thesis # NoThesis
                                  /\ \A t \in ShownTheses : t.hash # head.receipts[i].thesis}

\* allReceipts: those of the theses, and those without one.
OnThePage == ShownReceipts \ Orphans

\* find: a receipt that is listed is shown.
Looks ==
  /\ page.pc = "shown"
  /\ \E id \in 1..MaxReceipts :
       Shows([page EXCEPT !.id = id, !.pc = IF id \in OnThePage THEN "opened" ELSE "missing"])

Leaves == page.pc \notin {"off", "theses"} /\ Shows(NoPage)

RecordNext == Publishes \/ Settles \/ Second \/ RecordSyncs
              \/ CountsTheses \/ CountsReceipts \/ Unreadable \/ Looks \/ Leaves

RecordSpec == RecordInit /\ [][RecordNext]_recordVars
---------------------------------------------------------------------------
(* What the page makes of it.                                              *)

\* A fill is known by its receipt and its place in it.
Fills(receipts) == UNION {{i} \X DOMAIN head.receipts[i].fills : i \in receipts}
FillAt(p) == head.receipts[p[1]].fills[p[2]]

Notional(fills) == SumFunctionOnSet([p \in fills |-> FillAt(p).notional], fills)
Slipped(fills) == SumFunctionOnSet([p \in fills |-> FillAt(p).notional * FillAt(p).slippageBps], fills)

\* Defect for the checks: a publication in the second of a fill counts as before it.
BeforeOrWith(t) == \A i \in Mine(t) : head.receipts[i].at >= t.at

\* publishedBeforeExecution.
Before(t) == \A i \in Mine(t) : head.receipts[i].at > t.at

\* basketFrom: entries only, and nothing of entries that came to nothing.
EntriesBehind(t) == {p \in Fills(Mine(t)) : ~FillAt(p).exit}
Basket(t) == IF Notional(EntriesBehind(t)) = 0 THEN {} ELSE {FillAt(p).asset : p \in EntriesBehind(t)}
Weight(t, a) ==
  (Notional({p \in EntriesBehind(t) : FillAt(p).asset = a}) * 10000) \div Notional(EntriesBehind(t))

\* shortfallMeasured: an exit the oracle had no value for has none.
ShortfallMeasured(f) == ~f.exit \/ f.fairValue # 0

NoFigure == -1

\* summarise: over the fills that have a shortfall, weighted by what they moved.
WeightedSlippage ==
  LET measured == {p \in Fills(OnThePage) : ShortfallMeasured(FillAt(p))}
  IN IF Notional(measured) = 0 THEN NoFigure ELSE Slipped(measured) \div Notional(measured)
---------------------------------------------------------------------------
(* Properties.                                                             *)

Loaded == page.pc \notin {"off", "theses", "unreadable"}

\* What the page says of a thesis with fills, "published before every fill", holds of the
\* whole chain and for ever, though theses and receipts were counted at two moments, of
\* two nodes (track-record.ts 317-374, Theses.tsx 86-93).
ClaimsHold ==
  \A t \in ShownTheses : Mine(t) # {} /\ Before(t) =>
    \A i \in DOMAIN head.receipts : head.receipts[i].thesis = t.hash => i > t.settled

\* A fill nothing priced does not count towards the slippage on top of the page: the
\* figure is between the least and the largest of those that were measured, or there is
\* none (receipts-view.ts 203-236); and the basket that is offered for following is the
\* whole of what was bought, to a basis point per asset (track-record.ts 246-273).
FiguresAreMeasured ==
  LET priced == {p \in Fills(OnThePage) : ~(FillAt(p).exit /\ FillAt(p).fairValue = 0)}
      slippages == {FillAt(p).slippageBps : p \in priced}
      weights(t) == SumFunctionOnSet([a \in Basket(t) |-> Weight(t, a)], Basket(t))
  IN /\ WeightedSlippage # NoFigure =>
          slippages # {} /\ WeightedSlippage \in Min(slippages)..Max(slippages)
     /\ \A t \in ShownTheses : Basket(t) # {} =>
          weights(t) \in (10001 - Cardinality(Basket(t)))..10000

\* Once the receipts page is loaded, its claims and its figures are those of the chain.
ThePageSaysWhatHappened == Loaded => ClaimsHold /\ FiguresAreMeasured

\* [id]/page.tsx 80-82: "Only a receipt nobody settled is a 404."
OnlyTheUnsettledAreMissing == page.pc = "missing" => page.id > page.receipts

\* Integrity.tsx 33, of the orphaned hashes: "A fill stamped a thesis hash that was
\* never published."
OrphansWereNeverPublished ==
  Loaded => \A i \in Orphans, t \in Range(head.theses) : t.hash # head.receipts[i].thesis
=============================================================================
