-------------------------- MODULE TradeDeskProofs ---------------------------
(*****************************************************************************)
(* No two fills overlap, and no unmeasured sale settles unacknowledged,      *)
(* for any number of forms, runs, nonces and transactions under way.         *)
(* The first rests on Permit2 nonces being taken lowest first: whatever is   *)
(* signed and can still settle carries the one nonce that is next, so that   *)
(* what settles takes the chance from all the others.  The second follows    *)
(* the tick of the box through quote, plan, order and transaction.           *)
(*                                                                           *)
(* A thesis the page or the command reports as taken is the first with its   *)
(* hash, whatever the nodes they ask have not seen yet: what a slow node     *)
(* serves is the beginning of the registry, and a hash is on it once.        *)
(*****************************************************************************)
EXTENDS TradeDesk, ThesisDesk, SequenceTheorems, TLAPS

ChainState == [spent : SUBSET Nonce, approved : SUBSET (Approved \cup {"cash", "asset"})]

Shape ==
  /\ head \in ChainState /\ behind \in ChainState
  /\ behind.spent \subseteq head.spent
  /\ settled \in Seq(Sent) /\ mempool \subseteq Sent
  /\ form \in [Panel -> Form] /\ ack \in BOOLEAN /\ ticked \subseteq Form
  /\ plan \in [Panel -> PlanType]
  /\ request \in [Panel -> [form : Form \cup {"none"}, ack : BOOLEAN]]
  /\ flows \in [Flow -> FlowType]

\* A permit is spent, or it is the next to be and nothing has settled since it was built.
Due(nonce, after) ==
  \/ nonce \in head.spent
  \/ /\ after = Len(settled)
     /\ \A i \in Nonce : i < nonce => i \in head.spent

PermitsAreDue ==
  /\ \A f \in Flow : flows[f].pc = "signing" => Due(flows[f].nonce, flows[f].after)
  /\ \A t \in mempool : Due(t.nonce, t.after)

\* What may be sold: what is measured, or what the box was ticked for.
Cleared(order) == order.measured \/ order.form \in ticked

TicksTravel ==
  /\ ack => form["sell"] \in ticked
  /\ \A p \in Panel : request[p].ack => request[p].form \in ticked
  /\ \A p \in Panel : plan[p].ack => plan[p].form \in ticked
  /\ \A f \in Flow : Cleared(flows[f].order)
  /\ \A t \in mempool : Cleared(t.order)

TradeInv ==
  /\ Shape /\ PermitsAreDue /\ NoOverlappingFills
  /\ TicksTravel /\ UnmeasuredSalesWereAcknowledged
---------------------------------------------------------------------------
\* Nothing has been quoted, signed or settled to begin with.
LEMMA InitInv == ASSUME TradeInit PROVE TradeInv
<1> USE DEF TradeInit, ReadsInit
<1>1. 0 \in Nonce
  BY BoundsAssumption DEF Nonce
<1>2. Shape
  <2>1. ack \in BOOLEAN /\ ~ack
    OBVIOUS
  <2>2. QED
    BY <1>1, <2>1 DEF Shape, ChainState, PlanType, OrderType, FlowType, NoPlan, NoRequest, NoFlow, NoOrder, Panel
<1>3. PermitsAreDue /\ NoOverlappingFills /\ UnmeasuredSalesWereAcknowledged
  BY DEF PermitsAreDue, NoOverlappingFills, UnmeasuredSalesWereAcknowledged, NoFlow
<1>4. TicksTravel
  BY DEF TicksTravel, Cleared, NoRequest, NoPlan, NoFlow, NoOrder
<1>5. QED
  BY <1>2, <1>3, <1>4 DEF TradeInv

---------------------------------------------------------------------------
(* The page: what it does to the plans and the requests.                   *)

\* Typing fills a form and empties its plan.
LEMMA TypesInv ==
  ASSUME TradeInv, NEW p \in Panel, Types(p)
  PROVE  TradeInv'
<1>1. PICK x \in Form \ {form[p]} : FillForm(p, x)
  BY DEF Types
<1>2. /\ form' = [form EXCEPT ![p] = x] /\ plan' = [plan EXCEPT ![p] = NoPlan]
      /\ ack' = (ack /\ p # "sell")
      /\ UNCHANGED <<head, behind, settled, mempool, request, ticked, flows>>
  BY <1>1 DEF FillForm, Types
<1>3. Shape'
  BY <1>2 DEF TradeInv, Shape, NoPlan, PlanType, Panel
<1>4. PermitsAreDue' /\ NoOverlappingFills' /\ UnmeasuredSalesWereAcknowledged'
  BY <1>2 DEF TradeInv, PermitsAreDue, Due, NoOverlappingFills, UnmeasuredSalesWereAcknowledged
<1>5. TicksTravel'
  BY <1>2 DEF TradeInv, Shape, TicksTravel, Cleared, NoPlan, Panel
<1>6. QED
  BY <1>3, <1>4, <1>5 DEF TradeInv

\* A quote is asked for with the box as it is, or as it has just been ticked.
LEMMA AsksInv ==
  ASSUME TradeInv, NEW p \in Panel, NEW acknowledged \in BOOLEAN, Asks(p, acknowledged),
         ticked' \in {ticked, ticked \cup {form[p]}},
         acknowledged => form[p] \in ticked', ack' \in BOOLEAN, ack' => form["sell"] \in ticked'
  PROVE  TradeInv'
<1>1. /\ plan' = [plan EXCEPT ![p] = NoPlan]
      /\ request' = [request EXCEPT ![p] = [form |-> form[p], ack |-> acknowledged]]
      /\ UNCHANGED <<head, behind, settled, mempool, form, flows>>
  BY DEF Asks
<1>2. ticked \subseteq ticked'
  OBVIOUS
<1>3. Shape'
  BY <1>1 DEF TradeInv, Shape, NoPlan, PlanType, Panel
<1>4. PermitsAreDue' /\ NoOverlappingFills'
  BY <1>1 DEF TradeInv, PermitsAreDue, Due, NoOverlappingFills
<1>5. TicksTravel' /\ UnmeasuredSalesWereAcknowledged'
  BY <1>1, <1>2 DEF TradeInv, Shape, TicksTravel, Cleared, NoPlan, UnmeasuredSalesWereAcknowledged
<1>6. QED
  BY <1>3, <1>4, <1>5 DEF TradeInv

\* An answer becomes the plan of the form that was asked for, and carries its tick along.
LEMMA AnsweredInv ==
  ASSUME TradeInv, NEW p \in Panel, Answered(p)
  PROVE  TradeInv'
<1>1. /\ request' = [request EXCEPT ![p] = NoRequest]
      /\ UNCHANGED <<head, behind, settled, mempool, form, ack, ticked, flows>>
  BY DEF Answered
<1>2. \/ plan' = plan
      \/ \E allow, measured \in BOOLEAN :
           plan' = [plan EXCEPT ![p] = [panel |-> p, form |-> request[p].form, allow |-> allow,
                                        measured |-> measured, ack |-> request[p].ack]]
  BY DEF Answered, FillAnswers, ExitAnswers
<1>3. Shape'
  BY <1>1, <1>2 DEF TradeInv, Shape, PlanType, NoRequest, Panel
<1>4. PermitsAreDue' /\ NoOverlappingFills' /\ UnmeasuredSalesWereAcknowledged'
  BY <1>1 DEF TradeInv, PermitsAreDue, Due, NoOverlappingFills, UnmeasuredSalesWereAcknowledged
<1>5. TicksTravel'
  BY <1>1, <1>2 DEF TradeInv, Shape, TicksTravel, Cleared, NoRequest
<1>6. QED
  BY <1>3, <1>4, <1>5 DEF TradeInv

---------------------------------------------------------------------------
(* The runs of fill() and sell().                                          *)

\* A run that goes on, starts or is over, with an order that is cleared and no new permit,
\* while the chain and the mempool stay and plans only go away.
LEMMA FlowMovesInv ==
  ASSUME TradeInv, NEW f \in Flow, NEW flow \in FlowType,
         flows' = [flows EXCEPT ![f] = flow], flow.pc # "signing", Cleared(flow.order),
         UNCHANGED <<head, behind, settled, mempool, form, request, ack, ticked>>,
         plan' = plan \/ \E p \in Panel : plan' = [plan EXCEPT ![p] = NoPlan]
  PROVE  TradeInv'
<1>1. plan' \in [Panel -> PlanType] /\ \A q \in Panel : plan'[q].ack => plan'[q] = plan[q]
  <2>1. NoPlan \in PlanType /\ ~NoPlan.ack
    BY DEF NoPlan, PlanType, Panel
  <2>2. CASE plan' = plan
    BY <2>2 DEF TradeInv, Shape
  <2>3. CASE \E p \in Panel : plan' = [plan EXCEPT ![p] = NoPlan]
    BY <2>1, <2>3 DEF TradeInv, Shape
  <2>4. QED
    BY <2>2, <2>3
<1>2. flows' \in [Flow -> FlowType]
  BY DEF TradeInv, Shape
<1>3. Shape'
  BY <1>1, <1>2 DEF TradeInv, Shape
<1>4. PermitsAreDue' /\ NoOverlappingFills' /\ UnmeasuredSalesWereAcknowledged'
  BY DEF TradeInv, Shape, PermitsAreDue, Due, NoOverlappingFills, UnmeasuredSalesWereAcknowledged
<1>5. TicksTravel'
  BY <1>1 DEF TradeInv, Shape, TicksTravel, Cleared
<1>6. QED
  BY <1>3, <1>4, <1>5 DEF TradeInv

\* What stands of a run that is over, and that its order is measured.
LEMMA OverIsClear ==
  ASSUME Shape
  PROVE  /\ Over \in FlowType /\ Over.pc # "signing" /\ Cleared(Over.order)
         /\ NoFlow \in FlowType
<1>1. 0 \in Nonce
  BY BoundsAssumption DEF Nonce
<1>2. QED
  BY <1>1 DEF Over, NoFlow, NoOrder, FlowType, OrderType, Panel, Cleared

\* The sign button starts a run for what it shows, which is measured or was acknowledged.
LEMMA StartsInv ==
  ASSUME TradeInv, NEW p \in Panel, NEW f \in Flow, Starts(p, f)
  PROVE  TradeInv'
<1> DEFINE flow == [NoFlow EXCEPT !.pc = "allowance", !.order = Ordered(plan[p])]
<1>1. plan[p] \in PlanType /\ Signable(plan[p])
  BY DEF TradeInv, Shape, Starts
<1>2. flow \in FlowType /\ flow.pc # "signing" /\ flow.order = Ordered(plan[p])
  BY <1>1, OverIsClear DEF TradeInv, FlowType, OrderType, Ordered, PlanType
<1>3. Cleared(Ordered(plan[p]))
  BY <1>1 DEF TradeInv, TicksTravel, Signable, Ordered, Cleared
<1>4. flows' = [flows EXCEPT ![f] = flow]
      /\ UNCHANGED <<head, behind, settled, mempool, form, request, ack, ticked, plan>>
  BY DEF Starts, FormVars
<1> HIDE DEF flow
<1>5. QED
  BY <1>2, <1>3, <1>4, FlowMovesInv

\* The command line starts one of its own, with --yes for what is not measured.
LEMMA CliStartsInv ==
  ASSUME TradeInv, NEW f \in Flow, CliStarts(f)
  PROVE  TradeInv'
<1>1. PICK p \in Panel, x \in Form :
        flows' = [flows EXCEPT ![f] =
          [NoFlow EXCEPT !.pc = "allowance", !.cli = TRUE,
             !.order = [panel |-> p, form |-> x, measured |-> TRUE]]]
  BY DEF CliStarts
<1> DEFINE flow == [NoFlow EXCEPT !.pc = "allowance", !.cli = TRUE,
                                  !.order = [panel |-> p, form |-> x, measured |-> TRUE]]
<1>2. flow \in FlowType /\ flow.pc # "signing" /\ Cleared(flow.order)
  BY OverIsClear DEF TradeInv, FlowType, OrderType, Cleared, NoFlow
<1>3. flows' = [flows EXCEPT ![f] = flow]
      /\ UNCHANGED <<head, behind, settled, mempool, form, request, ack, ticked, plan>>
  BY <1>1 DEF CliStarts, FormVars
<1> HIDE DEF flow
<1>4. QED
  BY <1>2, <1>3, FlowMovesInv

\* The allowance is there, or is to be asked for.
LEMMA ReadAllowanceInv ==
  ASSUME TradeInv, NEW f \in Flow, ReadAllowance(f)
  PROVE  TradeInv'
<1>1. /\ \E pc \in {"permit", "approving"} : flows' = [flows EXCEPT ![f].pc = pc]
      /\ UNCHANGED <<head, behind, settled, mempool, form, request, ack, ticked, plan>>
  BY DEF ReadAllowance, Moves, FormVars
<1>2. PICK pc \in {"permit", "approving"} : flows' = [flows EXCEPT ![f] = [flows[f] EXCEPT !.pc = pc]]
  BY <1>1
<1>3. [flows[f] EXCEPT !.pc = pc] \in FlowType /\ Cleared([flows[f] EXCEPT !.pc = pc].order)
  BY DEF TradeInv, Shape, FlowType, TicksTravel, Cleared
<1>4. [flows[f] EXCEPT !.pc = pc].pc # "signing"
  BY DEF TradeInv, Shape, FlowType
<1>5. QED
  BY <1>1, <1>2, <1>3, <1>4, FlowMovesInv

\* The receipt is read: on to the balance, or over.
LEMMA ReceiptReadInv ==
  ASSUME TradeInv, NEW f \in Flow, ReceiptRead(f)
  PROVE  TradeInv'
<1>1. /\ UNCHANGED <<head, behind, settled, mempool, form, request, ack, ticked, plan>>
      /\ \/ flows' = [flows EXCEPT ![f] = [flows[f] EXCEPT !.pc = "confirming"]]
         \/ flows' = [flows EXCEPT ![f] = Over]
  BY DEF ReceiptRead, Moves, FormVars
<1>2. LET flow == [flows[f] EXCEPT !.pc = "confirming"]
      IN  flow \in FlowType /\ flow.pc # "signing" /\ Cleared(flow.order)
  BY DEF TradeInv, Shape, FlowType, TicksTravel, Cleared
<1>3. QED
  BY <1>1, <1>2, OverIsClear, FlowMovesInv DEF TradeInv

\* The run is over, and its panel, if it has one, has no plan.
LEMMA ConfirmInv ==
  ASSUME TradeInv, NEW f \in Flow, Confirm(f)
  PROVE  TradeInv'
<1>1. /\ UNCHANGED <<head, behind, settled, mempool, form, request, ack, ticked>>
      /\ flows' = [flows EXCEPT ![f] = Over]
      /\ plan' = plan \/ plan' = [plan EXCEPT ![flows[f].order.panel] = NoPlan]
  BY DEF Confirm, FormVars
<1>2. flows[f].order.panel \in Panel
  BY DEF TradeInv, Shape, FlowType, OrderType
<1>3. QED
  BY <1>1, <1>2, OverIsClear, FlowMovesInv DEF TradeInv

\* An error ends the run; what it sent stays sent.
LEMMA ThrowsInv ==
  ASSUME TradeInv, NEW f \in Flow, Throws(f)
  PROVE  TradeInv'
<1>1. /\ UNCHANGED <<head, behind, settled, form, request, ack, ticked, plan>>
      /\ flows' = [flows EXCEPT ![f] = Over]
      /\ mempool' = {[t EXCEPT !.flow = IF @ = f THEN "nobody" ELSE @] : t \in mempool}
  BY DEF Throws, FormVars
<1>2. \A u \in mempool' : u \in Sent /\ \E t \in mempool :
        u.nonce = t.nonce /\ u.after = t.after /\ u.order = t.order
  <2>1. ASSUME NEW t \in mempool
        PROVE  LET u == [t EXCEPT !.flow = IF @ = f THEN "nobody" ELSE @]
               IN  u \in Sent /\ u.nonce = t.nonce /\ u.after = t.after /\ u.order = t.order
    BY DEF TradeInv, Shape, Sent
  <2>2. QED
    BY <1>1, <2>1
<1>3. Over \in FlowType /\ Over.pc # "signing" /\ Cleared(Over.order)
  BY OverIsClear DEF TradeInv
<1>4. flows' \in [Flow -> FlowType] /\ \A g \in Flow : flows'[g] \in {flows[g], Over}
  BY <1>1, <1>3 DEF TradeInv, Shape
<1>5. Shape'
  BY <1>1, <1>2, <1>4 DEF TradeInv, Shape
<1>6. PermitsAreDue' /\ NoOverlappingFills' /\ UnmeasuredSalesWereAcknowledged'
  BY <1>1, <1>2, <1>3, <1>4
  DEF TradeInv, PermitsAreDue, Due, NoOverlappingFills, UnmeasuredSalesWereAcknowledged
<1>7. TicksTravel'
  BY <1>1, <1>2, <1>3, <1>4 DEF TradeInv, TicksTravel, Cleared
<1>8. QED
  BY <1>5, <1>6, <1>7 DEF TradeInv

\* The wallet sends what it was asked to sign, under the permit it signed.
LEMMA SendFillInv ==
  ASSUME TradeInv, NEW f \in Flow, SendFill(f)
  PROVE  TradeInv'
<1> DEFINE broadcast == [flow |-> f, nonce |-> flows[f].nonce, after |-> flows[f].after,
                    order |-> flows[f].order]
<1>1. /\ UNCHANGED <<head, behind, settled, form, request, ack, ticked, plan>>
      /\ flows[f].pc = "signing" /\ flows' = [flows EXCEPT ![f].pc = "mining"]
      /\ mempool' = mempool \cup {broadcast}
  BY DEF SendFill, Moves, FormVars
<1>2. broadcast \in Sent /\ Due(broadcast.nonce, broadcast.after) /\ Cleared(broadcast.order)
  BY <1>1 DEF TradeInv, Shape, FlowType, Sent, PermitsAreDue, TicksTravel
<1>3. /\ flows' \in [Flow -> FlowType]
      /\ \A g \in Flow : flows'[g].order = flows[g].order
      /\ \A g \in Flow : flows'[g].pc = "signing" => flows'[g] = flows[g]
  BY <1>1 DEF TradeInv, Shape, FlowType
<1> HIDE DEF broadcast
<1>4. Shape'
  BY <1>1, <1>2, <1>3 DEF TradeInv, Shape
<1>5. PermitsAreDue' /\ NoOverlappingFills' /\ UnmeasuredSalesWereAcknowledged'
  BY <1>1, <1>2, <1>3
  DEF TradeInv, PermitsAreDue, Due, NoOverlappingFills, UnmeasuredSalesWereAcknowledged
<1>6. TicksTravel'
  BY <1>1, <1>2, <1>3 DEF TradeInv, TicksTravel, Cleared
<1>7. QED
  BY <1>4, <1>5, <1>6 DEF TradeInv

\* A permit is built for the first nonce that some node says is free: every smaller one is
\* spent, there and on the chain.
LEMMA BuildPermitInv ==
  ASSUME TradeInv, NEW f \in Flow, BuildPermit(f)
  PROVE  TradeInv'
<1>1. /\ UNCHANGED <<head, behind, settled, mempool, form, request, ack, ticked, plan>>
      /\ \E s \in Served : \E n \in UnusedNonce(s.spent) :
           flows' = [flows EXCEPT ![f].pc = "signing", ![f].nonce = n, ![f].after = Len(settled)]
  BY DEF BuildPermit, FormVars
<1>2. PICK s \in Served : \E n \in UnusedNonce(s.spent) :
        flows' = [flows EXCEPT ![f].pc = "signing", ![f].nonce = n, ![f].after = Len(settled)]
  BY <1>1
<1>3. PICK n \in UnusedNonce(s.spent) :
        flows' = [flows EXCEPT ![f].pc = "signing", ![f].nonce = n, ![f].after = Len(settled)]
  BY <1>2
<1>4. n \in Nonce /\ \A i \in Nonce : i < n => i \in head.spent
  BY <1>3 DEF TradeInv, Shape, Served, UnusedNonce
<1>5. Due(n, Len(settled)) /\ Len(settled) \in Nat
  BY <1>4 DEF Due, TradeInv, Shape
<1>6. /\ flows' \in [Flow -> FlowType]
      /\ \A g \in Flow : flows'[g].order = flows[g].order
      /\ \A g \in Flow \ {f} : flows'[g] = flows[g]
      /\ flows'[f].nonce = n /\ flows'[f].after = Len(settled)
  BY <1>3, <1>4, <1>5 DEF TradeInv, Shape, FlowType
<1>7. Shape'
  BY <1>1, <1>6 DEF TradeInv, Shape
<1>8. PermitsAreDue' /\ NoOverlappingFills' /\ UnmeasuredSalesWereAcknowledged'
  BY <1>1, <1>5, <1>6
  DEF TradeInv, PermitsAreDue, Due, NoOverlappingFills, UnmeasuredSalesWereAcknowledged
<1>9. TicksTravel'
  BY <1>1, <1>6 DEF TradeInv, TicksTravel, Cleared
<1>10. QED
  BY <1>7, <1>8, <1>9 DEF TradeInv

---------------------------------------------------------------------------
(* The chain.                                                              *)

\* Permits stay due while nothing settles, whatever else is spent.
LEMMA DueStays ==
  ASSUME NEW nonce \in Nonce, NEW after, Due(nonce, after),
         head.spent \subseteq head'.spent, settled' = settled
  PROVE  Due(nonce, after)'
BY DEF Due

\* Permit2 is approved; what is spent is what was spent.
LEMMA ApproveInv ==
  ASSUME TradeInv, NEW f \in Flow, Approve(f)
  PROVE  TradeInv'
<1>1. /\ UNCHANGED <<behind, settled, mempool, form, request, ack, ticked, plan>>
      /\ head' = [head EXCEPT !.approved = @ \cup {Token(flows[f].order)}]
      /\ flows' = [flows EXCEPT ![f].pc = "permit"]
  BY DEF Approve, Land, Moves, FormVars
<1>2. head' \in ChainState /\ head'.spent = head.spent
  BY <1>1 DEF TradeInv, Shape, ChainState, Token
<1>3. /\ flows' \in [Flow -> FlowType]
      /\ \A g \in Flow : flows'[g].order = flows[g].order
      /\ \A g \in Flow : flows'[g].pc = "signing" => flows'[g] = flows[g]
  BY <1>1 DEF TradeInv, Shape, FlowType
<1>4. Shape'
  BY <1>1, <1>2, <1>3 DEF TradeInv, Shape
<1>5. PermitsAreDue' /\ NoOverlappingFills' /\ UnmeasuredSalesWereAcknowledged'
  BY <1>1, <1>2, <1>3
  DEF TradeInv, PermitsAreDue, Due, NoOverlappingFills, UnmeasuredSalesWereAcknowledged
<1>6. TicksTravel'
  BY <1>1, <1>3 DEF TradeInv, TicksTravel, Cleared
<1>7. QED
  BY <1>4, <1>5, <1>6 DEF TradeInv

\* A run that is told of its transaction keeps its order, its permit and its place.
LEMMA TellKeeps ==
  ASSUME Shape, NEW t, NEW outcome \in {"success", "reverted"}, Tell(t, outcome)
  PROVE  /\ flows' \in [Flow -> FlowType]
         /\ \A g \in Flow : /\ flows'[g].order = flows[g].order /\ flows'[g].pc = flows[g].pc
                            /\ flows'[g].nonce = flows[g].nonce /\ flows'[g].after = flows[g].after
<1>1. CASE t.flow \in Flow
  <2>1. flows' = [flows EXCEPT ![t.flow] = [flows[t.flow] EXCEPT !.outcome = outcome]]
    BY <1>1 DEF Tell
  <2>2. \A g \in Flow : flows[g] \in FlowType
    BY DEF Shape
  <2>3. \A g \in Flow : [flows[g] EXCEPT !.outcome = outcome] \in FlowType
    BY <2>2 DEF FlowType
  <2>4. flows' \in [Flow -> FlowType]
    BY <1>1, <2>1, <2>3 DEF Shape
  <2>5. QED
    BY <1>1, <2>1, <2>2, <2>4 DEF Shape, FlowType
<1>2. CASE t.flow \notin Flow
  BY <1>2 DEF Tell, Shape
<1>3. QED
  BY <1>1, <1>2

\* A fill settles under the only nonce that could: all the other permits were for the same
\* one, and are spent with it.
LEMMA SettleInv ==
  ASSUME TradeInv, NEW t \in mempool, Settle(t), mempool' = mempool \ {t},
         UNCHANGED <<behind, form, request, ack, ticked, plan>>
  PROVE  TradeInv'
<1>1. /\ t.nonce \notin head.spent
      /\ head' = [head EXCEPT !.spent = @ \cup {t.nonce}]
      /\ settled' = Append(settled, t)
  BY DEF Settle, Land
<1>2. t \in Sent /\ settled \in Seq(Sent) /\ head \in ChainState /\ Nonce \subseteq Int
  BY BoundsAssumption DEF TradeInv, Shape, Nonce
<1>3. head' \in ChainState /\ head'.spent = head.spent \cup {t.nonce}
  BY <1>1, <1>2 DEF ChainState, Sent
<1>4. t.after = Len(settled) /\ \A i \in Nonce : i < t.nonce => i \in head.spent
  BY <1>1 DEF TradeInv, PermitsAreDue, Due
<1>5. /\ settled' \in Seq(Sent) /\ Len(settled') = Len(settled) + 1
      /\ settled'[Len(settled) + 1] = t
      /\ \A j \in DOMAIN settled : settled'[j] = settled[j]
      /\ DOMAIN settled' = DOMAIN settled \cup {Len(settled) + 1}
      /\ Len(settled) \in Nat
  BY <1>1, <1>2
<1>6. /\ flows' \in [Flow -> FlowType]
      /\ \A g \in Flow : /\ flows'[g].order = flows[g].order /\ flows'[g].pc = flows[g].pc
                         /\ flows'[g].nonce = flows[g].nonce /\ flows'[g].after = flows[g].after
  BY TellKeeps DEF Settle, TradeInv
<1>7. ASSUME NEW nonce \in Nonce, NEW after, Due(nonce, after)
      PROVE  nonce \in head'.spent
  <2>1. CASE nonce \in head.spent
    BY <2>1, <1>3
  <2>2. CASE nonce \notin head.spent
    <3>1. \A i \in Nonce : i < nonce => i \in head.spent
      BY <1>7, <2>2 DEF Due
    <3>2. t.nonce \in Nonce
      BY <1>2 DEF Sent
    <3>3. ~(t.nonce < nonce) /\ ~(nonce < t.nonce)
      BY <3>1, <3>2, <1>1, <1>4, <2>2
    <3>4. nonce \in Int /\ t.nonce \in Int
      BY <3>2, <1>2
    <3>5. nonce = t.nonce
      BY <3>3, <3>4
    <3>6. QED
      BY <3>5, <1>3
  <2>3. QED
    BY <2>1, <2>2
<1>8. Shape'
  BY <1>3, <1>5, <1>6 DEF TradeInv, Shape
<1>9. PermitsAreDue'
  BY <1>6, <1>7 DEF TradeInv, Shape, FlowType, Sent, PermitsAreDue, Due
<1>10. NoOverlappingFills'
  BY <1>4, <1>5 DEF TradeInv, NoOverlappingFills
<1>11. TicksTravel' /\ UnmeasuredSalesWereAcknowledged'
  BY <1>5, <1>6 DEF TradeInv, TicksTravel, Cleared, UnmeasuredSalesWereAcknowledged
<1>12. QED
  BY <1>8, <1>9, <1>10, <1>11 DEF TradeInv

\* A transaction is mined, and settles or reverts.
LEMMA MineFillInv ==
  ASSUME TradeInv, MineFill
  PROVE  TradeInv'
<1>1. PICK t \in mempool : mempool' = mempool \ {t} /\ (Settle(t) \/ Revert(t))
  BY DEF MineFill
<1>2. UNCHANGED <<form, request, ack, ticked, plan>>
  BY DEF MineFill, FormVars
<1>3. CASE Settle(t)
  <2>1. behind' = behind
    BY <1>3 DEF Settle, Land
  <2>2. QED
    BY <1>1, <1>2, <1>3, <2>1, SettleInv
<1>4. CASE Revert(t)
  <2>1. UNCHANGED <<head, behind, settled>>
    BY <1>4 DEF Revert
  <2>2. /\ flows' \in [Flow -> FlowType]
        /\ \A g \in Flow : /\ flows'[g].order = flows[g].order /\ flows'[g].pc = flows[g].pc
                           /\ flows'[g].nonce = flows[g].nonce /\ flows'[g].after = flows[g].after
    BY <1>4, TellKeeps DEF Revert, TradeInv
  <2>3. Shape'
    BY <1>1, <1>2, <2>1, <2>2 DEF TradeInv, Shape
  <2>4. PermitsAreDue' /\ NoOverlappingFills' /\ UnmeasuredSalesWereAcknowledged'
    BY <1>1, <1>2, <2>1, <2>2
    DEF TradeInv, PermitsAreDue, Due, NoOverlappingFills, UnmeasuredSalesWereAcknowledged
  <2>5. TicksTravel'
    BY <1>1, <1>2, <2>2 DEF TradeInv, TicksTravel, Cleared
  <2>6. QED
    BY <2>3, <2>4, <2>5 DEF TradeInv
<1>5. QED
  BY <1>1, <1>3, <1>4

\* Some other use of the owner's nonces, or a node that catches up, settles nothing.
LEMMA ElsewhereInv ==
  ASSUME TradeInv, SpendElsewhere \/ NodeCatchesUp
  PROVE  TradeInv'
<1>1. /\ head' \in ChainState /\ behind' \in ChainState
      /\ head.spent \subseteq head'.spent /\ behind'.spent \subseteq head'.spent
  BY DEF SpendElsewhere, NodeCatchesUp, Land, Sync, TradeInv, Shape, ChainState
<1>2. UNCHANGED <<settled, mempool, flows, plan, form, request, ack, ticked>>
  BY DEF SpendElsewhere, NodeCatchesUp, FormVars
<1>3. Shape'
  BY <1>1, <1>2 DEF TradeInv, Shape
<1>4. PermitsAreDue' /\ NoOverlappingFills' /\ UnmeasuredSalesWereAcknowledged'
  BY <1>1, <1>2 DEF TradeInv, PermitsAreDue, Due, NoOverlappingFills, UnmeasuredSalesWereAcknowledged
<1>5. TicksTravel'
  BY <1>2 DEF TradeInv, TicksTravel, Cleared
<1>6. QED
  BY <1>3, <1>4, <1>5 DEF TradeInv

---------------------------------------------------------------------------
\* Every step keeps the invariant.
LEMMA NextInv == ASSUME TradeInv, TradeNext PROVE TradeInv'
<1>1. ASSUME NEW p \in Panel, Types(p) \/ Answered(p) PROVE TradeInv'
  BY <1>1, TypesInv, AnsweredInv
<1>2. CASE BuyQuote
  <2>1. Asks("buy", FALSE) /\ ack' = ack /\ ticked' = ticked /\ form' = form
    BY <1>2 DEF BuyQuote, Asks
  <2>2. ack' \in BOOLEAN /\ (ack' => form["sell"] \in ticked')
    BY <2>1 DEF TradeInv, Shape, TicksTravel
  <2>3. "buy" \in Panel /\ FALSE \in BOOLEAN /\ ticked' \in {ticked, ticked \cup {form["buy"]}}
    BY <2>1 DEF Panel
  <2>4. QED
    BY <2>1, <2>2, <2>3, AsksInv
<1>3. CASE SellQuote
  <2>1. Asks("sell", ack) /\ ack' = ack /\ ticked' = ticked
    BY <1>3 DEF SellQuote
  <2>2. ack \in BOOLEAN
    BY DEF TradeInv, Shape
  <2>3. QED
    BY <2>1, <2>2, AsksInv DEF TradeInv, TicksTravel, Panel
<1>4. CASE Tick
  <2>1. Asks("sell", TRUE) /\ ack' = TRUE /\ ticked' = ticked \cup {form["sell"]}
    BY <1>4 DEF Tick
  <2>2. QED
    BY <2>1, AsksInv DEF TradeInv, TicksTravel, Panel
<1>5. CASE Untick
  <2>1. /\ ack' \in BOOLEAN /\ ~ack'
        /\ UNCHANGED <<head, behind, settled, mempool, form, plan, request, ticked, flows>>
    BY <1>5 DEF Untick
  <2>2. Shape' /\ TicksTravel'
    BY <2>1 DEF TradeInv, Shape, TicksTravel, Cleared
  <2>3. PermitsAreDue' /\ NoOverlappingFills' /\ UnmeasuredSalesWereAcknowledged'
    BY <2>1 DEF TradeInv, PermitsAreDue, Due, NoOverlappingFills, UnmeasuredSalesWereAcknowledged
  <2>4. QED
    BY <2>2, <2>3 DEF TradeInv
<1>6. ASSUME NEW f \in Flow, BuyStarts(f) \/ SellStarts(f) \/ CliStarts(f) PROVE TradeInv'
  BY <1>6, StartsInv, CliStartsInv DEF BuyStarts, SellStarts, Panel
<1>7. ASSUME NEW f \in Flow, FlowSteps(f) PROVE TradeInv'
  BY <1>7, ReadAllowanceInv, ApproveInv, BuildPermitInv, SendFillInv, ReceiptReadInv, ConfirmInv,
     ThrowsInv DEF FlowSteps
<1>8. CASE MineFill \/ SpendElsewhere \/ NodeCatchesUp
  BY <1>8, MineFillInv, ElsewhereInv
<1>9. QED
  BY <1>1, <1>2, <1>3, <1>4, <1>5, <1>6, <1>7, <1>8 DEF TradeNext

\* In every reachable state, what is signed and can still settle carries the next nonce, and
\* what is quoted, signed, sent or settled unmeasured was ticked.
THEOREM Cautious == TradeSpec => []TradeInv
<1>1. TradeInit => TradeInv
  BY InitInv
<1>2. TradeInv /\ [TradeNext]_tradeVars => TradeInv'
  <2>1. ASSUME TradeInv, UNCHANGED tradeVars PROVE TradeInv'
    BY <2>1 DEF tradeVars, TradeInv, Shape, PermitsAreDue, Due, NoOverlappingFills, TicksTravel,
                Cleared, UnmeasuredSalesWereAcknowledged
  <2>2. QED
    BY <2>1, NextInv
<1>3. QED
  BY <1>1, <1>2, PTL DEF TradeSpec

\* However often Sign is pressed, in however many runs, between the permit of a fill that
\* settles and its settlement no other fill settled (permit.ts 93-117, Permit2's nonces).
THEOREM NoOverlappingFillsHolds == TradeSpec => []NoOverlappingFills
<1>1. TradeInv => NoOverlappingFills
  BY DEF TradeInv
<1>2. QED
  BY <1>1, Cautious, PTL

\* A sale nobody could measure settles only for a form whose box was ticked (Exit.tsx).
THEOREM UnmeasuredSalesWereAcknowledgedHolds == TradeSpec => []UnmeasuredSalesWereAcknowledged
<1>1. TradeInv => UnmeasuredSalesWereAcknowledged
  BY DEF TradeInv
<1>2. QED
  BY <1>1, Cautious, PTL

---------------------------------------------------------------------------
(* Theses.                                                                *)

Thesis == [hash : Hash, author : {"page", "command", "somebody"}]

\* A hash is on the registry once, and what a node serves was there first.
OnceEach ==
  /\ registry \in Seq(Thesis) /\ behindRegistry \in Seq(Thesis)
  /\ \A i, j \in DOMAIN registry : registry[i].hash = registry[j].hash => i = j
  /\ Len(behindRegistry) <= Len(registry)
  /\ \A i \in DOMAIN behindRegistry : behindRegistry[i] = registry[i]

\* The entry of an id is of that hash.
Is(id, h) == id \in Nat /\ id + 1 \in DOMAIN registry /\ registry[id + 1].hash = h

\* What was found on the registry, shown or not yet, is there.
FoundThere ==
  /\ \A c \in checks : c.found => Is(c.id, panel.hash)
  /\ panel.phase = "taken" => Is(panel.id, panel.hash) /\ panel.author = registry[panel.id + 1].author
  /\ command.pc = "over" => Is(command.id, command.hash)

\* The records' fields.
DeskShape ==
  /\ panel = [hash |-> panel.hash, phase |-> panel.phase, id |-> panel.id, author |-> panel.author]
  /\ command = [pc |-> command.pc, hash |-> command.hash, id |-> command.id]
  /\ command.hash \in Hash \cup {"none"} /\ (command.pc = "sending" => command.hash \in Hash)

ThesisInv == OnceEach /\ FoundThere /\ DeskShape

---------------------------------------------------------------------------
\* A node that serves a hash serves its id on the registry.
LEMMA ServedIds ==
  ASSUME OnceEach, NEW s \in Registry!Served, NEW h, h \in Published(s)
  PROVE  IdOf(s, h).exists /\ Is(IdOf(s, h).id, h)
<1>1. /\ s \in Seq(Thesis) /\ Len(s) <= Len(registry) /\ \A i \in DOMAIN s : s[i] = registry[i]
      /\ registry \in Seq(Thesis)
  BY DEF OnceEach, Registry!Served
<1>2. PICK i \in DOMAIN s : s[i].hash = h
  BY DEF Published
<1>3. i \in 1 .. Len(s) /\ i \in 1 .. Len(registry) /\ registry[i].hash = h
  BY <1>1, <1>2
<1>4. Entries(s, h) = {i}
  BY <1>1, <1>2, <1>3 DEF Entries, OnceEach
<1>5. Max({i}) = i
  BY <1>3 DEF Max
<1>6. IdOf(s, h) = [id |-> i - 1, exists |-> TRUE]
  BY <1>4, <1>5 DEF IdOf
<1>7. QED
  BY <1>1, <1>3, <1>6 DEF Is

\* An entry is found by its hash.
LEMMA NamedByItsHash ==
  ASSUME OnceEach, NEW id, NEW h, Is(id, h)
  PROVE  Names(id, h)
<1>1. id \in Nat /\ registry \in Seq(Thesis) /\ id + 1 \in 1 .. Len(registry) /\ registry[id + 1].hash = h
  BY DEF Is, OnceEach
<1>2. h \in Published(registry)
  BY <1>1 DEF Published
<1>3. Entries(registry, h) = {id + 1}
  BY <1>1 DEF Entries, OnceEach
<1>4. Max({id + 1}) = id + 1
  BY <1>1 DEF Max
<1>5. IdOf(registry, h) = [id |-> Max(Entries(registry, h)) - 1, exists |-> TRUE]
  BY <1>2 DEF IdOf
<1>6. Max(Entries(registry, h)) - 1 = id
  BY <1>1, <1>3, <1>4
<1>7. QED
  BY <1>5, <1>6 DEF Names

\* What the registry accepts comes after what is there, which stays.
LEMMA PublishKeeps ==
  ASSUME OnceEach, NEW h \in Hash, NEW author \in {"page", "command", "somebody"},
         Accepts(h), Publish(h, author)
  PROVE  /\ OnceEach'
         /\ \A i \in DOMAIN registry : i \in DOMAIN registry' /\ registry'[i] = registry[i]
<1>1. /\ registry' = Append(registry, [hash |-> h, author |-> author])
      /\ behindRegistry' = behindRegistry
  BY DEF Publish, Registry!Land
<1>2. /\ [hash |-> h, author |-> author] \in Thesis
      /\ registry \in Seq(Thesis) /\ behindRegistry \in Seq(Thesis)
  BY DEF Thesis, OnceEach
<1>3. /\ registry' \in Seq(Thesis) /\ Len(registry') = Len(registry) + 1
      /\ \A i \in 1 .. Len(registry) : registry'[i] = registry[i]
      /\ registry'[Len(registry) + 1] = [hash |-> h, author |-> author]
  BY <1>1, <1>2, AppendProperties
<1>4. \A i \in 1 .. Len(registry) : registry[i].hash # h
  BY <1>2 DEF Accepts, Published
<1>5. /\ DOMAIN registry = 1 .. Len(registry) /\ DOMAIN registry' = 1 .. Len(registry) + 1
      /\ DOMAIN behindRegistry = 1 .. Len(behindRegistry) /\ Len(registry) \in Nat
  BY <1>2, <1>3
<1>6. ASSUME NEW i \in DOMAIN registry', NEW j \in DOMAIN registry', registry'[i].hash = registry'[j].hash
      PROVE  i = j
  <2>1. CASE i \in 1 .. Len(registry) /\ j \in 1 .. Len(registry)
    BY <2>1, <1>3, <1>5, <1>6 DEF OnceEach
  <2>2. CASE i = Len(registry) + 1 /\ j \in 1 .. Len(registry)
    BY <2>2, <1>3, <1>4, <1>6
  <2>3. CASE j = Len(registry) + 1 /\ i \in 1 .. Len(registry)
    BY <2>3, <1>3, <1>4, <1>6
  <2>4. QED
    BY <2>1, <2>2, <2>3, <1>5
<1>7. \A i \in DOMAIN behindRegistry' : behindRegistry'[i] = registry'[i]
  BY <1>1, <1>3, <1>5 DEF OnceEach
<1>8. Len(behindRegistry') <= Len(registry')
  BY <1>1, <1>3, <1>5 DEF OnceEach
<1>9. QED
  BY <1>1, <1>2, <1>3, <1>5, <1>6, <1>7, <1>8 DEF OnceEach

\* Where nothing was published, what was found stays found.
LEMMA PublishedInv ==
  ASSUME ThesisInv, NEW h \in Hash, NEW author \in {"page", "command", "somebody"},
         Accepts(h), Publish(h, author), UNCHANGED <<panel, checks>>, command'.hash = command.hash,
         command' = command \/ (command'.pc # "over" /\ DeskShape')
  PROVE  ThesisInv'
<1>1. OnceEach' /\ \A i \in DOMAIN registry : i \in DOMAIN registry' /\ registry'[i] = registry[i]
  BY PublishKeeps DEF ThesisInv
<1>2. FoundThere'
  BY <1>1 DEF ThesisInv, FoundThere, Is
<1>3. DeskShape'
  BY DEF ThesisInv, DeskShape
<1>4. QED
  BY <1>1, <1>2, <1>3 DEF ThesisInv

\* The page: a check that finds the hash finds its entry, whatever the panel shows next.
LEMMA PageInv ==
  ASSUME ThesisInv,
         \/ Compiles \/ ChecksAgain \/ PressPublish
         \/ \E c \in checks : CheckReads(c) \/ CheckShows(c) \/ CheckFails(c)
         \/ \E h \in Hash : Signed(h) \/ PublishDone(h) \/ PublishFails(h)
  PROVE  ThesisInv'
<1> USE DEF ThesisInv, Elsewhere
<1>0. UNCHANGED <<registry, behindRegistry, command>>
  BY DEF Compiles, ChecksAgain, PressPublish, CheckReads, CheckShows, CheckFails, Signed, PublishDone, PublishFails
<1>1. OnceEach' /\ (\A id, h : Is(id, h)' <=> Is(id, h))
  BY <1>0 DEF OnceEach, Is
<1>2. ASSUME NEW phase, NEW id, NEW author, Displays(phase, id, author),
             phase # "taken" \/ (Is(id, panel.hash) /\ author = registry[id + 1].author),
             \A c \in checks' : c.found => c \in checks \/ Is(c.id, panel.hash)
      PROVE  ThesisInv'
  <2>1. /\ panel'.hash = panel.hash /\ panel'.phase = phase /\ panel'.id = id /\ panel'.author = author
        /\ panel' = [hash |-> panel'.hash, phase |-> panel'.phase, id |-> panel'.id, author |-> panel'.author]
    BY <1>2 DEF Displays, DeskShape
  <2>2. QED
    BY <1>0, <1>1, <1>2, <2>1 DEF FoundThere, Is, DeskShape
<1>3. CASE Compiles
  <2>1. /\ \E h \in Hash : panel' = [hash |-> h, phase |-> "checking", id |-> 0, author |-> "none"]
        /\ checks' = {NewCheck} /\ ~NewCheck.found
    BY <1>3 DEF Compiles, NewCheck
  <2>2. QED
    BY <1>0, <1>1, <2>1 DEF FoundThere, Is, DeskShape
<1>4. CASE ChecksAgain
  BY <1>4, <1>2 DEF ChecksAgain, Blank, NewCheck
<1>5. CASE PressPublish
  BY <1>5, <1>2 DEF PressPublish, Blank
<1>6. ASSUME NEW c \in checks, CheckReads(c) PROVE ThesisInv'
  <2>1. PICK s \in Registry!Served :
          IF IdOf(s, panel.hash).exists
          THEN checks' = (checks \ {c}) \cup {[id |-> IdOf(s, panel.hash).id, found |-> TRUE]} /\ UNCHANGED panel
          ELSE checks' = checks \ {c} /\ Blank("idle")
    BY <1>6 DEF CheckReads
  <2>2. CASE IdOf(s, panel.hash).exists
    <3>1. panel.hash \in Published(s)
      BY <2>2 DEF IdOf
    <3>2. Is(IdOf(s, panel.hash).id, panel.hash)
      BY <3>1, ServedIds
    <3>3. QED
      BY <1>0, <1>1, <2>1, <2>2, <3>2 DEF FoundThere, Is, DeskShape
  <2>3. CASE ~IdOf(s, panel.hash).exists
    BY <2>1, <2>3, <1>2 DEF Blank
  <2>4. QED
    BY <2>2, <2>3
<1>7. ASSUME NEW c \in checks, CheckShows(c) PROVE ThesisInv'
  <2>1. PICK s \in Registry!Served :
          c.id + 1 \in DOMAIN s /\ Displays("taken", c.id, s[c.id + 1].author)
    BY <1>7 DEF CheckShows
  <2>2. s[c.id + 1] = registry[c.id + 1]
    BY <2>1 DEF Registry!Served, OnceEach
  <2>3. Is(c.id, panel.hash) /\ checks' = checks \ {c}
    BY <1>7 DEF CheckShows, FoundThere
  <2>4. QED
    BY <2>1, <2>2, <2>3, <1>2
<1>8. ASSUME NEW c \in checks, CheckFails(c) PROVE ThesisInv'
  BY <1>8, <1>2 DEF CheckFails, Blank
<1>9. ASSUME NEW h \in Hash, Signed(h) PROVE ThesisInv'
  <2>1. CASE Blank("mining")
    BY <2>1, <1>9, <1>2 DEF Signed, Blank
  <2>2. CASE UNCHANGED panel
    BY <2>2, <1>0, <1>1, <1>9 DEF Signed, FoundThere, Is, DeskShape
  <2>3. QED
    BY <2>1, <2>2, <1>9 DEF Signed
<1>10. ASSUME NEW h \in Hash, PublishDone(h) PROVE ThesisInv'
  BY <1>10, <1>2 DEF PublishDone
<1>11. ASSUME NEW h \in Hash, PublishFails(h) PROVE ThesisInv'
  BY <1>11, <1>2 DEF PublishFails, Blank
<1>12. QED
  BY <1>3, <1>4, <1>5, <1>6, <1>7, <1>8, <1>9, <1>10, <1>11

\* The command line: it reports what a node serves of its own hash.
LEMMA CommandInv == ASSUME ThesisInv, CommandChecks \/ CommandSends \/ CommandReports PROVE ThesisInv'
<1> USE DEF ThesisInv
<1>1. CASE CommandChecks
  <2>1. PICK h \in Hash, s \in Registry!Served :
          command' = IF IdOf(s, h).exists
                     THEN [pc |-> "over", hash |-> h, id |-> IdOf(s, h).id]
                     ELSE [pc |-> "sending", hash |-> h, id |-> 0]
    BY <1>1 DEF CommandChecks
  <2>2. UNCHANGED <<registry, behindRegistry, panel, checks>>
    BY <1>1 DEF CommandChecks, PanelState
  <2>3. IdOf(s, h).exists => Is(IdOf(s, h).id, h)
    BY ServedIds DEF IdOf
  <2>4. QED
    BY <2>1, <2>2, <2>3 DEF OnceEach, FoundThere, Is, DeskShape
<1>2. CASE CommandSends
  <2>1. /\ command'.hash = command.hash /\ command'.pc = "waiting" /\ command.hash \in Hash
        /\ command' = [pc |-> command'.pc, hash |-> command'.hash, id |-> command'.id]
        /\ UNCHANGED <<panel, checks>>
    BY <1>2 DEF CommandSends, DeskShape, PanelState
  <2>2. DeskShape'
    BY <2>1 DEF DeskShape
  <2>3. CASE Accepts(command.hash) /\ Publish(command.hash, "command")
    BY <2>1, <2>2, <2>3, PublishedInv
  <2>4. CASE UNCHANGED <<registry, behindRegistry>>
    BY <2>1, <2>2, <2>4 DEF OnceEach, FoundThere, Is
  <2>5. QED
    BY <1>2, <2>3, <2>4 DEF CommandSends
<1>3. CASE CommandReports
  <2>1. UNCHANGED <<registry, behindRegistry, panel, checks>>
    BY <1>3 DEF CommandReports, PanelState
  <2>2. ASSUME NEW s \in Registry!Served, Found(s),
               command' = [command EXCEPT !.pc = "over", !.id = IdOf(s, command.hash).id]
        PROVE  ThesisInv'
    <3>1. Is(IdOf(s, command.hash).id, command.hash)
      BY <2>2, ServedIds DEF Found, IdOf
    <3>2. command' = [pc |-> "over", hash |-> command.hash, id |-> IdOf(s, command.hash).id]
      BY <2>2 DEF DeskShape
    <3>3. QED
      BY <2>1, <3>1, <3>2 DEF OnceEach, FoundThere, Is, DeskShape
  <2>3. ASSUME command' = [command EXCEPT !.pc = "gave up"] PROVE ThesisInv'
    <3>1. command' = [pc |-> "gave up", hash |-> command.hash, id |-> command.id]
      BY <2>3 DEF DeskShape
    <3>2. QED
      BY <2>1, <3>1 DEF OnceEach, FoundThere, Is, DeskShape
  <2>4. QED
    BY <1>3, <2>2, <2>3 DEF CommandReports
<1>4. QED
  BY <1>1, <1>2, <1>3

\* Every step of the page, the command and the chain keeps the invariant.
LEMMA ThesisNextInv == ASSUME ThesisInv, [ThesisNext]_thesisVars PROVE ThesisInv'
<1> USE DEF ThesisInv
<1>1. CASE Go \/ FollowsReceipt \/ TakesHandoff \/ UNCHANGED thesisVars
  BY <1>1 DEF Go, FollowsReceipt, TakesHandoff, thesisVars, PanelState, OnceEach, FoundThere, Is, DeskShape
<1>2. CASE NodeSyncs
  <2>1. behindRegistry' = registry /\ registry' = registry /\ UNCHANGED <<panel, checks, command>>
    BY <1>2 DEF NodeSyncs, Registry!Sync, PanelState
  <2>2. QED
    BY <2>1 DEF OnceEach, FoundThere, Is, DeskShape
<1>3. ASSUME NEW h \in Hash, MinePublish(h) \/ SomebodyPublishes(h) PROVE ThesisInv'
  <2>1. UNCHANGED <<panel, checks, command>>
    BY <1>3 DEF MinePublish, SomebodyPublishes, PanelState
  <2>2. CASE UNCHANGED <<registry, behindRegistry>>
    BY <2>1, <2>2 DEF OnceEach, FoundThere, Is, DeskShape
  <2>3. CASE Accepts(h) /\ \E author \in {"page", "somebody"} : Publish(h, author)
    BY <2>1, <2>3, PublishedInv
  <2>4. QED
    BY <1>3, <2>2, <2>3 DEF MinePublish, SomebodyPublishes
<1>4. QED
  BY <1>1, <1>2, <1>3, PageInv, CommandInv DEF ThesisNext

\* Every thesis the page or the command has found is on the registry under its id.
THEOREM FoundOnes == ThesisSpec => []ThesisInv
<1>1. ThesisInit => ThesisInv
  <2> SUFFICES ASSUME ThesisInit PROVE ThesisInv
    OBVIOUS
  <2>1. registry = <<>> /\ behindRegistry = <<>> /\ checks = {}
    BY DEF ThesisInit, Registry!ReadsInit
  <2>2. OnceEach
    BY <2>1, EmptySeq DEF OnceEach
  <2>3. QED
    BY <2>1, <2>2 DEF ThesisInit, ThesisInv, FoundThere, DeskShape, NoCommand
<1>2. ThesisInv /\ [ThesisNext]_thesisVars => ThesisInv'
  BY ThesisNextInv
<1>3. QED
  BY <1>1, <1>2, PTL DEF ThesisSpec

\* A thesis reported as taken is the registry's one of that hash, by the author shown.
THEOREM ReportedThesesAreTheFirstHolds == ThesisSpec => []ReportedThesesAreTheFirst
<1>1. ThesisInv => ReportedThesesAreTheFirst
  BY NamedByItsHash DEF ThesisInv, FoundThere, ReportedThesesAreTheFirst
<1>2. QED
  BY <1>1, FoundOnes, PTL

=============================================================================
