----------------------------- MODULE TradeDesk -----------------------------
(***************************************************************************)
(* Buying and selling from the browser (app/components/Fill.tsx, Exit.tsx) *)
(* and the command line (src/execute.ts, src/exit.ts): quote, approve      *)
(* Permit2, sign, send, wait, look at the balance.  Every one of these is  *)
(* an await, the reads go to nodes that may lag, the form stays editable,  *)
(* and a button pressed twice starts two runs of the same function.        *)
(* The chain is cut to what these functions race for: the owner's Permit2  *)
(* nonces, the approvals, and the fills that settled.                      *)
(***************************************************************************)
EXTENDS Integers, SequencesExt, NodeReads

CONSTANTS
  Form,       \* what a form may ask: asset, amount and mandate, as one value
  Flow,       \* runs of fill() and sell() that may be under way
  Approved,   \* tokens Permit2 was approved for before
  MaxAsks,    \* bound: quotes asked for
  MaxPending, \* bound: transactions in the mempool
  MaxNonce    \* bound: Permit2 nonces

ASSUME BoundsAssumption == MaxNonce \in Nat /\ MaxAsks \in Nat

VARIABLES
  settled,   \* the fills that settled, in order
  mempool,   \* transactions sent and not mined
  form,      \* per panel: what the form says
  busy,      \* per panel: its phase is one that disables the buttons
  plan,      \* per panel: the plan on screen
  request,   \* per panel: the quote that was asked for and not answered
  ack,       \* the box that acknowledges an unmeasured sale
  ticked,    \* the forms it was ticked for, a history variable
  asked,     \* how many of those there were
  flows      \* the runs of fill() and sell()

tradeVars == <<head, behind, settled, mempool, form, busy, plan, request, ack, ticked, asked, flows>>

Panel == {"buy", "sell"}
Nonce == 0..MaxNonce
NoRequest == [form |-> "none", ack |-> FALSE]
NoPlan == [panel |-> "buy", form |-> "none", allow |-> FALSE, measured |-> TRUE, ack |-> FALSE]
NoOrder == [panel |-> "buy", form |-> "none", measured |-> TRUE]
NoFlow == [pc |-> "off", order |-> NoOrder, nonce |-> 0, after |-> 0, cli |-> FALSE,
           outcome |-> "none"]
Over == [NoFlow EXCEPT !.pc = "over"]

Token(p) == IF p.panel = "buy" THEN "cash" ELSE "asset"

---------------------------------------------------------------------------
(* The forms and their quotes.                                            *)

\* Defect for the checks: the acknowledgement survives a change of the form.
FillFormKeepingAck(p, x) ==
  /\ form' = [form EXCEPT ![p] = x]
  /\ plan' = [plan EXCEPT ![p] = NoPlan]
  /\ UNCHANGED ack

\* Asset, amount or mandate change: the effects drop the plan, and on the selling side
\* the acknowledgement.  Nothing stops them while the panel is busy.
FillForm(p, x) ==
  /\ form' = [form EXCEPT ![p] = x]
  /\ plan' = [plan EXCEPT ![p] = NoPlan]
  /\ ack' = (ack /\ p # "sell")

Types(p) ==
  /\ \E x \in Form \ {form[p]} : FillForm(p, x)
  /\ UNCHANGED <<head, behind, settled, mempool, busy, request, ticked, asked, flows>>

\* check(), one request of a panel at a time: the plan goes, the panel quotes, and the request carries the form as it is.
Asks(p, acknowledged) ==
  /\ asked < MaxAsks /\ asked' = asked + 1
  /\ request[p] = NoRequest
  /\ plan' = [plan EXCEPT ![p] = NoPlan]
  /\ busy' = [busy EXCEPT ![p] = TRUE]
  /\ request' = [request EXCEPT ![p] = [form |-> form[p], ack |-> acknowledged]]
  /\ UNCHANGED <<head, behind, settled, mempool, form, flows>>

BuyQuote == ~busy["buy"] /\ plan["buy"] = NoPlan /\ Asks("buy", FALSE) /\ UNCHANGED <<ack, ticked>>

SellQuote == ~busy["sell"] /\ plan["sell"] = NoPlan /\ Asks("sell", ack) /\ UNCHANGED <<ack, ticked>>

\* The box is on the screen while a plan needs it.  Ticking quotes again at once.
Tick ==
  /\ plan["sell"] # NoPlan /\ ~plan["sell"].measured /\ ~plan["sell"].ack /\ ~ack
  /\ ack' = TRUE /\ ticked' = ticked \cup {form["sell"]}
  /\ Asks("sell", TRUE)

Untick ==
  /\ plan["sell"] # NoPlan /\ ~plan["sell"].measured /\ ~plan["sell"].ack /\ ack
  /\ ack' = FALSE
  /\ UNCHANGED <<head, behind, settled, mempool, form, busy, plan, request, ticked, asked, flows>>

\* prepareFill: it throws, or answers with a verdict, the guard's dry run.
FillAnswers == [allow : BOOLEAN, measured : {TRUE}]

\* prepareExit: an exit need not be measurable.
ExitAnswers == [allow : BOOLEAN, measured : BOOLEAN]

\* Signing is offered for what the guard allows; a sale without a measured shortfall
\* needs the acknowledgement it was quoted with.
Signable(pl) == pl.allow /\ (pl.measured \/ pl.ack)

\* The answer becomes the plan on screen, whatever the form says by now.
Answered(p) ==
  /\ request[p] # NoRequest
  /\ request' = [request EXCEPT ![p] = NoRequest]
  /\ \/ \E v \in (IF p = "buy" THEN FillAnswers ELSE ExitAnswers) :
          plan' = [plan EXCEPT ![p] =
            [panel |-> p, form |-> request[p].form, allow |-> v.allow,
             measured |-> v.measured, ack |-> request[p].ack]]
     \/ UNCHANGED plan
  /\ busy' = [busy EXCEPT ![p] = FALSE]
  /\ UNCHANGED <<head, behind, settled, mempool, form, ack, ticked, asked, flows>>

---------------------------------------------------------------------------
(* fill() and sell(), one await at a time.                                 *)

\* setPhase: every phase of a run disables the panel's buttons, idle, done and failed do
\* not.  A command has no panel.
Shows(f, working) ==
  IF flows[f].cli THEN UNCHANGED busy
  ELSE busy' = [busy EXCEPT ![flows[f].order.panel] = working]

FormVars == <<form, request, ack, ticked, asked>>

\* What is carried out of a plan.
Ordered(pl) == [panel |-> pl.panel, form |-> pl.form, measured |-> pl.measured]

\* Sign is pressed.  The panel is not busy until the allowance was read, so it can be
\* pressed again.
Starts(p, f) ==
  /\ flows[f] = NoFlow
  /\ ~busy[p] /\ plan[p] # NoPlan /\ Signable(plan[p])
  /\ flows' = [flows EXCEPT ![f] = [NoFlow EXCEPT !.pc = "allowance", !.order = Ordered(plan[p])]]
  /\ UNCHANGED <<head, behind, settled, mempool, busy, plan, FormVars>>

BuyStarts(f) == Starts("buy", f)
SellStarts(f) == Starts("sell", f)

\* pnpm execute and pnpm exit: quoted, judged and carried out in one process.
CliStarts(f) ==
  /\ flows[f] = NoFlow
  /\ \E p \in Panel, x \in Form :
       flows' = [flows EXCEPT ![f] =
         [NoFlow EXCEPT !.pc = "allowance", !.cli = TRUE,
            !.order = [panel |-> p, form |-> x, measured |-> TRUE]]]
  /\ UNCHANGED <<head, behind, settled, mempool, busy, plan, FormVars>>

Moves(f, pc) == flows' = [flows EXCEPT ![f].pc = pc]

ReadAllowance(f) ==
  /\ flows[f].pc = "allowance"
  /\ \E s \in Served :
       IF Token(flows[f].order) \in s.approved
       THEN Moves(f, "permit") /\ Shows(f, TRUE)
       ELSE Moves(f, "approving") /\ Shows(f, TRUE)
  /\ UNCHANGED <<head, behind, settled, mempool, plan, FormVars>>

\* The approval is signed and mined, and polled until some node serves it.
Approve(f) ==
  /\ flows[f].pc = "approving"
  /\ Land([head EXCEPT !.approved = @ \cup {Token(flows[f].order)}])
  /\ Moves(f, "permit") /\ Shows(f, TRUE)
  /\ UNCHANGED <<settled, mempool, plan, FormVars>>

\* Defect for the checks: the first nonce nobody else is using.
NextNonce(spent) == {n \in Nonce : n \notin spent}

\* unusedNonce: the first clear bit of the bitmap a node serves.
UnusedNonce(spent) == {n \in Nonce : n \notin spent /\ \A i \in Nonce : i < n => i \in spent}

\* buildPermit; `after` counts the fills that had settled, a history value.
BuildPermit(f) ==
  /\ flows[f].pc = "permit"
  /\ \E s \in Served : \E n \in UnusedNonce(s.spent) :
       flows' = [flows EXCEPT ![f].pc = "signing", ![f].nonce = n,
                              ![f].after = Len(settled)]
  /\ UNCHANGED <<head, behind, settled, mempool, busy, plan, FormVars>>

\* The owner signs the permit and sends the transaction.  The balance read in between
\* only decides what the panel says was received.
SendFill(f) ==
  /\ flows[f].pc = "signing" /\ Cardinality(mempool) < MaxPending
  /\ mempool' = mempool \cup {[flow |-> f, nonce |-> flows[f].nonce, after |-> flows[f].after,
                               order |-> flows[f].order]}
  /\ Moves(f, "mining") /\ Shows(f, TRUE)
  /\ UNCHANGED <<head, behind, settled, plan, FormVars>>

\* A receipt is served: on to the balance, or the transaction reverted.  The commands
\* print its status and go on.
ReceiptRead(f) ==
  /\ flows[f].pc = "mining" /\ flows[f].outcome # "none"
  /\ IF flows[f].outcome = "success" \/ flows[f].cli
     THEN Moves(f, "confirming") /\ Shows(f, TRUE)
     ELSE flows' = [flows EXCEPT ![f] = Over] /\ Shows(f, FALSE)
  /\ UNCHANGED <<head, behind, settled, mempool, plan, FormVars>>

\* The balance moved, or thirty polls are over: done, and the plan is spent.
Confirm(f) ==
  /\ flows[f].pc = "confirming"
  /\ flows' = [flows EXCEPT ![f] = Over]
  /\ Shows(f, FALSE)
  /\ plan' = IF flows[f].cli THEN plan
             ELSE [plan EXCEPT ![flows[f].order.panel] = NoPlan]
  /\ UNCHANGED <<head, behind, settled, mempool, FormVars>>

\* The owner declines (the panel is idle again) or anything throws, the read of a balance
\* and the end of awaitReceipt's attempts among it: the plan stays.  A transaction that
\* was sent stays sent.
Throws(f) ==
  /\ flows[f].pc \notin {"off", "over"}
  /\ flows' = [flows EXCEPT ![f] = Over]
  /\ Shows(f, FALSE)
  /\ mempool' = {[t EXCEPT !.flow = IF @ = f THEN "nobody" ELSE @] : t \in mempool}
  /\ UNCHANGED <<head, behind, settled, plan, FormVars>>

---------------------------------------------------------------------------
(* The chain.                                                              *)

Tell(t, outcome) ==
  flows' = IF t.flow \in Flow THEN [flows EXCEPT ![t.flow].outcome = outcome] ELSE flows

\* The executor pulls the permit: its nonce is spent, and the fill settles.
Settle(t) ==
  /\ t.nonce \notin head.spent /\ Token(t.order) \in head.approved
  /\ Land([head EXCEPT !.spent = @ \cup {t.nonce}])
  /\ settled' = Append(settled, t)
  /\ Tell(t, "success")

\* A spent nonce, the guard, the pool's floor or the deadline stop it.
Revert(t) == Tell(t, "reverted") /\ UNCHANGED <<head, behind, settled>>

MineFill ==
  /\ \E t \in mempool : mempool' = mempool \ {t} /\ (Settle(t) \/ Revert(t))
  /\ UNCHANGED <<busy, plan, FormVars>>

\* The owner's wallet spends one of its nonces somewhere else.
SpendElsewhere ==
  /\ \E n \in Nonce \ head.spent : Land([head EXCEPT !.spent = @ \cup {n}])
  /\ UNCHANGED <<settled, mempool, flows, busy, plan, FormVars>>

NodeCatchesUp == Sync /\ UNCHANGED <<settled, mempool, flows, busy, plan, FormVars>>

---------------------------------------------------------------------------
TradeInit ==
  /\ ReadsInit([spent |-> {}, approved |-> Approved]) /\ settled = <<>>
  /\ mempool = {} /\ ack = FALSE /\ ticked = {} /\ asked = 0
  /\ form \in [Panel -> Form]
  /\ busy = [p \in Panel |-> FALSE]
  /\ plan = [p \in Panel |-> NoPlan]
  /\ request = [p \in Panel |-> NoRequest]
  /\ flows = [f \in Flow |-> NoFlow]

FlowSteps(f) ==
  \/ ReadAllowance(f) \/ Approve(f) \/ BuildPermit(f)
  \/ SendFill(f) \/ ReceiptRead(f) \/ Confirm(f) \/ Throws(f)

TradeNext ==
  \/ \E p \in Panel : Types(p) \/ Answered(p)
  \/ BuyQuote \/ SellQuote \/ Tick \/ Untick
  \/ \E f \in Flow : BuyStarts(f) \/ SellStarts(f) \/ CliStarts(f) \/ FlowSteps(f)
  \/ MineFill \/ SpendElsewhere \/ NodeCatchesUp

TradeSpec == TradeInit /\ [][TradeNext]_tradeVars

---------------------------------------------------------------------------
(* Properties.                                                             *)

PlanType == [panel : Panel, form : Form \cup {"none"}, allow : BOOLEAN,
             measured : BOOLEAN, ack : BOOLEAN]
OrderType == [panel : Panel, form : Form \cup {"none"}, measured : BOOLEAN]
Sent == [flow : Flow \cup {"nobody"}, nonce : Nonce, after : Nat, order : OrderType]
FlowType == [pc : {"off", "over", "allowance", "approving", "permit", "signing", "mining", "confirming"},
             order : OrderType, nonce : Nonce, after : Nat, cli : BOOLEAN,
             outcome : {"none", "success", "reverted"}]

\* Every variable stays in its type; the history of settled fills is among them.
TradeTypeOK ==
  /\ \A s \in Served : s.spent \subseteq Nonce /\ s.approved \subseteq {"cash", "asset"}
  /\ mempool \subseteq Sent /\ \A i \in DOMAIN settled : settled[i] \in Sent
  /\ form \in [Panel -> Form] /\ ack \in BOOLEAN /\ ticked \subseteq Form /\ asked \in 0..MaxAsks
  /\ busy \in [Panel -> BOOLEAN]
  /\ plan \in [Panel -> PlanType]
  /\ \A p \in Panel : request[p].form \in Form \cup {"none"} /\ request[p].ack \in BOOLEAN
  /\ flows \in [Flow -> FlowType]

\* However often Sign is pressed, whatever a give-up left in the mempool, and with the
\* command line running beside the page: between the permit of a fill that settles and its
\* settlement no other fill settled.  Permits that were open together carry the same
\* nonce, so the second of them can only revert.
NoOverlappingFills == \A j \in DOMAIN settled : settled[j].after = j - 1

\* A sale whose shortfall nobody could measure settles only when the box that says so was
\* ticked for that very form, not for one the owner has left.
UnmeasuredSalesWereAcknowledged ==
  \A j \in DOMAIN settled :
    settled[j].order.measured \/ settled[j].order.form \in ticked

\* The sign button sends what the form says: the plan on screen is for the form as it is.
ThePlanIsTheForms == \A p \in Panel : plan[p] = NoPlan \/ plan[p].form = form[p]
=============================================================================
