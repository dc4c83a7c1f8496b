---------------------------- MODULE MandateDesk ----------------------------
(***************************************************************************)
(* An owner and the places mandates are made and edited from: the page     *)
(* that creates one (app/components/Mandate.tsx), the panel that manages   *)
(* them (MandateManage.tsx), and the command line (mandate-create.ts,      *)
(* mandate-edit.ts).  All of them read the guard through nodes that may    *)
(* lag, send a transaction that lands later or never, and poll.            *)
(* PolicyGuard's owner operations are abstracted to what they overwrite.   *)
(***************************************************************************)
EXTENDS Integers, SequencesExt, NodeReads

CONSTANTS
  MaxMandates,   \* bound: mandates on the guard
  MaxSends,      \* bound: transactions sent
  Rules          \* exit rules an owner may ask for

ASSUME DeskAssumption == MaxMandates \in Nat /\ MaxSends \in Nat

VARIABLES
  mempool,   \* sent and not mined, in the owner's account order
  sent,      \* how many were sent
  page,      \* Mandate.tsx: its phase, and the creation it is about
  install,   \* the second transaction of Mandate.tsx, which runs on its own
  shown,     \* MandateManage.tsx: the mandates it last loaded
  panel,     \* MandateManage.tsx: busy, and with which transaction
  cli        \* the command that is running, if any

deskVars == <<head, behind, mempool, sent, page, install, shown, panel, cli>>

Id == 1..MaxMandates
Policy == [cap : 0..1, fills : 0..1]
RuleList == SeqOf(Rules, 2)
NoMandate == [active |-> FALSE, born |-> 0, version |-> 0, word |-> 0,
              policy |-> [cap |-> 0, fills |-> 0], rules |-> <<>>]
Fresh(n) == [NoMandate EXCEPT !.active = TRUE, !.born = n, !.version = 1]

---------------------------------------------------------------------------
(* The guard.                                                              *)

\* What each owner operation overwrites, and whether it opens a version.  The agent, the
\* executor, an asset's flag and the breaker are one word each, overwritten by itself.
Apply(m, t) ==
  CASE t.op = "policy"  -> [m EXCEPT !.policy = t.arg, !.version = @ + 1]
    [] t.op = "rules"   -> [m EXCEPT !.rules = t.arg, !.version = @ + 1]
    [] t.op = "word"    -> [m EXCEPT !.word = t.arg]
    [] t.op = "close"   -> [m EXCEPT !.active = FALSE]

\* The chain after t: a creation takes the next id.
After(t) ==
  IF t.op = "create"
  THEN [head EXCEPT !.next = @ + 1, !.m[head.next] = Fresh(t.n)]
  ELSE [head EXCEPT !.m[t.id] = Apply(@, t)]

\* The oldest transaction is mined; it may revert, which no caller looks at.
Mine ==
  /\ mempool # <<>>
  /\ LET t == Head(mempool) IN
     /\ mempool' = Tail(mempool)
     /\ Land(After(t)) \/ UNCHANGED <<head, behind>>
  /\ UNCHANGED <<sent, page, install, shown, panel, cli>>

CatchUp == Sync /\ UNCHANGED <<mempool, sent, page, install, shown, panel, cli>>

Creations == Cardinality({i \in DOMAIN mempool : mempool[i].op = "create"})
Room == head.next + Creations <= MaxMandates

\* The wallet signs and the transaction is out.  `base` is the version of the
\* mandate as it was read when the arguments were put together, a history value.
Send(op, id, arg, base) ==
  /\ sent < MaxSends
  /\ sent' = sent + 1
  /\ mempool' = Append(mempool, [n |-> sent + 1, op |-> op, id |-> id, arg |-> arg,
                                 base |-> base])

Quiet == UNCHANGED <<mempool, sent>>

\* There is a receipt, of whatever outcome.
Mined(n) == \A i \in DOMAIN mempool : mempool[i].n # n

---------------------------------------------------------------------------
(* The page that creates a mandate.                                        *)

Creating == page.pc \in {"signing", "mining", "confirming"}
OpenIn(s) == {id \in Id : s.m[id].active}

\* Idle or failed: what the page was about is gone.
Blank(pc) == [pc |-> pc, tx |-> 0, id |-> 0, want |-> <<>>, rules |-> "none",
              alone |-> FALSE]

\* The rules of the compiled thesis that fit the assets picked, when they are to be installed.
Encoded == {<<>>} \cup {<<r>> : r \in Rules}

\* The form, and when its button works.
CreateOffered == ~Creating

\* Create is pressed.
CreateClick ==
  /\ CreateOffered
  /\ \E want \in Encoded :
       /\ want # <<>> => install.pc = "none"
       /\ page' = [Blank("signing") EXCEPT !.want = want]
  /\ Quiet /\ UNCHANGED <<head, behind, install, shown, panel, cli>>

\* The owner signs, or declines and the page is idle again, or the wallet fails.  `alone` remembers that the
\* owner had no mandate anywhere, a history value.
CreateSigned ==
  /\ page.pc = "signing"
  /\ \/ /\ Room
        /\ Send("create", 0, <<>>, 0)
        /\ page' = [page EXCEPT !.pc = "mining", !.tx = sent + 1,
             !.alone = OpenIn(head) = {} /\ OpenIn(behind) = {} /\ Creations = 0]
     \/ page' \in {Blank("idle"), Blank("failed")} /\ Quiet
  /\ UNCHANGED <<head, behind, install, shown, panel, cli>>

\* Defect for the checks: the page waits for the receipt for as long as it takes.
CreateMinedPatiently ==
  /\ page.pc = "mining" /\ Mined(page.tx) /\ page' = [page EXCEPT !.pc = "confirming"]
  /\ Quiet /\ UNCHANGED <<head, behind, install, shown, panel, cli>>

\* awaitReceipt: it returns any receipt, and throws when its attempts are over.
CreateMined ==
  /\ page.pc = "mining"
  /\ \/ Mined(page.tx) /\ page' = [page EXCEPT !.pc = "confirming"]
     \/ page' = Blank("failed")
  /\ Quiet /\ UNCHANGED <<head, behind, install, shown, panel, cli>>

\* Defect for the checks: a closed mandate will do.
FindAnyMandate == {id \in Id : \E s \in Served : id = s.next - 1}

\* The newest of the last five ids that is served as the owner's and active: the next id
\* and each mandate, from the newest on, are read of whatever node answers.
FindMandate ==
  {id \in Id : \E s \in Served :
     /\ id < s.next /\ id > s.next - 6 /\ \E n \in Served : n.m[id].active
     /\ \A j \in Id : j > id /\ j < s.next => \E n \in Served : ~n.m[j].active}

\* confirmMandate polls until one is served; then the page is done, and when
\* rules are wanted their transaction is put to the wallet.
CreateConfirmed ==
  /\ page.pc = "confirming"
  /\ \/ \E id \in FindMandate :
          /\ page' = [page EXCEPT !.pc = "done", !.id = id,
                        !.rules = IF page.want = <<>> THEN "none" ELSE "installing"]
          /\ install' = IF page.want = <<>> THEN install
                        ELSE [pc |-> "signing", id |-> id, want |-> page.want, tx |-> 0]
     \/ page' = Blank("failed") /\ UNCHANGED install
  /\ Quiet /\ UNCHANGED <<head, behind, shown, panel, cli>>

\* What the installation reports goes to whatever the page shows as done.
Report(what) ==
  page' = IF page.pc = "done" THEN [page EXCEPT !.rules = what] ELSE page

NoInstall == [pc |-> "none", id |-> 0, want |-> <<>>, tx |-> 0]

\* The second transaction: setTriggers replaces the list of the id it was given.
InstallRules ==
  /\ \/ /\ install.pc = "signing"
        /\ \/ /\ Send("rules", install.id, install.want, 0)
              /\ install' = [install EXCEPT !.pc = "mining", !.tx = sent + 1]
              /\ UNCHANGED page
           \/ Report("failed") /\ install' = NoInstall /\ Quiet
     \/ /\ install.pc = "mining" /\ Quiet
        /\ \/ Mined(install.tx) /\ install' = [install EXCEPT !.pc = "confirming"]
                                /\ UNCHANGED page
           \/ Report("failed") /\ install' = NoInstall
     \/ /\ install.pc = "confirming" /\ Quiet /\ install' = NoInstall
        /\ \/ /\ \E s \in Served : Len(s.m[install.id].rules) = Len(install.want)
              /\ Report("installed")
           \/ Report("failed")
  /\ UNCHANGED <<head, behind, shown, panel, cli>>

---------------------------------------------------------------------------
(* The panel that manages them.                                            *)

\* A row of the panel: the record m, with the rules of n.
Sighted(m, n) ==
  [active |-> m.active, born |-> m.born, version |-> m.version, word |-> m.word,
   policy |-> m.policy, rules |-> n.rules, rulesVersion |-> n.version]

\* load(): the record and the rules are two reads, of two nodes perhaps.  It runs on
\* mount, on the other panels' events, and after each write.  One that runs while a write
\* is under way is replaced by that write's own.
Loaded ==
  \E s, r \in Served :
    shown' = [id \in Id |-> Sighted(s.m[id], r.m[id])]

PanelLoads ==
  /\ panel.pc = "idle" /\ Loaded
  /\ Quiet /\ UNCHANGED <<head, behind, page, install, panel, cli>>

\* Defect for the checks: the new rule is sent by itself.
OnlyTheRule(m, r) == <<r>>

\* A rule is added to the list on screen, because the guard replaces the whole list.
AddedRule(m, r) == Append(m.rules, r)

\* The policy form sends every field of the policy on screen, one of them changed.
EditedPolicy(m, f, v) == [m.policy EXCEPT ![f] = v]

\* write(): while it runs no other control works; the wallet asks the owner to sign.
PanelWrites(op, id, arg, base) ==
  /\ panel.pc = "idle"
  /\ Send(op, id, arg, base)
  /\ panel' = [pc |-> "mining", tx |-> sent + 1]
  /\ UNCHANGED <<head, behind, page, install, shown, cli>>

\* The mandates the panel offers controls for.
Offered == {id \in Id : shown[id].active}

PanelAddsRule(id, r) ==
  /\ Len(shown[id].rules) < 2
  /\ PanelWrites("rules", id, AddedRule(shown[id], r), shown[id].rulesVersion)

PanelEditsPolicy(id, f) ==
  PanelWrites("policy", id, EditedPolicy(shown[id], f, 1), shown[id].version)

\* The agent, the executor, an asset, or the breaker, which is toggled as it is shown.
PanelSetsWord(id) == PanelWrites("word", id, 1 - shown[id].word, shown[id].version)

PanelCloses(id) == PanelWrites("close", id, 0, shown[id].version)

PanelActs ==
  \E id \in Offered :
    \/ \E r \in Rules : PanelAddsRule(id, r)
    \/ \E f \in {"cap", "fills"} : PanelEditsPolicy(id, f)
    \/ PanelSetsWord(id)
    \/ PanelCloses(id)

\* A receipt, whatever it says, and 1.2 seconds later a load; or the wait is over.
PanelSettles ==
  /\ panel.pc = "mining"
  /\ \/ Mined(panel.tx) /\ Loaded
     \/ UNCHANGED shown
  /\ panel' = [pc |-> "idle", tx |-> 0]
  /\ Quiet /\ UNCHANGED <<head, behind, page, install, cli>>

---------------------------------------------------------------------------
(* The command line.                                                       *)

NoCommand == [pc |-> "idle", tx |-> 0, op |-> "close", id |-> 0, arg |-> 0, base |-> 0]

CliSends(op, id, arg, base) ==
  /\ cli.pc = "idle"
  /\ Send(op, id, arg, base)
  /\ cli' = [pc |-> "waiting", tx |-> sent + 1, op |-> op, id |-> id, arg |-> arg,
             base |-> base]
  /\ UNCHANGED <<head, behind, page, install, shown, panel>>

\* mandate:edit reads the mandate first: it must exist, and be open for all but close.
CliCloses(id) ==
  \E s \in Served : s.m[id].born # 0 /\ CliSends("close", id, 0, s.m[id].version)

CliSetsWord(id) ==
  \E s \in Served : s.m[id].active /\ CliSends("word", id, 1, s.m[id].version)

CliEditsPolicy(id, f) ==
  \E s \in Served : /\ s.m[id].active
                     /\ CliSends("policy", id, EditedPolicy(s.m[id], f, 1), s.m[id].version)

\* trigger add and trigger clear read the rules as well, from another node perhaps.
CliEditsRules(id) ==
  \E s, r \in Served : LET m == r.m[id] IN
    /\ s.m[id].active
    /\ \/ m.rules # <<>> /\ CliSends("rules", id, <<>>, m.version)
       \/ \E x \in Rules : Len(m.rules) < 2
                            /\ CliSends("rules", id, AddedRule(m, x), m.version)

\* mandate:create.
CliCreates == Room /\ CliSends("create", 0, <<>>, 0)

CliActs ==
  \/ CliCreates
  \/ \E id \in Id :
       \/ CliCloses(id) \/ CliSetsWord(id) \/ CliEditsRules(id)
       \/ \E f \in {"cap", "fills"} : CliEditsPolicy(id, f)

\* What the command waits to read back before it says "confirmed".
ReadsBack(s) ==
  CASE cli.op = "create"  -> FindMandate # {}
    [] cli.op = "close"   -> ~s.m[cli.id].active
    [] cli.op = "word"    -> s.m[cli.id].word = cli.arg
    [] cli.op = "policy"  -> s.m[cli.id].version > cli.base
    [] cli.op = "rules"   -> Len(s.m[cli.id].rules) = Len(cli.arg)

\* A receipt, then the read-back; either may run out of attempts and end the command.
CliWaits ==
  /\ \/ cli.pc = "waiting" /\ Mined(cli.tx) /\ cli' = [cli EXCEPT !.pc = "reading"]
     \/ cli.pc = "reading" /\ (\E s \in Served : ReadsBack(s)) /\ cli' = NoCommand
     \/ cli.pc # "idle" /\ cli' = NoCommand
  /\ Quiet /\ UNCHANGED <<head, behind, page, install, shown, panel>>

---------------------------------------------------------------------------
DeskInit ==
  /\ ReadsInit([next |-> 1, m |-> [id \in Id |-> NoMandate]])
  /\ mempool = <<>> /\ sent = 0
  /\ page = Blank("idle")
  /\ install = NoInstall
  /\ shown = [id \in Id |-> Sighted(NoMandate, NoMandate)]
  /\ panel = [pc |-> "idle", tx |-> 0]
  /\ cli = NoCommand

PageWaits == CreateSigned \/ CreateMined \/ CreateConfirmed

DeskNext ==
  \/ Mine \/ CatchUp
  \/ CreateClick \/ PageWaits \/ InstallRules
  \/ PanelLoads \/ PanelActs \/ PanelSettles
  \/ CliActs \/ CliWaits

\* The wallet is answered and every poll is bounded.
DeskFairness == WF_deskVars(PageWaits)

DeskSpec == DeskInit /\ [][DeskNext]_deskVars /\ DeskFairness

---------------------------------------------------------------------------
(* Properties.                                                             *)

\* Every variable has its type.
DeskTypeOK ==
  /\ head.next \in 1..(MaxMandates + 1) /\ behind.next <= head.next
  /\ \A id \in Id : head.m[id].rules \in RuleList /\ head.m[id].policy \in Policy
  /\ sent \in 0..MaxSends /\ Len(mempool) <= sent
  /\ page.pc \in {"idle", "signing", "mining", "confirming", "done", "failed"}
  /\ install.pc \in {"none", "signing", "mining", "confirming"}
  /\ panel.pc \in {"idle", "mining"} /\ cli.pc \in {"idle", "waiting", "reading"}

\* What an edit that lands takes away besides what it names: rules that were
\* installed, or fields of the policy that were not edited.
KeepsTheRest(t) ==
  LET m == head.m[t.id] IN
  /\ t.op = "rules" /\ t.arg # <<>> => m.rules = Front(t.arg)
  /\ t.op = "policy" => Cardinality({f \in {"cap", "fills"} : m.policy[f] # t.arg[f]}) <= 1

Edits(t) == t.op # "create" /\ t.base # 0
Lands == head' # head

\* An edit put together from the version it lands on changes only what it names:
\* setTriggers and updatePolicy overwrite whole values, and every caller sends back the
\* rest as it read it.
UnracedEditsKeepTheRest ==
  [][ Lands /\ Edits(Head(mempool)) /\ Head(mempool).base = head.m[Head(mempool).id].version
      => KeepsTheRest(Head(mempool)) ]_deskVars

\* A rule that is added, from the panel or the command line, takes no other rule away.
AddingARuleKeepsTheOthers ==
  [][ LET t == Head(mempool) IN
      Lands /\ Edits(t) /\ t.op = "rules" /\ t.arg # <<>>
        => head.m[t.id].rules = Front(t.arg) ]_deskVars

\* An owner without a mandate is shown the one the page created, or one created since:
\* never an older one, although the page does not know the id its transaction made.
AFirstMandateIsNeverAnOlderOne ==
  page.pc = "done" /\ page.alone => head.m[page.id].born >= page.tx

\* The page shows as created the mandate its transaction created.
TheMandateShownIsTheOneCreated ==
  page.pc = "done" => head.m[page.id].born = page.tx

\* No creation is for ever: a receipt that never comes, a revert, a node that stays behind
\* and an owner who declines all end in an answer.
CreatingEnds == Creating ~> ~Creating
=============================================================================
