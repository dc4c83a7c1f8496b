----------------------------- MODULE ThesisDesk -----------------------------
(***************************************************************************)
(* Publishing a thesis (contracts/ThesisRegistry.sol) from the idea page   *)
(* (PublishThesis.tsx) and the command line (src/thesis-publish.ts), and   *)
(* handing it over to the trade page (handoff.ts, follow.ts).  The page    *)
(* reads through nodes that lag, is taken down by the next compilation and *)
(* asks again whenever the wallet's client changes, while reads and        *)
(* transactions are under way, and anybody may publish the same hash       *)
(* first.  A thesis is its hash; its content has no part here.  One chain, *)
(* and one run of publish() a hash at a time.                              *)
(***************************************************************************)
EXTENDS Integers, Sequences, FiniteSetsExt

CONSTANTS
  Hash,         \* theses, by their hash
  MaxChecks     \* bound: checks of the registry

VARIABLES
  registry, behindRegistry,   \* the theses on chain, and what the slowest node serves of them
  panel,      \* PublishThesis: its thesis, its phase, and the id and author it shows
  checks,     \* its reads of the registry under way
  publishing, \* per hash: where its run of publish() is
  prompts,    \* hashes the wallet still asks about for a panel that is gone
  sent,       \* per hash: the page's transaction
  command,    \* pnpm thesis:publish
  stash,      \* sessionStorage: what is handed to the trade page
  follow,     \* the thesis the trade page follows
  checked     \* how many checks there were

Registry == INSTANCE NodeReads WITH head <- registry, behind <- behindRegistry

PanelState == <<panel, checks, publishing, prompts, checked>>
thesisVars == <<registry, behindRegistry, PanelState, sent, command, stash, follow>>

NoThesis == [id |-> 0, hash |-> "none"]
NoCommand == [pc |-> "off", hash |-> "none", id |-> 0]

---------------------------------------------------------------------------
(* ThesisRegistry.                                                         *)

Entries(theses, h) == {i \in DOMAIN theses : theses[i].hash = h}

Published(theses) == {theses[i].hash : i \in DOMAIN theses}

\* idOf: _idByHash is written by every publish; ids count from zero, and (0, false) is the
\* answer for an unknown hash.
IdOf(theses, h) ==
  IF h \in Published(theses) THEN [id |-> Max(Entries(theses, h)) - 1, exists |-> TRUE]
  ELSE [id |-> 0, exists |-> FALSE]

\* Defect for the checks: a hash is published as often as it is sent.
AcceptsAgain(h) == TRUE

\* publish: a hash belongs to whoever published it first.
Accepts(h) == h \notin Published(registry)

Publish(h, author) == Registry!Land(Append(registry, [hash |-> h, author |-> author]))

---------------------------------------------------------------------------
(* The idea page.                                                          *)

Displays(phase, id, author) == panel' = [panel EXCEPT !.phase = phase, !.id = id, !.author = author]
Blank(phase) == Displays(phase, 0, "none")
Elsewhere == UNCHANGED <<registry, behindRegistry, sent, command, stash, follow>>

NewCheck == [id |-> 0, found |-> FALSE]

\* A run ends: its thesis is on the page, in a panel of its own, and the registry is asked
\* about it.  The panel before is gone, whatever it was waiting for.
Compiles ==
  /\ checked < MaxChecks /\ checked' = checked + 1
  /\ \E h \in Hash : panel' = [hash |-> h, phase |-> "checking", id |-> 0, author |-> "none"]
  /\ checks' = {NewCheck}
  /\ publishing' = [h \in Hash |-> "off"]
  /\ prompts' = prompts \cup {h \in Hash : publishing[h] = "signing"}
  /\ Elsewhere

\* The wallet connects, leaves or switches: publicClient is another one, and check() runs
\* again beside the one under way, and beside a run of publish().
ChecksAgain ==
  /\ panel.hash # "none" /\ checked < MaxChecks /\ checked' = checked + 1
  /\ Blank("checking") /\ checks' = checks \cup {NewCheck}
  /\ Elsewhere /\ UNCHANGED <<publishing, prompts>>

\* check(): idOf, then get of the id, from whichever node answers.
CheckReads(c) ==
  /\ ~c.found
  /\ \E s \in Registry!Served :
       LET found == IdOf(s, panel.hash) IN
       IF found.exists
       THEN checks' = (checks \ {c}) \cup {[id |-> found.id, found |-> TRUE]} /\ UNCHANGED panel
       ELSE checks' = checks \ {c} /\ Blank("idle")
  /\ Elsewhere /\ UNCHANGED <<publishing, prompts, checked>>

CheckShows(c) ==
  /\ c.found /\ checks' = checks \ {c}
  /\ \E s \in Registry!Served : c.id + 1 \in DOMAIN s /\ Displays("taken", c.id, s[c.id + 1].author)
  /\ Elsewhere /\ UNCHANGED <<publishing, prompts, checked>>

\* A read that fails is no verdict: the chain refuses a duplicate itself.
CheckFails(c) ==
  /\ checks' = checks \ {c} /\ Blank("idle")
  /\ Elsewhere /\ UNCHANGED <<publishing, prompts, checked>>

PressPublish ==
  /\ panel.phase \in {"idle", "failed"} /\ panel.hash # "none" /\ publishing[panel.hash] = "off"
  /\ Blank("signing")
  /\ publishing' = [publishing EXCEPT ![panel.hash] = "signing"]
  /\ Elsewhere /\ UNCHANGED <<checks, prompts, checked>>

\* The owner signs; for a panel that is gone, too.
Signed(h) ==
  /\ sent[h] # "pending" /\ sent' = [sent EXCEPT ![h] = "pending"]
  /\ \/ /\ publishing[h] = "signing" /\ Blank("mining")
        /\ publishing' = [publishing EXCEPT ![h] = "mining"] /\ UNCHANGED prompts
     \/ /\ h \in prompts /\ prompts' = prompts \ {h} /\ UNCHANGED <<panel, publishing>>
  /\ UNCHANGED <<registry, behindRegistry, checks, checked, command, stash, follow>>

\* A receipt came, of a success or of a revert: idOf once, and its id is shown, without a
\* look at whether it exists.
PublishDone(h) ==
  /\ publishing[h] = "mining" /\ sent[h] \in {"success", "reverted"}
  /\ publishing' = [publishing EXCEPT ![h] = "off"]
  /\ \E s \in Registry!Served : Displays("done", IdOf(s, h).id, "none")
  /\ Elsewhere /\ UNCHANGED <<checks, prompts, checked>>

\* Declined, or a read failed, or the receipt did not come in time.
PublishFails(h) ==
  /\ publishing[h] # "off"
  /\ publishing' = [publishing EXCEPT ![h] = "off"] /\ Blank("failed")
  /\ Elsewhere /\ UNCHANGED <<checks, prompts, checked>>

\* go(): the id shown, with the thesis's hash.
Go ==
  /\ panel.phase \in {"taken", "done"}
  /\ stash' = [id |-> panel.id, hash |-> panel.hash]
  /\ UNCHANGED <<registry, behindRegistry, PanelState, sent, command, follow>>

\* FollowButton: a thesis of the index, which is as old as its confirmations.
FollowsReceipt ==
  /\ \E i \in DOMAIN behindRegistry : stash' = [id |-> i - 1, hash |-> behindRegistry[i].hash]
  /\ UNCHANGED <<registry, behindRegistry, PanelState, sent, command, follow>>

\* takeHandoff on the trade page, once.
TakesHandoff ==
  /\ stash # NoThesis
  /\ follow' = stash /\ stash' = NoThesis
  /\ UNCHANGED <<registry, behindRegistry, PanelState, sent, command>>

---------------------------------------------------------------------------
(* The command line.                                                       *)

CommandChecks ==
  /\ command.pc = "off"
  /\ \E h \in Hash, s \in Registry!Served :
       command' = IF IdOf(s, h).exists
                  THEN [pc |-> "over", hash |-> h, id |-> IdOf(s, h).id]
                  ELSE [pc |-> "sending", hash |-> h, id |-> 0]
  /\ UNCHANGED <<registry, behindRegistry, PanelState, sent, stash, follow>>

\* The transaction lands or reverts; the receipt may be missed, and nothing depends on it.
CommandSends ==
  /\ command.pc = "sending"
  /\ \/ Accepts(command.hash) /\ Publish(command.hash, "command")
     \/ UNCHANGED <<registry, behindRegistry>>
  /\ command' = [command EXCEPT !.pc = "waiting"]
  /\ UNCHANGED <<PanelState, sent, stash, follow>>

\* waitUntil: until a node serves the hash.
Found(s) == IdOf(s, command.hash).exists

CommandReports ==
  /\ command.pc = "waiting"
  /\ \/ \E s \in Registry!Served : Found(s) /\ command' = [command EXCEPT !.pc = "over", !.id = IdOf(s, command.hash).id]
     \/ command' = [command EXCEPT !.pc = "gave up"]
  /\ UNCHANGED <<registry, behindRegistry, PanelState, sent, stash, follow>>

---------------------------------------------------------------------------
(* The chain.                                                              *)

MinePublish(h) ==
  /\ sent[h] = "pending"
  /\ \/ Accepts(h) /\ Publish(h, "page") /\ sent' = [sent EXCEPT ![h] = "success"]
     \/ sent' = [sent EXCEPT ![h] = "reverted"] /\ UNCHANGED <<registry, behindRegistry>>
  /\ UNCHANGED <<PanelState, command, stash, follow>>

SomebodyPublishes(h) ==
  /\ Accepts(h) /\ Len(registry) < MaxChecks /\ Publish(h, "somebody")
  /\ UNCHANGED <<PanelState, sent, command, stash, follow>>

NodeSyncs == Registry!Sync /\ UNCHANGED <<PanelState, sent, command, stash, follow>>

ThesisInit ==
  /\ Registry!ReadsInit(<<>>)
  /\ panel = [hash |-> "none", phase |-> "idle", id |-> 0, author |-> "none"]
  /\ checks = {} /\ publishing = [h \in Hash |-> "off"] /\ prompts = {} /\ checked = 0
  /\ sent = [h \in Hash |-> "none"]
  /\ command = NoCommand /\ stash = NoThesis /\ follow = NoThesis

ThesisNext ==
  \/ Compiles \/ ChecksAgain \/ PressPublish \/ Go \/ FollowsReceipt \/ TakesHandoff
  \/ \E c \in checks : CheckReads(c) \/ CheckShows(c) \/ CheckFails(c)
  \/ \E h \in Hash : Signed(h) \/ PublishDone(h) \/ PublishFails(h) \/ MinePublish(h) \/ SomebodyPublishes(h)
  \/ CommandChecks \/ CommandSends \/ CommandReports
  \/ NodeSyncs

ThesisSpec == ThesisInit /\ [][ThesisNext]_thesisVars

---------------------------------------------------------------------------
(* Properties.                                                             *)

Names(id, h) == IdOf(registry, h) = [id |-> id, exists |-> TRUE]

\* Whoever was told that a thesis is taken, and by whom, was told the truth and keeps it,
\* whatever races to publish the same hash; and the id the command reports is its own
\* thesis's, whichever node it asked and whoever published first.
ReportedThesesAreTheFirst ==
  /\ panel.phase = "taken" => Names(panel.id, panel.hash) /\ panel.author = registry[panel.id + 1].author
  /\ command.pc = "over" => Names(command.id, command.hash)

\* What is taken to the trade page is on the registry.
NothingUnpublishedIsFollowed == follow # NoThesis => follow.hash \in Published(registry)
=============================================================================
