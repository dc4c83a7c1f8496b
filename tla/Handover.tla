------------------------------ MODULE Handover ------------------------------
(***************************************************************************)
(* Who may administer and who may publish: src/handover.ts splits the      *)
(* deployer's roles and puts the admin half behind a Safe, and             *)
(* src/safe-prove.ts rehearses a Safe on testnet (both with src/safe.ts).  *)
(*                                                                         *)
(* A script is a program of steps.  Each step sends a transaction, waits   *)
(* for its receipt (whatever its status) and polls a node, which may lag,  *)
(* until the effect is visible.  A script may stop at any moment: it is    *)
(* killed, a wait gives up, an estimate fails; what it sent may land       *)
(* later, in the order its account sent it.  Then it is run again.         *)
(***************************************************************************)
EXTENDS Integers, Sequences, NodeReads

CONSTANTS
  Deployer,   \* the account that is every role to begin with
  Key,        \* the keys that may be tried as PUBLISHER_KEY
  MaxRuns     \* bound on the number of runs

ASSUME HandoverAssumption == Deployer \notin Key /\ MaxRuns \in Nat

VARIABLES
  target,     \* the chain of this deployment, TARGET
  script,     \* the script that is running
  pending,    \* transactions sent and not mined
  runs

handoverVars == <<head, behind, target, script, pending, runs>>

Contract == {"oracle", "receipts", "fees"}

\* A Safe is known by the run that deployed it; its owners are the real ones, or keys
\* that exist only in the memory of safe:prove.
SafeOf(run, program) == [run |-> run, ephemeral |-> program = "prove"]

Safe == [run : Nat, ephemeral : BOOLEAN]

\* What the chain says: the admin of each contract, the oracle's publishers, the accounts
\* that have published, and the Safes deployed.
Roles == [admin : [Contract -> {Deployer} \cup Safe], publishers : SUBSET ({Deployer} \cup Key),
          published : SUBSET ({Deployer} \cup Key), safes : SUBSET Safe]

Steps(program) ==
  IF program = "handover" THEN <<"grant", "probe", "revoke", "deploy", "oracle", "receipts", "fees">>
  ELSE <<"deploy", "oracle", "act", "return">>

NoScript == [program |-> "none", step |-> 0, phase |-> "off", key |-> Deployer,
             safe |-> SafeOf(0, "none")]

Running == script.program # "none"
Doing == Steps(script.program)[script.step]
---------------------------------------------------------------------------
(* Transactions.                                                           *)

Tx(step) == [step |-> step, run |-> runs, key |-> script.key, safe |-> script.safe,
             from |-> IF step = "probe" THEN script.key ELSE Deployer]

\* Whether it would succeed on a chain in state c.  What a Safe does needs its quorum,
\* which the script holds while it runs.
Valid(tx, c) ==
  CASE tx.step \in {"grant", "revoke", "oracle"} -> c.admin["oracle"] = Deployer
    [] tx.step \in {"receipts", "fees"} -> c.admin[tx.step] = Deployer
    [] tx.step = "probe" -> tx.key \in c.publishers
    [] tx.step = "deploy" -> TRUE
    [] tx.step \in {"act", "return"} -> c.admin["oracle"] = tx.safe

Effect(tx, c) ==
  CASE tx.step = "grant" -> [c EXCEPT !.publishers = @ \cup {tx.key}]
    [] tx.step = "probe" -> [c EXCEPT !.published = @ \cup {tx.key}]
    [] tx.step = "revoke" -> [c EXCEPT !.publishers = @ \ {Deployer}]
    [] tx.step = "deploy" -> [c EXCEPT !.safes = @ \cup {tx.safe}]
    [] tx.step \in Contract -> [c EXCEPT !.admin[tx.step] = tx.safe]
    [] tx.step = "act" -> c
    [] tx.step = "return" -> [c EXCEPT !.admin["oracle"] = Deployer]

\* Defect for the checks: a receipt is taken for the effect.
ShowsAReceipt(step, c) == TRUE

\* waitUntil: the effect as a node in state c shows it.  The probe's is that somebody
\* has published for the probe's address.
Shows(step, c) ==
  CASE step = "grant" -> script.key \in c.publishers
    [] step = "probe" -> c.published \cap Key # {}
    [] step = "revoke" -> Deployer \notin c.publishers
    [] step = "deploy" -> script.safe \in c.safes
    [] step \in Contract -> c.admin[step] = script.safe
    [] step = "act" -> TRUE
    [] step = "return" -> c.admin["oracle"] = Deployer
---------------------------------------------------------------------------
HandoverInit ==
  /\ target \in {"mainnet", "testnet"}
  /\ ReadsInit([admin |-> [c \in Contract |-> Deployer], publishers |-> {Deployer},
                published |-> {Deployer}, safes |-> {}])
  /\ script = NoScript /\ pending = {} /\ runs = 0

\* handover refuses unless the deployer is the admin of everything, each as some node
\* says; it makes a Safe of its own, or is given one that an earlier run made.
StartHandover ==
  /\ ~Running /\ runs < MaxRuns
  /\ \A c \in Contract : \E s \in Served : s.admin[c] = Deployer
  /\ \E k \in Key, safe \in {SafeOf(runs + 1, "handover")} \cup {s \in head.safes : ~s.ephemeral} :
       script' = [program |-> "handover", step |-> 1, phase |-> "send", key |-> k, safe |-> safe]
  /\ runs' = runs + 1
  /\ UNCHANGED <<head, behind, target, pending>>

\* safe:prove refuses mainnet, and a deployer that is not the oracle's admin.
StartProve ==
  /\ ~Running /\ runs < MaxRuns
  /\ target = "testnet"
  /\ \E s \in Served : s.admin["oracle"] = Deployer
  /\ script' = [program |-> "prove", step |-> 1, phase |-> "send", key |-> Deployer,
                safe |-> SafeOf(runs + 1, "prove")]
  /\ runs' = runs + 1
  /\ UNCHANGED <<head, behind, target, pending>>

\* writeContract: the node that estimates it must see it succeed.
Send ==
  /\ Running /\ script.phase = "send"
  /\ ~(Doing = "deploy" /\ script.safe.run # runs)
  /\ \E s \in Served : Valid(Tx(Doing), s)
  /\ pending' = pending \cup {Tx(Doing)}
  /\ script' = [script EXCEPT !.phase = "receipt"]
  /\ UNCHANGED <<head, behind, target, runs>>

\* A Safe named by SAFE_ADDRESS is not deployed again.
Reuse ==
  /\ Running /\ script.phase = "send"
  /\ Doing = "deploy" /\ script.safe.run # runs
  /\ script' = [script EXCEPT !.phase = "confirm"]
  /\ UNCHANGED <<head, behind, target, pending, runs>>

\* An account's transactions are mined in the order it sent them; one that fails is
\* mined all the same.
MineRole ==
  \E tx \in pending :
    /\ \A other \in pending : other.from = tx.from => tx.run <= other.run
    /\ pending' = pending \ {tx}
    /\ IF Valid(tx, head) THEN Land(Effect(tx, head)) ELSE UNCHANGED <<head, behind>>
    /\ UNCHANGED <<target, script, runs>>

Receipt ==
  /\ Running /\ script.phase = "receipt" /\ Tx(Doing) \notin pending
  /\ script' = [script EXCEPT !.phase = "confirm"]
  /\ UNCHANGED <<head, behind, target, pending, runs>>

ConfirmStep ==
  /\ Running /\ script.phase = "confirm"
  /\ \E s \in Served : Shows(Doing, s)
  /\ script' = IF script.step = Len(Steps(script.program)) THEN NoScript
               ELSE [script EXCEPT !.step = @ + 1, !.phase = "send"]
  /\ UNCHANGED <<head, behind, target, pending, runs>>

ScriptStops ==
  /\ Running
  /\ script' = NoScript
  /\ UNCHANGED <<head, behind, target, pending, runs>>

RolesSync == Sync /\ UNCHANGED <<target, script, pending, runs>>

HandoverNext == StartHandover \/ StartProve \/ Send \/ Reuse \/ MineRole \/ Receipt
                \/ ConfirmStep \/ ScriptStops \/ RolesSync

HandoverSpec == HandoverInit /\ [][HandoverNext]_handoverVars
---------------------------------------------------------------------------
(* Properties.                                                             *)

\* However the scripts stop and are run again, and with whatever keys, some account that
\* may publish has published: the old publisher is never given up for one that has not
\* shown that it works (handover.ts 9-18).
TheOracleKeepsAProvenPublisher == head.publishers \cap head.published # {}

\* No two contracts end under different Safes: a rerun that makes a new Safe gets no
\* further than the first contract that was already handed over (handover.ts 75-89,
\* 165-182).
AdminsAreNeverSplit ==
  \A c, d \in Contract :
    head.admin[c] # Deployer /\ head.admin[d] # Deployer => head.admin[c] = head.admin[d]

\* So the scripts may be stopped anywhere and run again, with whatever keys.
HandoversMayBeRepeated == TheOracleKeepsAProvenPublisher /\ AdminsAreNeverSplit

\* Keys that can still sign for a Safe: the real owners', and safe:prove's while it runs.
Signable(safe) == ~safe.ephemeral \/ (Running /\ script.safe = safe)

\* safe-prove.ts 10-22: "nothing is left bricked if it stops halfway", "a failed proof
\* never costs us admin of the testnet oracle".
NothingIsBricked ==
  \A c \in Contract : head.admin[c] # Deployer => Signable(head.admin[c])

\* safe.ts 53-55: "a repeated run does not silently produce a second Safe".
ARepeatedRunMakesNoSecondSafe ==
  \A s, z \in head.safes : ~s.ephemeral /\ ~z.ephemeral => s = z
=============================================================================
