------------------------------ MODULE SafeAdmin -----------------------------
(***************************************************************************)
(* src/safe-admin.ts: what only the Safe may change, the fee collector's   *)
(* treasury and fee and the registry's writer, from the command that asks  *)
(* for it to the value read back.  The owners' keys sit on several         *)
(* machines, which run it at once, over nodes that lag; approvals are kept *)
(* on chain, by the hash of the call at one nonce of the Safe.             *)
(***************************************************************************)
EXTENDS Integers, FiniteSets, SequencesExt

CONSTANTS
  Owner,       \* the Safe's owners, in the order of their addresses
  Threshold,   \* how many of them it takes
  Runner,      \* the machines the command is run on
  Request,     \* what is asked for: setting, value, and --yes
  CEILING,     \* MAX_FEE_BPS
  MaxStarts    \* bound on the number of runs

ASSUME SafeAssumption == Owner \subseteq Nat /\ Threshold \in 1..Cardinality(Owner)

VARIABLES
  settings, behindSettings,   \* what the chain says, and what the slowest node serves of it
  asks,       \* the runs of the command
  executed,   \* which run executed what, at each nonce of the Safe
  starts

Serving == INSTANCE NodeReads WITH head <- settings, behind <- behindSettings

safeVars == <<settings, behindSettings, asks, executed, starts>>

\* What the chain says of the Safe and of what it administers.
Rest == [nonce |-> 0, approved |-> {}, treasury |-> 0, fee |-> 0, writer |-> 1]

NoAsk == [pc |-> "off", run |-> 0, setting |-> "fee", value |-> 0, yes |-> FALSE,
          keys |-> {}, nonce |-> 0, approvals |-> {}]

SafeInit ==
  /\ Serving!ReadsInit(Rest)
  /\ asks = [r \in Runner |-> NoAsk] /\ executed = <<>> /\ starts = 0

\* getTransactionHash: the call at a nonce.
TxHash(ask, nonce) == [setting |-> ask.setting, value |-> ask.value, nonce |-> nonce]

Becomes(r, pc) == asks' = [asks EXCEPT ![r].pc = pc]
Ends(r) == Becomes(r, "off") /\ UNCHANGED <<settings, behindSettings, executed, starts>>
---------------------------------------------------------------------------
\* Which keys are in the environment of this machine.
Starts(r) ==
  /\ asks[r].pc \in {"off", "done"} /\ starts < MaxStarts
  /\ \E request \in Request, keys \in SUBSET Owner :
       asks' = [asks EXCEPT ![r] = [NoAsk EXCEPT
                  !.pc = "state", !.run = starts + 1, !.setting = request.setting, !.value = request.value,
                  !.yes = request.yes, !.keys = keys]]
  /\ starts' = starts + 1
  /\ UNCHANGED <<settings, behindSettings, executed>>

\* safeState: the nonce as some node serves it.
ReadsState(r) ==
  /\ asks[r].pc = "state"
  /\ \E s \in Serving!Served : asks' = [asks EXCEPT ![r].nonce = s.nonce, ![r].pc = "current"]
  /\ UNCHANGED <<settings, behindSettings, executed, starts>>

\* Nothing to do, a fee the contract would refuse, or a revocation without --yes.
Refused(ask, s) ==
  \/ s[ask.setting] = ask.value
  \/ ask.setting = "fee" /\ ask.value > CEILING
  \/ ask.setting = "writer" /\ ask.value = 0 /\ ~ask.yes

BuildsCall(r) ==
  /\ asks[r].pc = "current"
  /\ \E s \in Serving!Served : Becomes(r, IF Refused(asks[r], s) THEN "off" ELSE "approvals")
  /\ UNCHANGED <<settings, behindSettings, executed, starts>>

\* Who has approved this hash in a state of the chain.
Approvers(ask, s) == {o \in Owner : <<o, TxHash(ask, ask.nonce)>> \in s.approved}

\* One read per owner, each of some node.
ReadsApprovals(r) ==
  /\ asks[r].pc = "approvals"
  /\ \E approvals \in SUBSET Approvers(asks[r], settings) :
       /\ Approvers(asks[r], behindSettings) \subseteq approvals
       /\ asks' = [asks EXCEPT ![r].approvals = approvals, ![r].pc = "approve"]
  /\ UNCHANGED <<settings, behindSettings, executed, starts>>

\* approveHash, one key after the other, in whatever order the environment names them.
Approves(r) ==
  /\ asks[r].pc = "approve"
  /\ \E o \in asks[r].keys \ asks[r].approvals :
       /\ Serving!Land([settings EXCEPT !.approved = @ \cup {<<o, TxHash(asks[r], asks[r].nonce)>>}])
       /\ asks' = [asks EXCEPT ![r].approvals = @ \cup {o}]
  /\ UNCHANGED <<executed, starts>>

\* Too few: the hash is printed for a co-signer, and the approval waits on chain.
CountsApprovals(r) ==
  /\ asks[r].pc = "approve" /\ asks[r].keys \subseteq asks[r].approvals
  /\ Becomes(r, IF Cardinality(asks[r].approvals) < Threshold THEN "off" ELSE "execute")
  /\ UNCHANGED <<settings, behindSettings, executed, starts>>

\* Signatures go in the order of the owners, and the Safe checks the first Threshold of them.
Signers(approvals) == {o \in approvals : Cardinality({p \in approvals : p < o}) < Threshold}

\* The account a run sends from: OWNER_KEY's, which may be none of the owners.
Sender == {{}} \cup {{o} : o \in Owner}

\* The Safe hashes the call at its own nonce, and takes only approvals of that; who sends
\* it has approved it.
Executable(ask, s, sender) ==
  \A o \in Signers(ask.approvals) \ sender : <<o, TxHash(ask, s.nonce)>> \in s.approved

\* Defect for the checks: the receipt of the execution is not looked at.
AfterReceiptOf(success) == "confirm"

\* A receipt that says reverted is thrown.
AfterReceipt(success) == IF success THEN "confirm" ELSE "off"

\* The node that estimates it must see it succeed; the chain decides.
Executes(r) ==
  /\ asks[r].pc = "execute"
  /\ \E sender \in Sender :
       /\ \E s \in Serving!Served : Executable(asks[r], s, sender)
       /\ Becomes(r, AfterReceipt(Executable(asks[r], settings, sender)))
       /\ IF Executable(asks[r], settings, sender)
          THEN /\ Serving!Land([settings EXCEPT !.nonce = @ + 1, ![asks[r].setting] = asks[r].value])
               /\ executed' = Append(executed, [run |-> asks[r].run, hash |-> TxHash(asks[r], settings.nonce)])
          ELSE UNCHANGED <<settings, behindSettings, executed>>
  /\ UNCHANGED starts

\* waitUntil the value reads back.
ConfirmsChange(r) ==
  /\ asks[r].pc = "confirm"
  /\ \E s \in Serving!Served : s[asks[r].setting] = asks[r].value
  /\ Becomes(r, "done")
  /\ UNCHANGED <<settings, behindSettings, executed, starts>>

\* A read throws, an estimate fails, a wait runs out, or the command is stopped.
Aborts(r) == asks[r].pc \notin {"off", "done"} /\ Ends(r)

SafeSyncs == Serving!Sync /\ UNCHANGED <<asks, executed, starts>>

SafeNext ==
  \/ \E r \in Runner :
       \/ Starts(r) \/ ReadsState(r) \/ BuildsCall(r) \/ ReadsApprovals(r) \/ Approves(r)
       \/ CountsApprovals(r) \/ Executes(r) \/ ConfirmsChange(r) \/ Aborts(r)
  \/ SafeSyncs

SafeSpec == SafeInit /\ [][SafeNext]_safeVars
---------------------------------------------------------------------------
\* Whatever else was asked for meanwhile, of the same Safe or for the same value, a run
\* that reports its change confirmed executed that change itself: the explorer link it
\* prints is of a transaction that did something (safe.ts 182-186).  Not always at the
\* nonce it printed: approvals that another run gathered for the next one serve as well.
ConfirmedChangesAreTheRuns ==
  \A r \in Runner : asks[r].pc = "done" =>
    \E e \in Range(executed) :
      /\ e.run = asks[r].run
      /\ e.hash = TxHash(asks[r], e.hash.nonce)
=============================================================================
