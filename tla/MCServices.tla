----------------------------- MODULE MCServices -----------------------------
(***************************************************************************)
(* Parts of the product that never touch each other, one of them a         *)
(* behaviour: the wallet store, a run's stream with its gate, the registry *)
(* index, and the roles.  The gate also stands alone, with more callers    *)
(* and more time than a stream needs.                                      *)
(***************************************************************************)
EXTENDS WalletStore, RunStream, Handover, RegistryIndex

CONSTANTS
  GateCaller,   \* callers of the gate alone
  GateTime      \* its bound on time

VARIABLE scene

Alone == INSTANCE Gate WITH Caller <- GateCaller, MaxTime <- GateTime

Init ==
  /\ scene \in {"wallet", "gate", "stream", "index", "roles"}
  /\ WalletInit
  /\ presses = 0 /\ open = {} /\ running = FALSE
  /\ server = [r \in Request |-> Idle] /\ wire = [r \in Request |-> <<>>]
  /\ IF scene = "gate" THEN Alone!GateInit ELSE GateInit
  /\ tip = <<>> /\ behindTip = <<>> /\ store = <<>> /\ ragged = FALSE /\ mishaps = 0
  /\ run = [NoRun EXCEPT !.pc = IF scene = "index" THEN @ ELSE "parked"]
  /\ HandoverInit /\ (scene # "roles" => target = "mainnet")

Next ==
  /\ UNCHANGED scene
  /\ \/ scene = "wallet" /\ WalletNext /\ UNCHANGED <<streamVars, indexVars, handoverVars>>
     \/ scene = "gate" /\ Alone!GateNext
        /\ UNCHANGED <<presses, open, running, server, wire, walletVars, indexVars, handoverVars>>
     \/ scene = "stream" /\ StreamNext /\ UNCHANGED <<walletVars, indexVars, handoverVars>>
     \/ scene = "index" /\ IndexNext /\ UNCHANGED <<walletVars, streamVars, handoverVars>>
     \/ scene = "roles" /\ HandoverNext /\ UNCHANGED <<walletVars, streamVars, indexVars>>

Spec ==
  /\ Init
  /\ [][Next]_<<scene, walletVars, streamVars, indexVars, handoverVars>>
  /\ StreamFairness /\ IndexFairness
=============================================================================
