----------------------------- MODULE NodeReads -----------------------------
(***************************************************************************)
(* Reading X Layer through its public RPC, a pool of nodes behind a load   *)
(* balancer (src/wallet.ts 97-104, D18): `head` is the chain, `behind` is  *)
(* what a node that has not caught up still serves.  Every read may reach  *)
(* either, so two reads of one function may see two different moments.     *)
(* One older state at a time is enough to be wrong.                        *)
(***************************************************************************)
VARIABLES
  head,     \* the state after the last transaction
  behind    \* the state the slowest node serves

Served == {head, behind}

ReadsInit(state) == head = state /\ behind = state

\* A transaction lands; the slow node does not have it.
Land(state) == head' = state /\ UNCHANGED behind

\* The slow node catches up.
Sync == behind # head /\ behind' = head /\ UNCHANGED head
=============================================================================
