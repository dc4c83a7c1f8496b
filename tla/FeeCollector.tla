---------------------------- MODULE FeeCollector ----------------------------
(***************************************************************************)
(* contracts/FeeCollector.sol: the execution fee, bounded by a ceiling no  *)
(* admin can move, and who may change it.  The cash it holds is the token  *)
(* ledger's, in Executor; NoAddress is address(0).                         *)
(***************************************************************************)
EXTENDS Integers

CONSTANTS
  FeeAddress,    \* accounts that may call
  NoFeeAddress,
  MAX_FEE_BPS

VARIABLES feeBps, feeAdmin, treasury

feeVars == <<feeBps, feeAdmin, treasury>>

FeeInit ==
  /\ feeBps \in 0 .. MAX_FEE_BPS
  /\ feeAdmin \in FeeAddress
  /\ treasury \in FeeAddress

\* The fee on a notional, rounded down.
FeeOn(notional) == (notional * feeBps) \div 10000

SetFeeBps(caller, newFeeBps) ==
  /\ caller = feeAdmin
  /\ newFeeBps <= MAX_FEE_BPS
  /\ feeBps' = newFeeBps
  /\ UNCHANGED <<feeAdmin, treasury>>

SetTreasury(caller, newTreasury) ==
  /\ caller = feeAdmin
  /\ newTreasury # NoFeeAddress
  /\ treasury' = newTreasury
  /\ UNCHANGED <<feeBps, feeAdmin>>

SetFeeAdmin(caller, newAdmin) ==
  /\ caller = feeAdmin
  /\ newAdmin # NoFeeAddress
  /\ feeAdmin' = newAdmin
  /\ UNCHANGED <<feeBps, treasury>>

FeeNext ==
  \/ \E caller \in FeeAddress, bps \in {0, MAX_FEE_BPS, MAX_FEE_BPS + 1} : SetFeeBps(caller, bps)
  \/ \E caller \in FeeAddress, a \in FeeAddress \cup {NoFeeAddress} :
       SetTreasury(caller, a) \/ SetFeeAdmin(caller, a)
=============================================================================
