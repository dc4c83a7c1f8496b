-------------------------- MODULE ReceiptRegistry --------------------------
(***************************************************************************)
(* contracts/ReceiptRegistry.sol: the append-only record of what settled.  *)
(* `receipts` holds receipt n at n + 1 with its fills in it; the list per  *)
(* mandate is derived from it.  The evidence strings and the block number  *)
(* are left out.                                                           *)
(***************************************************************************)
EXTENDS Integers, SequencesExt

VARIABLES
  receipts,   \* _receipts, each with its _fills
  isWriter    \* the accounts isWriter maps to true

registryVars == <<receipts, isWriter>>

RegistryInit(writers) == receipts = <<>> /\ isWriter = writers

AppendReceipt(caller, r) ==
  /\ caller \in isWriter
  /\ r.fills # <<>>
  /\ receipts' = receipts \o <<r>>
  /\ UNCHANGED isWriter

SetWriter(writer, allowed) ==
  /\ isWriter' = IF allowed THEN isWriter \cup {writer} ELSE isWriter \ {writer}
  /\ UNCHANGED receipts

---------------------------------------------------------------------------
(* Reading.                                                                *)

ReceiptsOf(id) == SelectSeq(receipts, LAMBDA r : r.mandateId = id)

FillsOf(id) == FlattenSeq([i \in DOMAIN ReceiptsOf(id) |-> ReceiptsOf(id)[i].fills])

\* Notional and notional-weighted slippage of a mandate's whole history.
Performance(id) ==
  LET notional == FoldLeft(LAMBDA sum, f : sum + f.amountInUsdg, 0, FillsOf(id))
      weighted == FoldLeft(LAMBDA sum, f : sum + f.amountInUsdg * f.slippageBps,
                           0, FillsOf(id))
  IN [totalNotionalUsdg |-> notional,
      weightedSlippageBps |-> IF notional = 0 THEN 0 ELSE weighted \div notional,
      fillCount |-> Len(FillsOf(id))]
=============================================================================
