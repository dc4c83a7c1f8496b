-------------------------- MODULE FairValueEngine --------------------------
(***************************************************************************)
(* What the off-chain engine makes of the issuer's quote for an asset      *)
(* (src/src/fairvalue.ts) and what the second opinion between the engine   *)
(* and the chain makes of the result (src/src/crosscheck.ts).              *)
(*                                                                         *)
(* A quote is the KIND of answer the issuer's book holds for the asset:    *)
(*   absent   the book does not carry it, or could not be fetched          *)
(*   shut     canQuote is false and bid and ask are null, read as zero     *)
(*   resting  canQuote is false but a bid and an ask still stand           *)
(*   halted   trading in the token is halted                               *)
(*   crossed  quoting, but bid, mid and ask do not cohere                  *)
(*   wide     quoting, with a spread past MAX_PLAUSIBLE_SPREAD_BPS         *)
(*   good     quoting a coherent market of plausible width                 *)
(* A quote with canQuote true in a session called `closed` is not among    *)
(* them. The price itself, the band, the basis and the gap score are left  *)
(* out.                                                                    *)
(***************************************************************************)

CONSTANTS
  Admitted,   \* assets whose reference the reconciliation test admitted
  Measured    \* assets with recorded open-gap statistics

Quote == {"absent", "shut", "resting", "halted", "crossed", "wide", "good"}

\* canQuote, not halted and a session that is not `closed`.
Quoting(q) == q \in {"crossed", "wide", "good"}

\* A mid above zero: bid and ask of null are Number(null), which is zero.
HasMid(q) == q \notin {"absent", "shut"}

\* computeFairValue and toOraclePayload: the report carries a value whenever
\* there is a quote at all, and is publishable for an admitted asset, not
\* halted, whose band is known: the spread while quoting, else the recorded
\* gaps. A quote of zero is still a quote, so the value can be zero.
HasValue(a, q) ==
  /\ q \notin {"absent", "halted"}
  /\ a \in Admitted
  /\ Quoting(q) \/ a \in Measured

\* The four checks; one without its evidence is skipped, and a skip passes.
\* `leaped` says the mid moved past max(8 sigma, 20%) of the last mark, `far`
\* that the pool trades more than 50% away from the value.
QuoteCoheres(q)    == q \notin {"shut", "crossed"}
SpreadPlausible(q) == q # "wide"
StepCheck(q, leaped)  == HasMid(q) => ~leaped
PoolCheck(value, far) == HasMid(value) => ~far

\* Defect for the checks: the quote's coherence is not looked at.
CrossCheckIncoherent(checked, from, leaped, far) ==
  /\ SpreadPlausible(checked)
  /\ StepCheck(checked, leaped)
  /\ PoolCheck(from, far)

\* crossCheck judges the book the cycle fetched first (`checked`), and the
\* value the engine computed from its own, possibly later, look (`from`).
CrossCheck(checked, from, leaped, far) ==
  /\ QuoteCoheres(checked)
  /\ SpreadPlausible(checked)
  /\ StepCheck(checked, leaped)
  /\ PoolCheck(from, far)

\* An item of publishMany: whether it carries a value, and which two looks at
\* the issuer stand behind it.
Withheld == [has |-> FALSE, checked |-> "absent", from |-> "absent"]

Item(a, checked, from, leaped, far) ==
  IF HasValue(a, from) /\ CrossCheck(checked, from, leaped, far)
  THEN [has |-> TRUE, checked |-> checked, from |-> from]
  ELSE Withheld

Items == [has : BOOLEAN, checked : Quote, from : Quote]

\* A value of zero: the contract reverts the whole batch on it.
Valueless(item) == item.has /\ item.from = "shut"
=============================================================================
