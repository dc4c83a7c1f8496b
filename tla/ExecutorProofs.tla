--------------------------- MODULE ExecutorProofs ---------------------------
(*****************************************************************************)
(* The money and the record, for every batch, permit, pool and fee: the      *)
(* executor holds nothing between two transactions, an owner's wallet is     *)
(* what the receipts and the fee events replay to, and nothing leaves it but *)
(* under a signature that names it.                                          *)
(*                                                                           *)
(* The inductive invariant says of each owner that the balances are the      *)
(* initial ones, less what the receipts say was paid and sold and the fees,  *)
(* plus what they say was earned and bought.  A trade moves both sides by    *)
(* its fills; the fills are the legs with what the pools paid because a      *)
(* pool that leaves something unspent makes the whole call revert.           *)
(*                                                                           *)
(* And the page that shows the receipts: what it claims of a thesis and the  *)
(* figures it makes of the fills are those of the chain, because whatever a  *)
(* node serves is a beginning of a chain that is in order of time.           *)
(*                                                                           *)
(* And the plans that lead there: while nothing moves a plan would settle,   *)
(* and a sale settles near what it was measured to be worth, because the     *)
(* order carries what was read and its floor leaves room for the fee only.   *)
(*****************************************************************************)
EXTENDS Executor, TrackRecord, OrderPlan, PolicyGuardProofs

---------------------------------------------------------------------------
(* Totals.                                                                 *)

\* A total of integers is an integer, and the sum over its domain.
LEMMA TotalInt ==
  ASSUME NEW D, IsFiniteSet(D), NEW f \in [D -> Int]
  PROVE  Total(f) \in Int /\ Total(f) = SumFunctionOnSet(f, D)
<1>1. Total(f) = SumFunctionOnSet(f, D)
  BY DEF Total, SumFunction
<1>2. QED
  BY <1>1, SumIsInt

\* A total of naturals is a natural.
LEMMA TotalNat ==
  ASSUME NEW D, IsFiniteSet(D), NEW f \in [D -> Nat]
  PROVE  Total(f) \in Nat
<1>1. Total(f) = SumFunctionOnSet(f, D)
  BY DEF Total, SumFunction
<1>2. QED
  BY <1>1, SumIsNat

\* A total grows with its summands.
LEMMA TotalGrows ==
  ASSUME NEW D, IsFiniteSet(D), NEW f \in [D -> Int], NEW g \in [D -> Int], \A i \in D : f[i] <= g[i]
  PROVE  Total(f) <= Total(g)
<1>1. SumFunctionOnSet(f, D) <= SumFunctionOnSet(g, D)
  BY SumGrows
<1>2. QED
  BY <1>1, TotalInt

\* Zeros total 0.
LEMMA TotalOfNoughts ==
  ASSUME NEW D, IsFiniteSet(D), NEW f \in [D -> Int], \A i \in D : f[i] = 0
  PROVE  Total(f) = 0
<1>1. SumFunctionOnSet(f, D) = 0
  BY SumOfNoughts
<1>2. QED
  BY <1>1, TotalInt

\* The total of sums is the sum of the totals.
LEMMA TotalOfSums ==
  ASSUME NEW D, IsFiniteSet(D), NEW f \in [D -> Int], NEW g \in [D -> Int], NEW h \in [D -> Int],
         \A i \in D : h[i] = f[i] + g[i]
  PROVE  Total(h) = Total(f) + Total(g)
<1>1. SumFunctionOnSet(h, D) = SumFunctionOnSet(f, D) + SumFunctionOnSet(g, D)
  BY SumOfSums
<1>2. QED
  BY <1>1, TotalInt

\* One more addend at the end of a list.
LEMMA TotalMore ==
  ASSUME NEW n \in Nat, NEW f \in [1 .. n -> Int], NEW g \in [1 .. n + 1 -> Int],
         \A i \in 1 .. n : g[i] = f[i]
  PROVE  Total(g) = Total(f) + g[n + 1]
<1>1. IsFiniteSet(1 .. n) /\ IsFiniteSet(1 .. n + 1) /\ n + 1 \notin 1 .. n
      /\ 1 .. n + 1 = (1 .. n) \cup {n + 1}
  <2>1. IsFiniteSet(1 .. n) /\ IsFiniteSet(1 .. n + 1)
    BY FS_Interval
  <2>2. n + 1 \notin 1 .. n /\ 1 .. n + 1 = (1 .. n) \cup {n + 1}
    OBVIOUS
  <2>3. QED
    BY <2>1, <2>2
<1>2. SumFunctionOnSet(g, 1 .. n) = SumFunctionOnSet(f, 1 .. n)
  <2>1. \A i \in 1 .. n : g[i] \in Int /\ g[i] = f[i]
    OBVIOUS
  <2>2. QED
    BY <1>1, <2>1, SumOfTheSame
<1>3. PICK k : k = n + 1
  OBVIOUS
<1>4. g[k] \in Int /\ \A i \in 1 .. n : g[i] \in Int
  BY <1>3
<1>5. SumFunctionOnSet(g, (1 .. n) \cup {k}) = SumFunctionOnSet(g, 1 .. n) + g[k]
  BY <1>1, <1>3, <1>4, SumWith
<1>6. Total(g) = SumFunctionOnSet(g, 1 .. n + 1) /\ Total(f) = SumFunctionOnSet(f, 1 .. n)
  BY <1>1, TotalInt
<1>7. QED
  BY <1>1, <1>2, <1>3, <1>5, <1>6

\* A batch's legs are finitely many.
LEMMA LegsAreFinite ==
  ASSUME NEW n, NEW S, NEW legs \in UpTo(n, S)
  PROVE  IsFiniteSet(DOMAIN legs) /\ legs \in [DOMAIN legs -> S]
         /\ \E k \in Nat : DOMAIN legs = 1 .. k /\ Len(legs) = k /\ k # 0
<1>1. PICK k \in 1 .. n : legs \in [1 .. k -> S]
  BY DEF UpTo
<1>2. k \in Nat /\ k # 0 /\ DOMAIN legs = 1 .. k /\ Len(legs) = k
  BY <1>1
<1>3. QED
  BY <1>1, <1>2, FS_Interval

\* The fee on an amount is no more than the amount.
LEMMA FeeIsWithin ==
  ASSUME feeBps \in 0 .. MAX_FEE_BPS, NEW n \in Nat
  PROVE  FeeOn(n) \in Nat /\ FeeOn(n) <= n
<1>1. PICK b \in Nat : b = feeBps /\ b <= 10000
  BY ExecutorAssumption
<1>2. PICK x : x = n * b
  OBVIOUS
<1>3. x \in Nat
  BY <1>1, <1>2
<1>4. x <= n * 10000
  BY <1>1, <1>2
<1>5. x \div 10000 \in Nat /\ x \div 10000 <= n
  BY <1>3, <1>4
<1>6. QED
  BY <1>1, <1>2, <1>5 DEF FeeOn

---------------------------------------------------------------------------
(* The shape of the ledgers.                                               *)

Owned ==
  /\ IsSequence(mandates)
  /\ \A id \in DOMAIN mandates : "owner" \in DOMAIN mandates[id] /\ mandates[id].owner \in Account

Ledgers ==
  /\ purse \in [Holder -> Nat]
  /\ units \in [Holder -> [Asset -> Nat]]
  /\ DOMAIN usedNonces = Account
  /\ feeBps \in 0 .. MAX_FEE_BPS
  /\ treasury \in FeeAddress
  /\ ExecutorHoldsNothing

\* Who holds what is not confused.
LEMMA Holders ==
  /\ This \in Holder /\ Collector \in Holder /\ Market \in Holder
  /\ \A o \in Account \cup FeeAddress : o \in Holder /\ o # This /\ o # Collector /\ o # Market
  /\ This # Collector /\ This # Market /\ Collector # Market
BY ExecutorAssumption DEF Holder

\* The amounts of a batch are numbers.
LEMMA EntryAmounts ==
  ASSUME Ledgers, NEW legs \in UpTo(MAX_LEGS, Leg),
         NEW outs \in [DOMAIN legs -> PoolOut], NEW unspent \in [DOMAIN legs -> Shortfall]
  PROVE  LET amounts == [i \in DOMAIN legs |-> legs[i].amountInUsdg]
             fees == [i \in DOMAIN legs |-> FeeOn(legs[i].amountInUsdg)]
         IN /\ IsFiniteSet(DOMAIN legs)
            /\ amounts \in [DOMAIN legs -> Nat] /\ fees \in [DOMAIN legs -> Nat]
            /\ unspent \in [DOMAIN legs -> Nat] /\ outs \in [DOMAIN legs -> Nat]
            /\ \A i \in DOMAIN legs : legs[i].asset \in Asset
            /\ Total(amounts) \in Nat /\ Total(fees) \in Nat /\ Total(fees) <= Total(amounts)
            /\ Total(unspent) \in Nat
<1> DEFINE amounts == [i \in DOMAIN legs |-> legs[i].amountInUsdg]
           fees == [i \in DOMAIN legs |-> FeeOn(legs[i].amountInUsdg)]
<1>1. IsFiniteSet(DOMAIN legs) /\ legs \in [DOMAIN legs -> Leg]
  BY LegsAreFinite
<1>2. \A i \in DOMAIN legs : legs[i].asset \in Asset /\ legs[i].amountInUsdg \in Nat
  <2>1. \A leg \in Leg : leg.asset \in Asset /\ leg.amountInUsdg \in Nat
    BY ExecutorAssumption
  <2>2. QED
    BY <1>1, <2>1
<1>3. \A i \in DOMAIN legs : FeeOn(legs[i].amountInUsdg) \in Nat
                              /\ FeeOn(legs[i].amountInUsdg) <= legs[i].amountInUsdg
  BY <1>2, FeeIsWithin DEF Ledgers
<1>4. amounts \in [DOMAIN legs -> Nat] /\ fees \in [DOMAIN legs -> Nat]
      /\ unspent \in [DOMAIN legs -> Nat] /\ outs \in [DOMAIN legs -> Nat]
  <2>1. PoolOut \subseteq Nat /\ Shortfall \subseteq Nat
    BY ExecutorAssumption
  <2>2. amounts \in [DOMAIN legs -> Nat] /\ fees \in [DOMAIN legs -> Nat]
    BY <1>2, <1>3
  <2>3. outs \in [DOMAIN legs -> Nat]
    BY <2>1
  <2>4. unspent \in [DOMAIN legs -> Nat]
    BY <2>1
  <2>5. QED
    BY <2>2, <2>3, <2>4
<1>5. Total(amounts) \in Nat /\ Total(fees) \in Nat /\ Total(unspent) \in Nat
  <2> HIDE DEF amounts, fees
  <2>1. QED
    BY <1>1, <1>4, TotalNat
<1>6. Total(fees) <= Total(amounts)
  <2>1. amounts \in [DOMAIN legs -> Int] /\ fees \in [DOMAIN legs -> Int]
    BY <1>4
  <2>2. \A i \in DOMAIN legs : fees[i] <= amounts[i]
    BY <1>3
  <2> HIDE DEF amounts, fees
  <2>3. QED
    BY <1>1, <2>1, <2>2, TotalGrows
<1>7. QED
  BY <1>1, <1>2, <1>4, <1>5, <1>6

\* What an exit sells, pays and leaves, and its fees, are natural numbers leg by leg.
LEMMA ExitAmounts ==
  ASSUME Ledgers, NEW legs \in UpTo(MAX_LEGS, ExitLeg),
         NEW outs \in [DOMAIN legs -> PoolOut], NEW unspent \in [DOMAIN legs -> Shortfall]
  PROVE  LET sold == [i \in DOMAIN legs |-> legs[i].amountIn]
             fees == [i \in DOMAIN outs |-> FeeOn(outs[i])]
         IN /\ IsFiniteSet(DOMAIN legs) /\ DOMAIN outs = DOMAIN legs
            /\ sold \in [DOMAIN legs -> Nat] /\ fees \in [DOMAIN legs -> Nat]
            /\ unspent \in [DOMAIN legs -> Nat] /\ outs \in [DOMAIN legs -> Nat]
            /\ \A i \in DOMAIN legs : legs[i].asset \in Asset
            /\ Total(outs) \in Nat /\ Total(fees) \in Nat /\ Total(fees) <= Total(outs)
<1> DEFINE sold == [i \in DOMAIN legs |-> legs[i].amountIn]
           fees == [i \in DOMAIN outs |-> FeeOn(outs[i])]
<1>1. IsFiniteSet(DOMAIN legs) /\ legs \in [DOMAIN legs -> ExitLeg] /\ DOMAIN outs = DOMAIN legs
  BY LegsAreFinite
<1>2. \A i \in DOMAIN legs : legs[i].asset \in Asset /\ legs[i].amountIn \in Nat
  <2>1. \A leg \in ExitLeg : leg.asset \in Asset /\ leg.amountIn \in Nat
    BY ExecutorAssumption
  <2>2. QED
    BY <1>1, <2>1
<1>3. outs \in [DOMAIN legs -> Nat] /\ unspent \in [DOMAIN legs -> Nat]
  <2>1. PoolOut \subseteq Nat /\ Shortfall \subseteq Nat
    BY ExecutorAssumption
  <2>2. outs \in [DOMAIN legs -> Nat]
    BY <2>1
  <2>3. unspent \in [DOMAIN legs -> Nat]
    BY <2>1
  <2>4. QED
    BY <2>2, <2>3
<1>4. \A i \in DOMAIN legs : FeeOn(outs[i]) \in Nat /\ FeeOn(outs[i]) <= outs[i]
  BY <1>3, FeeIsWithin DEF Ledgers
<1>5. sold \in [DOMAIN legs -> Nat] /\ fees \in [DOMAIN legs -> Nat]
  BY <1>1, <1>2, <1>4
<1>6. Total(outs) \in Nat /\ Total(fees) \in Nat
  <2> HIDE DEF fees
  <2>1. QED
    BY <1>1, <1>3, <1>5, TotalNat
<1>7. Total(fees) <= Total(outs)
  <2>1. outs \in [DOMAIN legs -> Int] /\ fees \in [DOMAIN legs -> Int]
    BY <1>3, <1>5
  <2>2. \A i \in DOMAIN legs : fees[i] <= outs[i]
    BY <1>1, <1>4
  <2> HIDE DEF fees
  <2>3. QED
    BY <1>1, <2>1, <2>2, TotalGrows
<1>8. QED
  BY <1>1, <1>2, <1>3, <1>5, <1>6, <1>7

\* What a batch moves of each asset is a number, no larger where every amount is.
LEMMA MovedOf ==
  ASSUME NEW D, IsFiniteSet(D), NEW legs, DOMAIN legs = D, NEW f \in [D -> Nat], NEW a
  PROVE  TotalOf(legs, f, a) \in Nat
<1> DEFINE g == [i \in DOMAIN legs |-> IF legs[i].asset = a THEN f[i] ELSE 0]
<1>1. g \in [D -> Nat]
  OBVIOUS
<1>2. Total(g) \in Nat
  <2> HIDE DEF g
  <2>1. QED
    BY <1>1, TotalNat
<1>3. QED
  BY <1>2 DEF TotalOf

\* What a batch moves of an asset grows with what its legs move.
LEMMA MovedGrows ==
  ASSUME NEW D, IsFiniteSet(D), NEW legs, DOMAIN legs = D, NEW f \in [D -> Nat], NEW e \in [D -> Nat],
         \A i \in D : f[i] <= e[i], NEW a
  PROVE  TotalOf(legs, f, a) <= TotalOf(legs, e, a)
<1> DEFINE g == [i \in DOMAIN legs |-> IF legs[i].asset = a THEN f[i] ELSE 0]
           h == [i \in DOMAIN legs |-> IF legs[i].asset = a THEN e[i] ELSE 0]
<1>1. g \in [D -> Int] /\ h \in [D -> Int] /\ \A i \in D : g[i] <= h[i]
  OBVIOUS
<1>2. Total(g) <= Total(h)
  <2> HIDE DEF g, h
  <2>1. QED
    BY <1>1, TotalGrows
<1>3. QED
  BY <1>2 DEF TotalOf

\* A batch moves nothing of an asset no leg names.
LEMMA NoneMoved ==
  ASSUME NEW D, IsFiniteSet(D), NEW legs, DOMAIN legs = D, NEW f \in [D -> Nat],
         NEW a, \A i \in D : legs[i].asset # a
  PROVE  TotalOf(legs, f, a) = 0
<1> DEFINE g == [i \in DOMAIN legs |-> IF legs[i].asset = a THEN f[i] ELSE 0]
<1>1. g \in [D -> Int] /\ \A i \in D : g[i] = 0
  OBVIOUS
<1>2. Total(g) = 0
  <2> HIDE DEF g
  <2>1. QED
    BY <1>1, TotalOfNoughts
<1>3. QED
  BY <1>2 DEF TotalOf

---------------------------------------------------------------------------
(* The two trades, as moves between ledgers.                               *)

\* What an entry does to the wallets: exactly its amounts go, and nothing is left behind.
EntrySettled(id, legs, outs) ==
  LET o == mandates[id].owner
      spent == Total([i \in DOMAIN legs |-> legs[i].amountInUsdg])
  IN /\ purse' \in [Holder -> Nat] /\ units' \in [Holder -> [Asset -> Nat]]
     /\ ExecutorHoldsNothing'
     /\ purse'[o] = purse[o] - spent
     /\ \A a \in Asset : units'[o][a] = units[o][a] + TotalOf(legs, outs, a)
     /\ \A h \in Account : h # o => purse'[h] = purse[h] /\ units'[h] = units[h]
     /\ spent \in Nat
     /\ \A a \in Asset : TotalOf(legs, outs, a) \in Nat

\* An entry takes exactly its amounts from the owner.
LEMMA EntryMoves ==
  ASSUME Ledgers, Owned, NEW caller, NEW id \in DOMAIN mandates, NEW permit \in Permit,
         NEW legs \in UpTo(MAX_LEGS, Leg),
         NEW outs \in [DOMAIN legs -> PoolOut], NEW unspent \in [DOMAIN legs -> Shortfall],
         Execute(caller, id, legs, permit, outs, unspent)
  PROVE  EntrySettled(id, legs, outs)
<1>1. PICK o : o = mandates[id].owner /\ o \in Account
  BY DEF Owned
<1>2. o \in Holder /\ o # This /\ o # Collector /\ o # Market
  BY <1>1, Holders
<1>3. PICK spent, fees, kept :
        /\ spent = Total([i \in DOMAIN legs |-> legs[i].amountInUsdg])
        /\ fees = Total([i \in DOMAIN legs |-> FeeOn(legs[i].amountInUsdg)])
        /\ kept = Total(unspent)
  OBVIOUS
<1>4. spent \in Nat /\ fees \in Nat /\ fees <= spent /\ kept \in Nat
  BY <1>3, EntryAmounts
<1>5. purse' = [purse EXCEPT ![o] = purse[o] - spent, ![Collector] = purse[Collector] + fees,
                             ![This] = purse[This] + kept, ![Market] = purse[Market] + spent - fees - kept]
  <2>1. purse' = CashAfterEntry(o, legs, unspent)
    BY <1>1 DEF Execute
  <2>2. purse' = [purse EXCEPT ![o] = @ - spent, ![Collector] = @ + fees,
                               ![This] = @ + kept, ![Market] = @ + spent - fees - kept]
    BY <1>3, <2>1 DEF CashAfterEntry
  <2>3. QED
    BY <1>2, <2>2, Holders DEF Ledgers
<1>6. /\ purse'[o] = purse[o] - spent /\ purse'[Collector] = purse[Collector] + fees
      /\ purse'[This] = purse[This] + kept /\ purse'[Market] = purse[Market] + spent - fees - kept
      /\ \A h \in Holder : h \notin {o, Collector, This, Market} => purse'[h] = purse[h]
      /\ purse' = [h \in Holder |-> purse'[h]]
  BY <1>2, <1>5, Holders DEF Ledgers
<1>7. purse'[This] = 0 /\ spent <= purse[o]
  BY <1>1, <1>3 DEF Execute, NoResidue
<1>8. /\ purse[o] \in Nat /\ purse[Collector] \in Nat /\ purse[This] = 0 /\ purse[Market] \in Nat
      /\ \A h \in Holder : purse[h] \in Nat
  BY <1>2, Holders DEF Ledgers, ExecutorHoldsNothing
<1>9. kept = 0
  BY <1>4, <1>6, <1>7, <1>8
<1>10. purse'[o] \in Nat /\ purse'[Collector] \in Nat /\ purse'[Market] \in Nat
  BY <1>4, <1>6, <1>7, <1>8, <1>9
<1>11. purse' \in [Holder -> Nat]
  <2>1. \A h \in Holder : purse'[h] \in Nat
    BY <1>6, <1>7, <1>8, <1>10
  <2>2. QED
    BY <1>6, <2>1
<1>12. units' = [units EXCEPT ![o] = [a \in Asset |-> units[o][a] + TotalOf(legs, outs, a)],
                              ![Market] = [a \in Asset |-> units[Market][a] - TotalOf(legs, outs, a)]]
  <2>1. units' = UnitsAfterEntry(o, legs, outs)
    BY <1>1 DEF Execute
  <2>2. QED
    BY <1>2, <2>1, Holders DEF Ledgers, UnitsAfterEntry
<1>13. /\ units'[o] = [a \in Asset |-> units[o][a] + TotalOf(legs, outs, a)]
       /\ units'[Market] = [a \in Asset |-> units[Market][a] - TotalOf(legs, outs, a)]
       /\ \A h \in Holder : h \notin {o, Market} => units'[h] = units[h]
       /\ units' = [h \in Holder |-> units'[h]]
  BY <1>2, <1>12, Holders DEF Ledgers
<1>14. \A a \in Asset : TotalOf(legs, outs, a) \in Nat
  BY EntryAmounts, MovedOf
<1>15. \A a \in Asset : TotalOf(legs, outs, a) <= units[Market][a]
  BY DEF Execute
<1>16. \A h \in Holder : \A a \in Asset : units[h][a] \in Nat
  BY DEF Ledgers
<1>17. units' \in [Holder -> [Asset -> Nat]]
  <2>1. units'[o] \in [Asset -> Nat]
    BY <1>2, <1>13, <1>14, <1>16
  <2>2. units'[Market] \in [Asset -> Nat]
    <3>1. \A a \in Asset : units[Market][a] - TotalOf(legs, outs, a) \in Nat
      BY <1>14, <1>15, <1>16, Holders
    <3>2. QED
      BY <1>13, <3>1
  <2>3. \A h \in Holder : h \notin {o, Market} => units'[h] \in [Asset -> Nat]
    BY <1>13 DEF Ledgers
  <2>4. QED
    BY <1>13, <2>1, <2>2, <2>3
<1>18. ExecutorHoldsNothing'
  BY <1>2, <1>7, <1>13, Holders DEF Ledgers, ExecutorHoldsNothing
<1>19. \A h \in Account : h # o => purse'[h] = purse[h] /\ units'[h] = units[h]
  BY <1>6, <1>13, Holders
<1>20. QED
  BY <1>1, <1>3, <1>4, <1>6, <1>11, <1>13, <1>14, <1>17, <1>18, <1>19 DEF EntrySettled

\* What an exit sells, leg by leg, and the fees on what it earns.
SoldIn(legs) == [i \in DOMAIN legs |-> legs[i].amountIn]
FeesOn(outs) == Total([i \in DOMAIN outs |-> FeeOn(outs[i])])

\* An exit takes exactly what it sells, and gives the owner what is left of the fee.
ExitSettled(id, legs, outs) ==
  LET o == mandates[id].owner
      sold == SoldIn(legs)
      gain == Total(outs)
      fees == FeesOn(outs)
  IN /\ purse' \in [Holder -> Nat] /\ units' \in [Holder -> [Asset -> Nat]]
     /\ ExecutorHoldsNothing'
     /\ purse'[o] = purse[o] + gain - fees
     /\ \A a \in Asset : units'[o][a] = units[o][a] - TotalOf(legs, sold, a)
     /\ \A h \in Account : h # o => purse'[h] = purse[h] /\ units'[h] = units[h]
     /\ gain \in Nat /\ fees \in Nat /\ fees <= gain
     /\ \A a \in Asset : TotalOf(legs, sold, a) \in Nat

\* An exit pays its owner the proceeds less the fees, and takes the units it names.
LEMMA ExitMoves ==
  ASSUME Ledgers, Owned, NEW caller, NEW id \in DOMAIN mandates, NEW permit \in Permit,
         NEW legs \in UpTo(MAX_LEGS, ExitLeg),
         NEW outs \in [DOMAIN legs -> PoolOut], NEW unspent \in [DOMAIN legs -> Shortfall],
         ExitPositions(caller, id, legs, permit, outs, unspent)
  PROVE  ExitSettled(id, legs, outs)
<1>1. PICK o : o = mandates[id].owner /\ o \in Account
  BY DEF Owned
<1>2. o \in Holder /\ o # This /\ o # Collector /\ o # Market
  BY <1>1, Holders
<1>3. PICK sold, gain, fees :
        /\ sold = SoldIn(legs) /\ sold = [i \in DOMAIN legs |-> legs[i].amountIn]
        /\ gain = Total(outs)
        /\ fees = FeesOn(outs) /\ fees = Total([i \in DOMAIN outs |-> FeeOn(outs[i])])
  BY DEF SoldIn, FeesOn
<1>4. gain \in Nat /\ fees \in Nat /\ fees <= gain
  BY <1>3, ExitAmounts
<1>5. purse' = [purse EXCEPT ![o] = purse[o] + gain - fees, ![Collector] = purse[Collector] + fees,
                             ![Market] = purse[Market] - gain]
  <2>1. purse' = CashAfterExit(o, outs)
    BY <1>1 DEF ExitPositions
  <2>2. purse' = [purse EXCEPT ![o] = @ + gain - fees, ![Collector] = @ + fees, ![Market] = @ - gain]
    BY <1>3, <2>1 DEF CashAfterExit
  <2>3. QED
    BY <1>2, <2>2, Holders DEF Ledgers
<1>6. /\ purse'[o] = purse[o] + gain - fees /\ purse'[Collector] = purse[Collector] + fees
      /\ purse'[Market] = purse[Market] - gain
      /\ \A h \in Holder : h \notin {o, Collector, Market} => purse'[h] = purse[h]
      /\ purse' = [h \in Holder |-> purse'[h]]
  BY <1>2, <1>5, Holders DEF Ledgers
<1>7. gain <= purse[Market]
  BY <1>3 DEF ExitPositions, ExitRuns
<1>8. \A h \in Holder : purse[h] \in Nat
  BY DEF Ledgers
<1>9. purse'[o] \in Nat /\ purse'[Collector] \in Nat /\ purse'[Market] \in Nat
  <2>1. purse[o] \in Nat /\ purse[Collector] \in Nat /\ purse[Market] \in Nat
    BY <1>2, <1>8, Holders
  <2>2. QED
    BY <1>4, <1>6, <1>7, <2>1
<1>10. purse' \in [Holder -> Nat]
  <2>1. \A h \in Holder : purse'[h] \in Nat
    BY <1>6, <1>8, <1>9
  <2>2. QED
    BY <1>6, <2>1
<1>11. units' = [units EXCEPT
                   ![o] = [a \in Asset |-> units[o][a] - TotalOf(legs, sold, a)],
                   ![This] = [a \in Asset |-> units[This][a] + TotalOf(legs, unspent, a)],
                   ![Market] = [a \in Asset |-> units[Market][a] + TotalOf(legs, sold, a)
                                                                 - TotalOf(legs, unspent, a)]]
  <2>1. units' = UnitsAfterExit(o, legs, unspent)
    BY <1>1 DEF ExitPositions
  <2>2. QED
    BY <1>2, <1>3, <2>1, Holders DEF Ledgers, UnitsAfterExit
<1>12. /\ units'[o] = [a \in Asset |-> units[o][a] - TotalOf(legs, sold, a)]
       /\ units'[This] = [a \in Asset |-> units[This][a] + TotalOf(legs, unspent, a)]
       /\ units'[Market] = [a \in Asset |-> units[Market][a] + TotalOf(legs, sold, a)
                                                              - TotalOf(legs, unspent, a)]
       /\ \A h \in Holder : h \notin {o, This, Market} => units'[h] = units[h]
       /\ units' = [h \in Holder |-> units'[h]]
  BY <1>2, <1>11, Holders DEF Ledgers
<1>13. /\ IsFiniteSet(DOMAIN legs)
       /\ sold \in [DOMAIN legs -> Nat] /\ unspent \in [DOMAIN legs -> Nat]
       /\ \A i \in DOMAIN legs : legs[i].asset \in Asset
  BY <1>3, ExitAmounts
<1>14. \A i \in DOMAIN legs : unspent[i] <= sold[i]
  <2>1. \A i \in DOMAIN legs : unspent[i] < sold[i]
    BY <1>3 DEF ExitPositions, ExitRuns
  <2>2. QED
    BY <1>13, <2>1
<1>15. \A a \in Asset : /\ TotalOf(legs, sold, a) \in Nat /\ TotalOf(legs, unspent, a) \in Nat
                         /\ TotalOf(legs, unspent, a) <= TotalOf(legs, sold, a)
  BY <1>13, <1>14, MovedOf, MovedGrows
<1>16. \A a \in Asset : TotalOf(legs, sold, a) <= units[o][a]
  BY <1>1, <1>3 DEF ExitPositions, ExitRuns
<1>17. \A h \in Holder : \A a \in Asset : units[h][a] \in Nat
  BY DEF Ledgers
<1>18. ASSUME NEW a \in Asset PROVE units'[This][a] = 0
  <2>1. CASE \E i \in DOMAIN legs : legs[i].asset = a
    BY <2>1 DEF ExitPositions, NoResidue
  <2>2. CASE \A i \in DOMAIN legs : legs[i].asset # a
    <3>1. TotalOf(legs, unspent, a) = 0
      BY <1>13, <2>2, NoneMoved
    <3>2. units[This][a] = 0
      BY DEF Ledgers, ExecutorHoldsNothing
    <3>3. QED
      BY <1>12, <3>1, <3>2
  <2>3. QED
    BY <2>1, <2>2
<1>19. units' \in [Holder -> [Asset -> Nat]]
  <2>1. units'[o] \in [Asset -> Nat]
    <3>1. \A a \in Asset : units[o][a] - TotalOf(legs, sold, a) \in Nat
      BY <1>2, <1>15, <1>16, <1>17
    <3>2. QED
      BY <1>12, <3>1
  <2>2. units'[This] \in [Asset -> Nat]
    <3>1. ASSUME NEW a \in Asset PROVE units[This][a] + TotalOf(legs, unspent, a) \in Nat
      <4>1. units[This][a] \in Nat /\ TotalOf(legs, unspent, a) \in Nat
        BY <1>15, <1>17, Holders
      <4>2. QED
        BY <4>1
    <3>2. QED
      BY <1>12, <3>1
  <2>3. units'[Market] \in [Asset -> Nat]
    <3>1. \A a \in Asset : units[Market][a] + TotalOf(legs, sold, a) - TotalOf(legs, unspent, a) \in Nat
      <4> SUFFICES ASSUME NEW a \in Asset
                   PROVE  units[Market][a] + TotalOf(legs, sold, a) - TotalOf(legs, unspent, a) \in Nat
        OBVIOUS
      <4>1. PICK x, y, z : x = units[Market][a] /\ y = TotalOf(legs, sold, a) /\ z = TotalOf(legs, unspent, a)
        OBVIOUS
      <4>2. x \in Nat /\ y \in Nat /\ z \in Nat /\ z <= y
        BY <1>15, <1>17, <4>1, Holders
      <4>3. x + y - z \in Nat
        BY <4>2
      <4>4. QED
        BY <4>1, <4>3
    <3>2. QED
      BY <1>12, <3>1
  <2>4. \A h \in Holder : h \notin {o, This, Market} => units'[h] \in [Asset -> Nat]
    BY <1>12 DEF Ledgers
  <2>5. QED
    BY <1>12, <2>1, <2>2, <2>3, <2>4
<1>20. ExecutorHoldsNothing'
  <2>1. purse'[This] = 0
    BY <1>2, <1>6, Holders DEF Ledgers, ExecutorHoldsNothing
  <2>2. QED
    BY <1>18, <2>1 DEF ExecutorHoldsNothing
<1>21. \A h \in Account : h # o => purse'[h] = purse[h] /\ units'[h] = units[h]
  BY <1>6, <1>12, Holders
<1>22. \A a \in Asset : units'[o][a] = units[o][a] - TotalOf(legs, sold, a)
  BY <1>12
<1>23. QED
  BY <1>1, <1>3, <1>4, <1>6, <1>10, <1>15, <1>19, <1>20, <1>21, <1>22 DEF ExitSettled

---------------------------------------------------------------------------
(* The record.                                                             *)

\* No step takes a mandate away or gives it another owner.
OwnersStay == \A id \in DOMAIN mandates : id \in DOMAIN mandates' /\ mandates'[id].owner = mandates[id].owner

\* What a receipt adds up to, in numbers.
Tallied(r) ==
  \A exit \in BOOLEAN : CashIn(r, exit) \in Int /\ \A a \in Asset : UnitsIn(r, exit, a) \in Int

Recorded ==
  /\ IsSequence(receipts)
  /\ IsSequence(feeEvents)
  /\ \A i \in DOMAIN receipts : receipts[i].mandateId \in DOMAIN mandates /\ Tallied(receipts[i])
  /\ \A i \in DOMAIN feeEvents : feeEvents[i].mandateId \in DOMAIN mandates /\ Total(feeEvents[i].fees) \in Int

\* An owner's own part of a new entry.
Share(o, id, n) == IF mandates[id].owner = o THEN n ELSE 0

\* One receipt more adds its cash to its owner's and to nobody else's.
LEMMA CashMore ==
  ASSUME Recorded, OwnersStay, NEW r, receipts' = receipts \o <<r>>,
         r.mandateId \in DOMAIN mandates, Tallied(r), NEW o, NEW exit \in BOOLEAN
  PROVE  /\ CashRecorded(o, exit) \in Int
         /\ CashRecorded(o, exit)' = CashRecorded(o, exit) + Share(o, r.mandateId, CashIn(r, exit))
<1> DEFINE f == [i \in DOMAIN receipts |-> IF OwnerOf(receipts[i]) = o THEN CashIn(receipts[i], exit) ELSE 0]
           g == [i \in DOMAIN receipts' |->
                   IF mandates'[receipts'[i].mandateId].owner = o THEN CashIn(receipts'[i], exit) ELSE 0]
<1>1. PICK S : receipts \in Seq(S)
  BY DEF Recorded, IsSequence
<1>2. receipts \in Seq(S \cup {r}) /\ r \in S \cup {r}
  BY <1>1
<1>3. PICK n \in Nat : n = Len(receipts)
  BY <1>1, LenProperties
<1>4. /\ DOMAIN receipts = 1 .. n /\ DOMAIN receipts' = 1 .. n + 1
      /\ \A i \in 1 .. n : receipts'[i] = receipts[i]
      /\ receipts'[n + 1] = r
  BY <1>2, <1>3, OneMore, LenProperties
<1>5. \A i \in 1 .. n : receipts[i].mandateId \in DOMAIN mandates /\ CashIn(receipts[i], exit) \in Int
  BY <1>4 DEF Recorded, Tallied
<1>6. CashIn(r, exit) \in Int
  BY DEF Tallied
<1>7. f \in [1 .. n -> Int]
  BY <1>4, <1>5
<1>8. \A i \in 1 .. n : g[i] = f[i]
  BY <1>4, <1>5 DEF OwnersStay, OwnerOf
<1>9. g[n + 1] = Share(o, r.mandateId, CashIn(r, exit))
  BY <1>4 DEF OwnersStay, Share
<1>10. g \in [1 .. n + 1 -> Int]
  <2> HIDE DEF f
  <2>1. Share(o, r.mandateId, CashIn(r, exit)) \in Int
    BY <1>6 DEF Share
  <2>2. \A i \in 1 .. n + 1 : g[i] \in Int
    <3> SUFFICES ASSUME NEW i \in 1 .. n + 1 PROVE g[i] \in Int
      OBVIOUS
    <3> HIDE DEF g
    <3>1. CASE i \in 1 .. n
      BY <1>7, <1>8, <3>1
    <3>2. CASE i = n + 1
      BY <1>9, <2>1, <3>2
    <3>3. QED
      BY <3>1, <3>2
  <2>3. QED
    BY <1>4, <2>2
<1>11. CashRecorded(o, exit) = Total(f) /\ CashRecorded(o, exit)' = Total(g)
  BY DEF CashRecorded, OwnerOf, CashIn, Total
<1> HIDE DEF f, g
<1>12. Total(g) = Total(f) + g[n + 1]
  BY <1>7, <1>8, <1>10, TotalMore
<1>13. Total(f) \in Int
  <2>1. IsFiniteSet(1 .. n)
    BY <1>3, FS_Interval
  <2>2. QED
    BY <1>7, <2>1, TotalInt
<1>14. QED
  BY <1>9, <1>11, <1>12, <1>13

\* One receipt more adds its units to its owner's and to nobody else's.
LEMMA UnitsMore ==
  ASSUME Recorded, OwnersStay, NEW r, receipts' = receipts \o <<r>>,
         r.mandateId \in DOMAIN mandates, Tallied(r), NEW o, NEW exit \in BOOLEAN, NEW a \in Asset
  PROVE  /\ UnitsRecorded(o, exit, a) \in Int
         /\ UnitsRecorded(o, exit, a)'
              = UnitsRecorded(o, exit, a) + Share(o, r.mandateId, UnitsIn(r, exit, a))
<1> DEFINE f == [i \in DOMAIN receipts |->
                   IF OwnerOf(receipts[i]) = o THEN UnitsIn(receipts[i], exit, a) ELSE 0]
           g == [i \in DOMAIN receipts' |->
                   IF mandates'[receipts'[i].mandateId].owner = o THEN UnitsIn(receipts'[i], exit, a) ELSE 0]
<1>1. PICK S : receipts \in Seq(S)
  BY DEF Recorded, IsSequence
<1>2. receipts \in Seq(S \cup {r}) /\ r \in S \cup {r}
  BY <1>1
<1>3. PICK n \in Nat : n = Len(receipts)
  BY <1>1, LenProperties
<1>4. /\ DOMAIN receipts = 1 .. n /\ DOMAIN receipts' = 1 .. n + 1
      /\ \A i \in 1 .. n : receipts'[i] = receipts[i]
      /\ receipts'[n + 1] = r
  BY <1>2, <1>3, OneMore, LenProperties
<1>5. \A i \in 1 .. n : receipts[i].mandateId \in DOMAIN mandates /\ UnitsIn(receipts[i], exit, a) \in Int
  BY <1>4 DEF Recorded, Tallied
<1>6. UnitsIn(r, exit, a) \in Int
  BY DEF Tallied
<1>7. f \in [1 .. n -> Int]
  BY <1>4, <1>5
<1>8. \A i \in 1 .. n : g[i] = f[i]
  BY <1>4, <1>5 DEF OwnersStay, OwnerOf
<1>9. g[n + 1] = Share(o, r.mandateId, UnitsIn(r, exit, a))
  BY <1>4 DEF OwnersStay, Share
<1>10. g \in [1 .. n + 1 -> Int]
  <2> HIDE DEF f
  <2>1. Share(o, r.mandateId, UnitsIn(r, exit, a)) \in Int
    BY <1>6 DEF Share
  <2>2. \A i \in 1 .. n + 1 : g[i] \in Int
    <3> SUFFICES ASSUME NEW i \in 1 .. n + 1 PROVE g[i] \in Int
      OBVIOUS
    <3> HIDE DEF g
    <3>1. CASE i \in 1 .. n
      BY <1>7, <1>8, <3>1
    <3>2. CASE i = n + 1
      BY <1>9, <2>1, <3>2
    <3>3. QED
      BY <3>1, <3>2
  <2>3. QED
    BY <1>4, <2>2
<1>11. UnitsRecorded(o, exit, a) = Total(f) /\ UnitsRecorded(o, exit, a)' = Total(g)
  BY DEF UnitsRecorded, OwnerOf, UnitsIn, Total
<1> HIDE DEF f, g
<1>12. Total(g) = Total(f) + g[n + 1]
  BY <1>7, <1>8, <1>10, TotalMore
<1>13. Total(f) \in Int
  <2>1. IsFiniteSet(1 .. n)
    BY <1>3, FS_Interval
  <2>2. QED
    BY <1>7, <2>1, TotalInt
<1>14. QED
  BY <1>9, <1>11, <1>12, <1>13

\* One transaction's fees more are added to its owner's and to nobody else's.
LEMMA FeesMore ==
  ASSUME Recorded, OwnersStay, NEW e, feeEvents' = Append(feeEvents, e),
         e.mandateId \in DOMAIN mandates, Total(e.fees) \in Int, NEW o
  PROVE  /\ FeesOf(o) \in Int
         /\ FeesOf(o)' = FeesOf(o) + Share(o, e.mandateId, Total(e.fees))
<1> DEFINE f == [i \in DOMAIN feeEvents |->
                   IF OwnerOf(feeEvents[i]) = o THEN Total(feeEvents[i].fees) ELSE 0]
           g == [i \in DOMAIN feeEvents' |->
                   IF mandates'[feeEvents'[i].mandateId].owner = o THEN Total(feeEvents'[i].fees) ELSE 0]
<1>1. PICK S : feeEvents \in Seq(S)
  BY DEF Recorded, IsSequence
<1>2. feeEvents \in Seq(S \cup {e}) /\ e \in S \cup {e}
  BY <1>1
<1>3. PICK n \in Nat : n = Len(feeEvents)
  BY <1>1, LenProperties
<1>4. /\ DOMAIN feeEvents = 1 .. n /\ DOMAIN feeEvents' = 1 .. n + 1
      /\ \A i \in 1 .. n : feeEvents'[i] = feeEvents[i]
      /\ feeEvents'[n + 1] = e
  BY <1>2, <1>3, OneMore, LenProperties
<1>5. \A i \in 1 .. n : feeEvents[i].mandateId \in DOMAIN mandates /\ Total(feeEvents[i].fees) \in Int
  BY <1>4 DEF Recorded
<1>7. f \in [1 .. n -> Int]
  BY <1>4, <1>5
<1>8. \A i \in 1 .. n : g[i] = f[i]
  BY <1>4, <1>5 DEF OwnersStay, OwnerOf
<1>9. g[n + 1] = Share(o, e.mandateId, Total(e.fees))
  BY <1>4 DEF OwnersStay, Share
<1>10. g \in [1 .. n + 1 -> Int]
  <2> HIDE DEF f
  <2>1. Share(o, e.mandateId, Total(e.fees)) \in Int
    BY DEF Share
  <2>2. \A i \in 1 .. n + 1 : g[i] \in Int
    <3> SUFFICES ASSUME NEW i \in 1 .. n + 1 PROVE g[i] \in Int
      OBVIOUS
    <3> HIDE DEF g
    <3>1. CASE i \in 1 .. n
      BY <1>7, <1>8, <3>1
    <3>2. CASE i = n + 1
      BY <1>9, <2>1, <3>2
    <3>3. QED
      BY <3>1, <3>2
  <2>3. QED
    BY <1>4, <2>2
<1>11. FeesOf(o) = Total(f) /\ FeesOf(o)' = Total(g)
  BY DEF FeesOf, OwnerOf, Total
<1> HIDE DEF f, g
<1>12. Total(g) = Total(f) + g[n + 1]
  BY <1>7, <1>8, <1>10, TotalMore
<1>13. Total(f) \in Int
  <2>1. IsFiniteSet(1 .. n)
    BY <1>3, FS_Interval
  <2>2. QED
    BY <1>7, <2>1, TotalInt
<1>14. QED
  BY <1>9, <1>11, <1>12, <1>13

\* A step that adds nothing to the record leaves every owner's replay as it was.
LEMMA RecordStill ==
  ASSUME Recorded, OwnersStay, UNCHANGED <<receipts, feeEvents>>
  PROVE  /\ Recorded'
         /\ \A o : \A exit \in BOOLEAN : CashRecorded(o, exit)' = CashRecorded(o, exit)
         /\ \A o : \A exit \in BOOLEAN : \A a \in Asset :
              UnitsRecorded(o, exit, a)' = UnitsRecorded(o, exit, a)
         /\ \A o : FeesOf(o)' = FeesOf(o)
<1>1. Recorded'
  BY DEF Recorded, OwnersStay, IsSequence, Tallied, CashIn, UnitsIn, Total
<1>2. /\ \A i \in DOMAIN receipts : mandates'[receipts[i].mandateId].owner = OwnerOf(receipts[i])
      /\ \A i \in DOMAIN feeEvents : mandates'[feeEvents[i].mandateId].owner = OwnerOf(feeEvents[i])
  BY DEF Recorded, OwnersStay, OwnerOf
<1>3. \A o : \A exit \in BOOLEAN : CashRecorded(o, exit)' = CashRecorded(o, exit)
  <2> SUFFICES ASSUME NEW o, NEW exit \in BOOLEAN PROVE CashRecorded(o, exit)' = CashRecorded(o, exit)
    OBVIOUS
  <2>1. [i \in DOMAIN receipts |->
           IF mandates'[receipts[i].mandateId].owner = o THEN CashIn(receipts[i], exit) ELSE 0]
        = [i \in DOMAIN receipts |-> IF OwnerOf(receipts[i]) = o THEN CashIn(receipts[i], exit) ELSE 0]
    BY <1>2
  <2>2. QED
    BY <2>1 DEF CashRecorded, OwnerOf, CashIn, Total
<1>4. \A o : \A exit \in BOOLEAN : \A a \in Asset : UnitsRecorded(o, exit, a)' = UnitsRecorded(o, exit, a)
  <2> SUFFICES ASSUME NEW o, NEW exit \in BOOLEAN, NEW a \in Asset
               PROVE  UnitsRecorded(o, exit, a)' = UnitsRecorded(o, exit, a)
    OBVIOUS
  <2>1. [i \in DOMAIN receipts |->
           IF mandates'[receipts[i].mandateId].owner = o THEN UnitsIn(receipts[i], exit, a) ELSE 0]
        = [i \in DOMAIN receipts |-> IF OwnerOf(receipts[i]) = o THEN UnitsIn(receipts[i], exit, a) ELSE 0]
    BY <1>2
  <2>2. QED
    BY <2>1 DEF UnitsRecorded, OwnerOf, UnitsIn, Total
<1>5. \A o : FeesOf(o)' = FeesOf(o)
  <2> SUFFICES ASSUME NEW o PROVE FeesOf(o)' = FeesOf(o)
    OBVIOUS
  <2>1. [i \in DOMAIN feeEvents |->
           IF mandates'[feeEvents[i].mandateId].owner = o THEN Total(feeEvents[i].fees) ELSE 0]
        = [i \in DOMAIN feeEvents |-> IF OwnerOf(feeEvents[i]) = o THEN Total(feeEvents[i].fees) ELSE 0]
    BY <1>2
  <2>2. QED
    BY <2>1 DEF FeesOf, OwnerOf, Total
<1>6. QED
  BY <1>1, <1>3, <1>4, <1>5

\* The fee events of a trade are worth the fees of all its legs: the ones left out are of nothing.
LEMMA FeesAreAllTaken ==
  ASSUME feeBps \in 0 .. MAX_FEE_BPS, NEW id, NEW legs, NEW D, DOMAIN legs = D, IsFiniteSet(D),
         NEW n \in [D -> Nat]
  PROVE  Total(FeesTaken(id, legs, n).fees) = Total([i \in D |-> FeeOn(n[i])])
<1> DEFINE Taken == {i \in D : FeeOn(n[i]) > 0}
           all == [i \in D |-> FeeOn(n[i])]
           some == [i \in Taken |-> FeeOn(n[i])]
<1>1. \A i \in D : n[i] \in Nat /\ FeeOn(n[i]) \in Nat
  BY FeeIsWithin
<1>2. /\ IsFiniteSet(Taken) /\ IsFiniteSet(D \ Taken) /\ Taken \cap (D \ Taken) = {}
      /\ D = Taken \cup (D \ Taken)
  <2>1. Taken \subseteq D /\ D \ Taken \subseteq D
    OBVIOUS
  <2>2. IsFiniteSet(Taken) /\ IsFiniteSet(D \ Taken)
    BY <2>1, FS_Subset
  <2>3. QED
    BY <2>1, <2>2
<1>3. /\ \A i \in Taken : all[i] = some[i] /\ all[i] \in Int
      /\ \A i \in D \ Taken : all[i] = 0 /\ all[i] \in Int
      /\ all \in [D -> Int] /\ some \in [Taken -> Int]
  BY <1>1
<1>4. FeesTaken(id, legs, n).fees = some
  BY DEF FeesTaken
<1> HIDE DEF Taken, all, some
<1>5. PICK T, R : T = Taken /\ R = D \ Taken
  OBVIOUS
<1>6. SumFunctionOnSet(all, D) = SumFunctionOnSet(all, T) + SumFunctionOnSet(all, R)
  <2>1. \A i \in T \cup R : all[i] \in Int
    BY <1>2, <1>3, <1>5
  <2>2. IsFiniteSet(T) /\ IsFiniteSet(R) /\ T \cap R = {} /\ D = T \cup R
    BY <1>2, <1>5
  <2>3. QED
    BY <2>1, <2>2, SumOfBoth
<1>7. SumFunctionOnSet(all, R) = 0
  BY <1>2, <1>3, <1>5, SumOfNoughts
<1>8. SumFunctionOnSet(all, T) = SumFunctionOnSet(some, T)
  BY <1>2, <1>3, <1>5, SumOfTheSame
<1>9. Total(all) = SumFunctionOnSet(all, D) /\ Total(some) = SumFunctionOnSet(some, T)
      /\ Total(some) \in Int
  BY <1>2, <1>3, <1>5, TotalInt
<1>10. QED
  BY <1>4, <1>6, <1>7, <1>8, <1>9 DEF all

\* What a receipt of fills, all entries or all exits, adds up to.
LEMMA ReceiptAdds ==
  ASSUME NEW D, IsFiniteSet(D), NEW id, NEW fills, DOMAIN fills = D,
         NEW exit \in BOOLEAN, NEW other \in BOOLEAN, other # exit,
         \A i \in D : fills[i].isExit = exit,
         \A i \in D : fills[i].amountInUsdg \in Int /\ fills[i].amountOut \in Int
  PROVE  /\ Tallied(ReceiptOf(id, fills))
         /\ CashIn(ReceiptOf(id, fills), exit) = Total([i \in D |-> fills[i].amountInUsdg])
         /\ CashIn(ReceiptOf(id, fills), other) = 0
         /\ \A a \in Asset : UnitsIn(ReceiptOf(id, fills), other, a) = 0
         /\ \A a \in Asset : UnitsIn(ReceiptOf(id, fills), exit, a)
                               = Total([i \in D |-> IF fills[i].asset = a THEN fills[i].amountOut ELSE 0])
<1> DEFINE r == ReceiptOf(id, fills)
           cash(x) == [i \in D |-> IF fills[i].isExit = x THEN fills[i].amountInUsdg ELSE 0]
           held(x, a) == [i \in D |-> IF fills[i].isExit = x /\ fills[i].asset = a
                                      THEN fills[i].amountOut ELSE 0]
<1>1. /\ DOMAIN r.fills = D
      /\ \A i \in D : /\ r.fills[i].isExit = fills[i].isExit /\ r.fills[i].asset = fills[i].asset
                      /\ r.fills[i].amountInUsdg = fills[i].amountInUsdg
                      /\ r.fills[i].amountOut = fills[i].amountOut
  BY DEF ReceiptOf, Stamped
<1>2. ASSUME NEW x \in BOOLEAN PROVE CashIn(r, x) = Total(cash(x)) /\ cash(x) \in [D -> Int]
  <2> HIDE DEF r
  <2>1. [j \in DOMAIN r.fills |-> IF r.fills[j].isExit = x THEN r.fills[j].amountInUsdg ELSE 0] = cash(x)
    BY <1>1
  <2>2. QED
    BY <2>1 DEF CashIn
<1>3. ASSUME NEW x \in BOOLEAN, NEW a \in Asset
      PROVE  UnitsIn(r, x, a) = Total(held(x, a)) /\ held(x, a) \in [D -> Int]
  <2> HIDE DEF r
  <2>1. [j \in DOMAIN r.fills |-> IF r.fills[j].isExit = x /\ r.fills[j].asset = a
                                  THEN r.fills[j].amountOut ELSE 0] = held(x, a)
    BY <1>1
  <2>2. QED
    BY <2>1 DEF UnitsIn
<1>4. /\ \A i \in D : cash(other)[i] = 0
      /\ \A a \in Asset : \A i \in D : held(other, a)[i] = 0
      /\ cash(exit) = [i \in D |-> fills[i].amountInUsdg]
      /\ \A a \in Asset : held(exit, a) = [i \in D |-> IF fills[i].asset = a THEN fills[i].amountOut ELSE 0]
  OBVIOUS
<1> HIDE DEF r, cash, held
<1>5. Tallied(r)
  BY <1>2, <1>3, TotalInt DEF Tallied
<1>6. CashIn(r, other) = 0
  BY <1>2, <1>4, TotalOfNoughts
<1>7. \A a \in Asset : UnitsIn(r, other, a) = 0
  BY <1>3, <1>4, TotalOfNoughts
<1>8. CashIn(r, exit) = Total([i \in D |-> fills[i].amountInUsdg])
  BY <1>2, <1>4
<1>9. \A a \in Asset : UnitsIn(r, exit, a) = Total([i \in D |-> IF fills[i].asset = a
                                                                 THEN fills[i].amountOut ELSE 0])
  BY <1>3, <1>4
<1>10. QED
  BY <1>5, <1>6, <1>7, <1>8, <1>9 DEF r

\* A receipt's four totals, and an owner's.
Paid(r) == CashIn(r, FALSE)
Earned(r) == CashIn(r, TRUE)
Bought(r, a) == UnitsIn(r, FALSE, a)
Sold(r, a) == UnitsIn(r, TRUE, a)

\* The fills of a batch, all of one direction, and what they amount to.
Entries(fills) == \A i \in DOMAIN fills : fills[i].isExit = FALSE
Exits(fills) == \A i \in DOMAIN fills : fills[i].isExit = TRUE
Numeric(fills) == \A i \in DOMAIN fills : fills[i].amountInUsdg \in Int /\ fills[i].amountOut \in Int

CashOf(fills) == Total([i \in DOMAIN fills |-> fills[i].amountInUsdg])
UnitsOf(fills, a) == Total([i \in DOMAIN fills |-> IF fills[i].asset = a THEN fills[i].amountOut ELSE 0])

\* A batch of entries says what was paid and what was bought.
LEMMA EntryAdds ==
  ASSUME NEW id, NEW fills, IsFiniteSet(DOMAIN fills), Entries(fills), Numeric(fills)
  PROVE  /\ Tallied(ReceiptOf(id, fills))
         /\ Paid(ReceiptOf(id, fills)) = CashOf(fills)
         /\ Earned(ReceiptOf(id, fills)) = 0
         /\ \A a \in Asset : Sold(ReceiptOf(id, fills), a) = 0
         /\ \A a \in Asset : Bought(ReceiptOf(id, fills), a) = UnitsOf(fills, a)
<1> DEFINE r == ReceiptOf(id, fills)
<1>1. PICK x \in BOOLEAN : x = FALSE
  OBVIOUS
<1>2. PICK y \in BOOLEAN : y = TRUE
  OBVIOUS
<1>3. y # x /\ \A i \in DOMAIN fills : fills[i].isExit = x
  BY <1>1, <1>2 DEF Entries
<1>4. PICK D : D = DOMAIN fills
  OBVIOUS
<1>5. /\ Tallied(r)
      /\ CashIn(r, x) = Total([i \in D |-> fills[i].amountInUsdg])
      /\ CashIn(r, y) = 0
      /\ \A a \in Asset : UnitsIn(r, y, a) = 0
      /\ \A a \in Asset : UnitsIn(r, x, a)
                            = Total([i \in D |-> IF fills[i].asset = a THEN fills[i].amountOut ELSE 0])
  BY <1>3, <1>4, ReceiptAdds DEF Numeric
<1>6. Paid(r) = CashIn(r, x) /\ Earned(r) = CashIn(r, y)
  BY <1>1, <1>2 DEF Paid, Earned
<1>7. \A a \in Asset : Bought(r, a) = UnitsIn(r, x, a) /\ Sold(r, a) = UnitsIn(r, y, a)
  BY <1>1, <1>2 DEF Bought, Sold
<1>8. CashIn(r, x) = CashOf(fills) /\ \A a \in Asset : UnitsIn(r, x, a) = UnitsOf(fills, a)
  BY <1>4, <1>5 DEF CashOf, UnitsOf
<1> HIDE DEF r
<1>9. /\ Tallied(r) /\ Paid(r) = CashOf(fills) /\ Earned(r) = 0
      /\ \A a \in Asset : Sold(r, a) = 0
      /\ \A a \in Asset : Bought(r, a) = UnitsOf(fills, a)
  BY <1>5, <1>6, <1>7, <1>8
<1>10. QED
  BY <1>9 DEF r

\* A batch of exits says what was earned and what was sold.
LEMMA ExitAdds ==
  ASSUME NEW id, NEW fills, IsFiniteSet(DOMAIN fills), Exits(fills), Numeric(fills)
  PROVE  /\ Tallied(ReceiptOf(id, fills))
         /\ Earned(ReceiptOf(id, fills)) = CashOf(fills)
         /\ Paid(ReceiptOf(id, fills)) = 0
         /\ \A a \in Asset : Bought(ReceiptOf(id, fills), a) = 0
         /\ \A a \in Asset : Sold(ReceiptOf(id, fills), a) = UnitsOf(fills, a)
<1> DEFINE r == ReceiptOf(id, fills)
<1>1. PICK x \in BOOLEAN : x = TRUE
  OBVIOUS
<1>2. PICK y \in BOOLEAN : y = FALSE
  OBVIOUS
<1>3. y # x /\ \A i \in DOMAIN fills : fills[i].isExit = x
  BY <1>1, <1>2 DEF Exits
<1>4. PICK D : D = DOMAIN fills
  OBVIOUS
<1>5. /\ Tallied(r)
      /\ CashIn(r, x) = Total([i \in D |-> fills[i].amountInUsdg])
      /\ CashIn(r, y) = 0
      /\ \A a \in Asset : UnitsIn(r, y, a) = 0
      /\ \A a \in Asset : UnitsIn(r, x, a)
                            = Total([i \in D |-> IF fills[i].asset = a THEN fills[i].amountOut ELSE 0])
  BY <1>3, <1>4, ReceiptAdds DEF Numeric
<1>6. Earned(r) = CashIn(r, x) /\ Paid(r) = CashIn(r, y)
  BY <1>1, <1>2 DEF Paid, Earned
<1>7. \A a \in Asset : Sold(r, a) = UnitsIn(r, x, a) /\ Bought(r, a) = UnitsIn(r, y, a)
  BY <1>1, <1>2 DEF Bought, Sold
<1>8. CashIn(r, x) = CashOf(fills) /\ \A a \in Asset : UnitsIn(r, x, a) = UnitsOf(fills, a)
  BY <1>4, <1>5 DEF CashOf, UnitsOf
<1> HIDE DEF r
<1>9. /\ Tallied(r) /\ Earned(r) = CashOf(fills) /\ Paid(r) = 0
      /\ \A a \in Asset : Bought(r, a) = 0
      /\ \A a \in Asset : Sold(r, a) = UnitsOf(fills, a)
  BY <1>5, <1>6, <1>7, <1>8
<1>10. QED
  BY <1>9 DEF r

\* A change of one mandate that leaves its owner keeps every owner.
LEMMA AmendedOwned ==
  ASSUME Owned, NEW id \in DOMAIN mandates, NEW m, mandates' = [mandates EXCEPT ![id] = m],
         "owner" \in DOMAIN m, m.owner = mandates[id].owner
  PROVE  OwnersStay /\ Owned' /\ DOMAIN mandates' = DOMAIN mandates
<1>1. PICK S : mandates \in Seq(S)
  BY DEF Owned, IsSequence
<1>2. mandates \in Seq(S \cup {m}) /\ id \in 1 .. Len(mandates)
  BY <1>1, LenProperties
<1>3. /\ mandates' \in Seq(S \cup {m}) /\ DOMAIN mandates' = DOMAIN mandates
      /\ mandates'[id] = m
      /\ \A j \in DOMAIN mandates : j # id => mandates'[j] = mandates[j]
  BY <1>2, ExceptSeq, LenProperties
<1>4. \A j \in DOMAIN mandates : /\ "owner" \in DOMAIN mandates'[j]
                                  /\ mandates'[j].owner = mandates[j].owner
                                  /\ mandates[j].owner \in Account
  BY <1>3 DEF Owned
<1>5. QED
  BY <1>3, <1>4 DEF Owned, OwnersStay, IsSequence

\* A settlement keeps every owner, and adds one receipt.
LEMMA SettlementRecords ==
  ASSUME Owned, NEW id \in DOMAIN mandates, NEW fills, NEW holdings,
         ValidateAndRecord(This, id, fills, holdings)
  PROVE  /\ OwnersStay /\ Owned' /\ DOMAIN mandates' = DOMAIN mandates
         /\ receipts' = receipts \o <<ReceiptOf(id, fills)>>
         /\ ReceiptOf(id, fills).mandateId = id
<1>1. PICK m : m = [mandates[id] EXCEPT !.epochStart = IF EpochOver(mandates[id]) THEN now ELSE @,
                                        !.fillsThisEpoch = UsedThisEpoch(mandates[id]) + Len(fills),
                                        !.lastActionAt = now]
  OBVIOUS
<1>2. mandates' = [mandates EXCEPT ![id] = m]
  BY <1>1 DEF ValidateAndRecord, Amend
<1>3. "owner" \in DOMAIN mandates[id] /\ mandates[id].owner \in Account
  BY DEF Owned
<1>4. "owner" \in DOMAIN m /\ m.owner = mandates[id].owner
  BY <1>1, <1>3
<1>5. receipts' = receipts \o <<ReceiptOf(id, fills)>>
  BY DEF ValidateAndRecord, AppendReceipt, ReceiptOf
<1>6. QED
  BY <1>2, <1>3, <1>4, <1>5, AmendedOwned DEF ReceiptOf

---------------------------------------------------------------------------
(* The invariant: what the ledgers hold is what the record says.           *)

Bound(o) ==
  /\ purse[o] = InitialCash - CashRecorded(o, FALSE) + CashRecorded(o, TRUE) - FeesOf(o)
  /\ \A a \in Asset :
       units[o][a] = InitialUnits[a] + UnitsRecorded(o, FALSE, a) - UnitsRecorded(o, TRUE, a)

ExecInv == Ledgers /\ Owned /\ Recorded /\ \A o \in Account \ FeeAddress : Bound(o)

\* A step that trades nothing and touches no owner's balance.
LEMMA BoundStill ==
  ASSUME ExecInv, OwnersStay, UNCHANGED <<receipts, feeEvents>>,
         NEW o \in Account \ FeeAddress, purse'[o] = purse[o], units'[o] = units[o]
  PROVE  Bound(o)'
<1>1. /\ \A exit \in BOOLEAN : CashRecorded(o, exit)' = CashRecorded(o, exit)
      /\ \A exit \in BOOLEAN : \A a \in Asset : UnitsRecorded(o, exit, a)' = UnitsRecorded(o, exit, a)
      /\ FeesOf(o)' = FeesOf(o)
  BY RecordStill DEF ExecInv
<1>2. Bound(o)
  BY DEF ExecInv
<1>3. QED
  BY <1>1, <1>2 DEF Bound

\* The record of a trade: one receipt and one set of fee events of the same mandate.
LEMMA RecordedTrade ==
  ASSUME Recorded, OwnersStay, NEW id \in DOMAIN mandates, NEW r, NEW e,
         receipts' = receipts \o <<r>>, r.mandateId = id, Tallied(r),
         feeEvents' = Append(feeEvents, e), e.mandateId = id, Total(e.fees) \in Int
  PROVE  Recorded'
<1>1. PICK S : receipts \in Seq(S)
  BY DEF Recorded, IsSequence
<1>2. PICK T : feeEvents \in Seq(T)
  BY DEF Recorded, IsSequence
<1>3. PICK n, k : n = Len(receipts) /\ k = Len(feeEvents)
  OBVIOUS
<1>4. /\ receipts' \in Seq(S \cup {r}) /\ DOMAIN receipts' = 1 .. n + 1 /\ DOMAIN receipts = 1 .. n
      /\ \A i \in 1 .. n : receipts'[i] = receipts[i]
      /\ receipts'[n + 1] = r /\ n \in Nat
  <2>1. receipts \in Seq(S \cup {r}) /\ r \in S \cup {r}
    BY <1>1
  <2>2. QED
    BY <1>3, <2>1, OneMore, LenProperties
<1>5. /\ feeEvents' \in Seq(T \cup {e}) /\ DOMAIN feeEvents' = 1 .. k + 1 /\ DOMAIN feeEvents = 1 .. k
      /\ \A i \in 1 .. k : feeEvents'[i] = feeEvents[i]
      /\ feeEvents'[k + 1] = e /\ k \in Nat
  <2>1. feeEvents \in Seq(T \cup {e}) /\ e \in T \cup {e}
    BY <1>2
  <2>2. QED
    BY <1>3, <2>1, OneMore, LenProperties
<1>6. ASSUME NEW i \in 1 .. n + 1
      PROVE  receipts'[i].mandateId \in DOMAIN mandates' /\ Tallied(receipts'[i])
  <2>1. CASE i \in 1 .. n
    BY <1>4, <2>1 DEF Recorded, OwnersStay
  <2>2. CASE i = n + 1
    BY <1>4, <2>2 DEF OwnersStay
  <2>3. QED
    BY <1>4, <2>1, <2>2
<1>7. ASSUME NEW i \in 1 .. k + 1
      PROVE  feeEvents'[i].mandateId \in DOMAIN mandates' /\ Total(feeEvents'[i].fees) \in Int
  <2>1. CASE i \in 1 .. k
    BY <1>5, <2>1 DEF Recorded, OwnersStay
  <2>2. CASE i = k + 1
    BY <1>5, <2>2 DEF OwnersStay
  <2>3. QED
    BY <1>5, <2>1, <2>2
<1>8. IsSequence(receipts)' /\ IsSequence(feeEvents)'
  BY <1>4, <1>5 DEF IsSequence
<1>9. \A i \in DOMAIN receipts' : receipts'[i].mandateId \in DOMAIN mandates' /\ Tallied(receipts'[i])
  BY <1>4, <1>6
<1>10. \A i \in DOMAIN feeEvents' :
         feeEvents'[i].mandateId \in DOMAIN mandates' /\ Total(feeEvents'[i].fees) \in Int
  BY <1>5, <1>7
<1>11. QED
  BY <1>8, <1>9, <1>10 DEF Recorded, Tallied, CashIn, UnitsIn, Total

\* The fill of an entry leg, and of an exit leg, in numbers.
LEMMA EntryFills ==
  ASSUME Ledgers, NEW legs \in UpTo(MAX_LEGS, Leg), NEW outs \in [DOMAIN legs -> PoolOut],
         NEW fills, fills = [i \in DOMAIN legs |-> EntryFill(legs[i], outs[i])]
  PROVE  /\ DOMAIN fills = DOMAIN legs
         /\ \A i \in DOMAIN legs : fills[i].isExit = FALSE
         /\ \A i \in DOMAIN legs : /\ fills[i].asset = legs[i].asset
                                   /\ fills[i].amountInUsdg = SwapAmount(legs[i])
                                   /\ fills[i].amountOut = outs[i]
                                   /\ SwapAmount(legs[i]) \in Int /\ outs[i] \in Int
                                   /\ SwapAmount(legs[i]) + FeeOn(legs[i].amountInUsdg) = legs[i].amountInUsdg
<1>1. \A i \in DOMAIN legs : legs[i].amountInUsdg \in Nat
  <2>1. \A leg \in Leg : leg.amountInUsdg \in Nat
    BY ExecutorAssumption
  <2>2. QED
    BY <2>1, LegsAreFinite
<1>2. \A i \in DOMAIN legs : FeeOn(legs[i].amountInUsdg) \in Nat
  BY <1>1, FeeIsWithin DEF Ledgers
<1>3. \A i \in DOMAIN legs : outs[i] \in Nat
  <2>1. PoolOut \subseteq Nat
    BY ExecutorAssumption
  <2>2. QED
    BY <2>1
<1>4. \A i \in DOMAIN legs : /\ SwapAmount(legs[i]) \in Int
                              /\ SwapAmount(legs[i]) + FeeOn(legs[i].amountInUsdg) = legs[i].amountInUsdg
  BY <1>1, <1>2 DEF SwapAmount
<1>5. ASSUME NEW i \in DOMAIN legs
      PROVE  /\ EntryFill(legs[i], outs[i]).isExit = FALSE
             /\ EntryFill(legs[i], outs[i]).asset = legs[i].asset
             /\ EntryFill(legs[i], outs[i]).amountInUsdg = SwapAmount(legs[i])
             /\ EntryFill(legs[i], outs[i]).amountOut = outs[i]
  BY DEF EntryFill
<1>6. DOMAIN fills = DOMAIN legs /\ \A i \in DOMAIN legs : fills[i] = EntryFill(legs[i], outs[i])
  OBVIOUS
<1>7. \A i \in DOMAIN legs : fills[i].isExit = FALSE
  BY <1>5, <1>6
<1>8. ASSUME NEW i \in DOMAIN legs
      PROVE  /\ fills[i].asset = legs[i].asset
             /\ fills[i].amountInUsdg = SwapAmount(legs[i])
             /\ fills[i].amountOut = outs[i]
  <2>1. PICK f : f = EntryFill(legs[i], outs[i])
    OBVIOUS
  <2>2. fills[i] = f
    BY <1>6, <2>1
  <2>3. f.asset = legs[i].asset /\ f.amountInUsdg = SwapAmount(legs[i]) /\ f.amountOut = outs[i]
    BY <1>5, <2>1
  <2>4. QED
    BY <2>2, <2>3
<1>9. QED
  BY <1>3, <1>4, <1>6, <1>7, <1>8

ExitFilled(fills, legs, outs) ==
  /\ DOMAIN fills = DOMAIN legs
  /\ \A i \in DOMAIN legs : fills[i].isExit = TRUE
  /\ \A i \in DOMAIN legs : /\ fills[i].asset = legs[i].asset
                            /\ fills[i].amountInUsdg = outs[i]
                            /\ fills[i].amountOut = legs[i].amountIn
                            /\ legs[i].amountIn \in Int /\ outs[i] \in Int

\* The fills an exit reports: its legs' units for the pools' cash.
LEMMA ExitFillsAre ==
  ASSUME Ledgers, NEW legs \in UpTo(MAX_LEGS, ExitLeg), NEW outs \in [DOMAIN legs -> PoolOut]
  PROVE  ExitFilled(ExitFills(legs, outs), legs, outs)
<1>0. PICK fills : fills = ExitFills(legs, outs)
  OBVIOUS
<1>1. \A i \in DOMAIN legs : legs[i].amountIn \in Nat
  <2>1. \A leg \in ExitLeg : leg.amountIn \in Nat
    BY ExecutorAssumption
  <2>2. QED
    BY <2>1, LegsAreFinite
<1>2. \A i \in DOMAIN legs : outs[i] \in Nat
  <2>1. PoolOut \subseteq Nat
    BY ExecutorAssumption
  <2>2. QED
    BY <2>1
<1>3. DOMAIN fills = DOMAIN legs /\ \A i \in DOMAIN legs : fills[i] = ExitFill(legs[i], outs[i])
  BY <1>0 DEF ExitFills
<1>4. ASSUME NEW i \in DOMAIN legs
      PROVE  /\ ExitFill(legs[i], outs[i]).isExit = TRUE
             /\ ExitFill(legs[i], outs[i]).asset = legs[i].asset
             /\ ExitFill(legs[i], outs[i]).amountInUsdg = outs[i]
             /\ ExitFill(legs[i], outs[i]).amountOut = legs[i].amountIn
  BY DEF ExitFill
<1>5. \A i \in DOMAIN legs : fills[i].isExit = TRUE
  BY <1>3, <1>4
<1>6. ASSUME NEW i \in DOMAIN legs
      PROVE  /\ fills[i].asset = legs[i].asset
             /\ fills[i].amountInUsdg = outs[i]
             /\ fills[i].amountOut = legs[i].amountIn
  <2>1. PICK f : f = ExitFill(legs[i], outs[i])
    OBVIOUS
  <2>2. fills[i] = f
    BY <1>3, <2>1
  <2>3. f.asset = legs[i].asset /\ f.amountInUsdg = outs[i] /\ f.amountOut = legs[i].amountIn
    BY <1>4, <2>1
  <2>4. QED
    BY <2>2, <2>3
<1>7. \A i \in DOMAIN legs : legs[i].amountIn \in Int /\ outs[i] \in Int
  BY <1>1, <1>2
<1>8. ExitFilled(fills, legs, outs)
  BY <1>3, <1>5, <1>6, <1>7 DEF ExitFilled
<1>9. QED
  BY <1>0, <1>8

\* What moved is what the receipt and the fee events say, and of one owner's.
Moved(o, r, e) ==
  /\ purse'[o] = purse[o] - Paid(r) + Earned(r) - Total(e.fees)
  /\ \A a \in Asset : units'[o][a] = units[o][a] + Bought(r, a) - Sold(r, a)
  /\ \A w \in Account : w # o => purse'[w] = purse[w] /\ units'[w] = units[w]

\* A trade whose receipt and fee events say what moved keeps the record the money.
LEMMA BoundMore ==
  ASSUME ExecInv, OwnersStay, NEW id \in DOMAIN mandates, NEW r, NEW e,
         receipts' = receipts \o <<r>>, r.mandateId = id, Tallied(r),
         feeEvents' = Append(feeEvents, e), e.mandateId = id, Total(e.fees) \in Int,
         Moved(mandates[id].owner, r, e),
         NEW w \in Account \ FeeAddress
  PROVE  Bound(w)'
<1>1. Recorded /\ r.mandateId \in DOMAIN mandates /\ e.mandateId \in DOMAIN mandates /\ Bound(w)
  BY DEF ExecInv
<1>0. PICK o : /\ o = mandates[id].owner
               /\ purse'[o] = purse[o] - Paid(r) + Earned(r) - Total(e.fees)
               /\ \A a \in Asset : units'[o][a] = units[o][a] + Bought(r, a) - Sold(r, a)
               /\ w # o => purse'[w] = purse[w] /\ units'[w] = units[w]
  BY DEF Moved
<1>2. PICK paid, earned, fees, s :
        /\ paid = CashRecorded(w, FALSE) /\ earned = CashRecorded(w, TRUE) /\ fees = FeesOf(w)
        /\ s = InitialCash
  OBVIOUS
<1>3. PICK x, y, z : x = Paid(r) /\ y = Earned(r) /\ z = Total(e.fees)
  OBVIOUS
<1>4. x \in Int /\ y \in Int /\ z \in Int
  BY <1>3 DEF Tallied, Paid, Earned
<1>5. paid \in Int /\ CashRecorded(w, FALSE)' = paid + Share(w, id, x)
  <2>1. FALSE \in BOOLEAN
    OBVIOUS
  <2>2. CashRecorded(w, FALSE) \in Int
        /\ CashRecorded(w, FALSE)' = CashRecorded(w, FALSE) + Share(w, r.mandateId, Paid(r))
    BY <1>1, <2>1, CashMore DEF Paid, Earned
  <2>3. QED
    BY <1>2, <1>3, <2>2
<1>6. earned \in Int /\ CashRecorded(w, TRUE)' = earned + Share(w, id, y)
  <2>1. TRUE \in BOOLEAN
    OBVIOUS
  <2>2. CashRecorded(w, TRUE) \in Int
        /\ CashRecorded(w, TRUE)' = CashRecorded(w, TRUE) + Share(w, r.mandateId, Earned(r))
    BY <1>1, <2>1, CashMore DEF Paid, Earned
  <2>3. QED
    BY <1>2, <1>3, <2>2
<1>7. fees \in Int /\ FeesOf(w)' = fees + Share(w, id, z)
  <2>1. FeesOf(w) \in Int /\ FeesOf(w)' = FeesOf(w) + Share(w, e.mandateId, Total(e.fees))
    BY <1>1, FeesMore
  <2>2. QED
    BY <1>2, <1>3, <2>1
<1>8. s \in Int /\ purse[w] = s - paid + earned - fees
  BY <1>1, <1>2, ExecutorAssumption DEF Bound
<1>9. purse'[w] = s - CashRecorded(w, FALSE)' + CashRecorded(w, TRUE)' - FeesOf(w)'
  <2>1. CASE w = o
    <3>1. Share(w, id, x) = x /\ Share(w, id, y) = y /\ Share(w, id, z) = z
      BY <1>0, <2>1 DEF Share
    <3>2. purse'[w] = (s - paid + earned - fees) - x + y - z
      BY <1>0, <1>3, <1>8, <2>1
    <3>3. (s - paid + earned - fees) - x + y - z = s - (paid + x) + (earned + y) - (fees + z)
      BY <1>4, <1>5, <1>6, <1>7, <1>8
    <3>4. QED
      BY <1>5, <1>6, <1>7, <3>1, <3>2, <3>3
  <2>2. CASE w # o
    <3>1. Share(w, id, x) = 0 /\ Share(w, id, y) = 0 /\ Share(w, id, z) = 0
      BY <1>0, <2>2 DEF Share
    <3>2. paid + 0 = paid /\ earned + 0 = earned /\ fees + 0 = fees
      BY <1>5, <1>6, <1>7
    <3>3. QED
      BY <1>0, <1>5, <1>6, <1>7, <1>8, <2>2, <3>1, <3>2
  <2>3. QED
    BY <2>1, <2>2
<1>10. ASSUME NEW a \in Asset
       PROVE  units'[w][a] = InitialUnits[a] + UnitsRecorded(w, FALSE, a)' - UnitsRecorded(w, TRUE, a)'
  <2>1. PICK bought, sold, k, u, v :
          /\ bought = UnitsRecorded(w, FALSE, a) /\ sold = UnitsRecorded(w, TRUE, a)
          /\ k = InitialUnits[a] /\ u = Bought(r, a) /\ v = Sold(r, a)
    OBVIOUS
  <2>2. u \in Int /\ v \in Int
    BY <2>1 DEF Tallied, Bought, Sold
  <2>3. bought \in Int /\ UnitsRecorded(w, FALSE, a)' = bought + Share(w, id, u)
    <3>1. FALSE \in BOOLEAN
      OBVIOUS
    <3>2. UnitsRecorded(w, FALSE, a) \in Int
          /\ UnitsRecorded(w, FALSE, a)'
               = UnitsRecorded(w, FALSE, a) + Share(w, r.mandateId, Bought(r, a))
      BY <1>1, <3>1, UnitsMore DEF Bought, Sold
    <3>3. QED
      BY <2>1, <3>2
  <2>4. sold \in Int /\ UnitsRecorded(w, TRUE, a)' = sold + Share(w, id, v)
    <3>1. TRUE \in BOOLEAN
      OBVIOUS
    <3>2. UnitsRecorded(w, TRUE, a) \in Int
          /\ UnitsRecorded(w, TRUE, a)'
               = UnitsRecorded(w, TRUE, a) + Share(w, r.mandateId, Sold(r, a))
      BY <1>1, <3>1, UnitsMore DEF Bought, Sold
    <3>3. QED
      BY <2>1, <3>2
  <2>5. k \in Int /\ units[w][a] = k + bought - sold
    <3>1. InitialUnits[a] \in Nat
      BY ExecutorAssumption
    <3>2. \A b \in Asset :
            units[w][b] = InitialUnits[b] + UnitsRecorded(w, FALSE, b) - UnitsRecorded(w, TRUE, b)
      BY <1>1 DEF Bound
    <3>3. units[w][a] = InitialUnits[a] + UnitsRecorded(w, FALSE, a) - UnitsRecorded(w, TRUE, a)
      BY <3>2
    <3>4. QED
      BY <2>1, <3>1, <3>3
  <2>6. CASE w = o
    <3>1. Share(w, id, u) = u /\ Share(w, id, v) = v
      BY <1>0, <2>6 DEF Share
    <3>2. units'[w][a] = (k + bought - sold) + u - v
      BY <1>0, <2>1, <2>5, <2>6
    <3>3. (k + bought - sold) + u - v = k + (bought + u) - (sold + v)
      BY <2>2, <2>3, <2>4, <2>5
    <3>4. QED
      BY <2>1, <2>3, <2>4, <3>1, <3>2, <3>3
  <2>7. CASE w # o
    <3>1. Share(w, id, u) = 0 /\ Share(w, id, v) = 0
      BY <1>0, <2>7 DEF Share
    <3>2. bought + 0 = bought /\ sold + 0 = sold
      BY <2>3, <2>4
    <3>3. QED
      BY <1>0, <2>1, <2>3, <2>4, <2>5, <2>7, <3>1, <3>2
  <2>8. QED
    BY <2>6, <2>7
<1>11. QED
  BY <1>2, <1>9, <1>10 DEF Bound

\* An entry leaves its owner with exactly what the longer record says.
LEMMA EntryBound ==
  ASSUME ExecInv, NEW caller, NEW id \in DOMAIN mandates, NEW permit \in Permit,
         NEW legs \in UpTo(MAX_LEGS, Leg),
         NEW outs \in [DOMAIN legs -> PoolOut], NEW unspent \in [DOMAIN legs -> Shortfall],
         Execute(caller, id, legs, permit, outs, unspent)
  PROVE  ExecInv'
<1>1. Ledgers /\ Owned /\ Recorded
  BY DEF ExecInv
<1>2. PICK D : D = DOMAIN legs /\ IsFiniteSet(D)
  BY LegsAreFinite
<1>3. PICK fills : fills = [i \in DOMAIN legs |-> EntryFill(legs[i], outs[i])]
  OBVIOUS
<1>4. PICK r : r = ReceiptOf(id, fills)
  OBVIOUS
<1>5. PICK o : o = mandates[id].owner
  OBVIOUS
<1>6. PICK amounts, fees, swaps :
        /\ amounts = [i \in D |-> legs[i].amountInUsdg]
        /\ fees = [i \in D |-> FeeOn(legs[i].amountInUsdg)]
        /\ swaps = [i \in D |-> SwapAmount(legs[i])]
  OBVIOUS
<1>7. DOMAIN fills = D /\ \A i \in D : fills[i].isExit = FALSE
  <2>1. DOMAIN fills = DOMAIN legs /\ \A i \in DOMAIN legs : fills[i].isExit = FALSE
    BY <1>1, <1>3, EntryFills
  <2>2. QED
    BY <1>2, <2>1
<1>0. /\ \A i \in D : /\ fills[i].asset = legs[i].asset
                      /\ fills[i].amountInUsdg = SwapAmount(legs[i]) /\ fills[i].amountOut = outs[i]
                      /\ SwapAmount(legs[i]) \in Int /\ outs[i] \in Int
                      /\ SwapAmount(legs[i]) + FeeOn(legs[i].amountInUsdg) = legs[i].amountInUsdg
  BY <1>1, <1>2, <1>3, EntryFills
<1>8. PICK holdings : ValidateAndRecord(This, id, fills, holdings)
  BY <1>3 DEF Execute
<1>9. /\ OwnersStay /\ Owned' /\ DOMAIN mandates' = DOMAIN mandates
      /\ receipts' = receipts \o <<r>> /\ r.mandateId = id
  BY <1>1, <1>4, <1>8, SettlementRecords
<1>10. \A i \in D : fills[i].amountInUsdg \in Int /\ fills[i].amountOut \in Int
  BY <1>0
<1>11. /\ Tallied(r) /\ Paid(r) = CashOf(fills) /\ Earned(r) = 0
       /\ \A a \in Asset : Sold(r, a) = 0
       /\ \A a \in Asset : Bought(r, a) = UnitsOf(fills, a)
  <2>1. Entries(fills) /\ Numeric(fills) /\ IsFiniteSet(DOMAIN fills)
    BY <1>2, <1>7, <1>10 DEF Entries, Numeric
  <2>2. QED
    BY <1>4, <2>1, EntryAdds
<1>12. Paid(r) = Total(swaps)
  <2>1. [i \in DOMAIN fills |-> fills[i].amountInUsdg] = swaps
    BY <1>0, <1>6, <1>7
  <2>2. QED
    BY <1>11, <2>1 DEF CashOf
<1>13. \A a \in Asset : Bought(r, a) = TotalOf(legs, outs, a)
  <2>1. \A a \in Asset : [i \in DOMAIN fills |-> IF fills[i].asset = a THEN fills[i].amountOut ELSE 0]
                         = [i \in DOMAIN legs |-> IF legs[i].asset = a THEN outs[i] ELSE 0]
    BY <1>2, <1>0, <1>7
  <2>2. QED
    BY <1>11, <2>1 DEF TotalOf, UnitsOf
<1>14. PICK e : e = FeesTaken(id, legs, amounts)
  OBVIOUS
<1>15. feeEvents' = Append(feeEvents, e) /\ e.mandateId = id
  BY <1>2, <1>6, <1>14 DEF Execute, FeesTaken
<1>16. /\ amounts \in [D -> Nat] /\ fees \in [D -> Nat]
       /\ Total(amounts) \in Nat /\ Total(fees) \in Nat
  BY <1>1, <1>2, <1>6, EntryAmounts
<1>17. Total(e.fees) = Total(fees) /\ Total(e.fees) \in Int
  <2>1. Total(e.fees) = Total([i \in D |-> FeeOn(amounts[i])])
    BY <1>1, <1>2, <1>14, <1>16, FeesAreAllTaken DEF Ledgers
  <2>2. [i \in D |-> FeeOn(amounts[i])] = fees
    BY <1>6
  <2>3. QED
    BY <1>16, <2>1, <2>2
<1>18. Total(amounts) = Total(swaps) + Total(fees) /\ Total(swaps) \in Int
  <2>1. swaps \in [D -> Int]
    BY <1>6, <1>0, <1>7
  <2>2. \A i \in D : amounts[i] = swaps[i] + fees[i]
    BY <1>6, <1>0, <1>7
  <2>3. amounts \in [D -> Int] /\ fees \in [D -> Int]
    BY <1>16
  <2>4. QED
    BY <1>2, <2>1, <2>2, <2>3, TotalOfSums, TotalInt
<1>19. /\ purse' \in [Holder -> Nat] /\ units' \in [Holder -> [Asset -> Nat]]
       /\ ExecutorHoldsNothing'
       /\ purse'[o] = purse[o] - Total(amounts)
       /\ \A a \in Asset : units'[o][a] = units[o][a] + TotalOf(legs, outs, a)
       /\ \A h \in Account : h # o => purse'[h] = purse[h] /\ units'[h] = units[h]
       /\ \A a \in Asset : TotalOf(legs, outs, a) \in Nat
  <2>1. EntrySettled(id, legs, outs)
    BY <1>1, EntryMoves
  <2>2. QED
    BY <1>2, <1>5, <1>6, <2>1 DEF EntrySettled
<1>20. o \in Account /\ purse[o] \in Int /\ \A a \in Asset : units[o][a] \in Int
  <2>1. o \in Account /\ o \in Holder
    BY <1>1, <1>5, Holders DEF Owned
  <2>2. QED
    BY <1>1, <2>1 DEF Ledgers
<1>21. purse'[o] = purse[o] - Paid(r) + Earned(r) - Total(e.fees)
  <2>1. PICK p, x, z : p = purse[o] /\ x = Total(swaps) /\ z = Total(fees)
    OBVIOUS
  <2>2. p \in Int /\ x \in Int /\ z \in Int
    BY <1>16, <1>18, <1>20, <2>1
  <2>3. p - (x + z) = p - x + 0 - z
    BY <2>2
  <2>4. QED
    BY <1>11, <1>12, <1>17, <1>18, <1>19, <2>1, <2>3
<1>22. \A a \in Asset : units'[o][a] = units[o][a] + Bought(r, a) - Sold(r, a)
  <2> SUFFICES ASSUME NEW a \in Asset
               PROVE  units'[o][a] = units[o][a] + Bought(r, a) - Sold(r, a)
    OBVIOUS
  <2>1. PICK u, v : u = units[o][a] /\ v = TotalOf(legs, outs, a)
    OBVIOUS
  <2>2. u \in Int /\ v \in Int
    BY <1>19, <1>20, <2>1
  <2>3. u + v = u + v - 0
    BY <2>2
  <2>4. QED
    BY <1>11, <1>13, <1>19, <2>1, <2>3
<1>23. Recorded'
  BY <1>1, <1>9, <1>11, <1>15, <1>17, RecordedTrade
<1>24. Ledgers'
  <2>1. UNCHANGED <<feeBps, treasury>> /\ DOMAIN usedNonces' = DOMAIN usedNonces
    BY DEF Execute, feeVars
  <2>2. QED
    BY <1>1, <1>19, <2>1 DEF Ledgers
<1>27. Moved(mandates[id].owner, r, e)
  BY <1>5, <1>19, <1>21, <1>22 DEF Moved
<1>25. ASSUME NEW w \in Account \ FeeAddress PROVE Bound(w)'
  BY <1>9, <1>11, <1>15, <1>17, <1>27, BoundMore
<1>26. QED
  BY <1>9, <1>23, <1>24, <1>25 DEF ExecInv

\* And so does an exit.
LEMMA ExitBound ==
  ASSUME ExecInv, NEW caller, NEW id \in DOMAIN mandates, NEW permit \in Permit,
         NEW legs \in UpTo(MAX_LEGS, ExitLeg),
         NEW outs \in [DOMAIN legs -> PoolOut], NEW unspent \in [DOMAIN legs -> Shortfall],
         ExitPositions(caller, id, legs, permit, outs, unspent)
  PROVE  ExecInv'
<1>1. Ledgers /\ Owned /\ Recorded
  BY DEF ExecInv
<1>2. PICK D : D = DOMAIN legs /\ IsFiniteSet(D)
  BY LegsAreFinite
<1>3. PICK fills : fills = ExitFills(legs, outs)
  OBVIOUS
<1>4. PICK r : r = ReceiptOf(id, fills)
  OBVIOUS
<1>5. PICK o : o = mandates[id].owner
  OBVIOUS
<1>6. PICK sold, fees : /\ sold = [i \in D |-> legs[i].amountIn]
                        /\ fees = [i \in D |-> FeeOn(outs[i])]
  OBVIOUS
<1>7. DOMAIN fills = D /\ \A i \in D : fills[i].isExit = TRUE
  <2>1. DOMAIN fills = DOMAIN legs /\ \A i \in DOMAIN legs : fills[i].isExit = TRUE
    BY <1>1, <1>3, ExitFillsAre DEF ExitFilled
  <2>2. QED
    BY <1>2, <2>1
<1>0. /\ \A i \in D : /\ fills[i].asset = legs[i].asset
                      /\ fills[i].amountInUsdg = outs[i] /\ fills[i].amountOut = legs[i].amountIn
                      /\ legs[i].amountIn \in Int /\ outs[i] \in Int
  <2>1. ExitFilled(fills, legs, outs)
    BY <1>1, <1>3, ExitFillsAre
  <2>2. QED
    BY <1>2, <2>1 DEF ExitFilled
<1>8. PICK holdings : ValidateAndRecord(This, id, fills, holdings)
  BY <1>3 DEF ExitPositions
<1>9. /\ OwnersStay /\ Owned' /\ DOMAIN mandates' = DOMAIN mandates
      /\ receipts' = receipts \o <<r>> /\ r.mandateId = id
  BY <1>1, <1>4, <1>8, SettlementRecords
<1>10. \A i \in D : fills[i].amountInUsdg \in Int /\ fills[i].amountOut \in Int
  BY <1>0
<1>11. /\ Tallied(r) /\ Earned(r) = CashOf(fills) /\ Paid(r) = 0
       /\ \A a \in Asset : Bought(r, a) = 0
       /\ \A a \in Asset : Sold(r, a) = UnitsOf(fills, a)
  <2>1. Exits(fills) /\ Numeric(fills) /\ IsFiniteSet(DOMAIN fills)
    BY <1>2, <1>7, <1>10 DEF Exits, Numeric
  <2>2. QED
    BY <1>4, <2>1, ExitAdds
<1>12. Earned(r) = Total(outs)
  <2>1. [i \in DOMAIN fills |-> fills[i].amountInUsdg] = outs
    BY <1>2, <1>0, <1>7
  <2>2. QED
    BY <1>11, <2>1 DEF CashOf
<1>13. \A a \in Asset : Sold(r, a) = TotalOf(legs, sold, a)
  <2>1. \A a \in Asset : [i \in DOMAIN fills |-> IF fills[i].asset = a THEN fills[i].amountOut ELSE 0]
                         = [i \in DOMAIN legs |-> IF legs[i].asset = a THEN sold[i] ELSE 0]
    BY <1>2, <1>6, <1>0, <1>7
  <2>2. QED
    BY <1>11, <2>1 DEF TotalOf, UnitsOf
<1>14. PICK e : e = FeesTaken(id, legs, outs)
  OBVIOUS
<1>15. feeEvents' = Append(feeEvents, e) /\ e.mandateId = id
  BY <1>14 DEF ExitPositions, FeesTaken
<1>16. outs \in [D -> Nat] /\ DOMAIN outs = D /\ Total(outs) \in Nat /\ Total(fees) \in Nat
  BY <1>1, <1>2, <1>6, ExitAmounts
<1>17. Total(e.fees) = Total(fees) /\ Total(e.fees) \in Int
  <2>1. Total(e.fees) = Total([i \in D |-> FeeOn(outs[i])])
    BY <1>1, <1>2, <1>14, <1>16, FeesAreAllTaken DEF Ledgers
  <2>2. QED
    BY <1>6, <1>16, <2>1
<1>18. /\ purse' \in [Holder -> Nat] /\ units' \in [Holder -> [Asset -> Nat]]
       /\ ExecutorHoldsNothing'
       /\ purse'[o] = purse[o] + Total(outs) - Total(fees)
       /\ \A a \in Asset : units'[o][a] = units[o][a] - TotalOf(legs, sold, a)
       /\ \A h \in Account : h # o => purse'[h] = purse[h] /\ units'[h] = units[h]
       /\ \A a \in Asset : TotalOf(legs, sold, a) \in Nat
  <2>1. sold = SoldIn(legs) /\ Total(fees) = FeesOn(outs)
    BY <1>2, <1>6, <1>16 DEF SoldIn, FeesOn
  <2>2. ExitSettled(id, legs, outs)
    BY <1>1, ExitMoves
  <2>3. QED
    BY <1>5, <2>1, <2>2 DEF ExitSettled
<1>19. o \in Account /\ purse[o] \in Int /\ \A a \in Asset : units[o][a] \in Int
  <2>1. o \in Account /\ o \in Holder
    BY <1>1, <1>5, Holders DEF Owned
  <2>2. QED
    BY <1>1, <2>1 DEF Ledgers
<1>20. purse'[o] = purse[o] - Paid(r) + Earned(r) - Total(e.fees)
  <2>1. PICK p, x, z : p = purse[o] /\ x = Total(outs) /\ z = Total(fees)
    OBVIOUS
  <2>2. p \in Int /\ x \in Int /\ z \in Int
    BY <1>16, <1>19, <2>1
  <2>3. p + x - z = p - 0 + x - z
    BY <2>2
  <2>4. QED
    BY <1>11, <1>12, <1>17, <1>18, <2>1, <2>3
<1>21. \A a \in Asset : units'[o][a] = units[o][a] + Bought(r, a) - Sold(r, a)
  <2> SUFFICES ASSUME NEW a \in Asset
               PROVE  units'[o][a] = units[o][a] + Bought(r, a) - Sold(r, a)
    OBVIOUS
  <2>1. PICK u, v : u = units[o][a] /\ v = TotalOf(legs, sold, a)
    OBVIOUS
  <2>2. u \in Int /\ v \in Int
    BY <1>18, <1>19, <2>1
  <2>3. u - v = u + 0 - v
    BY <2>2
  <2>4. QED
    BY <1>11, <1>13, <1>18, <2>1, <2>3
<1>22. Recorded'
  BY <1>1, <1>9, <1>11, <1>15, <1>17, RecordedTrade
<1>23. Ledgers'
  <2>1. UNCHANGED <<feeBps, treasury>> /\ DOMAIN usedNonces' = DOMAIN usedNonces
    BY DEF ExitPositions, feeVars
  <2>2. QED
    BY <1>1, <1>18, <2>1 DEF Ledgers
<1>27. Moved(mandates[id].owner, r, e)
  BY <1>5, <1>18, <1>20, <1>21 DEF Moved
<1>24. ASSUME NEW w \in Account \ FeeAddress PROVE Bound(w)'
  BY <1>9, <1>11, <1>15, <1>17, <1>27, BoundMore
<1>25. QED
  BY <1>9, <1>22, <1>23, <1>24 DEF ExecInv

---------------------------------------------------------------------------
(* Everything else that happens.                                           *)

\* An owner's call keeps every owner.
LEMMA OwnerActionOwned ==
  ASSUME Owned, NEW caller, NEW id \in DOMAIN mandates, OwnerAction(caller, id)
  PROVE  OwnersStay /\ Owned'
<1> DEFINE m == mandates[id]
<1>1. "owner" \in DOMAIN m
  BY DEF Owned
<1>2. ASSUME NEW k, Amend(id, k), "owner" \in DOMAIN k, k.owner = m.owner PROVE OwnersStay /\ Owned'
  BY <1>2, AmendedOwned DEF Amend
<1>3. ASSUME UNCHANGED mandates PROVE OwnersStay /\ Owned'
  BY <1>3 DEF OwnersStay, Owned, IsSequence
<1>4. ASSUME NEW p \in Policy, UpdatePolicy(caller, id, p) PROVE OwnersStay /\ Owned'
  <2>1. PICK k : k = [mandates[id] EXCEPT !.policy = p, !.version = NextVersion(id)]
    OBVIOUS
  <2>2. Amend(id, k)
    BY <1>4, <2>1 DEF UpdatePolicy
  <2>3. "owner" \in DOMAIN k /\ k.owner = m.owner
    BY <1>1, <2>1
  <2>4. QED
    BY <1>2, <2>2, <2>3
<1>5. ASSUME NEW trs \in TriggerList, SetTriggers(caller, id, trs) PROVE OwnersStay /\ Owned'
  <2>1. PICK k : k = [mandates[id] EXCEPT !.version = NextVersion(id)]
    OBVIOUS
  <2>2. Amend(id, k)
    BY <1>5, <2>1 DEF SetTriggers
  <2>3. "owner" \in DOMAIN k /\ k.owner = m.owner
    BY <1>1, <2>1
  <2>4. QED
    BY <1>2, <2>2, <2>3
<1>6. ASSUME NEW agent \in Account, SetAgent(caller, id, agent) PROVE OwnersStay /\ Owned'
  <2>1. PICK k : k = [mandates[id] EXCEPT !.agent = agent]
    OBVIOUS
  <2>2. Amend(id, k)
    BY <1>6, <2>1 DEF SetAgent
  <2>3. "owner" \in DOMAIN k /\ k.owner = m.owner
    BY <1>1, <2>1
  <2>4. QED
    BY <1>2, <2>2, <2>3
<1>7. ASSUME NEW executor \in Account, SetExecutor(caller, id, executor) PROVE OwnersStay /\ Owned'
  <2>1. PICK k : k = [mandates[id] EXCEPT !.executor = executor]
    OBVIOUS
  <2>2. Amend(id, k)
    BY <1>7, <2>1 DEF SetExecutor
  <2>3. "owner" \in DOMAIN k /\ k.owner = m.owner
    BY <1>1, <2>1
  <2>4. QED
    BY <1>2, <2>2, <2>3
<1>8. ASSUME NEW asset \in Asset, NEW allow \in BOOLEAN, SetAssetAllowed(caller, id, asset, allow)
      PROVE  OwnersStay /\ Owned'
  BY <1>3, <1>8 DEF SetAssetAllowed
<1>9. ASSUME NEW tripped \in BOOLEAN, SetCircuitBreaker(caller, id, tripped) PROVE OwnersStay /\ Owned'
  <2>1. PICK k : k = [mandates[id] EXCEPT !.circuitBreaker = tripped]
    OBVIOUS
  <2>2. Amend(id, k)
    BY <1>9, <2>1 DEF SetCircuitBreaker
  <2>3. "owner" \in DOMAIN k /\ k.owner = m.owner
    BY <1>1, <2>1
  <2>4. QED
    BY <1>2, <2>2, <2>3
<1>10. ASSUME CloseMandate(caller, id) PROVE OwnersStay /\ Owned'
  <2>1. PICK k : k = [mandates[id] EXCEPT !.active = FALSE]
    OBVIOUS
  <2>2. Amend(id, k)
    BY <1>10, <2>1 DEF CloseMandate
  <2>3. "owner" \in DOMAIN k /\ k.owner = m.owner
    BY <1>1, <2>1
  <2>4. QED
    BY <1>2, <2>2, <2>3
<1>11. QED
  BY <1>4, <1>5, <1>6, <1>7, <1>8, <1>9, <1>10 DEF OwnerAction

\* A new mandate leaves the others their owners.
LEMMA CreateOwned ==
  ASSUME Owned, NEW caller \in Account, NEW agent, NEW executor, NEW p, NEW assets,
         CreateMandate(caller, agent, executor, p, assets)
  PROVE  OwnersStay /\ Owned'
<1>1. PICK m : mandates' = Append(mandates, m) /\ "owner" \in DOMAIN m /\ m.owner = caller
  BY DEF CreateMandate
<1>2. PICK S : mandates \in Seq(S)
  BY DEF Owned, IsSequence
<1>3. PICK n : n = Len(mandates)
  OBVIOUS
<1>4. /\ mandates' \in Seq(S \cup {m}) /\ DOMAIN mandates' = 1 .. n + 1 /\ DOMAIN mandates = 1 .. n
      /\ \A i \in 1 .. n : mandates'[i] = mandates[i]
      /\ mandates'[n + 1] = m /\ n \in Nat
  <2>1. mandates \in Seq(S \cup {m}) /\ m \in S \cup {m}
    BY <1>2
  <2>2. QED
    BY <1>1, <1>3, <2>1, OneMore, LenProperties
<1>5. OwnersStay
  BY <1>4 DEF OwnersStay
<1>6. ASSUME NEW i \in 1 .. n + 1 PROVE "owner" \in DOMAIN mandates'[i] /\ mandates'[i].owner \in Account
  <2>1. CASE i \in 1 .. n
    BY <1>4, <2>1 DEF Owned
  <2>2. CASE i = n + 1
    BY <1>1, <1>4, <2>2
  <2>3. QED
    BY <1>4, <2>1, <2>2
<1>7. QED
  BY <1>4, <1>5, <1>6 DEF Owned, IsSequence

\* The fee's ceiling holds and the treasury is somebody's address.
LEMMA FeeStepTyped ==
  ASSUME feeBps \in 0 .. MAX_FEE_BPS, treasury \in FeeAddress, FeeNext
  PROVE  feeBps' \in 0 .. MAX_FEE_BPS /\ treasury' \in FeeAddress
<1>1. MAX_FEE_BPS \in Nat
  BY ExecutorAssumption
<1>2. ASSUME NEW caller, NEW bps \in {0, MAX_FEE_BPS, MAX_FEE_BPS + 1}, SetFeeBps(caller, bps)
      PROVE  feeBps' \in 0 .. MAX_FEE_BPS /\ treasury' = treasury
  <2>1. bps \in Nat /\ bps <= MAX_FEE_BPS /\ feeBps' = bps
    BY <1>1, <1>2 DEF SetFeeBps
  <2>2. QED
    BY <1>1, <1>2, <2>1 DEF SetFeeBps
<1>3. ASSUME NEW caller, NEW a \in FeeAddress \cup {NoFeeAddress}, SetTreasury(caller, a)
      PROVE  feeBps' = feeBps /\ treasury' \in FeeAddress
  BY <1>3 DEF SetTreasury
<1>4. ASSUME NEW caller, NEW a, SetFeeAdmin(caller, a)
      PROVE  feeBps' = feeBps /\ treasury' = treasury
  BY <1>4 DEF SetFeeAdmin
<1>5. QED
  BY <1>2, <1>3, <1>4 DEF FeeNext

\* Steps that trade nothing.
LEMMA QuietStep ==
  ASSUME ExecInv, OwnersStay, Owned', UNCHANGED <<receipts, feeEvents>>, Ledgers',
         \A o \in Account \ FeeAddress : purse'[o] = purse[o] /\ units'[o] = units[o]
  PROVE  ExecInv'
<1>1. Recorded'
  BY RecordStill DEF ExecInv
<1>2. \A o \in Account \ FeeAddress : Bound(o)'
  BY BoundStill
<1>3. QED
  BY <1>1, <1>2 DEF ExecInv

\* The invariant holds of every step.
LEMMA ExecStep == ExecInv /\ [ExecNext]_execVars => ExecInv'
<1> SUFFICES ASSUME ExecInv, [ExecNext]_execVars PROVE ExecInv'
  OBVIOUS
<1>1. Ledgers /\ Owned
  BY DEF ExecInv
<1>2. ASSUME UNCHANGED mandates PROVE OwnersStay /\ Owned'
  BY <1>1, <1>2 DEF OwnersStay, Owned, IsSequence
<1>3. ASSUME NEW caller \in Account, NEW id \in DOMAIN mandates, Trade(caller, id) PROVE ExecInv'
  BY <1>3, EntryBound, ExitBound DEF Trade
<1>4. ASSUME NEW owner \in Account, NEW permit \in Permit, Sign(owner, permit) PROVE ExecInv'
  <2>1. UNCHANGED <<mandates, receipts, feeEvents, purse, units, usedNonces, feeBps, treasury>>
    BY <1>4 DEF Sign, vars, guardVars, feeVars
  <2>2. Ledgers'
    BY <1>1, <2>1 DEF Ledgers, ExecutorHoldsNothing
  <2>3. QED
    BY <1>2, <2>1, <2>2, QuietStep
<1>5. ASSUME Around PROVE ExecInv'
  <2>1. UNCHANGED <<feeEvents, purse, units, usedNonces, feeBps, treasury>>
    BY <1>5 DEF Around, feeVars, tokenVars
  <2>2. Ledgers'
    BY <1>1, <2>1 DEF Ledgers, ExecutorHoldsNothing
  <2>3. ASSUME NEW caller \in Account, NEW agent \in Account, NEW executor \in Account \cup {This},
               NEW p \in Policy, NEW assets \in AssetArrays,
               CreateMandate(caller, agent, executor, p, assets)
        PROVE  OwnersStay /\ Owned' /\ UNCHANGED receipts
    BY <1>1, <2>3, CreateOwned DEF CreateMandate, registryVars
  <2>4. ASSUME NEW caller \in Account, NEW id \in DOMAIN mandates, OwnerAction(caller, id)
        PROVE  OwnersStay /\ Owned' /\ UNCHANGED receipts
    <3>1. UNCHANGED receipts
      BY <2>4 DEF OwnerAction, UpdatePolicy, SetTriggers, SetAgent, SetExecutor, SetAssetAllowed,
                  SetCircuitBreaker, CloseMandate, registryVars
    <3>2. QED
      BY <1>1, <2>4, <3>1, OwnerActionOwned
  <2>5. ASSUME OracleAction PROVE OwnersStay /\ Owned' /\ UNCHANGED receipts
    BY <1>2, <2>5 DEF OracleAction, guardVars, registryVars
  <2>6. OwnersStay /\ Owned' /\ UNCHANGED receipts
    BY <1>5, <2>3, <2>4, <2>5 DEF Around
  <2>7. QED
    BY <2>1, <2>2, <2>6, QuietStep
<1>6. ASSUME FeeStep PROVE ExecInv'
  <2>1. UNCHANGED <<mandates, receipts, feeEvents, purse, units, usedNonces>>
    BY <1>6 DEF FeeStep, vars, guardVars, registryVars, tokenVars
  <2>2. feeBps' \in 0 .. MAX_FEE_BPS /\ treasury' \in FeeAddress
    BY <1>1, <1>6, FeeStepTyped DEF Ledgers, FeeStep
  <2>3. Ledgers'
    BY <1>1, <2>1, <2>2 DEF Ledgers, ExecutorHoldsNothing
  <2>4. QED
    BY <1>2, <2>1, <2>3, QuietStep
<1>7. ASSUME Withdraw PROVE ExecInv'
  <2>1. /\ UNCHANGED <<mandates, receipts, feeEvents, units, usedNonces, feeBps, treasury>>
        /\ purse' = [purse EXCEPT ![Collector] = 0, ![treasury] = @ + purse[Collector]]
    BY <1>7 DEF Withdraw, vars, guardVars, feeVars
  <2>2. /\ treasury \in FeeAddress /\ treasury \in Holder /\ treasury # Collector /\ treasury # This
        /\ Collector \in Holder /\ This \in Holder /\ This # Collector
    BY <1>1, Holders DEF Ledgers
  <2>3. PICK c, k : c = purse[Collector] /\ k = purse[treasury]
    OBVIOUS
  <2>4. c \in Nat /\ k \in Nat /\ c + k \in Nat
    BY <1>1, <2>2, <2>3 DEF Ledgers
  <2>5. purse' = [purse EXCEPT ![Collector] = 0, ![treasury] = k + c]
    BY <1>1, <2>1, <2>2, <2>3 DEF Ledgers
  <2>6. /\ purse' \in [Holder -> Nat]
        /\ \A h \in Holder : h # Collector /\ h # treasury => purse'[h] = purse[h]
    BY <1>1, <2>2, <2>4, <2>5 DEF Ledgers
  <2>7. Ledgers'
    BY <1>1, <2>1, <2>2, <2>6 DEF Ledgers, ExecutorHoldsNothing
  <2>8. \A o \in Account \ FeeAddress : purse'[o] = purse[o]
    BY <2>2, <2>6, Holders
  <2>9. QED
    BY <1>2, <2>1, <2>7, <2>8, QuietStep
<1>8. ASSUME UNCHANGED execVars PROVE ExecInv'
  <2>1. UNCHANGED <<mandates, receipts, feeEvents, purse, units, usedNonces, feeBps, treasury>>
    BY <1>8 DEF execVars, vars, guardVars, registryVars, feeVars, tokenVars
  <2>2. Ledgers'
    BY <1>1, <2>1 DEF Ledgers, ExecutorHoldsNothing
  <2>3. QED
    BY <1>2, <2>1, <2>2, QuietStep
<1>9. QED
  BY <1>3, <1>4, <1>5, <1>6, <1>7, <1>8 DEF ExecNext

\* And of the first state.
LEMMA ExecInitially == ExecInit => ExecInv
<1> SUFFICES ASSUME ExecInit PROVE ExecInv
  OBVIOUS
<1>1. mandates = <<>> /\ receipts = <<>> /\ feeEvents = <<>>
  BY DEF ExecInit, Init, RegistryInit
<1>2. Ledgers
  <2>1. \A h \in Holder : purse[h] \in Nat /\ units[h] \in [Asset -> Nat]
    BY ExecutorAssumption DEF ExecInit
  <2>2. purse \in [Holder -> Nat] /\ units \in [Holder -> [Asset -> Nat]]
    BY <2>1 DEF ExecInit
  <2>3. ExecutorHoldsNothing
    BY Holders DEF ExecInit, ExecutorHoldsNothing
  <2>4. QED
    BY <2>2, <2>3 DEF Ledgers, ExecInit, FeeInit
<1>3. \A S : <<>> \in Seq(S)
  OBVIOUS
<1>4. Owned /\ Recorded
  BY <1>1, <1>3 DEF Owned, Recorded, IsSequence
<1>5. ASSUME NEW o \in Account \ FeeAddress PROVE Bound(o)
  <2>1. IsFiniteSet({}) /\ DOMAIN receipts = {} /\ DOMAIN feeEvents = {}
    BY <1>1, FS_EmptySet
  <2>2. \A f : f \in [{} -> Int] => Total(f) = 0
    <3> SUFFICES ASSUME NEW f \in [{} -> Int] PROVE Total(f) = 0
      OBVIOUS
    <3>1. QED
      BY <2>1, TotalOfNoughts
  <2>3. /\ CashRecorded(o, FALSE) = 0 /\ CashRecorded(o, TRUE) = 0 /\ FeesOf(o) = 0
        /\ \A a : UnitsRecorded(o, FALSE, a) = 0 /\ UnitsRecorded(o, TRUE, a) = 0
    <3>1. ASSUME NEW x PROVE CashRecorded(o, x) = 0
      BY <2>1, <2>2 DEF CashRecorded
    <3>2. ASSUME NEW x, NEW a PROVE UnitsRecorded(o, x, a) = 0
      BY <2>1, <2>2 DEF UnitsRecorded
    <3>3. FeesOf(o) = 0
      BY <2>1, <2>2 DEF FeesOf
    <3>4. QED
      BY <3>1, <3>2, <3>3
  <2>4. purse[o] = InitialCash /\ \A a \in Asset : units[o][a] = InitialUnits[a]
    BY Holders DEF ExecInit
  <2>5. InitialCash \in Nat /\ \A a \in Asset : InitialUnits[a] \in Nat
    BY ExecutorAssumption
  <2>6. InitialCash = InitialCash - 0 + 0 - 0
        /\ \A a \in Asset : InitialUnits[a] = InitialUnits[a] + 0 - 0
    BY <2>5
  <2>7. QED
    BY <2>3, <2>4, <2>6 DEF Bound
<1>6. QED
  BY <1>2, <1>4, <1>5 DEF ExecInv

\* The invariant, of every behaviour.
THEOREM LedgersAndRecordAgree == ExecSpec => []ExecInv
BY ExecInitially, ExecStep, PTL DEF ExecSpec

\* The executor is never custodial: between two transactions it holds no cash and no unit,
\* whatever the pools left unspent.
THEOREM ExecutorHoldsNothingHolds == ExecSpec => []ExecutorHoldsNothing
<1>1. ExecInv => ExecutorHoldsNothing
  BY DEF ExecInv, Ledgers
<1>2. QED
  BY <1>1, LedgersAndRecordAgree, PTL

\* The record is the money: an owner's wallet is what the receipts and the fee events replay
\* to, and nothing of what left it rests in the executor.
THEOREM RecordReplaysTheWalletHolds == ExecSpec => []RecordReplaysTheWallet
<1>1. ExecInv => RecordReplaysTheWallet
  BY DEF ExecInv, Bound, Ledgers, RecordReplaysTheWallet
<1>2. QED
  BY <1>1, LedgersAndRecordAgree, PTL

---------------------------------------------------------------------------
(* Signatures.                                                             *)

\* What one token leaves a wallet under.
Covered(o, token, loss) ==
  loss > 0 =>
    \E permit \in signed[o] :
      /\ permit.nonce \in usedNonces'[o] \ usedNonces[o]
      /\ now <= permit.deadline
      /\ loss <= PermittedOf(permit, token)

Signed(o) ==
  /\ Covered(o, Cash, purse[o] - purse'[o])
  /\ \A a \in Asset : Covered(o, a, units[o][a] - units'[o][a])

\* A wallet nothing left needs no signature.
LEMMA NothingLeft ==
  ASSUME Ledgers, NEW o \in Account, purse'[o] = purse[o], units'[o] = units[o]
  PROVE  Signed(o)
<1>1. purse[o] \in Nat /\ \A a \in Asset : units[o][a] \in Nat
  BY Holders DEF Ledgers
<1>2. QED
  BY <1>1 DEF Signed, Covered

\* What a permit names, item by item.
LEMMA PermitItems ==
  ASSUME NEW permit \in Permit
  PROVE  /\ permit.permitted \in Seq([token : Asset \cup {Cash}, amount : Nat])
         /\ DOMAIN permit.permitted = 1 .. Len(permit.permitted)
         /\ IsFiniteSet(DOMAIN permit.permitted)
         /\ \A i \in DOMAIN permit.permitted : permit.permitted[i].amount \in Nat
<1>0. PICK T : T = [token : Asset \cup {Cash}, amount : Nat] /\ \A p \in Permit : p.permitted \in Seq(T)
  BY PermitAssumption
<1>1. PICK s : s = permit.permitted /\ s \in Seq(T)
  BY <1>0
<1>2. DOMAIN s = 1 .. Len(s) /\ Len(s) \in Nat /\ \A i \in DOMAIN s : s[i].amount \in Nat
  <2>1. DOMAIN s = 1 .. Len(s) /\ Len(s) \in Nat /\ \A i \in DOMAIN s : s[i] \in T
    BY <1>1, LenProperties
  <2>2. \A t \in T : t.amount \in Nat
    BY <1>0
  <2>3. QED
    BY <2>1, <2>2
<1>3. IsFiniteSet(1 .. Len(s))
  BY <1>2, FS_Interval
<1>4. QED
  BY <1>0, <1>1, <1>2, <1>3

\* An entry takes cash alone, under the one item of its permit.
LEMMA EntrySigned ==
  ASSUME Ledgers, Owned, NEW caller, NEW id \in DOMAIN mandates, NEW permit \in Permit,
         NEW legs \in UpTo(MAX_LEGS, Leg),
         NEW outs \in [DOMAIN legs -> PoolOut], NEW unspent \in [DOMAIN legs -> Shortfall],
         Execute(caller, id, legs, permit, outs, unspent)
  PROVE  \A o \in Account : Signed(o)
<1>1. PICK o, spent : /\ o = mandates[id].owner
                      /\ spent = Total([i \in DOMAIN legs |-> legs[i].amountInUsdg])
  OBVIOUS
<1>2. /\ purse'[o] = purse[o] - spent
      /\ \A a \in Asset : units'[o][a] = units[o][a] + TotalOf(legs, outs, a)
      /\ \A h \in Account : h # o => purse'[h] = purse[h] /\ units'[h] = units[h]
      /\ spent \in Nat
      /\ \A a \in Asset : TotalOf(legs, outs, a) \in Nat
  <2>1. EntrySettled(id, legs, outs)
    BY EntryMoves
  <2>2. QED
    BY <1>1, <2>1 DEF EntrySettled
<1>3. /\ o \in Account /\ purse[o] \in Nat /\ \A a \in Asset : units[o][a] \in Nat
  BY <1>1, Holders DEF Owned, Ledgers
<1>4. /\ Len(permit.permitted) = 1 /\ permit.permitted[1].token = Cash
      /\ PermitTransfers(o, permit, <<spent>>)
      /\ usedNonces' = [usedNonces EXCEPT ![o] = @ \cup {permit.nonce}]
  BY <1>1 DEF Execute
<1>5. /\ permit \in signed[o] /\ now <= permit.deadline /\ permit.nonce \notin usedNonces[o]
      /\ spent <= permit.permitted[1].amount
  <2>1. 1 \in DOMAIN <<spent>> /\ <<spent>>[1] = spent
    OBVIOUS
  <2>2. QED
    BY <1>4, <2>1 DEF PermitTransfers
<1>6. permit.nonce \in usedNonces'[o] \ usedNonces[o]
  BY <1>3, <1>4, <1>5 DEF Ledgers
<1>7. PermittedOf(permit, Cash) = permit.permitted[1].amount
  <2>1. DOMAIN permit.permitted = {1} /\ permit.permitted[1].amount \in Nat
    BY <1>4, PermitItems
  <2>2. PICK f : f = [i \in DOMAIN permit.permitted |->
                        IF permit.permitted[i].token = Cash THEN permit.permitted[i].amount ELSE 0]
    OBVIOUS
  <2>3. f \in [{1} -> Int] /\ f[1] = permit.permitted[1].amount
    BY <1>4, <2>1, <2>2
  <2>4. Total(f) = SumFunctionOnSet(f, {1})
    <3>1. IsFiniteSet({1})
      BY FS_Singleton
    <3>2. QED
      BY <2>3, <3>1, TotalInt
  <2>5. SumFunctionOnSet(f, {1}) = f[1]
    BY <2>3, SumOfOne
  <2>6. QED
    BY <2>2, <2>3, <2>4, <2>5 DEF PermittedOf
<1>8. Covered(o, Cash, purse[o] - purse'[o])
  <2>1. purse[o] - purse'[o] = spent
    BY <1>2, <1>3
  <2>2. QED
    BY <1>5, <1>6, <1>7, <2>1 DEF Covered
<1>9. ASSUME NEW a \in Asset PROVE Covered(o, a, units[o][a] - units'[o][a])
  <2>1. ~ (units[o][a] - units'[o][a] > 0)
    BY <1>2, <1>3
  <2>2. QED
    BY <2>1 DEF Covered
<1>10. Signed(o)
  BY <1>8, <1>9 DEF Signed
<1>11. QED
  BY <1>2, <1>10, NothingLeft

\* An exit takes each asset under the item of its permit that names it.
LEMMA ExitSigned ==
  ASSUME Ledgers, Owned, NEW caller, NEW id \in DOMAIN mandates, NEW permit \in Permit,
         NEW legs \in UpTo(MAX_LEGS, ExitLeg),
         NEW outs \in [DOMAIN legs -> PoolOut], NEW unspent \in [DOMAIN legs -> Shortfall],
         ExitPositions(caller, id, legs, permit, outs, unspent)
  PROVE  \A o \in Account : Signed(o)
<1>1. PICK o, sold : o = mandates[id].owner /\ sold = SoldIn(legs)
  OBVIOUS
<1>2. ExitSettled(id, legs, outs)
  BY ExitMoves
<1>3. PICK gain, fees : gain = Total(outs) /\ fees = FeesOn(outs)
  OBVIOUS
<1>4. /\ purse'[o] = purse[o] + gain - fees
      /\ \A a \in Asset : units'[o][a] = units[o][a] - TotalOf(legs, sold, a)
      /\ \A h \in Account : h # o => purse'[h] = purse[h] /\ units'[h] = units[h]
      /\ gain \in Nat /\ fees \in Nat /\ fees <= gain
      /\ \A a \in Asset : TotalOf(legs, sold, a) \in Nat
  BY <1>1, <1>2, <1>3 DEF ExitSettled
<1>5. /\ o \in Account /\ purse[o] \in Nat /\ \A a \in Asset : units[o][a] \in Nat
  BY <1>1, Holders DEF Owned, Ledgers
<1>6. /\ ExitRuns(id, legs, permit, outs, unspent)
      /\ usedNonces' = [usedNonces EXCEPT ![o] = @ \cup {permit.nonce}]
  BY <1>1 DEF ExitPositions
<1>7. /\ Len(permit.permitted) = Len(legs)
      /\ \A i \in DOMAIN legs : permit.permitted[i].token = legs[i].asset
      /\ PermitTransfers(o, permit, sold)
  BY <1>1, <1>6 DEF ExitRuns, SoldIn
<1>8. /\ permit \in signed[o] /\ now <= permit.deadline /\ permit.nonce \notin usedNonces[o]
      /\ \A i \in DOMAIN legs : sold[i] <= permit.permitted[i].amount
  BY <1>1, <1>7 DEF PermitTransfers, SoldIn
<1>9. permit.nonce \in usedNonces'[o] \ usedNonces[o]
  BY <1>5, <1>6, <1>8 DEF Ledgers
<1>10. PICK D : /\ D = DOMAIN legs /\ D = DOMAIN permit.permitted /\ IsFiniteSet(D)
                /\ \A i \in D : permit.permitted[i].amount \in Nat
  <2>1. DOMAIN legs = 1 .. Len(legs)
    BY LegsAreFinite
  <2>2. QED
    BY <1>7, <2>1, PermitItems
<1>11. \A i \in D : sold[i] \in Nat
  <2>1. sold = [i \in DOMAIN legs |-> legs[i].amountIn]
    BY <1>1 DEF SoldIn
  <2>2. \A leg \in ExitLeg : leg.amountIn \in Nat
    BY ExecutorAssumption
  <2>3. legs \in [D -> ExitLeg]
    BY <1>10, LegsAreFinite
  <2>4. QED
    BY <1>10, <2>1, <2>2, <2>3
<1>12. ASSUME NEW a \in Asset PROVE TotalOf(legs, sold, a) <= PermittedOf(permit, a)
  <2>1. PICK f, g : /\ f = [i \in DOMAIN legs |-> IF legs[i].asset = a THEN sold[i] ELSE 0]
                    /\ g = [i \in DOMAIN permit.permitted |->
                              IF permit.permitted[i].token = a THEN permit.permitted[i].amount ELSE 0]
    OBVIOUS
  <2>2. f \in [D -> Int]
    <3>1. \A i \in D : (IF legs[i].asset = a THEN sold[i] ELSE 0) \in Int
      BY <1>11
    <3>2. QED
      BY <1>10, <2>1, <3>1
  <2>3. g \in [D -> Int]
    BY <1>10, <2>1
  <2>4. \A i \in D : f[i] <= g[i]
    BY <1>7, <1>8, <1>10, <1>11, <2>1
  <2>5. Total(f) <= Total(g)
    BY <1>10, <2>2, <2>3, <2>4, TotalGrows
  <2>6. QED
    BY <2>1, <2>5 DEF TotalOf, PermittedOf
<1>13. Covered(o, Cash, purse[o] - purse'[o])
  <2>1. ~ (purse[o] - purse'[o] > 0)
    BY <1>4, <1>5
  <2>2. QED
    BY <2>1 DEF Covered
<1>14. ASSUME NEW a \in Asset PROVE Covered(o, a, units[o][a] - units'[o][a])
  <2>1. PICK u, t : u = units[o][a] /\ t = TotalOf(legs, sold, a)
    OBVIOUS
  <2>2. u \in Nat /\ t \in Nat /\ units'[o][a] = u - t
    BY <1>4, <1>5, <2>1
  <2>3. units[o][a] - units'[o][a] = t
    BY <2>1, <2>2
  <2>4. t <= PermittedOf(permit, a)
    BY <1>12, <2>1
  <2>5. QED
    BY <1>8, <1>9, <2>3, <2>4 DEF Covered
<1>15. Signed(o)
  BY <1>13, <1>14 DEF Signed
<1>16. QED
  BY <1>4, <1>15, NothingLeft

\* A sweep of the fees takes from no owner.
LEMMA WithdrawSigned ==
  ASSUME Ledgers, Withdraw, NEW o \in Account
  PROVE  Signed(o)
<1>1. /\ units' = units /\ purse' = [purse EXCEPT ![Collector] = 0, ![treasury] = @ + purse[Collector]]
  BY DEF Withdraw
<1>2. /\ treasury \in FeeAddress /\ treasury \in Holder /\ treasury # Collector
      /\ Collector \in Holder /\ o \in Holder /\ o # Collector
  BY Holders DEF Ledgers
<1>3. PICK c, k : c = purse[Collector] /\ k = purse[treasury]
  OBVIOUS
<1>4. c \in Nat /\ k \in Nat /\ \A h \in Holder : purse[h] \in Nat
  BY <1>2, <1>3 DEF Ledgers
<1>5. purse' = [purse EXCEPT ![Collector] = 0, ![treasury] = k + c]
  BY <1>1, <1>2, <1>3 DEF Ledgers
<1>6. CASE o = treasury
  <2>1. purse'[o] = k + c /\ purse[o] = k
    BY <1>2, <1>3, <1>5, <1>6 DEF Ledgers
  <2>2. ~ (purse[o] - purse'[o] > 0)
    BY <1>4, <2>1
  <2>3. \A a \in Asset : ~ (units[o][a] - units'[o][a] > 0)
    <3>1. \A a \in Asset : units[o][a] \in Nat /\ units'[o][a] = units[o][a]
      BY <1>1, <1>2 DEF Ledgers
    <3>2. QED
      BY <3>1
  <2>4. QED
    BY <2>2, <2>3 DEF Signed, Covered
<1>7. CASE o # treasury
  <2>1. purse'[o] = purse[o]
    BY <1>2, <1>5, <1>7 DEF Ledgers
  <2>2. QED
    BY <1>1, <2>1, NothingLeft
<1>8. QED
  BY <1>6, <1>7

\* Nothing leaves an owner's wallet but under one signature of the owner that names the token,
\* for no more than it names, inside its deadline, and spent with it.
THEOREM NothingLeavesUnsignedHolds == ExecSpec => NothingLeavesUnsigned
<1>1. ExecInv /\ [ExecNext]_execVars => \A o \in Account : Signed(o)
  <2> SUFFICES ASSUME ExecInv, [ExecNext]_execVars PROVE \A o \in Account : Signed(o)
    OBVIOUS
  <2>1. Ledgers /\ Owned
    BY DEF ExecInv
  <2>2. ASSUME UNCHANGED <<purse, units>> PROVE \A o \in Account : Signed(o)
    BY <2>1, <2>2, NothingLeft
  <2>3. ASSUME NEW caller \in Account, NEW id \in DOMAIN mandates, Trade(caller, id)
        PROVE  \A o \in Account : Signed(o)
    BY <2>1, <2>3, EntrySigned, ExitSigned DEF Trade
  <2>4. ASSUME NEW owner \in Account, NEW permit \in Permit, Sign(owner, permit)
        PROVE  UNCHANGED <<purse, units>>
    BY <2>4 DEF Sign
  <2>5. CASE Around
    BY <2>2, <2>5 DEF Around, tokenVars
  <2>6. CASE FeeStep
    BY <2>2, <2>6 DEF FeeStep, tokenVars
  <2>7. CASE Withdraw
    BY <2>1, <2>7, WithdrawSigned
  <2>8. CASE UNCHANGED execVars
    BY <2>2, <2>8 DEF execVars, tokenVars
  <2>9. QED
    BY <2>2, <2>3, <2>4, <2>5, <2>6, <2>7, <2>8 DEF ExecNext
<1>2. (\A o \in Account : Signed(o)) =>
        \A o \in Account :
          LET Spent(token, loss) ==
                loss > 0 =>
                  \E permit \in signed[o] :
                    /\ permit.nonce \in usedNonces'[o] \ usedNonces[o]
                    /\ now <= permit.deadline
                    /\ loss <= PermittedOf(permit, token)
          IN /\ Spent(Cash, purse[o] - purse'[o])
             /\ \A a \in Asset : Spent(a, units[o][a] - units'[o][a])
  BY DEF Signed, Covered
<1>3. QED
  BY <1>1, <1>2, LedgersAndRecordAgree, PTL DEF NothingLeavesUnsigned, ExecSpec

---------------------------------------------------------------------------
(* The receipts page (TrackRecord).  First of sums and averages.           *)

\* Scaling every part scales the sum.
LEMMA SumScaled ==
  ASSUME NEW f, NEW g, NEW c \in Int, NEW S, IsFiniteSet(S),
         \A x \in S : f[x] \in Int /\ g[x] = c * f[x]
  PROVE  SumFunctionOnSet(g, S) = c * SumFunctionOnSet(f, S)
<1> DEFINE P == {s \in SUBSET S : SumFunctionOnSet(g, s) = c * SumFunctionOnSet(f, s)}
<1>1. {} \in P
  <2>1. c * 0 = 0
    OBVIOUS
  <2>2. QED
    BY <2>1, SumOfNothing
<1>2. ASSUME NEW s \in SUBSET S, NEW x \in S \ s, s \in P PROVE s \cup {x} \in P
  <2>1. IsFiniteSet(s) /\ \A y \in s : f[y] \in Int /\ g[y] \in Int
    BY FS_Subset
  <2>2. PICK a, b, d, k : /\ a = SumFunctionOnSet(f, s) /\ b = SumFunctionOnSet(g, s)
                          /\ d = f[x] /\ k = g[x]
    OBVIOUS
  <2>3. SumFunctionOnSet(f, s \cup {x}) = a + d /\ SumFunctionOnSet(g, s \cup {x}) = b + k
    BY <2>1, <2>2, SumWith
  <2>4. a \in Int /\ d \in Int /\ k = c * d
    BY <2>1, <2>2, SumIsInt
  <2>5. b = c * a
    BY <1>2, <2>2
  <2>6. b + k = c * (a + d)
    BY <2>4, <2>5
  <2>7. QED
    BY <2>3, <2>6
<1>3. S \in P
  <2> HIDE DEF P
  <2>1. QED
    BY <1>1, <1>2, EveryPart
<1>4. QED
  BY <1>3

\* Parts of at most c each make at most so many times c.
LEMMA SumIsWithin ==
  ASSUME NEW f, NEW c \in Nat, NEW S, IsFiniteSet(S), \A x \in S : f[x] \in 0 .. c
  PROVE  SumFunctionOnSet(f, S) <= Cardinality(S) * c
<1> DEFINE P == {s \in SUBSET S : SumFunctionOnSet(f, s) <= Cardinality(s) * c}
<1>1. {} \in P
  <2>1. 0 <= 0 * c
    OBVIOUS
  <2>2. QED
    BY <2>1, SumOfNothing, FS_EmptySet
<1>2. ASSUME NEW s \in SUBSET S, NEW x \in S \ s, s \in P PROVE s \cup {x} \in P
  <2>1. IsFiniteSet(s) /\ \A y \in s : f[y] \in Int
    BY FS_Subset
  <2>2. PICK a, b, n : a = SumFunctionOnSet(f, s) /\ b = f[x] /\ n = Cardinality(s)
    OBVIOUS
  <2>3. SumFunctionOnSet(f, s \cup {x}) = a + b /\ Cardinality(s \cup {x}) = n + 1
    BY <2>1, <2>2, SumWith, FS_AddElement
  <2>4. a \in Int /\ b \in 0 .. c /\ n \in Nat
    BY <2>1, <2>2, SumIsInt, FS_CardinalityType
  <2>5. a <= n * c
    BY <1>2, <2>2
  <2>6. (n + 1) * c = n * c + c /\ n * c \in Nat
    BY <2>4
  <2>7. a + b <= (n + 1) * c
    BY <2>4, <2>5, <2>6
  <2>8. QED
    BY <2>3, <2>7
<1>3. S \in P
  <2> HIDE DEF P
  <2>1. QED
    BY <1>1, <1>2, EveryPart
<1>4. QED
  BY <1>3

\* A sum, taken kind by kind.
LEMMA SumByKind ==
  ASSUME NEW f, NEW kind, NEW by, NEW S, IsFiniteSet(S), \A x \in S : f[x] \in Nat,
         NEW B, IsFiniteSet(B), \A x \in S : kind[x] \in B,
         \A b \in B : by[b] = SumFunctionOnSet(f, {x \in S : kind[x] = b})
  PROVE  /\ \A b \in B : by[b] \in Nat
         /\ SumFunctionOnSet(by, B) = SumFunctionOnSet(f, S)
<1> DEFINE Kinds(s) == {x \in S : kind[x] \in s}
           P == {s \in SUBSET B : SumFunctionOnSet(by, s) = SumFunctionOnSet(f, Kinds(s))}
<1>1. ASSUME NEW b \in B PROVE by[b] \in Nat
  <2> DEFINE One == {x \in S : kind[x] = b}
  <2>1. One \subseteq S /\ by[b] = SumFunctionOnSet(f, One)
    OBVIOUS
  <2> HIDE DEF One
  <2>2. IsFiniteSet(One) /\ \A x \in One : f[x] \in Nat
    BY <2>1, FS_Subset
  <2>3. QED
    BY <2>1, <2>2, SumIsNat
<1>2. {} \in P
  <2>1. Kinds({}) = {}
    OBVIOUS
  <2>2. QED
    BY <2>1, SumOfNothing
<1>3. ASSUME NEW s \in SUBSET B, NEW b \in B \ s, s \in P PROVE s \cup {b} \in P
  <2>1. IsFiniteSet(s) /\ \A y \in s : by[y] \in Int
    BY <1>1, FS_Subset
  <2>2. SumFunctionOnSet(by, s \cup {b}) = SumFunctionOnSet(by, s) + by[b]
    BY <1>1, <2>1, SumWith
  <2> DEFINE One == {x \in S : kind[x] = b}
  <2>3. /\ Kinds(s \cup {b}) = Kinds(s) \cup One /\ Kinds(s) \cap One = {}
        /\ Kinds(s) \subseteq S /\ One \subseteq S
    OBVIOUS
  <2>4. IsFiniteSet(Kinds(s)) /\ IsFiniteSet(One) /\ \A x \in Kinds(s) \cup One : f[x] \in Int
    BY <2>3, FS_Subset
  <2>5. by[b] = SumFunctionOnSet(f, One)
    OBVIOUS
  <2>6. SumFunctionOnSet(by, s) = SumFunctionOnSet(f, Kinds(s))
    BY <1>3
  <2> HIDE DEF One, Kinds
  <2>7. SumFunctionOnSet(f, Kinds(s) \cup One) = SumFunctionOnSet(f, Kinds(s)) + SumFunctionOnSet(f, One)
    BY <2>3, <2>4, SumOfBoth
  <2>8. QED
    BY <2>2, <2>3, <2>5, <2>6, <2>7
<1>4. B \in P
  <2> HIDE DEF P
  <2>1. QED
    BY <1>2, <1>3, EveryPart
<1>5. Kinds(B) = S
  OBVIOUS
<1>6. QED
  BY <1>1, <1>4, <1>5

\* A finite set of numbers is bounded.
LEMMA FiniteIsBounded ==
  ASSUME NEW S, IsFiniteSet(S), S \subseteq Nat
  PROVE  \E m \in Nat : \A x \in S : x <= m
<1> DEFINE P == {s \in SUBSET S : \E m \in Nat : \A x \in s : x <= m}
<1>1. {} \in P
  OBVIOUS
<1>2. ASSUME NEW s \in SUBSET S, NEW y \in S \ s, s \in P PROVE s \cup {y} \in P
  <2>1. PICK m \in Nat : \A x \in s : x <= m
    BY <1>2
  <2>2. m + y \in Nat /\ \A x \in s \cup {y} : x <= m + y
    BY <2>1
  <2>3. QED
    BY <2>2
<1>3. S \in P
  <2> HIDE DEF P
  <2>1. QED
    BY <1>1, <1>2, EveryPart
<1>4. QED
  BY <1>3

\* A weighted average is between the least and the largest.
LEMMA AveragesAreBetween ==
  ASSUME NEW S, IsFiniteSet(S), NEW lo \in Nat, NEW hi \in Nat, NEW v, NEW w, NEW wv,
         \A x \in S : w[x] \in Nat /\ v[x] \in lo .. hi /\ wv[x] = w[x] * v[x],
         SumFunctionOnSet(w, S) # 0
  PROVE  SumFunctionOnSet(wv, S) \div SumFunctionOnSet(w, S) \in lo .. hi
<1> DEFINE low == [x \in S |-> lo * w[x]]
           high == [x \in S |-> hi * w[x]]
<1>1. ASSUME NEW x \in S
      PROVE  low[x] \in Int /\ high[x] \in Int /\ wv[x] \in Nat /\ low[x] <= wv[x] /\ wv[x] <= high[x]
  <2>1. PICK a \in Nat, b \in Nat : a = w[x] /\ b = v[x] /\ lo <= b /\ b <= hi
    OBVIOUS
  <2>2. lo * a <= b * a /\ b * a <= hi * a
    BY <2>1, ProductsGrow
  <2>3. lo * a \in Int /\ hi * a \in Int /\ a * b = b * a /\ b * a \in Nat
    BY <2>1
  <2>4. QED
    BY <2>1, <2>2, <2>3
<1>2. PICK W \in Nat \ {0} : W = SumFunctionOnSet(w, S)
  BY SumIsNat
<1>3. PICK V \in Nat : V = SumFunctionOnSet(wv, S)
  BY <1>1, SumIsNat
<1>4. SumFunctionOnSet(low, S) = lo * W /\ SumFunctionOnSet(high, S) = hi * W
  BY <1>2, SumScaled
<1>5. SumFunctionOnSet(low, S) <= V /\ V <= SumFunctionOnSet(high, S)
  <2> HIDE DEF low, high
  <2>1. QED
    BY <1>1, <1>3, SumGrows
<1>6. lo * W + 0 <= V /\ V <= hi * W + 0 /\ lo * W \in Int /\ hi * W \in Int
  BY <1>4, <1>5
<1>7. (lo * W + 0) \div W <= V \div W /\ V \div W <= (hi * W + 0) \div W /\ V \div W \in Int
  BY <1>6, QuotientsKeepOrder
<1>8. (lo * W + 0) \div W = lo /\ (hi * W + 0) \div W = hi
  BY QuotientIs
<1>9. QED
  BY <1>2, <1>3, <1>7, <1>8

\* What is lost in rounding down.
LEMMA RoundedDown ==
  ASSUME NEW a \in Nat, NEW n \in Nat \ {0}
  PROVE  \E d \in Int : d = a \div n /\ a - n * d \in 0 .. n - 1
<1>1. PICK d \in Int, m \in 0 .. n - 1 : a = d * n + m /\ d = a \div n
  OBVIOUS
<1>2. d * n = n * d /\ n * d \in Int
  BY <1>1
<1>3. a - n * d = m
  BY <1>1, <1>2
<1>4. QED
  BY <1>1, <1>3

\* Parts of a whole, each rounded down to a basis point, lose less than one each.
LEMMA RoundedParts ==
  ASSUME NEW B, IsFiniteSet(B), B # {}, NEW by, \A b \in B : by[b] \in Nat,
         NEW N \in Nat \ {0}, N = SumFunctionOnSet(by, B),
         NEW w,
         \A b \in B : w[b] \in Int /\ 10000 * by[b] - N * w[b] \in 0 .. N - 1
  PROVE  SumFunctionOnSet(w, B) \in (10001 - Cardinality(B)) .. 10000
<1> DEFINE r == [b \in B |-> 10000 * by[b] - N * w[b]]
           nw == [b \in B |-> N * w[b]]
           tenth == [b \in B |-> 10000 * by[b]]
<1>1. ASSUME NEW b \in B
      PROVE  /\ w[b] \in Int /\ nw[b] \in Int /\ r[b] \in 0 .. N - 1
             /\ tenth[b] = nw[b] + r[b]
  <2>1. PICK a \in Int, d \in Int : a = 10000 * by[b] /\ d = N * w[b]
    OBVIOUS
  <2>2. nw[b] = d /\ tenth[b] = a /\ r[b] = a - d
    BY <2>1
  <2>3. a = d + (a - d) /\ a - d \in 0 .. N - 1 /\ w[b] \in Int
    BY <2>1
  <2> HIDE DEF r, nw, tenth
  <2>4. QED
    BY <2>2, <2>3, <2>1
<1>2. PICK W \in Int : W = SumFunctionOnSet(w, B)
  BY <1>1, SumIsInt
<1>3. PICK R \in Nat : R = SumFunctionOnSet(r, B)
  <2>1. \A b \in B : r[b] \in Nat
    BY <1>1
  <2> HIDE DEF r
  <2>2. QED
    BY <2>1, SumIsNat
<1>4. PICK n \in Nat \ {0} : n = Cardinality(B)
  BY FS_CardinalityType, FS_EmptySet
<1>5. R <= n * (N - 1)
  <2> HIDE DEF r
  <2>1. QED
    BY <1>1, <1>3, <1>4, SumIsWithin
<1>6. SumFunctionOnSet(tenth, B) = 10000 * N
  <2>1. PICK c \in Int : c = 10000
    OBVIOUS
  <2>2. \A b \in B : by[b] \in Int /\ tenth[b] = c * by[b]
    BY <2>1
  <2> HIDE DEF r, nw, tenth
  <2>3. SumFunctionOnSet(tenth, B) = c * SumFunctionOnSet(by, B)
    BY ONLY <2>2, IsFiniteSet(B), c \in Int, SumScaled
  <2>4. QED
    BY <2>1, <2>3
<1>7. SumFunctionOnSet(nw, B) = N * W
  <2>1. \A b \in B : w[b] \in Int /\ nw[b] = N * w[b]
    BY <1>1
  <2> HIDE DEF r, nw, tenth
  <2>2. QED
    BY <1>2, <2>1, SumScaled
<1>8. SumFunctionOnSet(tenth, B) = SumFunctionOnSet(nw, B) + SumFunctionOnSet(r, B)
  <2> HIDE DEF r, nw, tenth
  <2>1. \A b \in B : nw[b] \in Int /\ r[b] \in Int /\ tenth[b] = nw[b] + r[b]
    BY <1>1
  <2>2. QED
    BY <2>1, SumOfSums
<1>9. 10000 * N = N * W + R
  BY <1>3, <1>6, <1>7, <1>8
<1> HIDE DEF r, nw, tenth
<1>10. W <= 10000
  <2> SUFFICES ASSUME W - 10000 \in Nat \ {0} PROVE FALSE
    OBVIOUS
  <2>1. 1 * N <= (W - 10000) * N
    BY ProductsGrow
  <2>2. (W - 10000) * N = N * W - 10000 * N /\ N * W \in Int
    OBVIOUS
  <2>3. QED
    BY <1>9, <2>1, <2>2
<1>11. W >= 10001 - n
  <2> SUFFICES ASSUME 10000 - n - W \in Nat PROVE FALSE
    OBVIOUS
  <2>1. 0 * N <= (10000 - n - W) * N
    BY ProductsGrow
  <2>2. (10000 - n - W) * N = 10000 * N - n * N - N * W /\ n * (N - 1) = n * N - n
        /\ N * W \in Int /\ n * N \in Int
    OBVIOUS
  <2>3. QED
    BY <1>5, <1>9, <2>1, <2>2
<1>12. QED
  BY <1>2, <1>4, <1>10, <1>11

---------------------------------------------------------------------------
(* The registries and the page.                                            *)

Publishing == [hash : Thesis, at : Nat, settled : Nat]
Settling == [thesis : Thesis \cup {NoThesis}, at : Nat, fills : Recordable]
Registries == [theses : Seq(Publishing), receipts : Seq(Settling)]
Page == [pc : {"off", "theses", "shown", "opened", "missing", "unreadable"},
         theses : Nat, receipts : Nat, id : Nat]

\* What a receipt says it was settled at, before a thesis that counted it was published.
Chronicled(r) ==
  \A k \in DOMAIN r.theses : \A i \in DOMAIN r.receipts :
    i <= r.theses[k].settled => r.receipts[i].at <= r.theses[k].at

\* The registries only grow, so whatever a node serves and whatever a page counted is a
\* beginning of what the chain has, which is in order of time.
RecordInv ==
  /\ second \in Nat /\ head \in Registries /\ behind \in Registries /\ page \in Page
  /\ \A i \in DOMAIN head.receipts : head.receipts[i].at <= second
  /\ \A k \in DOMAIN head.theses : head.theses[k].settled <= Len(head.receipts)
  /\ Chronicled(head)
  /\ Len(behind.theses) <= Len(head.theses) /\ Len(behind.receipts) <= Len(head.receipts)
  /\ page.theses <= Len(head.theses) /\ page.receipts <= Len(head.receipts)

\* The registries before anything is in them.
LEMMA RecordInitially == RecordInit => RecordInv
<1> SUFFICES ASSUME RecordInit PROVE RecordInv
  OBVIOUS
<1>1. <<>> \in Seq(Publishing) /\ <<>> \in Seq(Settling) /\ Len(<<>>) = 0 /\ DOMAIN <<>> = {}
  OBVIOUS
<1>2. head = [theses |-> <<>>, receipts |-> <<>>] /\ behind = head /\ second = 1 /\ page = NoPage
  BY DEF RecordInit, ReadsInit
<1>3. head \in Registries /\ head.theses = <<>> /\ head.receipts = <<>>
  BY <1>1, <1>2 DEF Registries
<1>4. page \in Page /\ page.theses = 0 /\ page.receipts = 0
  BY <1>2 DEF NoPage, Page
<1>5. Chronicled(head)
  BY <1>1, <1>3 DEF Chronicled
<1>6. QED
  BY <1>1, <1>2, <1>3, <1>4, <1>5 DEF RecordInv

\* A thesis is published.
LEMMA PublishingStep == RecordInv /\ Publishes => RecordInv'
<1> SUFFICES ASSUME RecordInv, Publishes PROVE RecordInv'
  OBVIOUS
<1> DEFINE ts == head.theses
           rs == head.receipts
<1>1. head \in Registries /\ ts \in Seq(Publishing) /\ rs \in Seq(Settling) /\ second \in Nat
  BY DEF RecordInv, Registries
<1>2. PICK h \in Thesis :
        /\ head' = [head EXCEPT !.theses = Append(ts, [hash |-> h, at |-> second, settled |-> Len(rs)])]
        /\ UNCHANGED <<behind, second, page>>
  BY DEF Publishes, Land
<1> DEFINE t == [hash |-> h, at |-> second, settled |-> Len(rs)]
<1>3. t \in Publishing /\ t.at = second /\ t.settled = Len(rs) /\ Len(rs) \in Nat
  BY <1>1 DEF Publishing
<1>4. head'.theses = Append(ts, t) /\ head'.receipts = rs
  BY <1>1, <1>2 DEF Registries
<1> HIDE DEF t
<1>5. /\ Append(ts, t) \in Seq(Publishing) /\ Len(Append(ts, t)) = Len(ts) + 1 /\ Len(ts) \in Nat
      /\ DOMAIN Append(ts, t) = 1 .. Len(ts) + 1 /\ DOMAIN ts = 1 .. Len(ts)
      /\ \A k \in 1 .. Len(ts) : Append(ts, t)[k] = ts[k]
      /\ Append(ts, t)[Len(ts) + 1] = t
  BY <1>1, <1>3, OneMore
<1>6. head' = [theses |-> Append(ts, t), receipts |-> rs]
  BY <1>1, <1>2 DEF Registries, t
<1>7. head' \in Registries
  BY <1>1, <1>5, <1>6 DEF Registries
<1> DEFINE more == Append(ts, t)
<1>8. ASSUME NEW k \in DOMAIN more
      PROVE  /\ more[k].settled <= Len(rs)
             /\ \A i \in DOMAIN rs : i <= more[k].settled => rs[i].at <= more[k].at
  <2>1. CASE k \in DOMAIN ts
    <3>1. more[k] = ts[k]
      BY <1>5, <2>1
    <3>2. QED
      BY <2>1, <3>1 DEF RecordInv, Chronicled
  <2>2. CASE k = Len(ts) + 1
    <3>1. more[k] = t
      BY <1>5, <2>2
    <3>2. \A i \in DOMAIN rs : rs[i].at <= second
      BY DEF RecordInv
    <3>3. QED
      BY <1>3, <3>1, <3>2
  <2>3. QED
    BY <1>5, <2>1, <2>2
<1>9. Chronicled(head') /\ \A k \in DOMAIN head'.theses : head'.theses[k].settled <= Len(head'.receipts)
  BY <1>4, <1>8 DEF Chronicled
<1>10. Len(ts) <= Len(head'.theses) /\ Len(head'.theses) \in Nat
  BY <1>4, <1>5
<1>11. /\ behind' \in Registries /\ page' \in Page /\ second' \in Nat
       /\ \A i \in DOMAIN head'.receipts : head'.receipts[i].at <= second'
       /\ Len(behind'.receipts) <= Len(head'.receipts) /\ page'.receipts <= Len(head'.receipts)
  BY <1>2, <1>4 DEF RecordInv
<1>12. Len(behind'.theses) <= Len(head'.theses) /\ page'.theses <= Len(head'.theses)
  <2>1. Len(behind.theses) <= Len(ts) /\ page.theses <= Len(ts) /\ page.theses \in Nat
        /\ Len(behind.theses) \in Nat
    BY DEF RecordInv, Registries, Page
  <2>2. QED
    BY <1>2, <1>5, <1>10, <2>1
<1>13. Chronicled(head)'
  BY <1>9 DEF Chronicled
<1>14. QED
  BY <1>7, <1>9, <1>11, <1>12, <1>13 DEF RecordInv

\* A trade settles.
LEMMA SettlingStep == RecordInv /\ Settles => RecordInv'
<1> SUFFICES ASSUME RecordInv, Settles PROVE RecordInv'
  OBVIOUS
<1> DEFINE ts == head.theses
           rs == head.receipts
<1>1. head \in Registries /\ ts \in Seq(Publishing) /\ rs \in Seq(Settling) /\ second \in Nat
  BY DEF RecordInv, Registries
<1>2. PICK h \in Thesis \cup {NoThesis}, fills \in Recordable :
        /\ head' = [head EXCEPT !.receipts = Append(rs, [thesis |-> h, at |-> second, fills |-> fills])]
        /\ UNCHANGED <<behind, second, page>>
  BY DEF Settles, Land
<1> DEFINE r == [thesis |-> h, at |-> second, fills |-> fills]
<1>3. r \in Settling /\ r.at = second
  BY <1>1 DEF Settling
<1>4. head' = [theses |-> ts, receipts |-> Append(rs, r)] /\ head'.theses = ts /\ head'.receipts = Append(rs, r)
  BY <1>1, <1>2 DEF Registries
<1> HIDE DEF r
<1>5. /\ Append(rs, r) \in Seq(Settling) /\ Len(Append(rs, r)) = Len(rs) + 1 /\ Len(rs) \in Nat
      /\ DOMAIN Append(rs, r) = 1 .. Len(rs) + 1 /\ DOMAIN rs = 1 .. Len(rs)
      /\ \A i \in 1 .. Len(rs) : Append(rs, r)[i] = rs[i]
      /\ Append(rs, r)[Len(rs) + 1] = r
  BY <1>1, <1>3, OneMore
<1>6. head' \in Registries
  BY <1>1, <1>4, <1>5 DEF Registries
<1> DEFINE more == Append(rs, r)
<1>7. ASSUME NEW i \in DOMAIN more PROVE more[i].at <= second
  <2>1. CASE i \in DOMAIN rs
    BY <1>5, <2>1 DEF RecordInv
  <2>2. CASE i = Len(rs) + 1
    BY <1>1, <1>3, <1>5, <2>2
  <2>3. QED
    BY <1>5, <2>1, <2>2
<1>8. ASSUME NEW k \in DOMAIN ts
      PROVE  /\ ts[k].settled <= Len(rs) /\ ts[k].settled \in Nat
             /\ \A i \in DOMAIN more : i <= ts[k].settled => more[i].at <= ts[k].at
  <2>1. ts[k].settled <= Len(rs) /\ ts[k].settled \in Nat
    <3>1. ts[k] \in Publishing
      BY <1>1
    <3>2. QED
      BY <3>1 DEF RecordInv, Publishing
  <2>2. ASSUME NEW i \in DOMAIN more, i <= ts[k].settled PROVE more[i].at <= ts[k].at
    <3>1. i \in DOMAIN rs
      BY <1>5, <2>1, <2>2
    <3>2. more[i] = rs[i]
      BY <1>5, <3>1
    <3>3. QED
      BY <2>2, <3>1, <3>2 DEF RecordInv, Chronicled
  <2>3. QED
    BY <2>1, <2>2
<1>9. /\ Chronicled(head')
      /\ \A k \in DOMAIN head'.theses : head'.theses[k].settled <= Len(head'.receipts)
      /\ \A i \in DOMAIN head'.receipts : head'.receipts[i].at <= second'
  BY <1>2, <1>4, <1>5, <1>7, <1>8 DEF Chronicled
<1>10. behind' \in Registries /\ page' \in Page /\ second' \in Nat
       /\ Len(behind'.theses) <= Len(head'.theses) /\ page'.theses <= Len(head'.theses)
  BY <1>2, <1>4 DEF RecordInv
<1>11. Len(behind'.receipts) <= Len(head'.receipts) /\ page'.receipts <= Len(head'.receipts)
  <2>1. Len(behind.receipts) <= Len(rs) /\ page.receipts <= Len(rs) /\ page.receipts \in Nat
        /\ Len(behind.receipts) \in Nat
    BY DEF RecordInv, Registries, Page
  <2>2. QED
    BY <1>2, <1>4, <1>5, <2>1
<1>12. Chronicled(head)'
  BY <1>9 DEF Chronicled
<1>13. QED
  BY <1>6, <1>9, <1>10, <1>11, <1>12 DEF RecordInv

\* Whatever a page shows is a beginning of what the chain has.
LEMMA ShowingStep ==
  ASSUME RecordInv, NEW p \in Page, Shows(p),
         p.theses <= Len(head.theses), p.receipts <= Len(head.receipts)
  PROVE  RecordInv'
BY DEF Shows, RecordInv, Chronicled

\* What the chain and the pages are, whoever publishes, settles and loads
\* (track-record.ts 188-243 and 314-342).
THEOREM TheRecordIsInOrder == RecordSpec => []RecordInv
<1>1. RecordInv /\ [RecordNext]_recordVars => RecordInv'
  <2> SUFFICES ASSUME RecordInv, [RecordNext]_recordVars PROVE RecordInv'
    OBVIOUS
  <2>1. ASSUME NEW s \in Served
        PROVE  /\ Len(s.theses) \in Nat /\ Len(s.receipts) \in Nat
               /\ Len(s.theses) <= Len(head.theses) /\ Len(s.receipts) <= Len(head.receipts)
    BY DEF RecordInv, Registries, Served
  <2>2. /\ page \in Page /\ page.theses <= Len(head.theses) /\ page.receipts <= Len(head.receipts)
        /\ Len(head.theses) \in Nat /\ Len(head.receipts) \in Nat
        /\ NoPage \in Page /\ NoPage.theses = 0 /\ NoPage.receipts = 0
    BY DEF RecordInv, NoPage, Page, Registries
  <2>3. CASE CountsTheses
    <3>1. PICK s \in Served : Shows([NoPage EXCEPT !.pc = "theses", !.theses = Len(s.theses)])
      BY <2>3 DEF CountsTheses
    <3> DEFINE p == [NoPage EXCEPT !.pc = "theses", !.theses = Len(s.theses)]
    <3>2. p \in Page /\ p.theses = Len(s.theses) /\ p.receipts = 0
      BY <2>1 DEF Page, NoPage
    <3>3. Shows(p)
      BY <3>1
    <3> HIDE DEF p
    <3>4. QED
      BY <2>1, <2>2, <3>2, <3>3, ShowingStep
  <2>4. CASE CountsReceipts
    <3>1. PICK s \in Served : Shows([page EXCEPT !.pc = "shown", !.receipts = Len(s.receipts)])
      BY <2>4 DEF CountsReceipts
    <3> DEFINE p == [page EXCEPT !.pc = "shown", !.receipts = Len(s.receipts)]
    <3>2. p \in Page /\ p.theses = page.theses /\ p.receipts = Len(s.receipts)
      BY <2>1, <2>2 DEF Page
    <3>3. Shows(p)
      BY <3>1
    <3> HIDE DEF p
    <3>4. QED
      BY <2>1, <2>2, <3>2, <3>3, ShowingStep
  <2>5. CASE Unreadable
    <3> DEFINE p == [page EXCEPT !.pc = "unreadable"]
    <3>1. p \in Page /\ p.theses = page.theses /\ p.receipts = page.receipts
      BY <2>2 DEF Page
    <3>2. Shows(p)
      BY <2>5 DEF Unreadable
    <3> HIDE DEF p
    <3>3. QED
      BY <2>2, <3>1, <3>2, ShowingStep
  <2>6. CASE Looks
    <3>1. PICK id \in 1 .. MaxReceipts :
            Shows([page EXCEPT !.id = id, !.pc = IF id \in OnThePage THEN "opened" ELSE "missing"])
      BY <2>6 DEF Looks
    <3>2. PICK pc \in {"opened", "missing"} : pc = IF id \in OnThePage THEN "opened" ELSE "missing"
      OBVIOUS
    <3> DEFINE p == [page EXCEPT !.id = id, !.pc = pc]
    <3>3. id \in Nat
      BY RecordAssumption
    <3>4. p \in Page /\ p.theses = page.theses /\ p.receipts = page.receipts
      BY <2>2, <3>3 DEF Page
    <3>5. Shows(p)
      BY <3>1, <3>2
    <3> HIDE DEF p
    <3>6. QED
      BY <2>2, <3>4, <3>5, ShowingStep
  <2>7. CASE Leaves
    BY <2>2, <2>7, ShowingStep DEF Leaves
  <2>8. CASE Second
    <3>1. second \in Nat /\ second' \in Nat /\ second <= second' /\ UNCHANGED <<head, behind, page>>
      BY <2>8 DEF Second, RecordInv
    <3>2. ASSUME NEW i \in DOMAIN head.receipts PROVE head.receipts[i].at \in Nat
      <4>1. head.receipts[i] \in Settling
        BY DEF RecordInv, Registries
      <4>2. QED
        BY <4>1 DEF Settling
    <3>3. ASSUME NEW i \in DOMAIN head.receipts PROVE head.receipts[i].at <= second'
      <4>1. head.receipts[i].at <= second
        BY DEF RecordInv
      <4>2. QED
        BY <3>1, <3>2, <4>1
    <3>4. QED
      BY <3>1, <3>3 DEF RecordInv, Chronicled
  <2>9. CASE RecordSyncs
    BY <2>2, <2>9 DEF RecordSyncs, Sync, RecordInv, Chronicled
  <2>10. CASE UNCHANGED recordVars
    BY <2>10 DEF recordVars, RecordInv, Chronicled
  <2>11. QED
    BY <2>3, <2>4, <2>5, <2>6, <2>7, <2>8, <2>9, <2>10, PublishingStep, SettlingStep DEF RecordNext
<1>2. QED
  BY <1>1, RecordInitially, PTL DEF RecordSpec

---------------------------------------------------------------------------
(* What the page says.                                                     *)

\* If no receipt of a thesis on the page came before it, none on the chain did: the page
\* has the first ones.
LEMMA ClaimsAreTrue == RecordInv => ClaimsHold
<1> SUFFICES ASSUME RecordInv, NEW t \in ShownTheses, Mine(t) # {}, Before(t),
                    NEW i \in DOMAIN head.receipts, head.receipts[i].thesis = t.hash
             PROVE  i > t.settled
  BY DEF ClaimsHold
<1> DEFINE ts == head.theses
           rs == head.receipts
<1>1. /\ ts \in Seq(Publishing) /\ rs \in Seq(Settling)
      /\ DOMAIN rs = 1 .. Len(rs) /\ Len(rs) \in Nat /\ DOMAIN ts = 1 .. Len(ts) /\ Len(ts) \in Nat
      /\ page.theses \in Nat /\ page.receipts \in Nat
      /\ page.theses <= Len(ts) /\ page.receipts <= Len(rs)
  BY DEF RecordInv, Registries, Page
<1>2. PICK k \in DOMAIN ts : t = ts[k]
  BY <1>1 DEF ShownTheses
<1>3. ts[k] \in Publishing
  BY <1>1
<1>4. t.settled \in Nat /\ t.at \in Nat
  BY <1>2, <1>3 DEF Publishing
<1>5. \A j \in DOMAIN rs : j <= t.settled => rs[j].at <= t.at
  BY <1>2 DEF RecordInv, Chronicled
<1>6. PICK j \in 1 .. page.receipts : j \in Mine(t)
  BY DEF Mine, ShownReceipts
<1>7. \A m \in Mine(t) : m \in DOMAIN rs /\ rs[m].at > t.at /\ rs[m].at \in Nat
  <2>1. ASSUME NEW m \in Mine(t) PROVE m \in DOMAIN rs /\ rs[m].at > t.at
    BY <1>1 DEF Mine, ShownReceipts, Before
  <2>2. ASSUME NEW m \in DOMAIN rs PROVE rs[m].at \in Nat
    <3>1. rs[m] \in Settling
      BY <1>1
    <3>2. QED
      BY <3>1 DEF Settling
  <2>3. QED
    BY <2>1, <2>2
<1>8. j > t.settled
  <2>1. j \in DOMAIN rs /\ rs[j].at > t.at /\ rs[j].at \in Nat /\ j \in Nat
    BY <1>1, <1>6, <1>7
  <2>2. ~(j <= t.settled)
    BY <1>4, <1>5, <2>1
  <2>3. QED
    BY <1>4, <2>1, <2>2
<1>9. CASE i \in 1 .. page.receipts
  <2>1. i \in Mine(t)
    BY <1>9 DEF Mine, ShownReceipts
  <2>2. QED
    BY <1>1, <1>4, <1>5, <1>7, <2>1
<1>10. CASE i > page.receipts
  BY <1>1, <1>4, <1>6, <1>8, <1>10
<1>11. QED
  BY <1>1, <1>9, <1>10

\* The fills of receipts on the page are so many and are what may be recorded.
LEMMA FillsAreRecords ==
  ASSUME RecordInv, NEW ids, ids \subseteq ShownReceipts
  PROVE  IsFiniteSet(Fills(ids)) /\ \A p \in Fills(ids) : FillAt(p) \in FillRecord
<1>1. /\ head.receipts \in Seq(Settling) /\ page.receipts \in Nat
      /\ ShownReceipts \subseteq DOMAIN head.receipts /\ IsFiniteSet(ShownReceipts)
  <2>1. /\ head.receipts \in Seq(Settling) /\ page.receipts \in Nat
        /\ page.receipts <= Len(head.receipts)
    BY DEF RecordInv, Registries, Page
  <2>2. DOMAIN head.receipts = 1 .. Len(head.receipts) /\ Len(head.receipts) \in Nat
    BY <2>1
  <2>3. ShownReceipts \subseteq DOMAIN head.receipts
    BY <2>1, <2>2 DEF ShownReceipts
  <2>4. IsFiniteSet(ShownReceipts)
    BY <2>1, FS_Interval DEF ShownReceipts
  <2>5. QED
    BY <2>1, <2>3, <2>4
<1>2. IsFiniteSet(ids)
  BY <1>1, FS_Subset
<1>3. ASSUME NEW i \in ids PROVE head.receipts[i].fills \in Seq(FillRecord)
  <2>1. head.receipts[i] \in Settling
    BY <1>1
  <2>2. QED
    BY <2>1, RecordAssumption DEF Settling
<1> DEFINE Row(i) == {i} \X DOMAIN head.receipts[i].fills
           Rows == {Row(i) : i \in ids}
<1>4. \A T \in Rows : IsFiniteSet(T)
  <2>1. ASSUME NEW i \in ids PROVE IsFiniteSet(Row(i))
    <3>1. /\ DOMAIN head.receipts[i].fills = 1 .. Len(head.receipts[i].fills)
          /\ Len(head.receipts[i].fills) \in Nat
      BY <1>3
    <3>2. IsFiniteSet({i}) /\ IsFiniteSet(DOMAIN head.receipts[i].fills)
      <4>1. IsFiniteSet({i})
        BY FS_Singleton
      <4>2. QED
        BY <3>1, <4>1, FS_Interval
    <3>3. QED
      BY <3>2, FS_Product
  <2>2. QED
    BY <2>1
<1>5. IsFiniteSet(Rows)
  <2>1. [i \in ids |-> Row(i)] \in Surjection(ids, Rows)
    BY DEF Surjection
  <2>2. QED
    BY <1>2, <2>1, FS_Surjection
<1>6. IsFiniteSet(UNION Rows)
  BY <1>4, <1>5, FS_UNION
<1>7. ASSUME NEW p \in Fills(ids) PROVE FillAt(p) \in FillRecord
  <2>1. PICK i \in ids : p \in {i} \X DOMAIN head.receipts[i].fills
    BY DEF Fills
  <2>2. p[1] = i /\ p[2] \in DOMAIN head.receipts[i].fills
    BY <2>1
  <2>3. QED
    BY <1>3, <2>2 DEF FillAt
<1>8. QED
  BY <1>6, <1>7 DEF Fills

\* The slippage on top of the page is between the least and the largest that was measured.
LEMMA SlippageIsMeasured ==
  ASSUME RecordInv, WeightedSlippage # NoFigure
  PROVE  LET priced == {p \in Fills(OnThePage) : ~(FillAt(p).exit /\ FillAt(p).fairValue = 0)}
             slippages == {FillAt(p).slippageBps : p \in priced}
         IN slippages # {} /\ WeightedSlippage \in Min(slippages) .. Max(slippages)
<1> DEFINE priced == {p \in Fills(OnThePage) : ~(FillAt(p).exit /\ FillAt(p).fairValue = 0)}
           slippages == {FillAt(p).slippageBps : p \in priced}
           w == [p \in priced |-> FillAt(p).notional]
           v == [p \in priced |-> FillAt(p).slippageBps]
           wv == [p \in priced |-> FillAt(p).notional * FillAt(p).slippageBps]
<1>1. IsFiniteSet(Fills(OnThePage)) /\ \A p \in Fills(OnThePage) : FillAt(p) \in FillRecord
  <2>1. OnThePage \subseteq ShownReceipts
    BY DEF OnThePage
  <2>2. QED
    BY <2>1, FillsAreRecords
<1>2. priced = {p \in Fills(OnThePage) : ShortfallMeasured(FillAt(p))}
  BY <1>1 DEF ShortfallMeasured, FillRecord
<1>3. IsFiniteSet(priced) /\ \A p \in priced : FillAt(p).notional \in Nat /\ FillAt(p).slippageBps \in Nat
  <2>1. priced \subseteq Fills(OnThePage)
    OBVIOUS
  <2>2. QED
    BY <1>1, <2>1, FS_Subset DEF FillRecord
<1> HIDE DEF priced
<1>4. SumFunctionOnSet(w, priced) # 0 /\ WeightedSlippage = SumFunctionOnSet(wv, priced) \div SumFunctionOnSet(w, priced)
  BY <1>2 DEF WeightedSlippage, Notional, Slipped
<1>5. IsFiniteSet(slippages) /\ slippages \subseteq Nat
  <2>1. [p \in priced |-> FillAt(p).slippageBps] \in Surjection(priced, slippages)
    BY DEF Surjection
  <2>2. QED
    BY <1>3, <2>1, FS_Surjection
<1>6. priced # {}
  BY <1>4, SumOfNothing
<1>7. slippages # {}
  BY <1>6
<1>8. PICK top \in Nat : \A x \in slippages : x <= top
  <2> HIDE DEF slippages
  <2>1. QED
    BY <1>5, FiniteIsBounded
<1>9. /\ Max(slippages) \in slippages /\ Min(slippages) \in slippages
      /\ \A x \in slippages : x <= Max(slippages) /\ Min(slippages) <= x
  <2>1. slippages \subseteq 0 .. top
    BY <1>5, <1>8
  <2>2. 0 \in Int /\ top \in Int
    OBVIOUS
  <2> HIDE DEF slippages
  <2>3. QED
    BY <1>7, <2>1, <2>2, ExtremesAreMembers, Zenon
<1>10. PICK lo \in Nat, hi \in Nat : lo = Min(slippages) /\ hi = Max(slippages)
  BY <1>5, <1>9
<1>11. ASSUME NEW p \in priced
       PROVE  w[p] \in Nat /\ v[p] \in lo .. hi /\ wv[p] = w[p] * v[p]
  BY <1>3, <1>9, <1>10
<1> HIDE DEF w, v, wv, slippages
<1>12. SumFunctionOnSet(wv, priced) \div SumFunctionOnSet(w, priced) \in lo .. hi
  BY <1>3, <1>4, <1>11, AveragesAreBetween
<1>13. QED
  BY <1>4, <1>7, <1>10, <1>12 DEF slippages, priced

\* The weights of a basket are the whole of what was bought, to a basis point per asset.
LEMMA BasketsAreWhole ==
  ASSUME RecordInv, NEW t, Basket(t) # {}
  PROVE  SumFunctionOnSet([a \in Basket(t) |-> Weight(t, a)], Basket(t))
           \in (10001 - Cardinality(Basket(t))) .. 10000
<1> DEFINE S == EntriesBehind(t)
           B == Basket(t)
           f == [p \in S |-> FillAt(p).notional]
           kind == [p \in S |-> FillAt(p).asset]
           Of(b) == {p \in S : FillAt(p).asset = b}
           by == [b \in B |-> Notional(Of(b))]
           weight == [a \in B |-> Weight(t, a)]
<1>1. IsFiniteSet(S) /\ \A p \in S : FillAt(p) \in FillRecord
  <2>1. Mine(t) \subseteq ShownReceipts
    BY DEF Mine
  <2>2. IsFiniteSet(Fills(Mine(t))) /\ \A p \in Fills(Mine(t)) : FillAt(p) \in FillRecord
    BY <2>1, FillsAreRecords
  <2>3. S \subseteq Fills(Mine(t))
    BY DEF EntriesBehind
  <2>4. QED
    BY <2>2, <2>3, FS_Subset
<1>2. Notional(S) # 0 /\ B = {FillAt(p).asset : p \in S} /\ Notional(S) = SumFunctionOnSet(f, S)
  BY DEF Basket, Notional
<1> HIDE DEF S
<1>3. IsFiniteSet(B) /\ \A p \in S : f[p] \in Nat /\ kind[p] \in B
  <2>1. kind \in Surjection(S, B)
    BY <1>2 DEF Surjection
  <2>2. IsFiniteSet(B)
    BY <1>1, <2>1, FS_Surjection
  <2>3. QED
    BY <1>1, <1>2, <2>2 DEF FillRecord
<1>4. ASSUME NEW b \in B PROVE by[b] = SumFunctionOnSet(f, {p \in S : kind[p] = b})
  <2> DEFINE g == [p \in Of(b) |-> FillAt(p).notional]
  <2>1. Of(b) = {p \in S : kind[p] = b} /\ Of(b) \subseteq S
    OBVIOUS
  <2>2. by[b] = SumFunctionOnSet(g, Of(b))
    BY DEF Notional
  <2>3. IsFiniteSet(Of(b)) /\ \A p \in Of(b) : g[p] \in Int /\ g[p] = f[p]
    BY <1>1, <1>3, <2>1, FS_Subset
  <2> HIDE DEF g, Of, f
  <2>4. SumFunctionOnSet(g, Of(b)) = SumFunctionOnSet(f, Of(b))
    BY <2>3, SumOfTheSame
  <2>5. QED
    BY <2>1, <2>2, <2>4
<1> HIDE DEF by, f, kind
<1> HIDE DEF B
<1>5. IsFiniteSet(B) /\ (\A b \in B : by[b] \in Nat) /\ SumFunctionOnSet(by, B) = SumFunctionOnSet(f, S)
  <2>1. IsFiniteSet(S) /\ IsFiniteSet(B)
    BY <1>1, <1>3
  <2>2. \A p \in S : f[p] \in Nat
    BY <1>3
  <2>3. \A p \in S : kind[p] \in B
    BY <1>3
  <2>4. \A b \in B : by[b] = SumFunctionOnSet(f, {p \in S : kind[p] = b})
    BY <1>4
  <2> HIDE DEF Of, weight
  <2>5. QED
    BY <2>1, <2>2, <2>3, <2>4, SumByKind
<1>6. PICK N \in Nat \ {0} : N = Notional(S) /\ N = SumFunctionOnSet(by, B)
  BY <1>1, <1>2, <1>3, <1>5, SumIsNat
<1>7. ASSUME NEW b \in B
      PROVE  weight[b] \in Int /\ 10000 * by[b] - N * weight[b] \in 0 .. N - 1
  <2>1. weight[b] = (by[b] * 10000) \div N
    BY <1>6 DEF Weight, by, S
  <2>2. PICK x \in Nat : x = by[b] * 10000 /\ 10000 * by[b] = x
    <3> HIDE DEF Of, weight
    <3>1. PICK c \in Nat : c = by[b]
      BY <1>5
    <3>2. c * 10000 \in Nat /\ 10000 * c = c * 10000
      OBVIOUS
    <3>3. QED
      BY <3>1, <3>2
  <2>3. PICK d \in Int : d = x \div N /\ x - N * d \in 0 .. N - 1
    BY RoundedDown
  <2> HIDE DEF weight
  <2>4. QED
    BY <2>1, <2>2, <2>3
<1> HIDE DEF weight
<1>8. B # {}
  BY DEF B
<1>9. SumFunctionOnSet(weight, B) \in (10001 - Cardinality(B)) .. 10000
  BY <1>5, <1>6, <1>7, <1>8, RoundedParts
<1>10. QED
  BY <1>9 DEF weight, B

\* For any theses, fills and times, whatever nodes the page was loaded from: a thesis it
\* says was published before every fill was, of all the fills there ever are; the slippage
\* it leads with is of measured fills, and a basket is the whole of what was bought, to a
\* basis point per asset (track-record.ts 246-374, receipts-view.ts 203-236).
THEOREM ThePageSaysWhatHappenedHolds == RecordSpec => []ThePageSaysWhatHappened
<1>1. RecordInv => ThePageSaysWhatHappened
  <2> SUFFICES ASSUME RecordInv PROVE ClaimsHold /\ FiguresAreMeasured
    BY DEF ThePageSaysWhatHappened
  <2>1. FiguresAreMeasured
    BY SlippageIsMeasured, BasketsAreWhole DEF FiguresAreMeasured
  <2>2. QED
    BY <2>1, ClaimsAreTrue
<1>2. QED
  BY <1>1, TheRecordIsInOrder, PTL
---------------------------------------------------------------------------
(* Orders.                                                                 *)

\* What division leaves, in products.
LEMMA DivisionLeaves ==
  ASSUME NEW a \in Nat, NEW n \in Nat \ {0}
  PROVE  /\ a \div n \in Nat /\ (a \div n) * n \in Nat
         /\ (a \div n) * n <= a /\ a <= (a \div n) * n + (n - 1)
<1>1. PICK d \in Int, m \in 0 .. n - 1 : a = d * n + m /\ d = a \div n
  OBVIOUS
<1>2. 0 \div n \in Int /\ 0 \div n <= a \div n
  BY QuotientsKeepOrder
<1>3. 0 \div n = 0
  <2>1. (0 * n + 0) \div n = 0
    BY QuotientIs
  <2>2. 0 * n + 0 = 0
    OBVIOUS
  <2>3. QED
    BY <2>1, <2>2
<1>4. d \in Nat /\ d * n \in Nat
  BY <1>1, <1>2, <1>3
<1>5. QED
  BY <1>1, <1>4

\* A factor that two products share may be dropped.
LEMMA FactorDropped ==
  ASSUME NEW a \in Int, NEW b \in Int, NEW n \in Nat \ {0}, a * n <= b * n
  PROVE  a <= b
<1>1. ASSUME a >= b + 1 PROVE FALSE
  <2>1. (b + 1) * n <= a * n /\ (b + 1) * n \in Int /\ a * n \in Int
    BY <1>1, ScalingKeepsOrder
  <2>2. (b + 1) * n = b * n + n /\ b * n \in Int
    OBVIOUS
  <2>3. QED
    BY <2>1, <2>2
<1>2. QED
  BY <1>1

\* A price that falls short of a value by so many basis points is not much less than it.
LEMMA ShortfallBounds ==
  ASSUME NEW p \in Nat, NEW value \in Nat, NEW limit \in Nat,
         p < value => ((value - p) * 10000) \div value <= limit
  PROVE  p * 10000 >= value * (9999 - limit) /\ value * (9999 - limit) \in Int
<1>1. CASE p < value
  <2>1. PICK a \in Nat : a = (value - p) * 10000
    BY <1>1
  <2>2. PICK q \in Nat : q = a \div value /\ a <= q * value + (value - 1)
    BY <1>1, DivisionLeaves
  <2>3. q <= limit
    BY <1>1, <2>1, <2>2
  <2>4. q * value <= limit * value
    BY <2>3, ProductsGrow
  <2>5. PICK lv \in Nat : lv = limit * value
    OBVIOUS
  <2>6. value * (9999 - limit) = value * 9999 - lv
    BY <2>5
  <2>7. a = value * 10000 - p * 10000
    BY <2>1
  <2>8. q * value \in Nat
    OBVIOUS
  <2>9. value * 10000 - p * 10000 <= lv + value - 1
    BY <2>2, <2>4, <2>5, <2>7, <2>8
  <2>10. QED
    BY <2>5, <2>6, <2>9
<1>2. CASE p >= value
  <2>1. PICK lv \in Nat : lv = limit * value
    OBVIOUS
  <2>2. value * (9999 - limit) = value * 9999 - lv
    BY <2>1
  <2>3. QED
    BY <1>2, <2>1, <2>2
<1>3. QED
  BY <1>1, <1>2

\* Roundings of a sale, in products: its price, its floor, what it was paid.
LEMMA SaleRoundings ==
  ASSUME NEW size \in Nat \ {0}, NEW out \in Nat, NEW received \in Nat, NEW value \in Nat,
         NEW limit \in Nat, NEW p \in Nat, NEW f \in Nat, NEW paid \in Nat, NEW c \in Nat,
         p * 10000 >= value * (9999 - limit), p * size <= out * 10000,
         out * 9900 <= f * 10000 + 9999, received >= f,
         received * 10000 <= paid * size + (size - 1), c * size >= 10000
  PROVE  (paid + 1 + c) * 10000 >= value * (9899 - limit)
<1>1. (paid + 1 + c) * size >= out * 9900
  <2>1. PICK ps \in Nat, cs \in Nat : ps = paid * size /\ cs = c * size
    OBVIOUS
  <2>2. (paid + 1 + c) * size = ps + size + cs
    BY <2>1
  <2>3. QED
    BY <2>1, <2>2
<1>2. PICK w \in Nat : w = paid + 1 + c
  OBVIOUS
<1>3. (p * 9900) * size <= (w * 10000) * size
  <2>1. PICK ps \in Nat, ws \in Nat : ps = p * size /\ ws = w * size
    OBVIOUS
  <2>2. (p * 9900) * size = ps * 9900 /\ (w * 10000) * size = ws * 10000
    BY <2>1
  <2>3. ps <= out * 10000 /\ ws >= out * 9900
    BY <1>1, <1>2, <2>1
  <2>4. QED
    BY <2>2, <2>3
<1>4. p * 9900 <= w * 10000
  BY <1>3, FactorDropped
<1>5. PICK vl \in Nat : vl = value * limit
  OBVIOUS
<1>6. value * (9999 - limit) = value * 9999 - vl /\ value * (9899 - limit) = value * 9899 - vl
  BY <1>5
<1>7. w * 10000 >= value * 9899 - vl
  BY <1>4, <1>5, <1>6
<1>8. QED
  BY <1>2, <1>6, <1>7

\* A price in units of cash, a floor, and how they round.
LEMMA PriceRounds ==
  ASSUME NEW cash \in Nat, NEW lot \in Nat \ {0}
  PROVE  /\ Price(cash, lot) \in Nat
         /\ Price(cash, lot) * lot <= cash * 10000
         /\ cash * 10000 <= Price(cash, lot) * lot + (lot - 1)
<1>1. PICK a \in Nat : a = cash * 10000
  OBVIOUS
<1>2. a \div lot \in Nat /\ (a \div lot) * lot <= a /\ a <= (a \div lot) * lot + (lot - 1)
  BY DivisionLeaves
<1>3. Price(cash, lot) = a \div lot
  BY <1>1 DEF Price, PAR
<1>4. QED
  BY <1>1, <1>2, <1>3

\* The floor takes the tolerance, and rounds down.
LEMMA FloorRounds ==
  ASSUME NEW out \in Nat
  PROVE  /\ Floor(out) \in Nat
         /\ Floor(out) * 10000 <= out * 9900
         /\ out * 9900 <= Floor(out) * 10000 + 9999
<1>1. out * 9900 \in Nat /\ 10000 \in Nat \ {0}
  OBVIOUS
<1>2. QED
  BY <1>1, DivisionLeaves DEF Floor, TOLERANCE

\* What rounding takes from the price of a sale of some size.
LEMMA LostIs ==
  ASSUME NEW size \in Nat \ {0}
  PROVE  \E c \in Nat : Lost(size) = 1 + c /\ c * size >= 10000
<1>1. PAR + size - 1 \in Nat /\ PAR = 10000
  BY DEF PAR
<1>2. PICK n \in Nat : n = PAR + size - 1
  BY <1>1
<1>3. PICK c \in Nat : c = n \div size /\ n <= c * size + (size - 1)
  BY DivisionLeaves
<1>4. PICK cs \in Nat : cs = c * size
  OBVIOUS
<1>5. cs >= 10000
  BY <1>1, <1>2, <1>3, <1>4
<1>6. Lost(size) = 1 + c
  BY <1>2, <1>3 DEF Lost
<1>7. QED
  BY <1>4, <1>5, <1>6

\* A sale settled above the floor of a plan is worth what the plan said, but for the
\* tolerance and what the roundings lose.
LEMMA SettledSaleIsWorth ==
  ASSUME NEW size \in Nat \ {0}, NEW out \in Nat, NEW received \in Nat, NEW value \in Nat,
         NEW limit \in Nat, received >= Floor(out),
         Price(out, size) * 10000 >= value * (9999 - limit)
  PROVE  (Price(received, size) + Lost(size)) * 10000 >= value * (10000 - limit - TOLERANCE - 1)
<1>1. PICK p \in Nat : p = Price(out, size) /\ p * size <= out * 10000
  BY PriceRounds
<1>2. PICK f \in Nat : f = Floor(out) /\ out * 9900 <= f * 10000 + 9999
  BY FloorRounds
<1>3. PICK paid \in Nat : paid = Price(received, size) /\ received * 10000 <= paid * size + (size - 1)
  BY PriceRounds
<1>4. PICK c \in Nat : Lost(size) = 1 + c /\ c * size >= 10000
  BY LostIs
<1>5. (paid + 1 + c) * 10000 >= value * (9899 - limit)
  BY <1>1, <1>2, <1>3, <1>4, SaleRoundings
<1>6. 10000 - limit - TOLERANCE - 1 = 9899 - limit /\ paid + (1 + c) = paid + 1 + c
  BY DEF TOLERANCE
<1>7. QED
  BY <1>3, <1>4, <1>5, <1>6

\* What a pool gives for cash that it takes whole.
PoolGives(buy, cash) == (cash * PAR) \div buy

\* Of more units than the pool's price, the price is the pool's.
LEMMA PriceIsThePools ==
  ASSUME NEW cash \in Nat, NEW buy \in Nat \ {0}, NEW lot \in Nat,
         lot = PoolGives(buy, cash), lot >= buy
  PROVE  Price(cash, lot) = buy
<1>1. PICK d \in Int, m \in 0 .. buy - 1 : cash * PAR = d * buy + m /\ d = lot
  BY DEF PAR, PoolGives
<1>2. cash * PAR = buy * lot + m /\ m \in 0 .. lot - 1 /\ lot \in Nat \ {0}
  BY <1>1
<1>3. (buy * lot + m) \div lot = buy
  BY <1>2, QuotientIs
<1>4. QED
  BY <1>2, <1>3 DEF Price

\* Roundings of a purchase, in products: what is left of the fee buys the floor.
LEMMA PurchaseRoundings ==
  ASSUME NEW size \in Nat, NEW buy \in Nat \ {0}, NEW swapped \in Nat, NEW out \in Nat,
         NEW received \in Nat, NEW d \in Nat,
         swapped * 10000 >= size * 9950, out * buy <= size * 10000,
         swapped * 10000 <= received * buy + (buy - 1),
         d * 10000 <= out * 9900
  PROVE  received >= d
<1>1. (out * 9950) * buy <= ((received + 1) * 10000) * buy
  <2>1. PICK ob \in Nat, rb \in Nat : ob = out * buy /\ rb = received * buy
    OBVIOUS
  <2>2. (out * 9950) * buy = ob * 9950 /\ ((received + 1) * 10000) * buy = (rb + buy) * 10000
    BY <2>1
  <2>3. QED
    BY <2>1, <2>2
<1>2. out * 9950 <= (received + 1) * 10000
  BY <1>1, FactorDropped
<1>3. QED
  BY <1>2

\* What a fee takes of an amount leaves nearly all of it.
LEMMA FeeLeaves ==
  ASSUME NEW size \in Nat, NEW fee \in Nat, fee <= 50,
         NEW taken \in Nat, taken * 10000 <= size * fee
  PROVE  taken <= size /\ (size - taken) * 10000 >= size * 9950
<1>1. fee * size <= 50 * size /\ fee * size \in Nat /\ size * fee = fee * size
  BY ProductsGrow
<1>2. PICK sf \in Nat : sf = size * fee /\ sf <= size * 50
  BY <1>1
<1>3. taken * 10000 <= size * 50
  BY <1>2
<1>4. QED
  BY <1>3

\* The floor of a purchase has room for the fee.
LEMMA FloorLeavesTheFee ==
  ASSUME NEW size \in Nat, NEW buy \in Nat \ {0}, NEW swapped \in Nat,
         swapped <= size, swapped * 10000 >= size * 9950
  PROVE  /\ PoolGives(buy, size) \in Nat /\ PoolGives(buy, swapped) \in Nat
         /\ PoolGives(buy, swapped) <= PoolGives(buy, size)
         /\ PoolGives(buy, swapped) >= Floor(PoolGives(buy, size))
<1>1. PICK out \in Nat : out = PoolGives(buy, size) /\ out * buy <= size * 10000
  BY DivisionLeaves DEF PAR, PoolGives
<1>2. PICK received \in Nat :
        received = PoolGives(buy, swapped) /\ swapped * 10000 <= received * buy + (buy - 1)
  BY DivisionLeaves DEF PAR, PoolGives
<1>3. received <= out
  <2>1. swapped * PAR <= size * PAR /\ swapped * PAR \in Int /\ size * PAR \in Int
    BY DEF PAR
  <2>2. QED
    BY <1>1, <1>2, <2>1, QuotientsKeepOrder DEF PoolGives
<1>4. received >= Floor(out)
  <2>1. PICK d \in Nat : d = Floor(out) /\ d * 10000 <= out * 9900
    BY FloorRounds
  <2>2. received >= d
    BY <1>1, <1>2, <2>1, PurchaseRoundings
  <2>3. QED
    BY <2>1, <2>2
<1>5. QED
  BY <1>1, <1>2, <1>3, <1>4

\* Of finitely many places, one is the first of those with the most.
LEMMA FirstOfTheMost ==
  ASSUME NEW C, C \subseteq Nat, IsFiniteSet(C), C # {}, NEW f \in [C -> Nat]
  PROVE  \E k \in C : \A j \in C : f[j] <= f[k] /\ (j < k => f[j] < f[k])
<1> DEFINE Most(T) == {m \in T : \A j \in T : f[j] <= f[m]}
           P == {T \in SUBSET C : T # {} => Most(T) # {}}
<1>1. {} \in P
  OBVIOUS
<1>2. ASSUME NEW T \in P, NEW x \in C PROVE T \cup {x} \in P
  <2>1. CASE T = {}
    <3>1. T \cup {x} = {x} /\ f[x] \in Nat
      BY <2>1
    <3>2. x \in Most({x})
      BY <3>1
    <3>3. QED
      BY <3>1, <3>2
  <2>2. CASE T # {}
    <3>1. PICK m \in T : \A j \in T : f[j] <= f[m]
      BY <1>2, <2>2
    <3>2. m \in C /\ \A j \in T \cup {x} : f[j] \in Nat
      BY <1>2
    <3>3. CASE f[x] <= f[m]
      <4>1. m \in Most(T \cup {x})
        BY <3>1, <3>3
      <4>2. QED
        BY <4>1, <1>2
    <3>4. CASE ~(f[x] <= f[m])
      <4>1. \A j \in T \cup {x} : f[j] <= f[x]
        BY <3>1, <3>2, <3>4
      <4>2. x \in Most(T \cup {x})
        BY <4>1
      <4>3. QED
        BY <4>2, <1>2
    <3>5. QED
      BY <3>3, <3>4
  <2>3. QED
    BY <2>1, <2>2
<1>3. C \in P
  <2> HIDE DEF P
  <2>1. QED
    BY <1>1, <1>2, EveryPart
<1>4. Most(C) \subseteq Nat /\ Most(C) # {}
  BY <1>3
<1>5. PICK k \in Most(C) : \A n \in Most(C) : k <= n
  <2> HIDE DEF Most
  <2>1. QED
    BY <1>4, Least
<1>6. ASSUME NEW j \in C PROVE f[j] <= f[k] /\ (j < k => f[j] < f[k])
  <2>1. f[j] <= f[k] /\ k \in C /\ f[j] \in Nat /\ f[k] \in Nat
    OBVIOUS
  <2>2. ASSUME j < k, ~(f[j] < f[k]) PROVE FALSE
    <3>1. f[j] = f[k]
      BY <2>1, <2>2
    <3>2. j \in Most(C)
      BY <3>1
    <3>3. k <= j
      BY <1>5, <3>2
    <3>4. QED
      BY <2>1, <2>2, <3>3
  <2>3. QED
    BY <2>1, <2>2
<1>7. QED
  BY <1>6

\* What a pool gives is a number, and nothing for nothing.
LEMMA OutputIs ==
  ASSUME OrderAssumption, NEW kind, NEW pool \in Book, NEW n \in Nat
  PROVE  /\ Output(kind, pool, n) \in Nat
         /\ Output(kind, pool, n) > 0 => n > 0
<1>1. pool.buy \in Nat \ {0} /\ pool.sell \in Nat /\ pool.depth \in Nat
  BY DEF OrderAssumption
<1>2. PICK c \in Nat : c = Consumed(pool, n) /\ (n = 0 => c = 0)
  BY <1>1 DEF Consumed
<1>3. PICK cs \in Nat, cp \in Nat : cs = c * pool.sell /\ cp = c * PAR
  BY <1>1 DEF PAR
<1>4. cs \div 10000 \in Nat /\ (cs \div 10000) * 10000 <= cs
  BY DivisionLeaves
<1>5. cp \div pool.buy \in Nat /\ (cp \div pool.buy) * pool.buy <= cp
  BY <1>1, DivisionLeaves
<1>6. CASE n > 0
  BY <1>2, <1>3, <1>4, <1>5, <1>6 DEF Output, PAR
<1>7. CASE n = 0
  <2>1. cs = 0 /\ cp = 0
    BY <1>1, <1>2, <1>3, <1>7 DEF PAR
  <2>2. PICK d \in Nat, b \in Nat \ {0} : d = cp \div pool.buy /\ b = pool.buy /\ d * b <= cp
    BY <1>1, <1>5
  <2>3. d = 0
    <3>1. d >= 1 => 1 * b <= d * b
      BY ProductsGrow
    <3>2. QED
      BY <2>1, <2>2, <3>1
  <2>4. cs \div 10000 = 0
    BY <1>4, <2>1
  <2>5. QED
    BY <1>2, <1>3, <2>2, <2>3, <2>4 DEF Output, PAR
<1>8. QED
  BY <1>6, <1>7

\* The best tier is one of the candidates.
LEMMA BestIs ==
  ASSUME OrderAssumption, NEW r \in AskedFor, NEW quotes \in Seq(Book), Candidates(r, quotes) # {}
  PROVE  Best(r, quotes) \in Candidates(r, quotes)
<1> DEFINE C == Candidates(r, quotes)
           f == [k \in C |-> Output(r.kind, quotes[k], r.size)]
<1>1. C \subseteq 1 .. Len(quotes) /\ Len(quotes) \in Nat
  BY DEF Candidates
<1>2. IsFiniteSet(C)
  <2>1. PICK n \in Nat : n = Len(quotes)
    BY <1>1
  <2>2. IsFiniteSet(1 .. n)
    BY FS_Interval
  <2>3. QED
    BY <1>1, <2>1, <2>2, FS_Subset
<1>3. r.size \in Nat
  BY DEF AskedFor
<1>4. \A k \in C : quotes[k] \in Book
  BY <1>1
<1>5. f \in [C -> Nat]
  BY <1>3, <1>4, OutputIs
<1> HIDE DEF C
<1>6. C \subseteq Nat
  BY <1>1
<1>7. PICK k \in C : \A j \in C : f[j] <= f[k] /\ (j < k => f[j] < f[k])
  <2> HIDE DEF f
  <2>1. QED
    BY <1>2, <1>5, <1>6, FirstOfTheMost DEF C
<1>8. \E i \in C : \A j \in C :
        LET Gives(l) == Output(r.kind, quotes[l], r.size)
        IN Gives(j) <= Gives(i) /\ (j < i => Gives(j) < Gives(i))
  BY <1>7
<1>9. QED
  BY <1>8 DEF Best, C

\* What a comparison with a value yields is a number of basis points.
LEMMA ComparisonsAre ==
  ASSUME NEW price \in Nat, NEW o \in Observation, NEW stale \in BOOLEAN
  PROVE  Short(price, o, stale) \in Nat /\ Overpaid(price, o) \in Nat
<1>1. PICK v \in Nat : v = o.fairValueE8
  BY DEF Observation
<1>2. v > 0 => Bps(v, price) \in Nat
  <2>1. PICK a \in Nat : a = AbsDiff(v, price) * 10000
    BY DEF AbsDiff
  <2>2. v > 0 => a \div v \in Nat
    BY DivisionLeaves
  <2>3. QED
    BY <2>1, <2>2 DEF Bps
<1>3. QED
  BY <1>1, <1>2 DEF Short, Overpaid

\* What a measured price falls short by.
FallsShortBy(price, o) == Short(price, o, FALSE)

\* A measured sale that is allowed is priced within the limit.
LEMMA AllowedIsNear ==
  ASSUME NEW price \in Nat, NEW o \in Observation, NEW limit \in Nat, o.hasValue,
         FallsShortBy(price, o) <= limit
  PROVE  price * 10000 >= o.fairValueE8 * (9999 - limit)
<1>1. PICK v \in Nat : v = o.fairValueE8
  BY DEF Observation
<1>2. ASSUME price < v PROVE ((v - price) * 10000) \div v <= limit
  <2>1. v \in Nat \ {0} /\ AbsDiff(v, price) = v - price
    BY <1>2 DEF AbsDiff
  <2>2. PICK a \in Nat : a = (v - price) * 10000
    BY <1>2
  <2>3. PICK d \in Nat : d = a \div v
    <3>1. a \div v \in Nat
      BY <2>1, DivisionLeaves
    <3>2. QED
      BY <3>1
  <2>4. FallsShortBy(price, o) = d
    BY <1>1, <1>2, <2>1, <2>2, <2>3 DEF FallsShortBy, Short, Bps
  <2>5. d <= limit
    BY <2>4
  <2>6. QED
    BY <2>2, <2>3, <2>5
<1>3. price * 10000 >= v * (9999 - limit)
  BY <1>2, ShortfallBounds
<1>4. QED
  BY <1>1, <1>3

OrderType ==
  [pc : {"idle", "held", "size", "scan", "mandate", "balance", "pools", "thesis", "oracle",
         "ask", "planned", "signed", "settled", "reverted"},
   request : AskedFor, id : Ids \cup {0}, quotes : Seq(Book), since : Nat, at : Nat, held : Nat,
   tier : Tier \cup {0}, out : Nat, least : Nat, price : Nat,
   peeked : Observation, measured : BOOLEAN, slippageBps : Nat,
   allow : BOOLEAN, signable : BOOLEAN, archived : BOOLEAN, limit : Nat,
   deadline : Nat, paid : Nat]

MandateTerms == [active : BOOLEAN, breaker : BOOLEAN, ours : BOOLEAN,
                 owner : Key, agent : Key, policy : Terms]

WorldTypes ==
  /\ clock \in Nat /\ moves \in Nat /\ published \in BOOLEAN
  /\ seen \in Observation
  /\ mandate \in [Ids -> MandateTerms]
  /\ pools \in [Tier -> Book]
  /\ wallet \in [cash : Nat, units : Nat]

\* Whether the pools have been read, and whether the mandate has.
BeforeQuote(o) ==
  \/ o.pc \in {"idle", "held", "size", "balance", "pools"}
  \/ o.pc \in {"scan", "mandate"} /\ ~Executes(o.request)
AfterMandate(o) ==
  \/ o.pc \in {"oracle", "ask", "planned"}
  \/ o.pc \in {"balance", "pools", "thesis"} /\ ~Executes(o.request)

Staged(o) ==
  /\ o.pc \in {"held", "size", "balance"} => Exit(o.request)
  /\ o.pc \in {"scan", "mandate"} \/ AfterMandate(o) => o.id \in Ids
  /\ o.pc \in {"signed", "settled", "reverted"} => o.allow
  /\ o.since <= moves /\ o.at <= clock

\* What was quoted.
Priced(o, q) ==
  /\ o.tier \in Tier /\ Len(o.quotes) = TIERS
  /\ ~Exhausted(q, o.request.size)
  /\ o.out = Output(o.request.kind, q, o.request.size) /\ o.out > 0
  /\ o.least = Floor(o.out)
  /\ o.price = IF Exit(o.request) THEN Price(o.out, o.request.size)
               ELSE Price(o.request.size, o.out)
Quoted(o) == BeforeQuote(o) \/ Priced(o, o.quotes[o.tier])

\* What was measured, and allowed.
Judged(o) ==
  o.pc \in {"ask", "planned", "signed", "settled", "reverted"} =>
    /\ o.measured => o.peeked.hasValue
    /\ o.measured /\ Exit(o.request) => o.slippageBps = Short(o.price, o.peeked, FALSE)
    /\ o.pc # "ask" /\ o.allow => o.slippageBps <= o.limit

\* What is still so if nothing has moved.
Standing(o) ==
  o.since = moves /\ o.at = clock =>
    /\ \A k \in 1 .. Len(o.quotes) : k \in Tier /\ o.quotes[k] = pools[k]
    /\ AfterMandate(o) => mandate[o.id].ours /\ mandate[o.id].agent = o.request.agent
    /\ o.pc \in {"pools", "thesis", "oracle", "ask", "planned"} /\ Exit(o.request) =>
         wallet.units >= o.request.size
    /\ o.pc \in {"ask", "planned"} =>
         o.slippageBps = IF Exit(o.request) THEN Short(o.price, seen, Stale(seen))
                         ELSE Overpaid(o.price, seen)
    /\ o.pc = "planned" /\ o.allow =>
         GuardAllows(mandate[o.id], Exit(o.request),
                     IF Exit(o.request) THEN o.out ELSE o.request.size, o.price, o.slippageBps)

KeepsMeasure(o) ==
  o.pc = "settled" /\ Exit(o.request) /\ o.measured =>
    (o.paid + Lost(o.request.size)) * 10000 >=
      o.peeked.fairValueE8 * (10000 - o.limit - TOLERANCE - 1)

OrderIs(o) ==
  o \in OrderType /\ Staged(o) /\ Quoted(o) /\ Judged(o) /\ Standing(o) /\ KeepsMeasure(o)

OrderInv == WorldTypes /\ OrderIs(order)

\* An order that becomes what it may be, while the world stands.
LEMMA OrderBecomes ==
  ASSUME OrderInv, NEW p, OrderIs(p), Becomes(p)
  PROVE  OrderInv'
<1>1. order' = p /\ UNCHANGED world
  BY DEF Becomes
<1>2. WorldTypes'
  BY <1>1 DEF OrderInv, WorldTypes, world
<1>3. order' \in OrderType /\ Quoted(order)' /\ Judged(order)' /\ KeepsMeasure(order)'
  <2>1. p \in OrderType /\ Quoted(p) /\ Judged(p) /\ KeepsMeasure(p)
    BY DEF OrderIs
  <2>2. order' \in OrderType
    BY <1>1, <2>1
  <2>3. Quoted(order)'
    BY <1>1, <2>1 DEF Quoted, BeforeQuote
  <2>4. Judged(order)'
    BY <1>1, <2>1 DEF Judged
  <2>5. KeepsMeasure(order)'
    BY <1>1, <2>1 DEF KeepsMeasure
  <2>6. QED
    BY <2>2, <2>3, <2>4, <2>5
<1>4. Staged(order)'
  BY <1>1 DEF OrderIs, Staged, AfterMandate, world
<1>5. Standing(order)'
  BY <1>1 DEF OrderIs, Standing, AfterMandate, world, GuardAllows, Stale
<1>6. QED
  BY <1>2, <1>3, <1>4, <1>5 DEF OrderInv, OrderIs

\* Nothing is known of the order that is not there.
LEMMA NoPlanIs ==
  ASSUME OrderAssumption, WorldTypes
  PROVE  OrderIs(NoPlan)
<1>1. NoPlan \in OrderType
  <2>1. NoObservation \in Observation
    BY DEF NoObservation, Observation
  <2>2. NoRequest \in AskedFor
    BY DEF NoRequest, AskedFor, Key
  <2>3. <<>> \in Seq(Book)
    OBVIOUS
  <2> HIDE DEF NoObservation, NoRequest
  <2>4. QED
    BY <2>1, <2>2, <2>3 DEF NoPlan, OrderType
<1>2. NoPlan.pc = "idle" /\ NoPlan.since = 0 /\ NoPlan.at = 0 /\ NoPlan.quotes = <<>>
  BY DEF NoPlan
<1>3. Len(NoPlan.quotes) = 0
  BY <1>2
<1> HIDE DEF NoPlan
<1>4. Staged(NoPlan) /\ Quoted(NoPlan) /\ Judged(NoPlan) /\ Standing(NoPlan) /\ KeepsMeasure(NoPlan)
  BY <1>2, <1>3 DEF Staged, Quoted, BeforeQuote, AfterMandate, Judged, Standing, KeepsMeasure,
     WorldTypes
<1>5. QED
  BY <1>1, <1>4 DEF OrderIs

\* An order that is given up is no order.
LEMMA ThrownIs ==
  ASSUME OrderAssumption, OrderInv, Throw
  PROVE  OrderInv'
<1>1. OrderIs(NoPlan)
  BY NoPlanIs DEF OrderInv
<1>2. QED
  BY <1>1, OrderBecomes DEF Throw

\* What moves besides the order leaves nothing to stand.
LEMMA MovedIs ==
  ASSUME OrderInv, order' = order, WorldTypes', moves' >= moves, clock' >= clock,
         moves' > moves \/ clock' > clock
  PROVE  OrderInv'
<1>1. order' \in OrderType /\ Quoted(order)' /\ Judged(order)' /\ KeepsMeasure(order)'
  <2>1. order \in OrderType /\ Quoted(order) /\ Judged(order) /\ KeepsMeasure(order)
    BY DEF OrderInv, OrderIs
  <2>2. order' \in OrderType
    BY <2>1
  <2>3. Quoted(order)'
    BY <2>1 DEF Quoted, BeforeQuote
  <2>4. Judged(order)'
    BY <2>1 DEF Judged
  <2>5. KeepsMeasure(order)'
    BY <2>1 DEF KeepsMeasure
  <2>6. QED
    BY <2>2, <2>3, <2>4, <2>5
<1>2. /\ order.since \in Nat /\ order.at \in Nat /\ order.since <= moves /\ order.at <= clock
      /\ moves \in Nat /\ clock \in Nat /\ moves' \in Nat /\ clock' \in Nat
  BY DEF OrderInv, OrderIs, OrderType, Staged, WorldTypes
<1>3. Staged(order)'
  BY <1>2 DEF OrderInv, OrderIs, Staged, AfterMandate
<1>4. Standing(order)'
  BY <1>2 DEF Standing
<1>5. QED
  BY <1>1, <1>3, <1>4 DEF OrderInv, OrderIs

\* What is known, beside where the order is, which mandate it is about, and its permit.
Knows(p, o) ==
  /\ p.request = o.request /\ p.quotes = o.quotes /\ p.since = o.since /\ p.at = o.at
  /\ p.tier = o.tier /\ p.out = o.out /\ p.least = o.least /\ p.price = o.price
  /\ p.peeked = o.peeked /\ p.measured = o.measured /\ p.slippageBps = o.slippageBps
  /\ p.allow = o.allow /\ p.limit = o.limit

\* An order that goes on, and learns nothing but of its mandate.
LEMMA GoesOn ==
  ASSUME OrderInv, NEW p \in OrderType, Knows(p, order),
         p.pc \in {"size", "scan", "mandate", "balance", "pools", "oracle", "signed"},
         p.pc \in {"size", "balance"} => Exit(order.request),
         p.pc \in {"scan", "mandate"} \/ AfterMandate(p) => p.id \in Ids,
         p.pc = "signed" => order.pc = "planned" /\ order.allow,
         BeforeQuote(order) => BeforeQuote(p),
         AfterMandate(p) => \/ mandate[p.id].ours /\ mandate[p.id].agent = order.request.agent
                            \/ AfterMandate(order) /\ p.id = order.id,
         p.pc \in {"pools", "oracle"} /\ Exit(order.request) =>
           order.pc \in {"pools", "thesis"} \/ wallet.units >= order.request.size
  PROVE  OrderIs(p)
<1>1. Staged(p)
  BY DEF OrderInv, OrderIs, Staged, Knows
<1>2. Quoted(p)
  <2>1. CASE BeforeQuote(p)
    BY <2>1 DEF Quoted
  <2>2. CASE ~BeforeQuote(order)
    BY <2>2 DEF OrderInv, OrderIs, Quoted, Priced, Knows
  <2>3. QED
    BY <2>1, <2>2
<1>3. Judged(p)
  BY DEF OrderInv, OrderIs, Judged, Knows
<1>4. Standing(p)
  BY DEF OrderInv, OrderIs, Standing, Knows
<1>5. KeepsMeasure(p)
  BY DEF KeepsMeasure
<1>6. QED
  BY <1>1, <1>2, <1>3, <1>4, <1>5 DEF OrderIs

\* The units held, for a sale in cash.
LEMMA HeldReadStep ==
  ASSUME OrderAssumption, OrderInv, HeldRead
  PROVE  OrderInv'
<1> DEFINE p == [order EXCEPT !.pc = "size", !.held = wallet.units]
<1>1. Throw \/ Becomes(p)
  BY DEF HeldRead
<1>2. p \in OrderType /\ Knows(p, order) /\ p.pc = "size"
  BY DEF OrderInv, OrderIs, OrderType, WorldTypes, Knows
<1> HIDE DEF p
<1>3. Exit(order.request) /\ BeforeQuote(p) /\ ~AfterMandate(p)
  BY <1>2 DEF OrderInv, OrderIs, Staged, HeldRead, BeforeQuote, AfterMandate
<1>4. OrderIs(p)
  BY <1>2, <1>3, GoesOn
<1>5. QED
  BY <1>1, <1>4, ThrownIs, OrderBecomes

\* The newest usable mandate, from the newest.
LEMMA ScanStep ==
  ASSUME OrderAssumption, OrderInv, Scan
  PROVE  OrderInv'
<1> DEFINE p == [order EXCEPT !.pc = "mandate"]
           q == [order EXCEPT !.id = @ - 1]
<1>1. order.pc = "scan" /\ (Throw \/ Becomes(p) \/ (Becomes(q) /\ order.id > 1))
  BY DEF Scan
<1>2. order \in OrderType /\ order.id \in Ids
  BY <1>1 DEF OrderInv, OrderIs, Staged
<1>3. p \in OrderType /\ Knows(p, order) /\ p.pc = "mandate" /\ p.id = order.id
  BY <1>2 DEF OrderType, Knows
<1>4. ASSUME order.id > 1 PROVE q \in OrderType /\ Knows(q, order) /\ q.pc = "scan" /\ q.id \in Ids
  <2>1. order.id - 1 \in Ids
    BY <1>2, <1>4 DEF Ids, OrderAssumption
  <2>2. QED
    BY <1>1, <1>2, <2>1 DEF OrderType, Knows
<1> HIDE DEF p, q
<1>5. OrderIs(p)
  <2>1. ~AfterMandate(p) /\ (BeforeQuote(order) => BeforeQuote(p))
    BY <1>1, <1>3 DEF BeforeQuote, AfterMandate, Knows
  <2>2. QED
    BY <1>2, <1>3, <2>1, GoesOn
<1>6. ASSUME order.id > 1 PROVE OrderIs(q)
  <2>1. ~AfterMandate(q) /\ (BeforeQuote(order) => BeforeQuote(q))
    BY <1>1, <1>4, <1>6 DEF BeforeQuote, AfterMandate, Knows
  <2>2. QED
    BY <1>4, <1>6, <2>1, GoesOn
<1>7. QED
  BY <1>1, <1>5, <1>6, ThrownIs, OrderBecomes

\* The mandate a command found.
LEMMA CheckMandateStep ==
  ASSUME OrderAssumption, OrderInv, CheckMandate
  PROVE  OrderInv'
<1> DEFINE p == [order EXCEPT !.pc = "oracle"]
           Ours == mandate[order.id].ours /\ mandate[order.id].agent = order.request.agent
<1>1. order.pc = "mandate" /\ Executes(order.request) /\ (Throw \/ (Becomes(p) /\ Ours))
  BY DEF CheckMandate
<1>2. order \in OrderType /\ order.id \in Ids
  BY <1>1 DEF OrderInv, OrderIs, Staged
<1>3. p \in OrderType /\ Knows(p, order) /\ p.pc = "oracle" /\ p.id = order.id
  BY <1>2 DEF OrderType, Knows
<1> HIDE DEF p
<1>4. ~BeforeQuote(order) /\ ~Exit(order.request)
  BY <1>1 DEF BeforeQuote, Executes
<1>5. ASSUME Ours PROVE OrderIs(p)
  BY <1>2, <1>3, <1>4, <1>5, GoesOn
<1>6. QED
  BY <1>1, <1>5, ThrownIs, OrderBecomes

\* The mandate a page names.
LEMMA ReadMandateStep ==
  ASSUME OrderAssumption, OrderInv, ReadMandate
  PROVE  OrderInv'
<1> DEFINE p == [order EXCEPT !.pc = IF Exit(order.request) THEN "balance" ELSE "pools"]
           Ours == mandate[order.id].ours /\ mandate[order.id].agent = order.request.agent
<1>1. order.pc = "mandate" /\ ~Executes(order.request) /\ (Throw \/ (Becomes(p) /\ Ours))
  BY DEF ReadMandate
<1>2. order \in OrderType /\ order.id \in Ids
  BY <1>1 DEF OrderInv, OrderIs, Staged
<1>3. /\ p \in OrderType /\ Knows(p, order) /\ p.id = order.id
      /\ p.pc \in {"balance", "pools"} /\ (p.pc = "balance" <=> Exit(order.request))
  BY <1>2 DEF OrderType, Knows
<1> HIDE DEF p
<1>4. BeforeQuote(p)
  BY <1>3 DEF BeforeQuote
<1>5. ASSUME Ours PROVE OrderIs(p)
  BY <1>2, <1>3, <1>4, <1>5, GoesOn
<1>6. QED
  BY <1>1, <1>5, ThrownIs, OrderBecomes

\* The units a sale needs.
LEMMA ReadBalanceStep ==
  ASSUME OrderAssumption, OrderInv, ReadBalance
  PROVE  OrderInv'
<1> DEFINE p == [order EXCEPT !.pc = "pools"]
           Enough == wallet.units >= order.request.size
<1>1. order.pc = "balance" /\ (Throw \/ (Becomes(p) /\ Enough))
  BY DEF ReadBalance
<1>2. order \in OrderType /\ Exit(order.request) /\ ~Executes(order.request)
  BY <1>1 DEF OrderInv, OrderIs, Staged, Executes
<1>3. AfterMandate(order) /\ order.id \in Ids
  BY <1>1, <1>2 DEF OrderInv, OrderIs, Staged, AfterMandate
<1>4. p \in OrderType /\ Knows(p, order) /\ p.id = order.id /\ p.pc = "pools"
  BY <1>2 DEF OrderType, Knows
<1> HIDE DEF p
<1>5. BeforeQuote(p)
  BY <1>4 DEF BeforeQuote
<1>6. ASSUME Enough PROVE OrderIs(p)
  BY <1>3, <1>4, <1>5, <1>6, GoesOn
<1>7. QED
  BY <1>1, <1>6, ThrownIs, OrderBecomes

\* The thesis, on a page.
LEMMA ReadThesisStep ==
  ASSUME OrderAssumption, OrderInv, ReadThesis
  PROVE  OrderInv'
<1> DEFINE p == [order EXCEPT !.pc = "oracle"]
<1>1. order.pc = "thesis" /\ ~Executes(order.request) /\ (Throw \/ Becomes(p))
  BY DEF ReadThesis
<1>2. order \in OrderType /\ AfterMandate(order) /\ order.id \in Ids /\ ~BeforeQuote(order)
  BY <1>1 DEF OrderInv, OrderIs, Staged, AfterMandate, BeforeQuote
<1>3. p \in OrderType /\ Knows(p, order) /\ p.id = order.id /\ p.pc = "oracle"
  BY <1>2 DEF OrderType, Knows
<1> HIDE DEF p
<1>4. OrderIs(p)
  BY <1>1, <1>2, <1>3, GoesOn
<1>5. QED
  BY <1>1, <1>4, ThrownIs, OrderBecomes

\* The thesis, for a command that then looks for its mandate.
LEMMA CommandThesisStep ==
  ASSUME OrderAssumption, OrderInv, CommandThesis
  PROVE  OrderInv'
<1> DEFINE p == [order EXCEPT !.pc = "scan", !.id = LAST_ID]
<1>1. order.pc = "thesis" /\ Executes(order.request) /\ (Throw \/ Becomes(p))
  BY DEF CommandThesis
<1>2. order \in OrderType /\ ~BeforeQuote(order) /\ LAST_ID \in Ids
  BY <1>1 DEF OrderInv, OrderIs, BeforeQuote, OrderAssumption, Ids
<1>3. p \in OrderType /\ Knows(p, order) /\ p.id \in Ids /\ p.pc = "scan"
  BY <1>2 DEF OrderType, Knows
<1> HIDE DEF p
<1>4. ~AfterMandate(p)
  BY <1>3 DEF AfterMandate
<1>5. OrderIs(p)
  BY <1>2, <1>3, <1>4, GoesOn
<1>6. QED
  BY <1>1, <1>5, ThrownIs, OrderBecomes

\* The permit.
LEMMA SignPlanStep ==
  ASSUME OrderAssumption, OrderInv, SignPlan
  PROVE  OrderInv'
<1> DEFINE p == [order EXCEPT !.pc = "signed", !.deadline = clock + LIFE]
<1>1. order.pc = "planned" /\ order.allow /\ Becomes(p)
  BY DEF SignPlan
<1>2. order \in OrderType /\ ~BeforeQuote(order) /\ clock + LIFE \in Nat
  BY <1>1 DEF OrderInv, OrderIs, BeforeQuote, OrderAssumption, WorldTypes
<1>3. p \in OrderType /\ Knows(p, order) /\ p.pc = "signed"
  BY <1>2 DEF OrderType, Knows
<1> HIDE DEF p
<1>4. ~AfterMandate(p)
  BY <1>3 DEF AfterMandate
<1>5. OrderIs(p)
  BY <1>1, <1>2, <1>3, <1>4, GoesOn
<1>6. QED
  BY <1>1, <1>5, OrderBecomes

\* What is asked for.
LEMMA AskedStep ==
  ASSUME OrderAssumption, OrderInv, Asked
  PROVE  OrderInv'
<1>1. PICK r \in Request :
        Becomes([NoPlan EXCEPT !.request = r, !.id = r.id, !.since = moves, !.at = clock,
                 !.pc = IF Executes(r) THEN "pools" ELSE IF Command(r) THEN "held"
                        ELSE "mandate"])
  BY DEF Asked
<1> DEFINE stage == IF Executes(r) THEN "pools" ELSE IF Command(r) THEN "held" ELSE "mandate"
           p == [NoPlan EXCEPT !.request = r, !.id = r.id, !.since = moves, !.at = clock,
                 !.pc = stage]
<1>2. r \in AskedFor /\ r.id \in Ids \cup {0} /\ moves \in Nat /\ clock \in Nat
  BY DEF OrderAssumption, AskedFor, OrderInv, WorldTypes
<1>3. NoPlan \in OrderType /\ NoPlan.quotes = <<>>
  <2>1. OrderIs(NoPlan)
    BY NoPlanIs DEF OrderInv
  <2>2. QED
    BY <2>1 DEF OrderIs, NoPlan
<1>4. /\ p \in OrderType /\ p.request = r /\ p.id = r.id /\ p.since = moves /\ p.at = clock
      /\ p.quotes = <<>> /\ p.pc = stage
  <2> HIDE DEF NoPlan
  <2>1. stage \in {"pools", "held", "mandate"}
    OBVIOUS
  <2> HIDE DEF stage
  <2>2. QED
    BY <1>2, <1>3, <2>1 DEF OrderType
<1> HIDE DEF p
<1>5. Len(p.quotes) = 0 /\ ~AfterMandate(p) /\ BeforeQuote(p)
  BY <1>4 DEF AfterMandate, BeforeQuote
<1>6. Staged(p)
  BY <1>2, <1>4, <1>5 DEF Staged, Executes, Command
<1>7. Quoted(p) /\ Judged(p) /\ KeepsMeasure(p)
  <2>1. Quoted(p)
    BY <1>5 DEF Quoted
  <2>2. Judged(p)
    BY <1>4 DEF Judged
  <2>3. KeepsMeasure(p)
    BY <1>4 DEF KeepsMeasure
  <2>4. QED
    BY <2>1, <2>2, <2>3
<1>8. Standing(p)
  BY <1>4, <1>5 DEF Standing, Executes
<1>9. OrderIs(p)
  BY <1>4, <1>6, <1>7, <1>8 DEF OrderIs
<1>10. QED
  BY <1>1, <1>9, OrderBecomes DEF p

\* The units a target in cash comes to.
LEMMA SizeSaleStep ==
  ASSUME OrderAssumption, OrderInv, SizeSale
  PROVE  OrderInv'
<1> DEFINE lot == UnitsFor(order.request.size, seen)
           p == [order EXCEPT !.pc = "scan", !.request.size = lot, !.id = LAST_ID]
<1>1. order.pc = "size" /\ (Throw \/ (lot \in 1 .. order.held /\ Becomes(p)))
  BY DEF SizeSale
<1> HIDE DEF lot
<1>2. order \in OrderType /\ order.request \in AskedFor /\ order.held \in Nat /\ LAST_ID \in Ids
  BY DEF OrderInv, OrderIs, OrderType, OrderAssumption, Ids
<1>3. Exit(order.request)
  BY <1>1 DEF OrderInv, OrderIs, Staged
<1>4. ASSUME lot \in 1 .. order.held
      PROVE  /\ p \in OrderType /\ p.pc = "scan" /\ p.id \in Ids /\ p.quotes = order.quotes
             /\ p.since = order.since /\ p.at = order.at
             /\ p.request.kind = order.request.kind
  <2>1. lot \in Nat
    BY <1>2, <1>4
  <2>2. [order.request EXCEPT !.size = lot] \in AskedFor
    BY <1>2, <2>1 DEF AskedFor
  <2>3. QED
    BY <1>2, <2>2 DEF OrderType, AskedFor
<1> HIDE DEF p
<1>5. ASSUME lot \in 1 .. order.held PROVE OrderIs(p)
  <2>1. Exit(p.request) /\ ~AfterMandate(p) /\ BeforeQuote(p)
    BY <1>3, <1>4, <1>5 DEF Exit, AfterMandate, BeforeQuote, Executes
  <2>2. Staged(p)
    BY <1>4, <1>5, <2>1 DEF OrderInv, OrderIs, Staged
  <2>3. Quoted(p)
    BY <2>1 DEF Quoted
  <2>4. Judged(p)
    BY <1>4, <1>5 DEF Judged
  <2>5. KeepsMeasure(p)
    BY <1>4, <1>5 DEF KeepsMeasure
  <2>6. Standing(p)
    BY <1>4, <1>5, <2>1 DEF OrderInv, OrderIs, Standing
  <2>7. QED
    BY <1>4, <1>5, <2>2, <2>3, <2>4, <2>5, <2>6 DEF OrderIs
<1>6. QED
  BY <1>1, <1>5, ThrownIs, OrderBecomes

\* One tier's pool at a time.
LEMMA ReadTierStep ==
  ASSUME OrderAssumption, OrderInv, ReadTier
  PROVE  OrderInv'
<1> DEFINE n == Len(order.quotes) + 1
           p == [order EXCEPT !.quotes = Append(order.quotes, pools[n])]
<1>1. order.pc = "pools" /\ Len(order.quotes) < TIERS /\ Becomes(p)
  BY DEF ReadTier
<1>2. /\ order \in OrderType /\ order.quotes \in Seq(Book) /\ Len(order.quotes) \in Nat
      /\ TIERS \in Nat /\ pools \in [Tier -> Book]
  BY DEF OrderInv, OrderIs, OrderType, OrderAssumption, WorldTypes
<1>3. n \in Tier /\ pools[n] \in Book
  BY <1>1, <1>2 DEF Tier
<1>4. /\ Append(order.quotes, pools[n]) \in Seq(Book)
      /\ Len(Append(order.quotes, pools[n])) = n
      /\ \A k \in 1 .. n :
           Append(order.quotes, pools[n])[k] = IF k = n THEN pools[n] ELSE order.quotes[k]
  BY <1>2, <1>3
<1>5. /\ p \in OrderType /\ p.quotes = Append(order.quotes, pools[n])
      /\ p.pc = "pools" /\ p.request = order.request /\ p.id = order.id
      /\ p.since = order.since /\ p.at = order.at /\ p.allow = order.allow
  BY <1>1, <1>2, <1>4 DEF OrderType
<1> HIDE DEF p
<1>6. AfterMandate(p) = AfterMandate(order) /\ BeforeQuote(p)
  BY <1>1, <1>5 DEF AfterMandate, BeforeQuote
<1>7. Staged(p) /\ Quoted(p) /\ Judged(p) /\ KeepsMeasure(p)
  BY <1>1, <1>5, <1>6 DEF OrderInv, OrderIs, Staged, Quoted, Judged, KeepsMeasure
<1>8. Standing(p)
  <2> SUFFICES ASSUME order.since = moves, order.at = clock PROVE Standing(p)
    BY <1>5 DEF Standing
  <2>1. \A k \in 1 .. Len(order.quotes) : k \in Tier /\ order.quotes[k] = pools[k]
    BY DEF OrderInv, OrderIs, Standing
  <2>2. \A k \in 1 .. Len(p.quotes) : k \in Tier /\ p.quotes[k] = pools[k]
    BY <1>2, <1>3, <1>4, <1>5, <2>1
  <2>3. QED
    BY <1>1, <1>5, <1>6, <2>2 DEF OrderInv, OrderIs, Standing
<1>9. QED
  BY <1>1, <1>5, <1>7, <1>8, OrderBecomes DEF OrderIs

\* The best of what was read, or nothing.
LEMMA QuoteStep ==
  ASSUME OrderAssumption, OrderInv, Quote
  PROVE  OrderInv'
<1> DEFINE r == order.request
           best == Best(r, order.quotes)
           out == Output(r.kind, order.quotes[best], r.size)
           price == IF Exit(r) THEN Price(out, r.size) ELSE Price(r.size, out)
           p == [order EXCEPT !.pc = "thesis", !.tier = best, !.out = out,
                 !.least = Floor(out), !.price = price]
           Refused == Candidates(r, order.quotes) = {} \/ Exhausted(order.quotes[best], r.size)
                        \/ best \notin Derived
<1>1. order.pc = "pools" /\ Len(order.quotes) = TIERS /\ (Throw \/ (Becomes(p) /\ ~Refused))
  BY DEF Quote
<1>2. order \in OrderType /\ r \in AskedFor /\ r.size \in Nat /\ order.quotes \in Seq(Book)
  BY DEF OrderInv, OrderIs, OrderType, AskedFor
<1>3. ASSUME ~Refused
      PROVE  /\ best \in Tier /\ out \in Nat /\ out > 0 /\ r.size > 0
             /\ ~Exhausted(order.quotes[best], r.size)
  <2>1. best \in Candidates(r, order.quotes)
    BY <1>2, <1>3, BestIs
  <2>2. best \in 1 .. Len(order.quotes) /\ out > 0
    BY <2>1 DEF Candidates
  <2>3. order.quotes[best] \in Book
    BY <1>2, <2>2
  <2> HIDE DEF best, r
  <2>4. out \in Nat /\ (out > 0 => r.size > 0)
    BY <1>2, <2>3, OutputIs
  <2>5. QED
    BY <1>1, <1>3, <2>2, <2>4 DEF Tier
<1>4. ASSUME ~Refused PROVE price \in Nat /\ Floor(out) \in Nat
  <2>1. PICK n \in Nat \ {0}, m \in Nat \ {0} : n = out /\ m = r.size
    <3> HIDE DEF out, r
    <3>1. out \in Nat \ {0} /\ r.size \in Nat \ {0}
      BY <1>2, <1>3, <1>4
    <3>2. QED
      BY <3>1
  <2>2. Price(n, m) \in Nat /\ Price(m, n) \in Nat /\ Floor(n) \in Nat
    BY PriceRounds, FloorRounds
  <2> HIDE DEF out
  <2>3. QED
    BY <2>1, <2>2
<1>5. ASSUME ~Refused
      PROVE  /\ p \in OrderType /\ p.pc = "thesis" /\ p.request = r /\ p.id = order.id
             /\ p.since = order.since /\ p.at = order.at /\ p.quotes = order.quotes
             /\ p.tier = best /\ p.out = out /\ p.least = Floor(out) /\ p.price = price
  <2> HIDE DEF best, out, price
  <2>1. QED
    BY <1>2, <1>3, <1>4, <1>5 DEF OrderType
<1> HIDE DEF p
<1>6. ASSUME ~Refused PROVE OrderIs(p)
  <2>1. (AfterMandate(p) <=> AfterMandate(order)) /\ ~(p.pc \in {"scan", "mandate"})
    BY <1>1, <1>5, <1>6 DEF AfterMandate
  <2>2. Staged(p)
    BY <1>5, <1>6, <2>1 DEF OrderInv, OrderIs, Staged
  <2>3. Quoted(p)
    <3> HIDE DEF best
    <3>1. p.price = IF Exit(p.request) THEN Price(p.out, p.request.size)
                    ELSE Price(p.request.size, p.out)
      BY <1>5, <1>6
    <3>2. p.out = Output(p.request.kind, p.quotes[p.tier], p.request.size)
      BY <1>5, <1>6
    <3>3. p.least = Floor(p.out)
      BY <1>5, <1>6
    <3> HIDE DEF out, price
    <3>4. QED
      BY <1>1, <1>3, <1>5, <1>6, <3>1, <3>2, <3>3 DEF Quoted, Priced
  <2> HIDE DEF best, out, price, Refused
  <2>4. Judged(p) /\ KeepsMeasure(p)
    <3>1. Judged(p)
      BY <1>5, <1>6 DEF Judged
    <3>2. KeepsMeasure(p)
      BY <1>5, <1>6 DEF KeepsMeasure
    <3>3. QED
      BY <3>1, <3>2
  <2>5. Standing(p)
    BY <1>1, <1>5, <1>6, <2>1 DEF OrderInv, OrderIs, Standing
  <2>6. QED
    BY <1>5, <1>6, <2>2, <2>3, <2>4, <2>5 DEF OrderIs
<1> HIDE DEF Refused
<1>7. QED
  BY <1>1, <1>6, ThrownIs, OrderBecomes

\* Whether a sale or a purchase, what was seen is what the plan says was known.
LEMMA SawStep ==
  ASSUME OrderAssumption, OrderInv, order.pc = "oracle", NEW slip,
         slip = IF Exit(order.request) THEN Short(order.price, seen, Stale(seen))
                ELSE Overpaid(order.price, seen),
         Saw(slip)
  PROVE  OrderInv'
<1>1. seen.hasValue \in BOOLEAN /\ Stale(seen) \in BOOLEAN /\ seen \in Observation
  BY DEF OrderInv, WorldTypes, Observation, Stale
<1>2. PICK known \in BOOLEAN : known = Measured(seen, Stale(seen)) /\ (known => seen.hasValue /\ ~Stale(seen))
  BY <1>1 DEF Measured
<1>3. known => seen.hasValue /\ Short(order.price, seen, Stale(seen)) = Short(order.price, seen, FALSE)
  BY <1>2 DEF Short
<1>4. PICK p : p = [order EXCEPT !.pc = "ask", !.peeked = seen, !.measured = known,
                    !.slippageBps = slip]
  OBVIOUS
<1>5. Becomes(p)
  BY <1>2, <1>4, Zenon DEF Saw
<1>6. order \in OrderType /\ order.price \in Nat
  BY DEF OrderInv, OrderIs, OrderType
<1>7. slip \in Nat
  BY <1>1, <1>6, ComparisonsAre
<1>8. /\ p \in OrderType /\ p.pc = "ask" /\ p.peeked = seen /\ p.measured = known
      /\ p.slippageBps = slip /\ p.request = order.request /\ p.id = order.id
      /\ p.since = order.since /\ p.at = order.at /\ p.quotes = order.quotes
      /\ p.tier = order.tier /\ p.out = order.out /\ p.least = order.least
      /\ p.price = order.price
  <2>1. seen \in Observation /\ order \in OrderType /\ slip \in Nat /\ known \in BOOLEAN
    BY <1>1, <1>6, <1>7
  <2>2. QED
    BY ONLY <2>1, <1>4 DEF OrderType
<1>9. AfterMandate(p) /\ AfterMandate(order) /\ ~BeforeQuote(order)
  BY <1>8 DEF AfterMandate, BeforeQuote
<1>10. Staged(p)
  BY <1>8, <1>9 DEF OrderInv, OrderIs, Staged
<1>11. Quoted(p)
  BY <1>8, <1>9 DEF OrderInv, OrderIs, Quoted, Priced
<1>12. Judged(p) /\ KeepsMeasure(p)
  <2>1. Judged(p)
    <3>1. p.measured => known
      BY <1>8
    <3>2. p.pc = "ask" /\ p.request = order.request /\ p.price = order.price /\ p.peeked = seen
          /\ p.slippageBps = slip
      BY <1>8
    <3>3. QED
      BY <1>3, <3>1, <3>2 DEF Judged
  <2>2. KeepsMeasure(p)
    BY <1>8 DEF KeepsMeasure
  <2>3. QED
    BY <2>1, <2>2
<1>13. Standing(p)
  BY <1>8, <1>9 DEF OrderInv, OrderIs, Standing
<1>14. QED
  BY <1>5, <1>8, <1>10, <1>11, <1>12, <1>13, OrderBecomes DEF OrderIs

\* What was asked of the guard is what the plan says it allows.
LEMMA PlannedIs ==
  ASSUME OrderAssumption, OrderInv, order.pc = "ask",
         NEW allow \in BOOLEAN, NEW signable \in BOOLEAN, NEW archived \in BOOLEAN,
         NEW limit, limit = mandate[order.id].policy.maxSlippageBps,
         NEW p, p = [order EXCEPT !.pc = "planned", !.allow = allow, !.signable = signable,
                     !.archived = archived, !.limit = limit],
         allow => GuardAllows(mandate[order.id], Exit(order.request),
                              IF Exit(order.request) THEN order.out ELSE order.request.size,
                              order.price, order.slippageBps)
  PROVE  OrderIs(p)
<1>1. order \in OrderType /\ AfterMandate(order) /\ ~BeforeQuote(order)
  BY DEF OrderInv, OrderIs, AfterMandate, BeforeQuote
<1>2. order.id \in Ids
  BY <1>1 DEF OrderInv, OrderIs, Staged
<1>3. mandate[order.id].policy \in Terms
  BY <1>2 DEF OrderInv, WorldTypes, MandateTerms
<1>4. limit \in Nat
  BY <1>3 DEF OrderAssumption
<1>5. allow => order.slippageBps <= limit
  BY DEF GuardAllows
<1>6. /\ p \in OrderType /\ p.pc = "planned" /\ p.allow = allow /\ p.limit = limit
      /\ p.peeked = order.peeked /\ p.measured = order.measured
      /\ p.slippageBps = order.slippageBps /\ p.request = order.request /\ p.id = order.id
      /\ p.since = order.since /\ p.at = order.at /\ p.quotes = order.quotes
      /\ p.tier = order.tier /\ p.out = order.out /\ p.least = order.least
      /\ p.price = order.price
  <2>1. /\ p = [order EXCEPT !.pc = "planned", !.allow = allow, !.signable = signable,
                !.archived = archived, !.limit = limit]
        /\ allow \in BOOLEAN /\ signable \in BOOLEAN /\ archived \in BOOLEAN
    OBVIOUS
  <2>2. QED
    BY ONLY <2>1, <1>1, <1>4 DEF OrderType
<1>7. AfterMandate(p)
  BY <1>6 DEF AfterMandate
<1>8. Staged(p)
  BY <1>1, <1>6, <1>7 DEF OrderInv, OrderIs, Staged
<1>9. Quoted(p)
  BY <1>1, <1>6 DEF OrderInv, OrderIs, Quoted, Priced
<1>10. Judged(p)
  BY <1>5, <1>6 DEF OrderInv, OrderIs, Judged
<1>11. KeepsMeasure(p)
  BY <1>6 DEF KeepsMeasure
<1>12. Standing(p)
  BY <1>1, <1>6, <1>7 DEF OrderInv, OrderIs, Standing
<1>13. QED
  BY <1>6, <1>8, <1>9, <1>10, <1>11, <1>12 DEF OrderIs

\* The guard's answer makes a plan of the page's.
LEMMA AskGuardStep ==
  ASSUME OrderAssumption, OrderInv, AskGuard
  PROVE  OrderInv'
<1> DEFINE r == order.request
           cash == IF Exit(r) THEN order.out ELSE r.size
           Verdict == GuardAllows(mandate[order.id], Exit(r), cash, order.price, order.slippageBps)
           Acknowledged == Exit(r) => order.measured \/ r.acknowledged
<1>1. order.pc = "ask" /\ (Throw \/ Planned(Verdict, Acknowledged))
  BY DEF AskGuard
<1>2. PICK allow \in BOOLEAN, signable \in BOOLEAN, archived \in BOOLEAN :
        allow = Verdict /\ signable = Acknowledged /\ archived = (Verdict /\ Acknowledged)
  BY DEF GuardAllows
<1>3. allow => Verdict
  BY <1>2
<1> HIDE DEF Verdict, Acknowledged
<1>4. PICK p : p = [order EXCEPT !.pc = "planned", !.allow = allow, !.signable = signable,
                    !.archived = archived, !.limit = mandate[order.id].policy.maxSlippageBps]
  OBVIOUS
<1>5. Planned(Verdict, Acknowledged) => Becomes(p)
  BY <1>2, <1>4, Zenon DEF Planned
<1>6. OrderIs(p)
  BY <1>1, <1>3, <1>4, PlannedIs DEF Verdict
<1>7. QED
  BY <1>1, <1>5, <1>6, ThrownIs, OrderBecomes

\* A command goes on only where the guard allows it.
LEMMA CommandAsksStep ==
  ASSUME OrderAssumption, OrderInv, CommandAsks
  PROVE  OrderInv'
<1> DEFINE Verdict == GuardAllows(mandate[order.id], FALSE, order.request.size, order.price,
                                  order.slippageBps)
<1>1. order.pc = "ask" /\ ~Exit(order.request) /\ (Throw \/ (Verdict /\ Planned(TRUE, TRUE)))
  BY DEF CommandAsks, Executes
<1>2. PICK p : p = [order EXCEPT !.pc = "planned", !.allow = TRUE, !.signable = TRUE,
                    !.archived = TRUE, !.limit = mandate[order.id].policy.maxSlippageBps]
  OBVIOUS
<1>3. Planned(TRUE, TRUE) => Becomes(p)
  BY <1>2 DEF Planned
<1>4. ASSUME Verdict PROVE OrderIs(p)
  <2>1. GuardAllows(mandate[order.id], Exit(order.request),
                    IF Exit(order.request) THEN order.out ELSE order.request.size,
                    order.price, order.slippageBps)
    BY <1>1, <1>4 DEF GuardAllows
  <2>2. QED
    BY <1>1, <1>2, <2>1, PlannedIs
<1>5. QED
  BY <1>1, <1>3, <1>4, ThrownIs, OrderBecomes

\* The oracle is seen by either.
LEMMA ObserveStep ==
  ASSUME OrderAssumption, OrderInv, Observe \/ CommandObserves
  PROVE  OrderInv'
<1>1. PICK slip :
        /\ slip = IF Exit(order.request) THEN Short(order.price, seen, Stale(seen))
                  ELSE Overpaid(order.price, seen)
        /\ Saw(slip) /\ order.pc = "oracle"
  BY DEF Observe, CommandObserves, Executes
<1>2. QED
  BY <1>1, SawStep

\* What a pool as it is gives an order of what is left of it.
LEMMA SettlementIs ==
  ASSUME OrderAssumption, OrderInv, ~BeforeQuote(order)
  PROVE  /\ order.tier \in Tier /\ pools[order.tier] \in Book
         /\ Swapped(order) \in Nat /\ Swapped(order) <= order.request.size
         /\ ~Exit(order.request) => Swapped(order) * 10000 >= order.request.size * 9950
         /\ Received(order) \in Nat
         /\ Received(order) > 0 => Swapped(order) > 0 /\ SettlingPrice(order) \in Nat
<1>1. order.tier \in Tier /\ pools[order.tier] \in Book
  BY DEF OrderInv, OrderIs, Quoted, Priced, WorldTypes
<1>2. order.request.size \in Nat
  BY DEF OrderInv, OrderIs, OrderType, AskedFor
<1>3. /\ Swapped(order) \in Nat /\ Swapped(order) <= order.request.size
      /\ ~Exit(order.request) => Swapped(order) * 10000 >= order.request.size * 9950
  <2>1. CASE Exit(order.request)
    BY <1>2, <2>1 DEF Swapped
  <2>2. CASE ~Exit(order.request)
    <3>1. FEE_BPS \in 0 .. 50
      BY DEF OrderAssumption
    <3>2. PICK n \in Nat, fee \in Nat : n = order.request.size /\ fee = FEE_BPS /\ fee <= 50
      BY <1>2, <3>1
    <3>3. PICK sf \in Nat : sf = n * fee
      BY <3>2
    <3>4. PICK taken \in Nat : taken = sf \div 10000 /\ taken * 10000 <= sf
      BY DivisionLeaves
    <3>5. taken <= n /\ (n - taken) * 10000 >= n * 9950
      BY <3>2, <3>3, <3>4, FeeLeaves
    <3>6. Swapped(order) = n - taken
      BY <2>2, <3>2, <3>3, <3>4 DEF Swapped
    <3>7. QED
      BY <3>2, <3>4, <3>5, <3>6
  <2>3. QED
    BY <2>1, <2>2
<1>4. Received(order) \in Nat /\ (Received(order) > 0 => Swapped(order) > 0)
  BY <1>1, <1>3, OutputIs DEF Received
<1>5. Received(order) > 0 => SettlingPrice(order) \in Nat
  <2>1. ASSUME Received(order) > 0 PROVE SettlingPrice(order) \in Nat
    <3>1. PICK s \in Nat \ {0}, n \in Nat \ {0} : s = Swapped(order) /\ n = Received(order)
      BY <1>3, <1>4, <2>1
    <3>2. Price(s, n) \in Nat /\ Price(n, s) \in Nat
      BY PriceRounds
    <3>3. QED
      BY <3>1, <3>2 DEF SettlingPrice
  <2>2. QED
    BY <2>1
<1>6. QED
  BY <1>1, <1>3, <1>4, <1>5

\* A sale that settles above the floor of its plan keeps what was measured for it.
LEMMA SettledSaleKeeps ==
  ASSUME OrderAssumption, OrderInv, order.pc = "signed", WouldSettle(order),
         Exit(order.request), order.measured
  PROVE  (SettlingPrice(order) + Lost(order.request.size)) * 10000 >=
           order.peeked.fairValueE8 * (10000 - order.limit - TOLERANCE - 1)
<1>1. ~BeforeQuote(order)
  BY DEF BeforeQuote
<1>2. /\ Swapped(order) = order.request.size
      /\ SettlingPrice(order) = Price(Received(order), order.request.size)
  BY DEF Swapped, SettlingPrice
<1>3. Received(order) > 0 /\ Received(order) >= order.least
  BY DEF WouldSettle
<1>4. Received(order) \in Nat /\ Swapped(order) \in Nat /\ Swapped(order) > 0
  BY <1>1, <1>3, SettlementIs
<1>5. order \in OrderType
  BY DEF OrderInv, OrderIs
<1>6. /\ order.out \in Nat /\ order.price \in Nat /\ order.limit \in Nat
      /\ order.peeked \in Observation
  BY <1>5 DEF OrderType
<1>7. order.least = Floor(order.out) /\ order.price = Price(order.out, order.request.size)
  BY <1>1 DEF OrderInv, OrderIs, Quoted, Priced
<1>8. order.allow
  BY DEF OrderInv, OrderIs, Staged
<1>9. /\ order.peeked.hasValue /\ order.slippageBps = Short(order.price, order.peeked, FALSE)
      /\ order.slippageBps <= order.limit
  BY <1>8 DEF OrderInv, OrderIs, Judged
<1>10. PICK price \in Nat, o \in Observation, limit \in Nat :
         price = order.price /\ o = order.peeked /\ limit = order.limit
  BY <1>6
<1>11. price * 10000 >= o.fairValueE8 * (9999 - limit)
  <2>1. o.hasValue /\ FallsShortBy(price, o) <= limit
    BY <1>9, <1>10 DEF FallsShortBy
  <2>2. QED
    BY <2>1, AllowedIsNear
<1>12. PICK size \in Nat \ {0}, out \in Nat, received \in Nat, value \in Nat :
         /\ size = order.request.size /\ out = order.out /\ received = Received(order)
         /\ value = o.fairValueE8
  BY <1>2, <1>4, <1>6 DEF Observation
<1>13. received >= Floor(out) /\ Price(out, size) * 10000 >= value * (9999 - limit)
  BY <1>3, <1>7, <1>10, <1>11, <1>12
<1>14. (Price(received, size) + Lost(size)) * 10000 >= value * (10000 - limit - TOLERANCE - 1)
  BY <1>13, SettledSaleIsWorth
<1>15. QED
  BY <1>2, <1>10, <1>12, <1>14

\* Settled or reverted, an order is what it was.
LEMMA SettleOrderStep ==
  ASSUME OrderAssumption, OrderInv, SettleOrder
  PROVE  OrderInv'
<1> DEFINE GoesThrough == order.pc = "signed" /\ WouldSettle(order)
<1>1. /\ order.pc = "signed"
      /\ \/ GoesThrough /\ Becomes([order EXCEPT !.pc = "settled", !.paid = SettlingPrice(order)])
         \/ Becomes([order EXCEPT !.pc = "reverted"])
  BY DEF SettleOrder
<1> HIDE DEF GoesThrough
<1>2. order \in OrderType /\ ~BeforeQuote(order) /\ ~AfterMandate(order)
  BY <1>1 DEF OrderInv, OrderIs, BeforeQuote, AfterMandate
<1>3. ASSUME NEW pc \in {"settled", "reverted"}, NEW paid \in Nat,
             NEW p, p = [order EXCEPT !.pc = pc, !.paid = paid], KeepsMeasure(p)
      PROVE  OrderIs(p)
  <2>1. /\ p \in OrderType /\ p.pc = pc /\ p.paid = paid /\ p.allow = order.allow
        /\ p.limit = order.limit /\ p.peeked = order.peeked /\ p.measured = order.measured
        /\ p.slippageBps = order.slippageBps /\ p.request = order.request /\ p.id = order.id
        /\ p.since = order.since /\ p.at = order.at /\ p.quotes = order.quotes
        /\ p.tier = order.tier /\ p.out = order.out /\ p.least = order.least
        /\ p.price = order.price
    <3>1. pc \in {"settled", "reverted"} /\ paid \in Nat /\ p = [order EXCEPT !.pc = pc, !.paid = paid]
      BY <1>3
    <3>2. QED
      BY ONLY <3>1, <1>2 DEF OrderType
  <2>2. p.pc \in {"settled", "reverted"} /\ ~AfterMandate(p)
    BY <1>3, <2>1 DEF AfterMandate
  <2>3. Staged(p)
    BY <1>1, <2>1, <2>2 DEF OrderInv, OrderIs, Staged
  <2>4. Quoted(p)
    BY <1>2, <2>1 DEF OrderInv, OrderIs, Quoted, Priced
  <2>5. Judged(p)
    BY <1>1, <2>1 DEF OrderInv, OrderIs, Judged
  <2>6. Standing(p)
    BY <1>1, <2>1, <2>2 DEF OrderInv, OrderIs, Standing
  <2>7. QED
    BY <1>3, <2>1, <2>3, <2>4, <2>5, <2>6 DEF OrderIs
<1>4. ASSUME GoesThrough, Becomes([order EXCEPT !.pc = "settled", !.paid = SettlingPrice(order)])
      PROVE  OrderInv'
  <2>1. WouldSettle(order) /\ Received(order) > 0
    BY <1>4 DEF GoesThrough, WouldSettle
  <2>2. PICK paid \in Nat : paid = SettlingPrice(order)
    BY <1>2, <2>1, SettlementIs
  <2>3. PICK p : p = [order EXCEPT !.pc = "settled", !.paid = paid]
    OBVIOUS
  <2>4. /\ p.paid = paid /\ p.request = order.request /\ p.measured = order.measured
        /\ p.peeked = order.peeked /\ p.limit = order.limit
    BY ONLY <2>3, <1>2 DEF OrderType
  <2>5. KeepsMeasure(p)
    BY <1>1, <2>1, <2>2, <2>4, SettledSaleKeeps DEF KeepsMeasure
  <2>6. OrderIs(p)
    BY <1>3, <2>3, <2>5
  <2>7. Becomes(p)
    BY <1>4, <2>2, <2>3
  <2>8. QED
    BY <2>6, <2>7, OrderBecomes
<1>5. ASSUME Becomes([order EXCEPT !.pc = "reverted"])
      PROVE  OrderInv'
  <2>1. PICK p : p = [order EXCEPT !.pc = "reverted"]
    OBVIOUS
  <2>2. order.paid \in Nat /\ p = [order EXCEPT !.pc = "reverted", !.paid = order.paid] /\ p.pc = "reverted"
    BY <1>2, <2>1 DEF OrderType
  <2>3. KeepsMeasure(p)
    BY <2>2 DEF KeepsMeasure
  <2>4. OrderIs(p)
    BY <1>3, <2>2, <2>3
  <2>5. QED
    BY <1>5, <2>1, <2>4, OrderBecomes
<1>6. QED
  BY <1>1, <1>4, <1>5

\* The world moves, or time does: what it may be stays what it may be.
LEMMA WorldStep ==
  ASSUME OrderAssumption, OrderInv,
         OraclePublishes \/ PoolMoves \/ OwnerEdits \/ WalletMoves \/ ThesisAppears \/ Passes
  PROVE  OrderInv'
<1>1. WorldTypes
  BY DEF OrderInv
<1>2. order' = order /\ clock' \in Nat /\ moves' \in Nat
  BY <1>1 DEF WorldTypes, OraclePublishes, PoolMoves, OwnerEdits, WalletMoves, ThesisAppears,
     Passes, Elsewhere
<1>3. moves' >= moves /\ clock' >= clock /\ (moves' > moves \/ clock' > clock)
  BY <1>1 DEF WorldTypes, OraclePublishes, PoolMoves, OwnerEdits, WalletMoves, ThesisAppears,
     Passes, Elsewhere
<1>4. published' \in BOOLEAN
  BY <1>1 DEF WorldTypes, OraclePublishes, PoolMoves, OwnerEdits, WalletMoves, ThesisAppears,
     Passes
<1>5. seen' \in Observation
  <2>1. CASE OraclePublishes
    <3>1. PICK o \in Observed : seen' = [o EXCEPT !.updatedAt = clock]
      BY <2>1 DEF OraclePublishes
    <3>2. o \in Observation /\ clock \in Nat
      BY <1>1 DEF OrderAssumption, WorldTypes
    <3>3. QED
      BY ONLY <3>1, <3>2 DEF Observation
  <2>2. CASE ~OraclePublishes
    BY <1>1, <2>2 DEF WorldTypes, PoolMoves, OwnerEdits, WalletMoves, ThesisAppears, Passes
  <2>3. QED
    BY <2>1, <2>2
<1>6. pools' \in [Tier -> Book]
  <2>1. CASE PoolMoves
    BY <1>1, <2>1 DEF WorldTypes, PoolMoves
  <2>2. CASE ~PoolMoves
    BY <1>1, <2>2 DEF WorldTypes, OraclePublishes, OwnerEdits, WalletMoves, ThesisAppears, Passes
  <2>3. QED
    BY <2>1, <2>2
<1>7. wallet' \in [cash : Nat, units : Nat]
  <2>1. CASE WalletMoves
    BY <2>1 DEF WalletMoves, OrderAssumption
  <2>2. CASE ~WalletMoves
    BY <1>1, <2>2 DEF WorldTypes, OraclePublishes, PoolMoves, OwnerEdits, ThesisAppears, Passes
  <2>3. QED
    BY <2>1, <2>2
<1>8. mandate' \in [Ids -> MandateTerms]
  <2>1. CASE OwnerEdits
    <3>1. PICK id \in Ids :
            \/ mandate' = [mandate EXCEPT ![id].active = FALSE]
            \/ mandate' = [mandate EXCEPT ![id].breaker = ~@]
            \/ mandate' = [mandate EXCEPT ![id].ours = ~@]
            \/ \E a \in Key : mandate' = [mandate EXCEPT ![id].agent = a]
            \/ \E p \in Terms : mandate' = [mandate EXCEPT ![id].policy = p]
      BY <2>1 DEF OwnerEdits
    <3>2. PICK m \in MandateTerms : mandate' = [mandate EXCEPT ![id] = m]
      <4>1. mandate[id] \in MandateTerms /\ mandate \in [Ids -> MandateTerms]
        BY <1>1 DEF WorldTypes
      <4>2. CASE mandate' = [mandate EXCEPT ![id].active = FALSE]
        <5>1. [mandate[id] EXCEPT !.active = FALSE] \in MandateTerms
          BY <4>1 DEF MandateTerms
        <5>2. QED
          BY <4>1, <4>2, <5>1
      <4>3. CASE mandate' = [mandate EXCEPT ![id].breaker = ~@]
        <5>1. PICK b \in BOOLEAN : b = ~mandate[id].breaker
          OBVIOUS
        <5>2. [mandate[id] EXCEPT !.breaker = b] \in MandateTerms
          BY <4>1 DEF MandateTerms
        <5>3. mandate' = [mandate EXCEPT ![id] = [mandate[id] EXCEPT !.breaker = b]]
          BY <4>3, <5>1
        <5>4. QED
          BY <5>2, <5>3
      <4>4. CASE mandate' = [mandate EXCEPT ![id].ours = ~@]
        <5>1. PICK b \in BOOLEAN : b = ~mandate[id].ours
          OBVIOUS
        <5>2. [mandate[id] EXCEPT !.ours = b] \in MandateTerms
          BY <4>1 DEF MandateTerms
        <5>3. mandate' = [mandate EXCEPT ![id] = [mandate[id] EXCEPT !.ours = b]]
          BY <4>4, <5>1
        <5>4. QED
          BY <5>2, <5>3
      <4>5. CASE \E a \in Key : mandate' = [mandate EXCEPT ![id].agent = a]
        <5>1. PICK a \in Key : mandate' = [mandate EXCEPT ![id].agent = a]
          BY <4>5
        <5>2. [mandate[id] EXCEPT !.agent = a] \in MandateTerms
          BY <4>1 DEF MandateTerms
        <5>3. QED
          BY <4>1, <5>1, <5>2
      <4>6. CASE \E p \in Terms : mandate' = [mandate EXCEPT ![id].policy = p]
        <5>1. PICK p \in Terms : mandate' = [mandate EXCEPT ![id].policy = p]
          BY <4>6
        <5>2. [mandate[id] EXCEPT !.policy = p] \in MandateTerms
          BY <4>1 DEF MandateTerms
        <5>3. QED
          BY <4>1, <5>1, <5>2
      <4>7. QED
        BY <3>1, <4>2, <4>3, <4>4, <4>5, <4>6
    <3>3. QED
      BY <1>1, <3>2 DEF WorldTypes
  <2>2. CASE ~OwnerEdits
    BY <1>1, <2>2 DEF WorldTypes, OraclePublishes, PoolMoves, WalletMoves, ThesisAppears, Passes
  <2>3. QED
    BY <2>1, <2>2
<1>9. WorldTypes'
  BY <1>2, <1>4, <1>5, <1>6, <1>7, <1>8 DEF WorldTypes
<1>10. QED
  BY <1>2, <1>3, <1>9, MovedIs

\* An order of an idle world.
LEMMA OrderStarts ==
  ASSUME OrderAssumption, OrderInit
  PROVE  OrderInv
<1>1. PICK o \in Observed : seen = [o EXCEPT !.updatedAt = 1]
  BY DEF OrderInit
<1>2. PICK p \in Terms : mandate = [id \in Ids |->
        [active |-> TRUE, breaker |-> FALSE, ours |-> TRUE,
         owner |-> "owner", agent |-> "owner", policy |-> p]]
  BY DEF OrderInit
<1>3. seen \in Observation
  <2>1. o \in Observation
    BY DEF OrderAssumption
  <2>2. QED
    BY ONLY <1>1, <2>1 DEF Observation
<1>4. mandate \in [Ids -> MandateTerms]
  BY <1>2 DEF MandateTerms, Key
<1>5. WorldTypes
  BY <1>3, <1>4 DEF OrderInit, WorldTypes, OrderAssumption
<1>6. OrderIs(NoPlan)
  BY <1>5, NoPlanIs
<1>7. QED
  BY <1>5, <1>6 DEF OrderInv, OrderInit

\* Every step of an order, and every move of the world about it.
LEMMA OrderKeeps ==
  ASSUME OrderAssumption, OrderInv, [OrderNext]_orderVars
  PROVE  OrderInv'
<1>1. CASE UNCHANGED orderVars
  <2>1. WorldTypes'
    BY <1>1 DEF OrderInv, WorldTypes, orderVars
  <2>2. OrderIs(order) /\ Becomes(order)
    BY <1>1 DEF OrderInv, Becomes, orderVars, world
  <2>3. QED
    BY <2>2, OrderBecomes
<1>2. CASE Asked \/ HeldRead \/ SizeSale \/ Scan \/ CheckMandate \/ CommandThesis
  BY <1>2, AskedStep, HeldReadStep, SizeSaleStep, ScanStep, CheckMandateStep, CommandThesisStep
<1>3. CASE CommandAsks \/ ReadMandate \/ ReadBalance \/ ReadTier \/ Quote \/ ReadThesis
  BY <1>3, CommandAsksStep, ReadMandateStep, ReadBalanceStep, ReadTierStep, QuoteStep,
     ReadThesisStep
<1>4. CASE Observe \/ CommandObserves \/ AskGuard \/ SignPlan \/ SettleOrder
  BY <1>4, ObserveStep, AskGuardStep, SignPlanStep, SettleOrderStep
<1>5. CASE OraclePublishes \/ PoolMoves \/ OwnerEdits \/ WalletMoves \/ ThesisAppears \/ Passes
  BY <1>5, WorldStep
<1>6. QED
  BY <1>1, <1>2, <1>3, <1>4, <1>5 DEF OrderNext

\* What stands when a plan is made and nothing has moved.
LEMMA UnmovedPlan ==
  ASSUME OrderAssumption, OrderInv, order.pc = "planned", order.allow,
         order.since = moves, order.at = clock
  PROVE  /\ Priced(order, pools[order.tier])
         /\ mandate[order.id].ours /\ mandate[order.id].agent = order.request.agent
         /\ Exit(order.request) => wallet.units >= order.request.size
         /\ order.slippageBps = IF Exit(order.request) THEN Short(order.price, seen, Stale(seen))
                                ELSE Overpaid(order.price, seen)
         /\ GuardAllows(mandate[order.id], Exit(order.request),
                        IF Exit(order.request) THEN order.out ELSE order.request.size,
                        order.price, order.slippageBps)
<1>1. AfterMandate(order) /\ ~BeforeQuote(order)
  BY DEF AfterMandate, BeforeQuote
<1>2. Priced(order, order.quotes[order.tier])
  BY <1>1 DEF OrderInv, OrderIs, Quoted
<1>3. order.quotes[order.tier] = pools[order.tier]
  <2>1. order.tier \in 1 .. Len(order.quotes)
    BY <1>2 DEF Priced, Tier
  <2>2. QED
    BY <2>1 DEF OrderInv, OrderIs, Standing
<1>4. /\ mandate[order.id].ours /\ mandate[order.id].agent = order.request.agent
      /\ Exit(order.request) => wallet.units >= order.request.size
  BY <1>1 DEF OrderInv, OrderIs, Standing
<1>5. order.slippageBps = IF Exit(order.request) THEN Short(order.price, seen, Stale(seen))
                          ELSE Overpaid(order.price, seen)
  BY DEF OrderInv, OrderIs, Standing
<1>6. GuardAllows(mandate[order.id], Exit(order.request),
                  IF Exit(order.request) THEN order.out ELSE order.request.size,
                  order.price, order.slippageBps)
  BY DEF OrderInv, OrderIs, Standing
<1>7. QED
  BY <1>2, <1>3, <1>4, <1>5, <1>6

\* A sale gets what it was promised where nothing moved.
LEMMA UnmovedSaleSettles ==
  ASSUME OrderAssumption, OrderInv, order.pc = "planned", order.allow,
         order.since = moves, order.at = clock, Exit(order.request)
  PROVE  WouldSettle(order)
<1>1. /\ Priced(order, pools[order.tier])
      /\ mandate[order.id].ours /\ mandate[order.id].agent = order.request.agent
      /\ wallet.units >= order.request.size
      /\ order.slippageBps = Short(order.price, seen, Stale(seen))
  BY UnmovedPlan
<1>2. GuardAllows(mandate[order.id], TRUE, order.out, order.price, order.slippageBps)
  <2>1. GuardAllows(mandate[order.id], Exit(order.request),
                    IF Exit(order.request) THEN order.out ELSE order.request.size,
                    order.price, order.slippageBps)
    BY UnmovedPlan
  <2>2. QED
    BY <2>1 DEF GuardAllows
<1>3. /\ Swapped(order) = order.request.size /\ Received(order) = order.out /\ order.out > 0
      /\ ~Exhausted(pools[order.tier], Swapped(order))
      /\ SettlingPrice(order) = order.price
  BY <1>1 DEF Swapped, Received, SettlingPrice, Priced
<1>4. order.out >= order.least
  <2>1. PICK out \in Nat : out = order.out
    BY DEF OrderInv, OrderIs, OrderType
  <2>2. PICK d \in Nat : d = Floor(out) /\ d * 10000 <= out * 9900
    BY FloorRounds
  <2>3. order.least = d
    BY <1>1, <2>1, <2>2 DEF Priced
  <2>4. QED
    BY <2>1, <2>2, <2>3
<1>5. (IF Stale(seen) THEN 0 ELSE Short(order.price, seen, FALSE)) = order.slippageBps
  BY <1>1 DEF Short
<1>6. GuardAllows(mandate[order.id], Exit(order.request), Received(order), SettlingPrice(order),
                  IF Stale(seen) THEN 0 ELSE Short(SettlingPrice(order), seen, FALSE))
  BY <1>2, <1>3, <1>5 DEF GuardAllows
<1>7. QED
  BY <1>1, <1>3, <1>4, <1>6 DEF WouldSettle, GuardAllows

\* A purchase gets its floor, the fee left out, and pays the pool's price as it was told.
LEMMA UnmovedPurchaseSettles ==
  ASSUME OrderAssumption, OrderInv, order.pc = "planned", order.allow,
         order.since = moves, order.at = clock, ~Exit(order.request),
         wallet.cash >= order.request.size, Sizeable(order)
  PROVE  WouldSettle(order)
<1>1. /\ Priced(order, pools[order.tier])
      /\ mandate[order.id].ours /\ mandate[order.id].agent = order.request.agent
      /\ order.slippageBps = Overpaid(order.price, seen)
  BY UnmovedPlan
<1>2. GuardAllows(mandate[order.id], FALSE, order.request.size, order.price, order.slippageBps)
  <2>1. GuardAllows(mandate[order.id], Exit(order.request),
                    IF Exit(order.request) THEN order.out ELSE order.request.size,
                    order.price, order.slippageBps)
    BY UnmovedPlan
  <2>2. QED
    BY <2>1 DEF GuardAllows
<1>3. ~BeforeQuote(order)
  BY DEF BeforeQuote
<1>4. /\ order.tier \in Tier /\ pools[order.tier] \in Book
      /\ Swapped(order) \in Nat /\ Swapped(order) <= order.request.size
      /\ Swapped(order) * 10000 >= order.request.size * 9950
  BY <1>3, SettlementIs
<1>5. order.request.size \in Nat /\ order.request.kind # "exit"
  BY DEF OrderInv, OrderIs, OrderType, AskedFor, Exit
<1>6. PICK buy \in Nat \ {0}, depth \in Nat, size \in Nat, swapped \in Nat :
        /\ buy = pools[order.tier].buy /\ depth = pools[order.tier].depth
        /\ size = order.request.size /\ swapped = Swapped(order)
  BY <1>4, <1>5 DEF OrderAssumption
<1>7. swapped <= size /\ swapped * 10000 >= size * 9950 /\ size <= depth
  BY <1>1, <1>4, <1>6 DEF Priced, Exhausted
<1>8. /\ PoolGives(buy, size) \in Nat /\ PoolGives(buy, swapped) \in Nat
      /\ PoolGives(buy, swapped) <= PoolGives(buy, size)
      /\ PoolGives(buy, swapped) >= Floor(PoolGives(buy, size))
  BY <1>7, FloorLeavesTheFee
<1>9. \A n \in Nat : n <= size =>
        Output(order.request.kind, pools[order.tier], n) = PoolGives(buy, n)
  <2>1. SUFFICES ASSUME NEW n \in Nat, n <= size
                 PROVE  Output(order.request.kind, pools[order.tier], n) = PoolGives(buy, n)
    OBVIOUS
  <2>2. Consumed(pools[order.tier], n) = n
    BY <1>6, <1>7, <2>1 DEF Consumed
  <2>3. QED
    BY <1>5, <1>6, <2>2 DEF Output, PoolGives
<1>10. order.out = PoolGives(buy, size) /\ Received(order) = PoolGives(buy, swapped)
  <2>1. order.out = Output(order.request.kind, pools[order.tier], size)
    BY <1>1, <1>6 DEF Priced
  <2>2. Received(order) = Output(order.request.kind, pools[order.tier], swapped)
    BY <1>6 DEF Received
  <2>3. QED
    BY <1>7, <1>9, <2>1, <2>2
<1>11. PICK received \in Nat, out \in Nat :
         /\ received = PoolGives(buy, swapped) /\ out = PoolGives(buy, size)
         /\ received = Received(order) /\ out = order.out
  BY <1>8, <1>10
<1>12. received >= buy /\ out >= received /\ received >= Floor(out)
  <2>1. received >= buy
    BY <1>6, <1>11 DEF Sizeable
  <2>2. QED
    BY <1>8, <1>11, <2>1
<1>13. Price(swapped, received) = buy /\ Price(size, out) = buy
  <2>1. received = PoolGives(buy, swapped) /\ received >= buy
    BY <1>11, <1>12
  <2>2. Price(swapped, received) = buy
    BY ONLY <2>1, PriceIsThePools, buy \in Nat \ {0}, swapped \in Nat, received \in Nat
  <2>3. out = PoolGives(buy, size) /\ out >= buy
    BY <1>11, <1>12
  <2>4. Price(size, out) = buy
    BY ONLY <2>3, PriceIsThePools, buy \in Nat \ {0}, size \in Nat, out \in Nat
  <2>5. QED
    BY <2>2, <2>4
<1>14. SettlingPrice(order) = buy /\ order.price = buy
  BY <1>1, <1>6, <1>11, <1>13 DEF SettlingPrice, Priced
<1>15. order.least = Floor(out)
  BY <1>1, <1>11 DEF Priced
<1>16. GuardAllows(mandate[order.id], Exit(order.request), Swapped(order), SettlingPrice(order),
                   IF Stale(seen) THEN 0 ELSE Overpaid(SettlingPrice(order), seen))
  <2>1. order.id \in Ids
    BY DEF OrderInv, OrderIs, Staged, AfterMandate
  <2>2. mandate[order.id].policy \in Terms
    BY <2>1 DEF OrderInv, WorldTypes, MandateTerms
  <2>3. /\ mandate[order.id].policy.maxSlippageBps \in Nat
        /\ mandate[order.id].policy.maxNotional \in Nat
    BY <2>2 DEF OrderAssumption
  <2>4. swapped <= mandate[order.id].policy.maxNotional
    BY <1>2, <1>6, <1>7, <2>3 DEF GuardAllows
  <2>5. (IF Stale(seen) THEN 0 ELSE Overpaid(buy, seen)) <= mandate[order.id].policy.maxSlippageBps
    BY <1>1, <1>2, <1>14, <2>3 DEF GuardAllows
  <2>6. QED
    BY <1>2, <1>6, <1>14, <2>4, <2>5 DEF GuardAllows
<1>17. ~Exhausted(pools[order.tier], Swapped(order))
  BY <1>6, <1>7 DEF Exhausted
<1>18. Received(order) > 0 /\ Received(order) >= order.least
  BY <1>11, <1>12, <1>15
<1>19. QED
  BY <1>1, <1>16, <1>17, <1>18 DEF WouldSettle, GuardAllows

\* What is so of every order is enough for the terms it was shown.
LEMMA OrderInvIsEnough ==
  ASSUME OrderAssumption, OrderInv
  PROVE  PlansKeepTheirTerms
<1>1. MeasuredSalesKeepTheirMeasure
  BY DEF OrderInv, OrderIs, KeepsMeasure, MeasuredSalesKeepTheirMeasure
<1>2. AnUnmovedPlanSettles
  BY UnmovedSaleSettles, UnmovedPurchaseSettles DEF AnUnmovedPlanSettles
<1>3. QED
  BY <1>1, <1>2 DEF PlansKeepTheirTerms

\* For any mandates, pools, readings, fees and requests: an order carries what was read when
\* it was read, its quote is the pools', its verdict the guard's, and as long as nothing has
\* moved all of it still stands (fill.ts 145-430, exit-plan.ts 221-568).
THEOREM OrdersAreInOrder == OrderSpec => []OrderInv
<1>1. OrderInit => OrderInv
  BY OrderAssumption, OrderStarts
<1>2. OrderInv /\ [OrderNext]_orderVars => OrderInv'
  BY OrderAssumption, OrderKeeps
<1>3. QED
  BY <1>1, <1>2, PTL DEF OrderSpec

\* For any of them: a sale measured when it was planned settles within the policy's slippage
\* and the floor's tolerance of what was measured, and a plan that may be signed settles if
\* nothing moved (fill.ts 226, 301-324; exit-plan.ts 353, 405-450).
THEOREM PlansKeepTheirTermsHolds == OrderSpec => []PlansKeepTheirTerms
<1>1. OrderInv => PlansKeepTheirTerms
  BY OrderAssumption, OrderInvIsEnough
<1>2. QED
  BY <1>1, OrdersAreInOrder, PTL
=============================================================================
