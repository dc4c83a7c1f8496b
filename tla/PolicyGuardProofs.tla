------------------------- MODULE PolicyGuardProofs --------------------------
(*****************************************************************************)
(* What the gate of PolicyGuard guarantees of the record it writes, for      *)
(* every set of accounts, policies, triggers, fills and oracle readings.     *)
(*                                                                           *)
(* A receipt obeys the version it names, no entry follows a fired trigger,   *)
(* no two epochs' worth of fills settle within an epoch's length, and the    *)
(* positions the contract keeps are what its receipts replay to.  The last   *)
(* two count: the sums and the replay are recursive functions, and what they *)
(* are worth is shown by induction over sets of numbers and subsets.         *)
(*****************************************************************************)
EXTENDS PolicyGuard, SequenceTheorems, FiniteSetTheorems, WellFoundedInduction, TLAPS

---------------------------------------------------------------------------
(* Induction.  The library's principles are about any predicate, and no    *)
(* prover here can put one in; these are about sets.                       *)

\* A set of naturals that has 0 and every successor has every natural.
LEMMA EveryNatural ==
  ASSUME NEW T, T \subseteq Nat, 0 \in T, \A n \in Nat : n \in T => n + 1 \in T
  PROVE  T = Nat
<1> DEFINE Upto(n) == 1 .. n
           Missing == {Upto(n) : n \in Nat \ T}
<1>1. SUFFICES ASSUME T # Nat PROVE FALSE
  OBVIOUS
<1>2. \A n \in Nat : IsFiniteSet(Upto(n)) /\ Upto(n) \subseteq Nat
  BY FS_Interval
<1>3. Missing \subseteq FiniteSubsetsOf(Nat)
  BY <1>2 DEF FiniteSubsetsOf
<1>4. Missing # {}
  BY <1>1
<1>5. PICK s \in Missing : \A r \in Missing : <<r, s>> \notin StrictSubsetOrdering(Nat)
  BY <1>3, <1>4, FS_StrictSubsetOrderingWellFounded, WFMin
<1>6. PICK n \in Nat \ T : s = Upto(n)
  BY <1>5
<1>7. n # 0 /\ n - 1 \in Nat \ T
  <2>1. n # 0
    BY <1>6
  <2>2. n - 1 \in Nat /\ (n - 1) + 1 = n
    BY <2>1
  <2>3. QED
    BY <1>6, <2>1, <2>2
<1>8. Upto(n - 1) \in Missing
  BY <1>7
<1>9. Upto(n - 1) \subseteq Upto(n) /\ n \in Upto(n) /\ n \notin Upto(n - 1)
  BY <1>7
<1>10. <<Upto(n - 1), Upto(n)>> \in StrictSubsetOrdering(Nat)
  BY <1>2, <1>7, <1>9 DEF StrictSubsetOrdering
<1>11. QED
  BY <1>5, <1>6, <1>8, <1>10

\* The subsets of a finite set, and what is left of one without an element.
LEMMA PartSizes ==
  ASSUME NEW S, IsFiniteSet(S)
  PROVE  \A s \in SUBSET S :
           /\ IsFiniteSet(s) /\ Cardinality(s) \in Nat /\ Cardinality(s) <= Cardinality(S)
           /\ Cardinality(s) = 0 <=> s = {}
           /\ \A y \in s : s \ {y} \in SUBSET S /\ Cardinality(s \ {y}) = Cardinality(s) - 1
<1>1. \A s \in SUBSET S : IsFiniteSet(s) /\ Cardinality(s) <= Cardinality(S)
  BY FS_Subset
<1>2. \A s \in SUBSET S : \A y \in s : s \ {y} \in SUBSET S /\ Cardinality(s \ {y}) = Cardinality(s) - 1
  BY <1>1, FS_RemoveElement
<1>3. QED
  BY <1>1, <1>2, FS_CardinalityType, FS_EmptySet

---------------------------------------------------------------------------
(* Sums.                                                                   *)

Pick(s) == CHOOSE x \in s : TRUE

\* What the community modules' fold computes on the way, for every subset.
Computes(g, f, S) ==
  g = [s \in SUBSET S |-> IF s = {} THEN 0 ELSE f[Pick(s)] + g[s \ {Pick(s)}]]

Partial(f, S) == CHOOSE g : Computes(g, f, S)

\* A sum is the last of the partial sums.
LEMMA SumIsPartial == ASSUME NEW f, NEW S PROVE SumFunctionOnSet(f, S) = Partial(f, S)[S]
BY DEF SumFunctionOnSet, FoldFunctionOnSet, MapThenFoldSet, Partial, Computes, Pick

\* The recursion is well defined: a solution for the sets of n elements gives one for
\* those of n + 1.
LEMMA PartialExists ==
  ASSUME NEW f, NEW S, IsFiniteSet(S)
  PROVE  \E g : Computes(g, f, S)
<1> DEFINE Step(g, s) == IF s = {} THEN 0 ELSE f[Pick(s)] + g[s \ {Pick(s)}]
           Upto(n) == \E g : \A s \in SUBSET S : Cardinality(s) <= n => g[s] = Step(g, s)
           T == {n \in Nat : Upto(n)}
<1>1. \A s \in SUBSET S : IsFiniteSet(s) /\ Cardinality(s) \in Nat /\ (Cardinality(s) = 0 <=> s = {})
                         /\ Cardinality(s) <= Cardinality(S)
  BY FS_Subset, FS_CardinalityType, FS_EmptySet
<1>2. 0 \in T
  <2> DEFINE g == [s \in SUBSET S |-> 0]
  <2>1. \A s \in SUBSET S : Cardinality(s) <= 0 => g[s] = Step(g, s)
    BY <1>1
  <2> HIDE DEF g, Step
  <2>2. QED
    BY <2>1
<1>3. ASSUME NEW n \in Nat, n \in T PROVE n + 1 \in T
  <2>1. PICK g : \A s \in SUBSET S : Cardinality(s) <= n => g[s] = Step(g, s)
    BY <1>3
  <2> DEFINE h == [s \in SUBSET S |-> Step(g, s)]
  <2>2. ASSUME NEW s \in SUBSET S, Cardinality(s) <= n + 1 PROVE h[s] = Step(h, s)
    <3>1. CASE s = {}
      BY <3>1
    <3>2. CASE s # {}
      <4>1. Pick(s) \in s
        BY <3>2 DEF Pick
      <4>2. /\ s \ {Pick(s)} \in SUBSET S
            /\ Cardinality(s \ {Pick(s)}) = Cardinality(s) - 1
        BY <1>1, <4>1, FS_RemoveElement
      <4>3. Cardinality(s \ {Pick(s)}) <= n
        BY <1>1, <2>2, <4>2
      <4>4. g[s \ {Pick(s)}] = Step(g, s \ {Pick(s)})
        BY <2>1, <4>2, <4>3
      <4>5. h[s \ {Pick(s)}] = g[s \ {Pick(s)}]
        BY <4>2, <4>4
      <4>6. QED
        BY <3>2, <4>5
    <3>3. QED
      BY <3>1, <3>2
  <2> HIDE DEF h, Step
  <2>3. QED
    BY <2>2
<1>4. T = Nat
  <2> HIDE DEF Upto
  <2>1. QED
    BY <1>2, <1>3, EveryNatural
<1>5. PICK g : \A s \in SUBSET S : Cardinality(s) <= Cardinality(S) => g[s] = Step(g, s)
  <2>1. Cardinality(S) \in T
    BY <1>1, <1>4
  <2>2. QED
    BY <2>1
<1> DEFINE h == [s \in SUBSET S |-> g[s]]
<1>6. \A s \in SUBSET S : h[s] = Step(h, s)
  <2> SUFFICES ASSUME NEW s \in SUBSET S PROVE h[s] = Step(h, s)
    OBVIOUS
  <2>1. g[s] = Step(g, s) /\ s \ {Pick(s)} \in SUBSET S
    BY <1>1, <1>5
  <2>2. QED
    BY <2>1
<1>7. h = [s \in SUBSET S |-> Step(h, s)]
  BY <1>6
<1>8. Computes(h, f, S)
  BY <1>7 DEF Computes
<1>9. QED
  BY <1>8

\* The partial sums exist, and each is the one before it and one more element.
LEMMA PartialIs ==
  ASSUME NEW f, NEW S, IsFiniteSet(S), NEW s \in SUBSET S
  PROVE  Partial(f, S)[s] = IF s = {} THEN 0 ELSE f[Pick(s)] + Partial(f, S)[s \ {Pick(s)}]
<1>1. Computes(Partial(f, S), f, S)
  BY PartialExists DEF Partial
<1>2. PICK h : h = Partial(f, S)
  OBVIOUS
<1>3. h = [t \in SUBSET S |-> IF t = {} THEN 0 ELSE f[Pick(t)] + h[t \ {Pick(t)}]]
  BY <1>1, <1>2 DEF Computes
<1>4. h[s] = IF s = {} THEN 0 ELSE f[Pick(s)] + h[s \ {Pick(s)}]
  BY <1>3
<1>5. QED
  BY <1>2, <1>4

\* What is computed for a subset does not depend on the set it was asked for.
LEMMA PartialIsSum ==
  ASSUME NEW f, NEW S, IsFiniteSet(S), NEW R \in SUBSET S
  PROVE  Partial(f, S)[R] = SumFunctionOnSet(f, R)
<1> DEFINE T == {n \in Nat : \A s \in SUBSET R : Cardinality(s) = n => Partial(f, S)[s] = Partial(f, R)[s]}
<1>0. IsFiniteSet(R) /\ \A s \in SUBSET R : s \in SUBSET S
  BY FS_Subset
<1>1. \A s \in SUBSET R : /\ IsFiniteSet(s) /\ Cardinality(s) \in Nat /\ (Cardinality(s) = 0 <=> s = {})
                         /\ \A y \in s : s \ {y} \in SUBSET R /\ Cardinality(s \ {y}) = Cardinality(s) - 1
  BY <1>0, PartSizes
<1>2. 0 \in T
  <2>1. Partial(f, S)[{}] = 0 /\ Partial(f, R)[{}] = 0
    BY <1>0, PartialIs
  <2>2. QED
    BY <1>1, <2>1
<1>3. ASSUME NEW n \in Nat, n \in T PROVE n + 1 \in T
  <2> SUFFICES ASSUME NEW s \in SUBSET R, Cardinality(s) = n + 1
               PROVE  Partial(f, S)[s] = Partial(f, R)[s]
    OBVIOUS
  <2>1. s # {} /\ Pick(s) \in s
    BY <1>1 DEF Pick
  <2>2. s \ {Pick(s)} \in SUBSET R /\ Cardinality(s \ {Pick(s)}) = n
    BY <1>1, <2>1
  <2>3. Partial(f, S)[s \ {Pick(s)}] = Partial(f, R)[s \ {Pick(s)}]
    BY <1>3, <2>2
  <2>4. QED
    BY <1>0, <2>1, <2>3, PartialIs
<1>4. T = Nat
  <2>1. T \subseteq Nat
    OBVIOUS
  <2> HIDE DEF T
  <2>2. QED
    BY <1>2, <1>3, <2>1, EveryNatural
<1>5. QED
  BY <1>0, <1>1, <1>4, SumIsPartial

\* A sum, one element taken out.
LEMMA SumIs ==
  ASSUME NEW f, NEW S, IsFiniteSet(S)
  PROVE  SumFunctionOnSet(f, S) = IF S = {} THEN 0 ELSE f[Pick(S)] + SumFunctionOnSet(f, S \ {Pick(S)})
<1>1. CASE S = {}
  BY <1>1, SumIsPartial, PartialIs
<1>2. CASE S # {}
  BY <1>2, SumIsPartial, PartialIs, PartialIsSum
<1>3. QED
  BY <1>1, <1>2

\* Any element may be taken out first.
LEMMA SumWithout ==
  ASSUME NEW f, NEW S, IsFiniteSet(S), \A x \in S : f[x] \in Int, NEW x \in S
  PROVE  /\ SumFunctionOnSet(f, S) \in Int
         /\ SumFunctionOnSet(f, S) = f[x] + SumFunctionOnSet(f, S \ {x})
<1> DEFINE Sum(s) == SumFunctionOnSet(f, s)
           T == {n \in Nat : \A s \in SUBSET S : Cardinality(s) <= n
                   => Sum(s) \in Int /\ \A y \in s : Sum(s) = f[y] + Sum(s \ {y})}
<1>1. \A s \in SUBSET S : /\ IsFiniteSet(s) /\ Cardinality(s) \in Nat /\ (Cardinality(s) = 0 <=> s = {})
                         /\ \A y \in s : s \ {y} \in SUBSET S /\ Cardinality(s \ {y}) = Cardinality(s) - 1
  BY PartSizes
<1>2. 0 \in T
  <2>1. Sum({}) = 0
    BY SumIs, FS_EmptySet
  <2>2. QED
    BY <1>1, <2>1
<1>3. ASSUME NEW n \in Nat, n \in T PROVE n + 1 \in T
  <2>0. \A s \in SUBSET S : Cardinality(s) <= n + 1 => Cardinality(s) <= n \/ Cardinality(s) = n + 1
    BY <1>1
  <2> SUFFICES ASSUME NEW s \in SUBSET S, Cardinality(s) = n + 1
               PROVE  Sum(s) \in Int /\ \A y \in s : Sum(s) = f[y] + Sum(s \ {y})
    BY <1>3, <2>0
  <2>1. PICK p \in s : p = Pick(s)
    BY <1>1 DEF Pick
  <2>2. s # {} /\ Sum(s) = f[p] + Sum(s \ {p})
    BY <1>1, <2>1, SumIs
  <2>3. \A y \in s : /\ s \ {y} \in SUBSET S /\ Cardinality(s \ {y}) = n
                     /\ Sum(s \ {y}) \in Int /\ f[y] \in Int
    BY <1>1, <1>3
  <2>4. ASSUME NEW y \in s, y # p PROVE Sum(s) = f[y] + Sum(s \ {y})
    <3>1. PICK r : r = s \ {p}
      OBVIOUS
    <3>2. PICK q : q = s \ {y}
      OBVIOUS
    <3>3. PICK o : o = r \ {y}
      OBVIOUS
    <3>4. o = q \ {p} /\ y \in r /\ p \in q
      BY <2>4, <3>1, <3>2, <3>3
    <3>5. r \in SUBSET S /\ q \in SUBSET S /\ Cardinality(r) = n /\ Cardinality(q) = n
      BY <2>3, <3>1, <3>2
    <3>6. o \in SUBSET S /\ Cardinality(o) = n - 1
      BY <1>1, <3>3, <3>4, <3>5
    <3>7. Sum(r) = f[y] + Sum(o)
      BY <1>3, <3>3, <3>4, <3>5
    <3>8. Sum(q) = f[p] + Sum(o)
      BY <1>3, <3>4, <3>5
    <3>9. Sum(o) \in Int
      BY <1>3, <3>6
    <3>10. Sum(s) = f[p] + Sum(r)
      BY <2>2, <3>1
    <3>11. f[p] \in Int /\ f[y] \in Int
      BY <2>3, <2>4
    <3>12. PICK a, b, c, d, e, g : a = Sum(o) /\ b = Sum(r) /\ c = Sum(q) /\ d = f[p] /\ e = f[y] /\ g = Sum(s)
      OBVIOUS
    <3>13. b = e + a /\ c = d + a /\ g = d + b /\ a \in Int /\ d \in Int /\ e \in Int
      BY <3>7, <3>8, <3>9, <3>10, <3>11, <3>12
    <3>14. g = e + c
      BY <3>13
    <3>15. QED
      BY <3>2, <3>12, <3>14
  <2>5. Sum(s) \in Int
    <3>1. f[p] \in Int /\ Sum(s \ {p}) \in Int
      BY <2>3
    <3>2. QED
      BY <2>2, <3>1
  <2>6. \A y \in s : Sum(s) = f[y] + Sum(s \ {y})
    <3>1. Sum(s) = f[p] + Sum(s \ {p})
      BY <2>2
    <3>2. QED
      BY <2>4, <3>1
  <2>7. QED
    BY <2>5, <2>6
<1>4. T = Nat
  <2>1. T \subseteq Nat
    OBVIOUS
  <2> HIDE DEF T
  <2>2. QED
    BY <1>2, <1>3, <2>1, EveryNatural
<1>5. Cardinality(S) \in T /\ S \in SUBSET S
  BY <1>1, <1>4
<1>6. QED
  BY <1>5

\* Nothing adds up to 0,
LEMMA SumOfNothing == ASSUME NEW f PROVE SumFunctionOnSet(f, {}) = 0
BY SumIs, FS_EmptySet

\* and one element to itself.
LEMMA SumOfOne == ASSUME NEW f, NEW x, f[x] \in Int PROVE SumFunctionOnSet(f, {x}) = f[x]
<1>1. IsFiniteSet({x}) /\ {x} \ {x} = {}
  BY FS_Singleton
<1>2. SumFunctionOnSet(f, {x}) = f[x] + SumFunctionOnSet(f, {x} \ {x})
  BY <1>1, SumWithout
<1>3. QED
  BY <1>1, <1>2, SumOfNothing

\* A sum of integers is an integer.
LEMMA SumIsInt ==
  ASSUME NEW f, NEW S, IsFiniteSet(S), \A x \in S : f[x] \in Int
  PROVE  SumFunctionOnSet(f, S) \in Int
<1>1. CASE S = {}
  BY <1>1, SumOfNothing
<1>2. CASE S # {}
  BY <1>2, SumWithout
<1>3. QED
  BY <1>1, <1>2

\* One element more adds its own value.
LEMMA SumWith ==
  ASSUME NEW f, NEW S, IsFiniteSet(S), \A y \in S : f[y] \in Int, NEW x, x \notin S, f[x] \in Int
  PROVE  SumFunctionOnSet(f, S \cup {x}) = SumFunctionOnSet(f, S) + f[x]
<1>1. IsFiniteSet(S \cup {x}) /\ x \in S \cup {x} /\ (S \cup {x}) \ {x} = S
  BY FS_AddElement
<1>2. SumFunctionOnSet(f, S \cup {x}) = f[x] + SumFunctionOnSet(f, S)
  BY <1>1, SumWithout
<1>3. QED
  BY <1>2, SumIsInt

\* A finite set's parts can be gone through one element at a time: what holds of none
\* and passes from a part to the part with one element more holds of the whole.
LEMMA EveryPart ==
  ASSUME NEW S, IsFiniteSet(S), NEW P, {} \in P,
         \A s \in SUBSET S : \A x \in S \ s : s \in P => s \cup {x} \in P
  PROVE  S \in P
<1> DEFINE T == {n \in Nat : \A s \in SUBSET S : Cardinality(s) = n => s \in P}
<1>1. \A s \in SUBSET S : /\ IsFiniteSet(s) /\ Cardinality(s) \in Nat /\ (Cardinality(s) = 0 <=> s = {})
                         /\ \A y \in s : s \ {y} \in SUBSET S /\ Cardinality(s \ {y}) = Cardinality(s) - 1
  BY PartSizes
<1>2. 0 \in T
  BY <1>1
<1>3. ASSUME NEW n \in Nat, n \in T PROVE n + 1 \in T
  <2> SUFFICES ASSUME NEW s \in SUBSET S, Cardinality(s) = n + 1 PROVE s \in P
    OBVIOUS
  <2>1. PICK x \in s : TRUE
    BY <1>1
  <2>2. PICK r : r = s \ {x}
    OBVIOUS
  <2>3. r \in SUBSET S /\ Cardinality(r) = n
    BY <1>1, <2>2
  <2>4. r \in P /\ x \in S \ r /\ s = r \cup {x}
    BY <1>3, <2>2, <2>3
  <2>5. QED
    BY <2>3, <2>4
<1>4. T = Nat
  <2>1. T \subseteq Nat
    OBVIOUS
  <2> HIDE DEF T
  <2>2. QED
    BY <1>2, <1>3, <2>1, EveryNatural
<1>5. QED
  BY <1>1, <1>4

\* Addends that are no larger one by one are no larger together.
LEMMA SumGrows ==
  ASSUME NEW f, NEW g, NEW S, IsFiniteSet(S),
         \A x \in S : f[x] \in Int /\ g[x] \in Int /\ f[x] <= g[x]
  PROVE  SumFunctionOnSet(f, S) <= SumFunctionOnSet(g, S)
<1> DEFINE P == {s \in SUBSET S : SumFunctionOnSet(f, s) <= SumFunctionOnSet(g, s)}
<1>1. {} \in P
  BY SumOfNothing
<1>2. ASSUME NEW s \in SUBSET S, NEW x \in S \ s, s \in P PROVE s \cup {x} \in P
  <2>1. IsFiniteSet(s) /\ \A y \in s : f[y] \in Int /\ g[y] \in Int
    BY FS_Subset
  <2>2. /\ SumFunctionOnSet(f, s \cup {x}) = SumFunctionOnSet(f, s) + f[x]
        /\ SumFunctionOnSet(g, s \cup {x}) = SumFunctionOnSet(g, s) + g[x]
    BY <2>1, SumWith
  <2>3. SumFunctionOnSet(f, s) \in Int /\ SumFunctionOnSet(g, s) \in Int
    BY <2>1, SumIsInt
  <2>4. PICK a, b : a = SumFunctionOnSet(f, s) /\ b = SumFunctionOnSet(g, s)
    OBVIOUS
  <2>5. a <= b /\ a \in Int /\ b \in Int
    BY <1>2, <2>3, <2>4
  <2>6. a + f[x] <= b + g[x]
    BY <2>5
  <2>7. QED
    BY <2>2, <2>4, <2>6
<1>3. S \in P
  <2> HIDE DEF P
  <2>1. QED
    BY <1>1, <1>2, EveryPart
<1>4. QED
  BY <1>3

\* Equal summands have equal sums.
LEMMA SumOfTheSame ==
  ASSUME NEW f, NEW g, NEW S, IsFiniteSet(S), \A x \in S : f[x] \in Int /\ f[x] = g[x]
  PROVE  SumFunctionOnSet(f, S) = SumFunctionOnSet(g, S)
<1>1. SumFunctionOnSet(f, S) <= SumFunctionOnSet(g, S) /\ SumFunctionOnSet(g, S) <= SumFunctionOnSet(f, S)
  BY SumGrows
<1>2. SumFunctionOnSet(f, S) \in Int /\ SumFunctionOnSet(g, S) \in Int
  BY SumIsInt
<1>3. QED
  BY <1>1, <1>2

\* The sum over two parts is the sum of the two sums.
LEMMA SumOfBoth ==
  ASSUME NEW f, NEW R, NEW S, IsFiniteSet(R), IsFiniteSet(S), R \cap S = {},
         \A x \in R \cup S : f[x] \in Int
  PROVE  SumFunctionOnSet(f, R \cup S) = SumFunctionOnSet(f, R) + SumFunctionOnSet(f, S)
<1> DEFINE P == {s \in SUBSET S : SumFunctionOnSet(f, R \cup s) = SumFunctionOnSet(f, R) + SumFunctionOnSet(f, s)}
<1>1. {} \in P
  <2>1. R \cup {} = R /\ SumFunctionOnSet(f, R) \in Int
    BY SumIsInt
  <2>2. QED
    BY <2>1, SumOfNothing
<1>2. ASSUME NEW s \in SUBSET S, NEW x \in S \ s, s \in P PROVE s \cup {x} \in P
  <2>1. IsFiniteSet(s) /\ IsFiniteSet(R \cup s) /\ x \notin R \cup s
    BY FS_Subset, FS_Union
  <2>2. SumFunctionOnSet(f, s \cup {x}) = SumFunctionOnSet(f, s) + f[x]
    BY <2>1, SumWith
  <2>3. SumFunctionOnSet(f, (R \cup s) \cup {x}) = SumFunctionOnSet(f, R \cup s) + f[x]
    BY <2>1, SumWith
  <2>4. (R \cup s) \cup {x} = R \cup (s \cup {x})
    OBVIOUS
  <2>5. /\ SumFunctionOnSet(f, s) \in Int /\ SumFunctionOnSet(f, R) \in Int
        /\ f[x] \in Int
    BY <2>1, SumIsInt
  <2>6. PICK a, b, c : a = SumFunctionOnSet(f, s) /\ b = SumFunctionOnSet(f, R) /\ c = f[x]
    OBVIOUS
  <2>7. (b + a) + c = b + (a + c)
    BY <2>5, <2>6
  <2>8. SumFunctionOnSet(f, R \cup s) = b + a
    BY <1>2, <2>6
  <2>9. QED
    BY <2>2, <2>3, <2>4, <2>6, <2>7, <2>8
<1>3. S \in P
  <2> HIDE DEF P
  <2>1. QED
    BY <1>1, <1>2, EveryPart
<1>4. QED
  BY <1>3

\* A sum of naturals is a natural.
LEMMA SumIsNat ==
  ASSUME NEW f, NEW S, IsFiniteSet(S), \A x \in S : f[x] \in Nat
  PROVE  SumFunctionOnSet(f, S) \in Nat
<1> DEFINE P == {s \in SUBSET S : SumFunctionOnSet(f, s) \in Nat}
<1>1. {} \in P
  BY SumOfNothing
<1>2. ASSUME NEW s \in SUBSET S, NEW x \in S \ s, s \in P PROVE s \cup {x} \in P
  <2>1. IsFiniteSet(s)
    BY FS_Subset
  <2>2. SumFunctionOnSet(f, s \cup {x}) = SumFunctionOnSet(f, s) + f[x]
    BY <2>1, SumWith
  <2>3. QED
    BY <1>2, <2>2
<1>3. S \in P
  <2> HIDE DEF P
  <2>1. QED
    BY <1>1, <1>2, EveryPart
<1>4. QED
  BY <1>3

\* Fewer addends, none of them negative, add up to no more.
LEMMA SumOfFewer ==
  ASSUME NEW f, NEW S, IsFiniteSet(S), NEW R \in SUBSET S, \A x \in S : f[x] \in Nat
  PROVE  SumFunctionOnSet(f, R) <= SumFunctionOnSet(f, S)
<1>1. /\ IsFiniteSet(R) /\ IsFiniteSet(S \ R) /\ R \cap (S \ R) = {} /\ S = R \cup (S \ R)
  BY FS_Subset
<1>2. SumFunctionOnSet(f, R \cup (S \ R)) = SumFunctionOnSet(f, R) + SumFunctionOnSet(f, S \ R)
  BY <1>1, SumOfBoth
<1>3. SumFunctionOnSet(f, R) \in Nat /\ SumFunctionOnSet(f, S \ R) \in Nat
  BY <1>1, SumIsNat
<1>4. PICK a, b, c : a = SumFunctionOnSet(f, R) /\ b = SumFunctionOnSet(f, S \ R) /\ c = SumFunctionOnSet(f, S)
  OBVIOUS
<1>5. c = a + b /\ a \in Nat /\ b \in Nat
  BY <1>1, <1>2, <1>3, <1>4
<1>6. a <= c
  BY <1>5
<1>7. QED
  BY <1>4, <1>6

\* Zeros add up to 0.
LEMMA SumOfNoughts ==
  ASSUME NEW f, NEW S, IsFiniteSet(S), \A x \in S : f[x] = 0
  PROVE  SumFunctionOnSet(f, S) = 0
<1> DEFINE P == {s \in SUBSET S : SumFunctionOnSet(f, s) = 0}
<1>1. {} \in P
  BY SumOfNothing
<1>2. ASSUME NEW s \in SUBSET S, NEW x \in S \ s, s \in P PROVE s \cup {x} \in P
  <2>1. IsFiniteSet(s)
    BY FS_Subset
  <2>2. SumFunctionOnSet(f, s \cup {x}) = SumFunctionOnSet(f, s) + f[x]
    BY <2>1, SumWith
  <2>3. QED
    BY <1>2, <2>2
<1>3. S \in P
  <2> HIDE DEF P
  <2>1. QED
    BY <1>1, <1>2, EveryPart
<1>4. QED
  BY <1>3

\* The sum of sums is the sum of both.
LEMMA SumOfSums ==
  ASSUME NEW f, NEW g, NEW h, NEW S, IsFiniteSet(S),
         \A x \in S : f[x] \in Int /\ g[x] \in Int /\ h[x] = f[x] + g[x]
  PROVE  SumFunctionOnSet(h, S) = SumFunctionOnSet(f, S) + SumFunctionOnSet(g, S)
<1> DEFINE P == {s \in SUBSET S : SumFunctionOnSet(h, s) = SumFunctionOnSet(f, s) + SumFunctionOnSet(g, s)}
<1>1. {} \in P
  BY SumOfNothing
<1>2. ASSUME NEW s \in SUBSET S, NEW x \in S \ s, s \in P PROVE s \cup {x} \in P
  <2>1. IsFiniteSet(s) /\ \A y \in s : f[y] \in Int /\ g[y] \in Int /\ h[y] \in Int
    BY FS_Subset
  <2>2. PICK a, b, c, d, e, k : /\ a = SumFunctionOnSet(f, s) /\ b = SumFunctionOnSet(g, s)
                                /\ c = SumFunctionOnSet(h, s) /\ d = f[x] /\ e = g[x] /\ k = h[x]
    OBVIOUS
  <2>3. /\ SumFunctionOnSet(f, s \cup {x}) = a + d /\ SumFunctionOnSet(g, s \cup {x}) = b + e
        /\ SumFunctionOnSet(h, s \cup {x}) = c + k
    BY <2>1, <2>2, SumWith
  <2>4. a \in Int /\ b \in Int /\ d \in Int /\ e \in Int /\ k = d + e
    BY <2>1, <2>2, SumIsInt
  <2>5. c = a + b
    BY <1>2, <2>2
  <2>6. c + k = (a + d) + (b + e)
    BY <2>4, <2>5
  <2>7. QED
    BY <2>3, <2>6
<1>3. S \in P
  <2> HIDE DEF P
  <2>1. QED
    BY <1>1, <1>2, EveryPart
<1>4. QED
  BY <1>3

---------------------------------------------------------------------------
(* Numbers.                                                                *)

\* A set of naturals has a least.
LEMMA Least ==
  ASSUME NEW S, S \subseteq Nat, S # {}
  PROVE  \E m \in S : \A n \in S : m <= n
<1> DEFINE Upto(n) == 1 .. n
           Intervals == {Upto(n) : n \in S}
<1>1. Intervals \subseteq FiniteSubsetsOf(Nat)
  <2>1. \A n \in Nat : IsFiniteSet(Upto(n)) /\ Upto(n) \subseteq Nat
    BY FS_Interval
  <2>2. QED
    BY <2>1 DEF FiniteSubsetsOf
<1>2. Intervals # {}
  OBVIOUS
<1>3. PICK s \in Intervals : \A r \in Intervals : <<r, s>> \notin StrictSubsetOrdering(Nat)
  BY <1>1, <1>2, FS_StrictSubsetOrderingWellFounded, WFMin
<1>4. PICK m \in S : s = Upto(m)
  BY <1>3
<1>5. ASSUME NEW n \in S, ~(m <= n) PROVE FALSE
  <2>1. Upto(n) \subseteq Upto(m) /\ m \in Upto(m) /\ m \notin Upto(n)
    BY <1>5
  <2>2. Upto(n) \in Intervals /\ Upto(m) \in Intervals
    BY <1>5
  <2>3. Upto(n) # Upto(m) /\ Upto(n) \in SUBSET Nat /\ Upto(m) \in SUBSET Nat
    BY <2>1
  <2> HIDE DEF Upto, Intervals
  <2>4. <<Upto(n), Upto(m)>> \in StrictSubsetOrdering(Nat)
    BY <2>1, <2>3 DEF StrictSubsetOrdering
  <2>5. QED
    BY <1>3, <1>4, <2>2, <2>4
<1>6. QED
  BY <1>5

\* Scaling by the same factor keeps an order.
LEMMA ProductsGrow ==
  ASSUME NEW a \in Nat, NEW b \in Nat, NEW f \in Nat, a <= b
  PROVE  a * f <= b * f
<1>1. PICK e \in Nat : b = a + e
  <2>1. b - a \in Nat /\ b = a + (b - a)
    OBVIOUS
  <2>2. QED
    BY <2>1
<1>2. b * f = a * f + e * f /\ e * f \in Nat /\ a * f \in Nat
  BY <1>1
<1>3. QED
  BY <1>2

\* What FiniteSetsExt calls the greatest and the least of a bounded set are.
LEMMA ExtremesAreMembers ==
  ASSUME NEW a \in Int, NEW b \in Int, NEW S, S \subseteq a .. b, S # {}
  PROVE  /\ Max(S) \in S /\ Min(S) \in S
         /\ \A x \in S : x <= Max(S) /\ Min(S) <= x
<1> DEFINE Above == {x - a : x \in S}
           Below == {b - x : x \in S}
<1>1. Above \subseteq Nat /\ Above # {} /\ Below \subseteq Nat /\ Below # {}
  <2>1. \A x \in S : x - a \in Nat /\ b - x \in Nat
    OBVIOUS
  <2>2. PICK x \in S : TRUE
    OBVIOUS
  <2>3. x - a \in Above /\ b - x \in Below
    OBVIOUS
  <2>4. QED
    BY <2>1, <2>3
<1>2. \E x \in S : \A y \in S : x >= y
  <2>1. PICK m \in Below : \A n \in Below : m <= n
    BY <1>1, Least
  <2>2. PICK x \in S : m = b - x
    BY <2>1
  <2>3. ASSUME NEW y \in S PROVE x >= y
    <3>1. m <= b - y
      BY <2>1
    <3>2. QED
      BY <2>2, <3>1
  <2>4. QED
    BY <2>3
<1>3. \E x \in S : \A y \in S : x =< y
  <2>1. PICK m \in Above : \A n \in Above : m <= n
    BY <1>1, Least
  <2>2. PICK x \in S : m = x - a
    BY <2>1
  <2>3. ASSUME NEW y \in S PROVE x =< y
    <3>1. m <= y - a
      BY <2>1
    <3>2. QED
      BY <2>2, <3>1
  <2>4. QED
    BY <2>3
<1>4. Max(S) \in S /\ \A y \in S : Max(S) >= y
  BY <1>2 DEF Max
<1>5. Min(S) \in S /\ \A y \in S : Min(S) =< y
  BY <1>3 DEF Min
<1>6. QED
  BY <1>4, <1>5

\* Scaling keeps the order of integers too.
LEMMA ScalingKeepsOrder ==
  ASSUME NEW a \in Int, NEW b \in Int, NEW f \in Nat, a <= b
  PROVE  a * f \in Int /\ b * f \in Int /\ a * f <= b * f
<1>1. b - a \in Nat
  OBVIOUS
<1>2. (b - a) * f \in Nat /\ (b - a) * f = b * f - a * f /\ a * f \in Int /\ b * f \in Int
  BY <1>1
<1>3. QED
  BY <1>2

\* What is left of a division decides the quotient.
LEMMA QuotientIs ==
  ASSUME NEW q \in Int, NEW n \in Nat \ {0}, NEW r \in 0 .. n - 1
  PROVE  (q * n + r) \div n = q
<1> DEFINE qn == q * n
           x == qn + r
<1>1. qn \in Int
  OBVIOUS
<1> HIDE DEF qn
<1>2. PICK d \in Int, m \in 0 .. n - 1 : x = d * n + m /\ d = x \div n
  BY <1>1
<1> DEFINE dn == d * n
<1>3. dn \in Int /\ qn + r = dn + m
  BY <1>2
<1>4. ASSUME NEW e \in Nat, e >= 1, e * n < n PROVE FALSE
  <2>1. 1 * n <= e * n
    BY <1>4, ProductsGrow
  <2>2. QED
    BY <1>4, <2>1
<1>5. (q - d) * n = qn - dn /\ (d - q) * n = dn - qn
  BY <1>2 DEF qn
<1> HIDE DEF dn
<1>6. qn - dn < n /\ dn - qn < n
  BY <1>1, <1>2, <1>3
<1>7. ~(q - d >= 1)
  BY <1>2, <1>4, <1>5, <1>6
<1>8. ~(d - q >= 1)
  BY <1>2, <1>4, <1>5, <1>6
<1>9. QED
  BY <1>2, <1>7, <1>8 DEF qn

\* Division by a positive number keeps the order.
LEMMA QuotientsKeepOrder ==
  ASSUME NEW a \in Int, NEW b \in Int, NEW n \in Nat \ {0}, a <= b
  PROVE  a \div n \in Int /\ b \div n \in Int /\ a \div n <= b \div n
<1>1. PICK d \in Int, m \in 0 .. n - 1 : a = d * n + m /\ d = a \div n
  OBVIOUS
<1>2. PICK e \in Int, k \in 0 .. n - 1 : b = e * n + k /\ e = b \div n
  OBVIOUS
<1>3. ASSUME d - e >= 1 PROVE FALSE
  <2>1. d - e \in Nat /\ 1 * n <= (d - e) * n
    BY <1>1, <1>2, <1>3, ProductsGrow
  <2>2. (d - e) * n = d * n - e * n /\ d * n \in Int /\ e * n \in Int
    BY <1>1, <1>2
  <2>3. QED
    BY <1>1, <1>2, <2>1, <2>2
<1>4. QED
  BY <1>1, <1>2, <1>3

---------------------------------------------------------------------------
(* The shape of the state the theorems speak of.                           *)

MandateRecord == [owner : Account, agent : Account, executor : Account, version : Nat,
            active : BOOLEAN, circuitBreaker : BOOLEAN, lastActionAt : Nat,
            epochStart : Nat, fillsThisEpoch : Nat, policy : Policy]

StampedFill == [asset : Asset, isExit : BOOLEAN, amountInUsdg : Nat,
                amountOut : Nat, executionPriceE8 : Nat, slippageBps : Nat,
                fairValueE8 : Nat, gapRisk : Nat]

Receipt == [mandateId : Nat, policyVersion : Nat, agent : Account,
            timestamp : Nat, fills : Seq(StampedFill)]

Triggers == TriggerList \cup {<<>>}

Rule == [policy : Policy, triggers : Triggers]

Shape ==
  /\ now \in Nat \ {0}
  /\ obs \in [Asset -> Observation]
  /\ mandates \in Seq(MandateRecord)
  /\ triggers \in Seq(Triggers)
  /\ rules \in Seq(Seq(Rule))
  /\ receipts \in Seq(Receipt)

\* Appending one element to a sequence.
LEMMA OneMore ==
  ASSUME NEW S, NEW s \in Seq(S), NEW e \in S
  PROVE  /\ s \o <<e>> \in Seq(S)
         /\ Append(s, e) \in Seq(S)
         /\ Len(s \o <<e>>) = Len(s) + 1
         /\ Len(Append(s, e)) = Len(s) + 1
         /\ DOMAIN (s \o <<e>>) = 1 .. Len(s) + 1
         /\ DOMAIN Append(s, e) = 1 .. Len(s) + 1
         /\ \A i \in 1 .. Len(s) : (s \o <<e>>)[i] = s[i] /\ Append(s, e)[i] = s[i]
         /\ (s \o <<e>>)[Len(s) + 1] = e
         /\ Append(s, e)[Len(s) + 1] = e
<1>1. <<e>> \in Seq(S) /\ Len(<<e>>) = 1 /\ <<e>>[1] = e
  OBVIOUS
<1>2. QED
  BY <1>1, ConcatProperties, AppendProperties, LenProperties

\* A stamped fill has its type.
LEMMA StampedType ==
  ASSUME Shape, NEW f \in Fill
  PROVE  Stamped(f) \in StampedFill
BY GuardAssumption DEF Shape, Stamped, StampedFill, Observation

\* The fills of a batch, each stamped, form a sequence.
LEMMA StampedBatch ==
  ASSUME Shape, NEW fills \in Batches
  PROVE  /\ [i \in DOMAIN fills |-> Stamped(fills[i])] \in Seq(StampedFill)
         /\ \A i \in DOMAIN fills : fills[i] \in Fill
         /\ Len(fills) \in Nat
<1>1. PICK n \in 0 .. MAX_FILLS : fills \in [1 .. n -> Fill]
  BY DEF Batches
<1>2. \A i \in 1 .. n : Stamped(fills[i]) \in StampedFill
  BY <1>1, StampedType
<1>3. n \in Nat
  OBVIOUS
<1>4. QED
  BY <1>1, <1>2, <1>3

\* An owner's call that changes one mandate leaves the list of mandates whole.
LEMMA AmendShape ==
  ASSUME Shape, NEW id \in DOMAIN mandates, NEW m \in MandateRecord, Amend(id, m)
  PROVE  /\ mandates' \in Seq(MandateRecord)
         /\ Len(mandates') = Len(mandates)
         /\ DOMAIN mandates' = DOMAIN mandates
         /\ mandates'[id] = m
         /\ \A j \in DOMAIN mandates : j # id => mandates'[j] = mandates[j]
BY ExceptSeq, LenProperties DEF Shape, Amend

\* What validateAndRecord appends to the record.
ReceiptOf(id, fills) ==
  [mandateId |-> id, policyVersion |-> mandates[id].version,
   agent |-> mandates[id].agent, timestamp |-> now,
   fills |-> [i \in DOMAIN fills |-> Stamped(fills[i])]]

\* What a settlement records has the type of a receipt.
LEMMA ReceiptOfType ==
  ASSUME Shape, NEW id \in DOMAIN mandates, NEW fills \in Batches
  PROVE  ReceiptOf(id, fills) \in Receipt
<1>1. id \in Nat /\ mandates[id] \in MandateRecord
  BY DEF Shape
<1>2. QED
  BY <1>1, StampedBatch DEF Shape, ReceiptOf, Receipt, MandateRecord

\* A settlement: the record grows by one receipt, and of the mandates only the
\* counters of the one that traded move.
LEMMA Settlement ==
  ASSUME Shape, NEW caller \in Account, NEW id \in DOMAIN mandates,
         NEW fills \in Batches, NEW holdings \in Holdings,
         ValidateAndRecord(caller, id, fills, holdings)
  PROVE  /\ receipts' = receipts \o <<ReceiptOf(id, fills)>>
         /\ receipts' \in Seq(Receipt)
         /\ mandates' \in Seq(MandateRecord)
         /\ Len(mandates') = Len(mandates)
         /\ mandates'[id].version = mandates[id].version
         /\ mandates'[id].policy = mandates[id].policy
         /\ mandates'[id].active = mandates[id].active
         /\ mandates'[id].lastActionAt = now
         /\ \A j \in DOMAIN mandates : j # id => mandates'[j] = mandates[j]
<1> DEFINE m == mandates[id]
           next == [m EXCEPT !.epochStart = IF EpochOver(m) THEN now ELSE @,
                             !.fillsThisEpoch = UsedThisEpoch(m) + Len(fills),
                             !.lastActionAt = now]
<1>1. m \in MandateRecord /\ now \in Nat
  BY DEF Shape
<1>2. next \in MandateRecord
  <2>1. UsedThisEpoch(m) \in Nat
    BY <1>1 DEF UsedThisEpoch, MandateRecord
  <2>2. UsedThisEpoch(m) + Len(fills) \in Nat
    BY <2>1, StampedBatch
  <2>3. QED
    BY <1>1, <2>2 DEF MandateRecord
<1>3. Amend(id, next)
  BY DEF ValidateAndRecord
<1>4. receipts' = receipts \o <<ReceiptOf(id, fills)>>
  BY DEF ValidateAndRecord, AppendReceipt, ReceiptOf
<1>5. receipts' \in Seq(Receipt)
  BY <1>4, OneMore, ReceiptOfType DEF Shape
<1> HIDE DEF next
<1>6. /\ mandates' \in Seq(MandateRecord)
      /\ Len(mandates') = Len(mandates)
      /\ mandates'[id] = next
      /\ \A j \in DOMAIN mandates : j # id => mandates'[j] = mandates[j]
  BY <1>2, <1>3, AmendShape
<1>7. /\ next.version = m.version
      /\ next.policy = m.policy
      /\ next.active = m.active
      /\ next.lastActionAt = now
  BY <1>1 DEF next, MandateRecord
<1>8. QED
  BY <1>4, <1>5, <1>6, <1>7

---------------------------------------------------------------------------
(* The versions.  Every version of a mandate stays where it was written,   *)
(* and the last one is the one in force.                                   *)

Versions ==
  /\ Len(rules) = Len(mandates)
  /\ Len(triggers) = Len(mandates)
  /\ \A id \in DOMAIN mandates :
       /\ Len(rules[id]) = mandates[id].version
       /\ mandates[id].version # 0
       /\ rules[id][mandates[id].version] = [policy |-> mandates[id].policy,
                                             triggers |-> triggers[id]]
       /\ mandates[id].lastActionAt <= now

\* What no step undoes: mandates, their versions, and the time they last acted.
OnlyGrows ==
  /\ now <= now'
  /\ \A id \in DOMAIN mandates :
       /\ id \in DOMAIN mandates'
       /\ mandates[id].lastActionAt <= mandates'[id].lastActionAt
       /\ \A v \in DOMAIN rules[id] : v \in DOMAIN rules'[id]
                                     /\ rules'[id][v] = rules[id][v]

Progress == Shape' /\ Versions' /\ OnlyGrows

\* Where a mandate's parts are.
LEMMA Parts ==
  ASSUME Shape, Versions, NEW id \in DOMAIN mandates
  PROVE  /\ id \in 1 .. Len(mandates) /\ id \in 1 .. Len(rules)
         /\ id \in 1 .. Len(triggers)
         /\ mandates[id] \in MandateRecord
         /\ triggers[id] \in Triggers
         /\ rules[id] \in Seq(Rule)
         /\ now \in Nat /\ mandates[id].lastActionAt \in Nat
         /\ mandates[id].version \in Nat
<1>1. id \in 1 .. Len(mandates) /\ mandates[id] \in MandateRecord
  BY ElementOfSeq, LenProperties DEF Shape
<1>2. id \in 1 .. Len(rules) /\ id \in 1 .. Len(triggers)
  BY <1>1 DEF Versions
<1>3. triggers[id] \in Triggers /\ rules[id] \in Seq(Rule)
  BY <1>2, ElementOfSeq DEF Shape
<1>4. QED
  BY <1>1, <1>2, <1>3 DEF Shape, MandateRecord

\* A step that leaves the mandates and their rules alone, whatever it does to
\* the oracle or the clock.
LEMMA SettledForNow ==
  ASSUME Shape, Versions, UNCHANGED <<mandates, triggers, rules, receipts>>,
         now' \in Nat, now <= now', obs' \in [Asset -> Observation]
  PROVE  Progress
<1>1. now \in Nat \ {0}
  BY DEF Shape
<1>2. Shape'
  BY <1>1 DEF Shape
<1>3. Versions'
  BY <1>1, Parts DEF Versions
<1>4. OnlyGrows
  BY Parts DEF OnlyGrows
<1>5. QED
  BY <1>2, <1>3, <1>4 DEF Progress

\* A change of one mandate that leaves its policy, its version and its last
\* action alone keeps everything the versions say.
LEMMA SettingStep ==
  ASSUME Shape, Versions, NEW id \in DOMAIN mandates, NEW m \in MandateRecord,
         Amend(id, m),
         m.version = mandates[id].version, m.policy = mandates[id].policy,
         m.lastActionAt = mandates[id].lastActionAt,
         UNCHANGED <<triggers, rules, receipts, now, obs>>
  PROVE  Progress
<1>1. /\ mandates' \in Seq(MandateRecord)
      /\ Len(mandates') = Len(mandates)
      /\ DOMAIN mandates' = DOMAIN mandates
      /\ mandates'[id] = m
      /\ \A j \in DOMAIN mandates : j # id => mandates'[j] = mandates[j]
  BY AmendShape
<1>2. Shape'
  BY <1>1 DEF Shape
<1>3. \A j \in DOMAIN mandates :
        /\ mandates'[j].version = mandates[j].version
        /\ mandates'[j].policy = mandates[j].policy
        /\ mandates'[j].lastActionAt = mandates[j].lastActionAt
        /\ mandates[j].lastActionAt \in Nat /\ now \in Nat
  BY <1>1, Parts
<1>4. Versions'
  BY <1>1, <1>3 DEF Versions
<1>5. OnlyGrows
  BY <1>1, <1>3 DEF OnlyGrows
<1>6. QED
  BY <1>2, <1>4, <1>5 DEF Progress

\* A new version is appended to the mandate's own list, and is what is in
\* force from now on.
LEMMA NewVersionStep ==
  ASSUME Shape, Versions, NEW id \in DOMAIN mandates, NEW m \in MandateRecord,
         NEW trs \in Triggers, Amend(id, m),
         m.version = mandates[id].version + 1,
         m.lastActionAt = mandates[id].lastActionAt,
         triggers' = [triggers EXCEPT ![id] = trs],
         rules' = [rules EXCEPT ![id] =
                     Append(rules[id], [policy |-> m.policy, triggers |-> trs])],
         UNCHANGED <<receipts, now, obs>>
  PROVE  Progress
<1> DEFINE rule == [policy |-> m.policy, triggers |-> trs]
           grown == Append(rules[id], rule)
<1>1. /\ mandates' \in Seq(MandateRecord)
      /\ Len(mandates') = Len(mandates)
      /\ DOMAIN mandates' = DOMAIN mandates
      /\ mandates'[id] = m
      /\ \A j \in DOMAIN mandates : j # id => mandates'[j] = mandates[j]
  BY AmendShape
<1>2. rule \in Rule
  BY DEF MandateRecord, Rule
<1> HIDE DEF rule
<1>3. /\ grown \in Seq(Rule)
      /\ Len(grown) = Len(rules[id]) + 1
      /\ DOMAIN grown = 1 .. Len(rules[id]) + 1
      /\ \A v \in 1 .. Len(rules[id]) : grown[v] = rules[id][v]
      /\ grown[Len(rules[id]) + 1] = rule
  BY <1>2, Parts, OneMore
<1>4. rules' = [rules EXCEPT ![id] = grown]
  BY DEF rule
<1> HIDE DEF grown
<1>5. /\ rules' \in Seq(Seq(Rule)) /\ Len(rules') = Len(rules)
      /\ rules'[id] = grown
      /\ \A j \in 1 .. Len(rules) : j # id => rules'[j] = rules[j]
  <2>1. rules \in Seq(Seq(Rule)) /\ id \in 1 .. Len(rules)
    BY Parts DEF Shape
  <2>2. QED
    BY <1>3, <1>4, <2>1, ExceptSeq
<1>6. /\ triggers' \in Seq(Triggers) /\ Len(triggers') = Len(triggers)
      /\ triggers'[id] = trs
      /\ \A j \in 1 .. Len(triggers) : j # id => triggers'[j] = triggers[j]
  BY Parts, ExceptSeq DEF Shape
<1>7. Shape'
  BY <1>1, <1>5, <1>6 DEF Shape
<1>8. Versions'
  <2> SUFFICES ASSUME NEW j \in DOMAIN mandates
               PROVE  /\ Len(rules'[j]) = mandates'[j].version
                      /\ mandates'[j].version # 0
                      /\ rules'[j][mandates'[j].version] =
                           [policy |-> mandates'[j].policy, triggers |-> triggers'[j]]
                      /\ mandates'[j].lastActionAt <= now
    BY <1>1, <1>5, <1>6 DEF Versions
  <2>1. CASE j # id
    BY <2>1, <1>1, <1>5, <1>6, Parts DEF Versions
  <2>2. CASE j = id
    <3>1. Len(rules[id]) = mandates[id].version /\ mandates[id].version \in Nat
      BY Parts DEF Versions
    <3>2. Len(grown) = m.version /\ grown[m.version] = rule /\ m.version # 0
      BY <3>1, <1>3
    <3>3. m.lastActionAt <= now
      BY DEF Versions
    <3>4. QED
      BY <2>2, <3>2, <3>3, <1>1, <1>5, <1>6 DEF rule
  <2>3. QED
    BY <2>1, <2>2
<1>9. OnlyGrows
  <2>1. now <= now'
    BY Parts
  <2>2. ASSUME NEW j \in DOMAIN mandates
        PROVE  /\ mandates[j].lastActionAt <= mandates'[j].lastActionAt
               /\ \A v \in DOMAIN rules[j] : v \in DOMAIN rules'[j]
                                            /\ rules'[j][v] = rules[j][v]
    <3>1. CASE j # id
      BY <3>1, <1>1, <1>5, Parts
    <3>2. CASE j = id
      <4>1. DOMAIN rules[id] = 1 .. Len(rules[id]) /\ Len(rules[id]) \in Nat
        BY Parts, LenProperties
      <4>2. QED
        BY <3>2, <4>1, <1>1, <1>3, <1>5, Parts
    <3>3. QED
      BY <3>1, <3>2
  <2>3. QED
    BY <1>1, <2>1, <2>2 DEF OnlyGrows
<1>10. QED
  BY <1>7, <1>8, <1>9 DEF Progress

\* A mandate that is created stands at version 1 of its own list.
LEMMA CreateStep ==
  ASSUME Shape, Versions,
         NEW caller \in Account, NEW agent \in Account, NEW executor \in Account,
         NEW p \in Policy, NEW assets \in AssetArrays,
         CreateMandate(caller, agent, executor, p, assets)
  PROVE  Progress /\ receipts' = receipts
<1> DEFINE m == [owner |-> caller, agent |-> agent, executor |-> executor,
                 version |-> 1, active |-> TRUE, circuitBreaker |-> FALSE,
                 lastActionAt |-> 0, epochStart |-> now, fillsThisEpoch |-> 0,
                 policy |-> p]
           rule == [policy |-> p, triggers |-> <<>>]
           n == Len(mandates)
<1>1. /\ mandates' = Append(mandates, m)
      /\ triggers' = Append(triggers, <<>>)
      /\ rules' = Append(rules, <<rule>>)
      /\ UNCHANGED <<receipts, now, obs>>
  BY DEF CreateMandate, registryVars, feedVars
<1>2. m \in MandateRecord /\ m.version = 1 /\ m.policy = p /\ m.lastActionAt = 0
  BY DEF MandateRecord, Shape
<1>3. /\ rule \in Rule /\ <<>> \in Triggers
      /\ <<rule>> \in Seq(Rule) /\ Len(<<rule>>) = 1 /\ <<rule>>[1] = rule
  BY DEF Rule, Triggers
<1> HIDE DEF m
<1>4. /\ mandates' \in Seq(MandateRecord)
      /\ DOMAIN mandates' = 1 .. n + 1 /\ Len(mandates') = n + 1
      /\ \A j \in 1 .. n : mandates'[j] = mandates[j]
      /\ mandates'[n + 1] = m
  BY <1>1, <1>2, OneMore DEF Shape
<1>5. /\ triggers' \in Seq(Triggers) /\ Len(triggers') = n + 1
      /\ \A j \in 1 .. n : triggers'[j] = triggers[j]
      /\ triggers'[n + 1] = <<>>
  BY <1>1, <1>3, OneMore DEF Shape, Versions
<1>6. /\ rules' \in Seq(Seq(Rule)) /\ Len(rules') = n + 1
      /\ \A j \in 1 .. n : rules'[j] = rules[j]
      /\ rules'[n + 1] = <<rule>>
  BY <1>1, <1>3, OneMore DEF Shape, Versions
<1>7. DOMAIN mandates = 1 .. n /\ n \in Nat
  BY LenProperties DEF Shape
<1>8. Shape'
  BY <1>1, <1>4, <1>5, <1>6 DEF Shape
<1>9. Versions'
  <2> SUFFICES ASSUME NEW j \in 1 .. n + 1
               PROVE  /\ Len(rules'[j]) = mandates'[j].version
                      /\ mandates'[j].version # 0
                      /\ rules'[j][mandates'[j].version] =
                           [policy |-> mandates'[j].policy, triggers |-> triggers'[j]]
                      /\ mandates'[j].lastActionAt <= now
    BY <1>1, <1>4, <1>5, <1>6 DEF Versions
  <2>1. CASE j \in 1 .. n
    BY <2>1, <1>4, <1>5, <1>6, <1>7 DEF Versions
  <2>2. CASE j = n + 1
    BY <2>2, <1>2, <1>3, <1>4, <1>5, <1>6 DEF Shape
  <2>3. QED
    BY <1>7, <2>1, <2>2
<1>10. OnlyGrows
  BY <1>1, <1>4, <1>6, <1>7, Parts DEF OnlyGrows, Shape
<1>11. QED
  BY <1>1, <1>8, <1>9, <1>10 DEF Progress

\* Whatever the owner does, no version is lost and the record stands.
LEMMA OwnerStep ==
  ASSUME Shape, Versions, NEW caller \in Account, NEW id \in DOMAIN mandates,
         OwnerAction(caller, id)
  PROVE  Progress /\ receipts' = receipts
<1>1. /\ mandates[id] \in MandateRecord /\ triggers[id] \in Triggers
      /\ mandates[id].version \in Nat
      /\ id \in 1 .. Len(triggers)
  BY Parts
<1>2. ASSUME NEW p \in Policy, UpdatePolicy(caller, id, p)
      PROVE  Progress /\ receipts' = receipts
  <2> DEFINE m == [mandates[id] EXCEPT !.policy = p, !.version = NextVersion(id)]
  <2>1. m \in MandateRecord /\ m.version = mandates[id].version + 1
        /\ m.lastActionAt = mandates[id].lastActionAt
    <3>1. NextVersion(id) \in Nat
      BY <1>1 DEF NextVersion
    <3>2. m \in MandateRecord
      BY <1>1, <3>1 DEF MandateRecord
    <3>3. m.version = NextVersion(id) /\ m.lastActionAt = mandates[id].lastActionAt
      BY <1>1 DEF MandateRecord
    <3>4. QED
      BY <3>2, <3>3 DEF NextVersion
  <2>2. Amend(id, m)
    BY <1>2 DEF UpdatePolicy
  <2>3. triggers' = [triggers EXCEPT ![id] = triggers[id]]
    BY <1>2, <1>1, LenProperties DEF UpdatePolicy, Shape
  <2>4. rules' = [rules EXCEPT ![id] =
                    Append(rules[id], [policy |-> m.policy, triggers |-> triggers[id]])]
    <3>1. m.policy = p
      BY <1>1 DEF MandateRecord
    <3>2. QED
      BY <1>2, <3>1 DEF UpdatePolicy
  <2>5. UNCHANGED <<receipts, now, obs>>
    BY <1>2 DEF UpdatePolicy, registryVars, feedVars
  <2> HIDE DEF m
  <2>6. QED
    BY <1>1, <2>1, <2>2, <2>3, <2>4, <2>5, NewVersionStep
<1>3. ASSUME NEW trs \in TriggerList, SetTriggers(caller, id, trs)
      PROVE  Progress /\ receipts' = receipts
  <2> DEFINE m == [mandates[id] EXCEPT !.version = NextVersion(id)]
  <2>1. m \in MandateRecord /\ m.version = mandates[id].version + 1
        /\ m.policy = mandates[id].policy
        /\ m.lastActionAt = mandates[id].lastActionAt
    BY <1>1 DEF MandateRecord, NextVersion
  <2>2. Amend(id, m) /\ triggers' = [triggers EXCEPT ![id] = trs]
    BY <1>3 DEF SetTriggers
  <2>3. rules' = [rules EXCEPT ![id] =
                    Append(rules[id], [policy |-> m.policy, triggers |-> trs])]
    BY <1>3, <2>1 DEF SetTriggers
  <2>4. UNCHANGED <<receipts, now, obs>>
    BY <1>3 DEF SetTriggers, registryVars, feedVars
  <2>5. trs \in Triggers
    BY DEF Triggers
  <2> HIDE DEF m
  <2>6. QED
    BY <2>1, <2>2, <2>3, <2>4, <2>5, NewVersionStep
<1>4. ASSUME NEW agent \in Account, SetAgent(caller, id, agent)
      PROVE  Progress /\ receipts' = receipts
  <2> DEFINE m == [mandates[id] EXCEPT !.agent = agent]
  <2>1. m \in MandateRecord /\ m.version = mandates[id].version
        /\ m.policy = mandates[id].policy
        /\ m.lastActionAt = mandates[id].lastActionAt
    BY <1>1 DEF MandateRecord
  <2>2. Amend(id, m) /\ UNCHANGED <<triggers, rules, receipts, now, obs>>
    BY <1>4 DEF SetAgent, registryVars, feedVars
  <2> HIDE DEF m
  <2>3. QED
    BY <2>1, <2>2, SettingStep
<1>5. ASSUME NEW executor \in Account, SetExecutor(caller, id, executor)
      PROVE  Progress /\ receipts' = receipts
  <2> DEFINE m == [mandates[id] EXCEPT !.executor = executor]
  <2>1. m \in MandateRecord /\ m.version = mandates[id].version
        /\ m.policy = mandates[id].policy
        /\ m.lastActionAt = mandates[id].lastActionAt
    BY <1>1 DEF MandateRecord
  <2>2. Amend(id, m) /\ UNCHANGED <<triggers, rules, receipts, now, obs>>
    BY <1>5 DEF SetExecutor, registryVars, feedVars
  <2> HIDE DEF m
  <2>3. QED
    BY <2>1, <2>2, SettingStep
<1>6. ASSUME NEW asset \in Asset, NEW allow \in BOOLEAN,
             SetAssetAllowed(caller, id, asset, allow)
      PROVE  Progress /\ receipts' = receipts
  <2>1. UNCHANGED <<mandates, triggers, rules, receipts, now, obs>>
    BY <1>6 DEF SetAssetAllowed, registryVars, feedVars
  <2>2. QED
    BY <2>1, SettledForNow DEF Shape
<1>7. ASSUME NEW tripped \in BOOLEAN, SetCircuitBreaker(caller, id, tripped)
      PROVE  Progress /\ receipts' = receipts
  <2> DEFINE m == [mandates[id] EXCEPT !.circuitBreaker = tripped]
  <2>1. m \in MandateRecord /\ m.version = mandates[id].version
        /\ m.policy = mandates[id].policy
        /\ m.lastActionAt = mandates[id].lastActionAt
    BY <1>1 DEF MandateRecord
  <2>2. Amend(id, m) /\ UNCHANGED <<triggers, rules, receipts, now, obs>>
    BY <1>7 DEF SetCircuitBreaker, registryVars, feedVars
  <2> HIDE DEF m
  <2>3. QED
    BY <2>1, <2>2, SettingStep
<1>8. CASE CloseMandate(caller, id)
  <2> DEFINE m == [mandates[id] EXCEPT !.active = FALSE]
  <2>1. m \in MandateRecord /\ m.version = mandates[id].version
        /\ m.policy = mandates[id].policy
        /\ m.lastActionAt = mandates[id].lastActionAt
    BY <1>1 DEF MandateRecord
  <2>2. Amend(id, m) /\ UNCHANGED <<triggers, rules, receipts, now, obs>>
    BY <1>8 DEF CloseMandate, registryVars, feedVars
  <2> HIDE DEF m
  <2>3. QED
    BY <2>1, <2>2, SettingStep
<1>9. QED
  BY <1>2, <1>3, <1>4, <1>5, <1>6, <1>7, <1>8 DEF OwnerAction

\* The oracle publishes or time passes.
LEMMA OracleStep ==
  ASSUME Shape, Versions, OracleAction
  PROVE  Progress /\ receipts' = receipts
<1>1. UNCHANGED <<mandates, triggers, rules, receipts>>
  BY DEF OracleAction, guardVars, registryVars
<1>2. ASSUME NEW a \in Asset, NEW r \in Reading, FeedWrite(a, r)
      PROVE  now' = now /\ obs' \in [Asset -> Observation]
  <2>1. r \in [fairValueE8 : Nat, hasValue : BOOLEAN, gapRisk : Nat,
               confidenceBps : Nat, basisBps : Int, capacityUsdg : Nat,
               anchorAt : Nat]
    BY GuardAssumption
  <2>2. QED
    BY <1>2, <2>1 DEF FeedWrite, Shape, Observation
<1>3. ASSUME FeedTick
      PROVE  now' = now + 1 /\ obs' = obs
  BY <1>3 DEF FeedTick
<1>4. now' \in Nat /\ now <= now' /\ obs' \in [Asset -> Observation]
  BY <1>2, <1>3 DEF OracleAction, Shape
<1>5. QED
  BY <1>1, <1>4, SettledForNow

\* A settlement changes no version, and dates the mandate's last action.
LEMMA SettlementStep ==
  ASSUME Shape, Versions, NEW caller \in Account, NEW id \in DOMAIN mandates,
         NEW fills \in Batches, NEW holdings \in Holdings,
         ValidateAndRecord(caller, id, fills, holdings)
  PROVE  Progress
<1>1. UNCHANGED <<triggers, rules, now, obs>>
  BY DEF ValidateAndRecord, feedVars
<1>2. /\ receipts' \in Seq(Receipt)
      /\ mandates' \in Seq(MandateRecord)
      /\ Len(mandates') = Len(mandates)
      /\ mandates'[id].version = mandates[id].version
      /\ mandates'[id].policy = mandates[id].policy
      /\ mandates'[id].lastActionAt = now
      /\ \A j \in DOMAIN mandates : j # id => mandates'[j] = mandates[j]
  BY Settlement
<1>3. DOMAIN mandates' = DOMAIN mandates
  BY <1>2, LenProperties DEF Shape
<1>4. Shape'
  BY <1>1, <1>2 DEF Shape
<1>5. Versions'
  <2> SUFFICES ASSUME NEW j \in DOMAIN mandates
               PROVE  /\ Len(rules[j]) = mandates'[j].version
                      /\ mandates'[j].version # 0
                      /\ rules[j][mandates'[j].version] =
                           [policy |-> mandates'[j].policy, triggers |-> triggers[j]]
                      /\ mandates'[j].lastActionAt <= now
    BY <1>1, <1>2, <1>3 DEF Versions
  <2>1. CASE j = id
    BY <2>1, <1>2, Parts DEF Versions
  <2>2. CASE j # id
    BY <2>2, <1>2 DEF Versions
  <2>3. QED
    BY <2>1, <2>2
<1>6. OnlyGrows
  <2>1. now <= now'
    BY <1>1 DEF Shape
  <2>2. \A j \in DOMAIN mandates :
          mandates[j].lastActionAt <= mandates'[j].lastActionAt
    <3> SUFFICES ASSUME NEW j \in DOMAIN mandates
                 PROVE  mandates[j].lastActionAt <= mandates'[j].lastActionAt
      OBVIOUS
    <3>1. mandates[j].lastActionAt \in Nat /\ mandates[j].lastActionAt <= now
      BY Parts DEF Versions
    <3>2. CASE j = id
      BY <3>1, <3>2, <1>2
    <3>3. CASE j # id
      BY <3>1, <3>3, <1>2
    <3>4. QED
      BY <3>2, <3>3
  <2>3. QED
    BY <1>1, <1>3, <2>1, <2>2 DEF OnlyGrows
<1>7. QED
  BY <1>4, <1>5, <1>6 DEF Progress

---------------------------------------------------------------------------
(* The record.                                                             *)

\* Every receipt names a mandate and a version that exist, and is no younger
\* than the mandate's last action.
Placed ==
  \A i \in DOMAIN receipts :
    LET r == receipts[i] IN
    /\ r.mandateId \in DOMAIN mandates
    /\ r.policyVersion \in DOMAIN rules[r.mandateId]
    /\ r.timestamp # 0
    /\ r.timestamp <= mandates[r.mandateId].lastActionAt

\* The inductive invariant: the two properties of the record, what they rest
\* on about versions, and where each receipt stands in time.
IInv ==
  /\ Versions
  /\ Placed
  /\ SettlementsKeepTheInterval
  /\ ReceiptsObeyTheirVersion

\* A receipt's rule is never rewritten.
LEMMA RuleKept ==
  ASSUME Shape, Placed, OnlyGrows, NEW i \in DOMAIN receipts
  PROVE  /\ receipts[i].mandateId \in DOMAIN mandates'
         /\ receipts[i].policyVersion \in DOMAIN rules'[receipts[i].mandateId]
         /\ rules'[receipts[i].mandateId][receipts[i].policyVersion]
              = RuleOf(receipts[i])
         /\ mandates[receipts[i].mandateId].lastActionAt
              <= mandates'[receipts[i].mandateId].lastActionAt
BY DEF Placed, OnlyGrows, RuleOf

\* A time is a number, in the record and in the mandates.
LEMMA Times ==
  ASSUME Shape, Placed, NEW i \in DOMAIN receipts
  PROVE  /\ receipts[i] \in Receipt
         /\ receipts[i].timestamp \in Nat
         /\ mandates[receipts[i].mandateId].lastActionAt \in Nat
<1>1. receipts[i] \in Receipt
  BY ElementOfSeq, LenProperties DEF Shape
<1>2. mandates[receipts[i].mandateId] \in MandateRecord
  BY ElementOfSeq, LenProperties DEF Shape, Placed
<1>3. QED
  BY <1>1, <1>2 DEF Receipt, MandateRecord

\* Steps that settle nothing.
LEMMA RecordKept ==
  ASSUME Shape, IInv, Progress, receipts' = receipts
  PROVE  IInv'
<1>1. Versions' /\ Shape' /\ OnlyGrows
  BY DEF Progress
<1>2. Placed'
  <2> SUFFICES ASSUME NEW i \in DOMAIN receipts
               PROVE  /\ receipts[i].mandateId \in DOMAIN mandates'
                      /\ receipts[i].policyVersion
                           \in DOMAIN rules'[receipts[i].mandateId]
                      /\ receipts[i].timestamp # 0
                      /\ receipts[i].timestamp
                           <= mandates'[receipts[i].mandateId].lastActionAt
    BY DEF Placed
  <2>1. mandates'[receipts[i].mandateId] \in MandateRecord
    BY <1>1, RuleKept, ElementOfSeq, LenProperties DEF Shape, IInv
  <2>2. mandates'[receipts[i].mandateId].lastActionAt \in Nat
    BY <2>1 DEF MandateRecord
  <2>3. QED
    BY <1>1, <2>2, RuleKept, Times DEF IInv, Placed
<1>3. SettlementsKeepTheInterval'
  BY <1>1, RuleKept DEF IInv, SettlementsKeepTheInterval, RuleOf
<1>4. ReceiptsObeyTheirVersion'
  BY <1>1, RuleKept DEF IInv, ReceiptsObeyTheirVersion, RuleOf
<1>5. QED
  BY <1>1, <1>2, <1>3, <1>4 DEF IInv

\* What the gate let through obeys the policy in force.
LEMMA GateObeysThePolicy ==
  ASSUME Shape, NEW caller \in Account, NEW id \in DOMAIN mandates,
         NEW fills \in Batches, NEW holdings \in Holdings,
         ValidateAndRecord(caller, id, fills, holdings),
         NEW j \in DOMAIN ReceiptOf(id, fills).fills
  PROVE  LET f == ReceiptOf(id, fills).fills[j]
             p == mandates[id].policy
         IN /\ f.amountInUsdg <= p.maxNotionalPerTrade
            /\ f.slippageBps <= p.maxSlippageBps
            /\ ~f.isExit => f.gapRisk <= p.maxGapRisk /\ f.fairValueE8 # 0
<1> DEFINE f == fills[j]
           p == mandates[id].policy
<1>1. j \in DOMAIN fills /\ ReceiptOf(id, fills).fills[j] = Stamped(f)
  BY DEF ReceiptOf
<1>2. WithinLimits(id, f) /\ OracleAccepts(p, f)
  BY <1>1 DEF ValidateAndRecord, Accepts
<1>3. /\ Stamped(f).amountInUsdg = f.amountInUsdg
      /\ Stamped(f).slippageBps = f.slippageBps
      /\ Stamped(f).isExit = f.isExit
      /\ Stamped(f).gapRisk = obs[f.asset].gapRisk
  BY DEF Stamped
<1>4. ASSUME ~f.isExit
      PROVE  obs[f.asset].gapRisk <= p.maxGapRisk /\ Stamped(f).fairValueE8 # 0
  <2>1. f.asset \in Asset
    BY <1>1, StampedBatch, GuardAssumption
  <2>2. obs[f.asset] \in Observation /\ p \in Policy
    <3>1. mandates[id] \in MandateRecord
      BY ElementOfSeq, LenProperties DEF Shape
    <3>2. QED
      BY <2>1, <3>1 DEF Shape, MandateRecord
  <2>3. obs[f.asset].gapRisk \in Nat /\ p.maxGapRisk \in Nat
    BY <2>2, GuardAssumption DEF Observation
  <2>4. /\ Fresh(obs[f.asset], now, maxAge)
        /\ obs[f.asset].hasValue /\ obs[f.asset].fairValueE8 # 0
        /\ ~(obs[f.asset].gapRisk > p.maxGapRisk)
    BY <1>2, <1>4 DEF OracleAccepts, CheckExecution
  <2>5. Stamped(f).fairValueE8 = obs[f.asset].fairValueE8
    BY <2>4 DEF Stamped, FairValueReturns
  <2>6. QED
    BY <2>3, <2>4, <2>5
<1>5. QED
  BY <1>1, <1>2, <1>3, <1>4 DEF WithinLimits

\* A settlement.
LEMMA RecordGrows ==
  ASSUME Shape, IInv, NEW caller \in Account, NEW id \in DOMAIN mandates,
         NEW fills \in Batches, NEW holdings \in Holdings,
         ValidateAndRecord(caller, id, fills, holdings)
  PROVE  IInv'
<1> DEFINE r == ReceiptOf(id, fills)
           n == Len(receipts)
<1>1. Versions' /\ Shape' /\ OnlyGrows
  BY SettlementStep DEF Progress, IInv
<1>2. /\ receipts' = receipts \o <<r>>
      /\ Len(mandates') = Len(mandates)
      /\ mandates'[id].lastActionAt = now
      /\ \A j \in DOMAIN mandates : j # id => mandates'[j] = mandates[j]
      /\ rules' = rules
  BY Settlement DEF ValidateAndRecord
<1>3. /\ r \in Receipt
      /\ r.mandateId = id /\ r.policyVersion = mandates[id].version
      /\ r.timestamp = now
  BY ReceiptOfType DEF ReceiptOf
<1>4. /\ DOMAIN receipts' = 1 .. n + 1 /\ DOMAIN receipts = 1 .. n /\ n \in Nat
      /\ \A i \in 1 .. n : receipts'[i] = receipts[i]
      /\ receipts'[n + 1] = r
  BY <1>2, <1>3, OneMore, LenProperties DEF Shape
<1>5. /\ id \in DOMAIN mandates'
      /\ mandates[id].version \in DOMAIN rules[id]
      /\ rules[id][mandates[id].version].policy = mandates[id].policy
      /\ now \in Nat \ {0}
  <2>1. /\ Len(rules[id]) = mandates[id].version /\ mandates[id].version # 0
        /\ rules[id][mandates[id].version]
             = [policy |-> mandates[id].policy, triggers |-> triggers[id]]
    BY DEF IInv, Versions
  <2>2. rules[id] \in Seq(Rule) /\ mandates[id].version \in Nat
    BY Parts DEF IInv
  <2>3. mandates[id].version \in DOMAIN rules[id]
    BY <2>1, <2>2, LenProperties
  <2>4. QED
    BY <1>1, <2>1, <2>3 DEF OnlyGrows, Shape
<1>6. mandates[id].policy.minRebalanceInterval \in Nat
  BY Parts, GuardAssumption DEF IInv, MandateRecord
<1>7. \A i \in 1 .. n :
        /\ receipts[i].timestamp \in Nat /\ receipts[i].timestamp # 0
        /\ mandates[receipts[i].mandateId].lastActionAt \in Nat
        /\ receipts[i].timestamp <= mandates[receipts[i].mandateId].lastActionAt
  BY <1>4, Times DEF IInv, Placed
<1> HIDE DEF r, n
<1>8. Placed'
  <2> SUFFICES ASSUME NEW i \in 1 .. n + 1
               PROVE  /\ receipts'[i].mandateId \in DOMAIN mandates'
                      /\ receipts'[i].policyVersion
                           \in DOMAIN rules'[receipts'[i].mandateId]
                      /\ receipts'[i].timestamp # 0
                      /\ receipts'[i].timestamp
                           <= mandates'[receipts'[i].mandateId].lastActionAt
    BY <1>4 DEF Placed
  <2>1. CASE i \in 1 .. n
    <3>1. receipts'[i] = receipts[i] /\ i \in DOMAIN receipts
      BY <1>4, <2>1
    <3>2. /\ receipts[i].mandateId \in DOMAIN mandates'
          /\ receipts[i].policyVersion \in DOMAIN rules'[receipts[i].mandateId]
          /\ mandates[receipts[i].mandateId].lastActionAt
               <= mandates'[receipts[i].mandateId].lastActionAt
      BY <1>1, <3>1, RuleKept DEF IInv
    <3>3. mandates'[receipts[i].mandateId] \in MandateRecord
      BY <1>1, <3>2, ElementOfSeq, LenProperties DEF Shape
    <3>4. mandates'[receipts[i].mandateId].lastActionAt \in Nat
      BY <3>3 DEF MandateRecord
    <3>5. receipts[i].timestamp <= mandates'[receipts[i].mandateId].lastActionAt
      BY <1>7, <2>1, <3>2, <3>4
    <3>6. QED
      BY <1>7, <2>1, <3>1, <3>2, <3>5
  <2>2. CASE i = n + 1
    <3>1. receipts'[i] = r
      BY <2>2, <1>4
    <3>2. /\ receipts'[i].mandateId = id
          /\ receipts'[i].policyVersion = mandates[id].version
          /\ receipts'[i].timestamp = now
      BY <3>1, <1>3
    <3>3. mandates[id].version \in DOMAIN rules'[id]
      BY <1>2, <1>5
    <3>4. now # 0 /\ now <= mandates'[id].lastActionAt
      BY <1>2, <1>5
    <3>5. QED
      BY <3>2, <3>3, <3>4, <1>5
  <2>3. QED
    BY <2>1, <2>2, <1>4
<1>9. SettlementsKeepTheInterval'
  <2> SUFFICES ASSUME NEW i \in 1 .. n + 1, NEW j \in 1 .. n + 1, i < j,
                      receipts'[i].mandateId = receipts'[j].mandateId
               PROVE  receipts'[j].timestamp
                        >= receipts'[i].timestamp
                             + RuleOf(receipts[j])'.policy.minRebalanceInterval
    BY <1>4 DEF SettlementsKeepTheInterval
  <2>1. CASE j \in 1 .. n
    <3>1. i \in 1 .. n
      BY <1>4, <2>1
    <3>2. QED
      BY <1>2, <1>4, <2>1, <3>1 DEF IInv, SettlementsKeepTheInterval, RuleOf
  <2>2. CASE j = n + 1
    <3>1. i \in 1 .. n
      BY <1>4, <2>2
    <3>2. receipts[i].mandateId = id
      BY <1>3, <1>4, <2>2, <3>1
    <3>3. /\ mandates[id].lastActionAt # 0
          /\ receipts[i].timestamp <= mandates[id].lastActionAt
      BY <1>7, <3>1, <3>2
    <3>4. now >= mandates[id].lastActionAt + mandates[id].policy.minRebalanceInterval
      BY <3>3 DEF ValidateAndRecord, Accepts, WithinRate, IntervalElapsed
    <3>5. RuleOf(receipts[j])'.policy = mandates[id].policy
      BY <1>2, <1>3, <1>4, <1>5, <2>2 DEF RuleOf
    <3>6. receipts'[j].timestamp = now /\ receipts'[i].timestamp = receipts[i].timestamp
      BY <1>3, <1>4, <2>2, <3>1
    <3>7. now >= receipts[i].timestamp + mandates[id].policy.minRebalanceInterval
      BY <1>5, <1>6, <1>7, <3>1, <3>2, <3>3, <3>4
    <3>8. QED
      BY <3>5, <3>6, <3>7
  <2>3. QED
    BY <2>1, <2>2, <1>4
<1>10. ReceiptsObeyTheirVersion'
  <2>1. ASSUME NEW i \in 1 .. n
        PROVE  RuleOf(receipts[i])' = RuleOf(receipts[i])
    BY <1>2, <1>4 DEF RuleOf
  <2>2. ASSUME NEW i \in 1 .. n + 1, i = n + 1
        PROVE  RuleOf(receipts[i])'.policy = mandates[id].policy
    BY <1>2, <1>3, <1>4, <1>5, <2>2 DEF RuleOf
  <2> SUFFICES ASSUME NEW i \in 1 .. n + 1, NEW k \in DOMAIN receipts'[i].fills
               PROVE  LET f == receipts'[i].fills[k]
                          p == RuleOf(receipts[i])'.policy
                      IN /\ f.amountInUsdg <= p.maxNotionalPerTrade
                         /\ f.slippageBps <= p.maxSlippageBps
                         /\ ~f.isExit => f.gapRisk <= p.maxGapRisk /\ f.fairValueE8 # 0
    BY <1>4 DEF ReceiptsObeyTheirVersion
  <2>3. CASE i \in 1 .. n
    BY <1>4, <2>1, <2>3 DEF IInv, ReceiptsObeyTheirVersion
  <2>4. CASE i = n + 1
    <3>1. receipts'[i] = r /\ k \in DOMAIN ReceiptOf(id, fills).fills
      BY <1>4, <2>4 DEF r
    <3>2. QED
      BY <2>2, <2>4, <3>1, GateObeysThePolicy DEF r
  <2>5. QED
    BY <2>3, <2>4, <1>4
<1>11. QED
  BY <1>1, <1>8, <1>9, <1>10 DEF IInv

\* The initial state: no mandate, no receipt.
LEMMA InitRecord == Init => Shape /\ IInv
<1> SUFFICES ASSUME Init PROVE Shape /\ IInv
  OBVIOUS
<1>1. /\ now = 1 /\ obs = [a \in Asset |-> NoObservation]
      /\ mandates = <<>> /\ triggers = <<>> /\ rules = <<>> /\ receipts = <<>>
  BY DEF Init, FeedInit, RegistryInit
<1>2. Shape
  BY <1>1 DEF Shape, Observation, NoObservation
<1>3. DOMAIN mandates = {} /\ DOMAIN receipts = {}
  BY <1>1
<1>4. IInv
  BY <1>1, <1>3 DEF IInv, Versions, Placed, SettlementsKeepTheInterval,
                    ReceiptsObeyTheirVersion
<1>5. QED
  BY <1>2, <1>4

\* A step either settles one batch or leaves the record as it is.
LEMMA StepKinds ==
  ASSUME Shape, IInv, [Next]_vars
  PROVE  \/ Progress /\ receipts' = receipts
         \/ \E caller \in Account, id \in DOMAIN mandates, fills \in Batches,
               holdings \in Holdings :
              ValidateAndRecord(caller, id, fills, holdings)
<1>1. Versions
  BY DEF IInv
<1>2. ASSUME NEW caller \in Account, NEW agent \in Account,
             NEW executor \in Account, NEW p \in Policy,
             NEW assets \in AssetArrays,
             CreateMandate(caller, agent, executor, p, assets)
      PROVE  Progress /\ receipts' = receipts
  BY <1>1, <1>2, CreateStep
<1>3. ASSUME NEW caller \in Account, NEW id \in DOMAIN mandates,
             OwnerAction(caller, id)
      PROVE  Progress /\ receipts' = receipts
  BY <1>1, <1>3, OwnerStep
<1>4. ASSUME NEW allow \in BOOLEAN, SetGuardWriter(allow)
      PROVE  Progress /\ receipts' = receipts
  <2>1. UNCHANGED <<mandates, triggers, rules, receipts, now, obs>>
    BY <1>4 DEF SetGuardWriter, SetWriter, guardVars, feedVars
  <2>2. QED
    BY <1>1, <2>1, SettledForNow DEF Shape
<1>5. CASE OracleAction
  BY <1>1, <1>5, OracleStep
<1>6. CASE UNCHANGED vars
  <2>1. UNCHANGED <<mandates, triggers, rules, receipts, now, obs>>
    BY <1>6 DEF vars, guardVars
  <2>2. QED
    BY <1>1, <2>1, SettledForNow DEF Shape
<1>7. QED
  BY <1>2, <1>3, <1>4, <1>5, <1>6 DEF Next

\* The record of the guard: its shape and its inductive invariant hold in every
\* reachable state.
THEOREM RecordInvariance == Spec => [](Shape /\ IInv)
<1>1. Shape /\ IInv /\ [Next]_vars => Shape' /\ IInv'
  <2> SUFFICES ASSUME Shape, IInv, [Next]_vars
               PROVE  Shape' /\ IInv'
    OBVIOUS
  <2>1. ASSUME Progress, receipts' = receipts
        PROVE  Shape' /\ IInv'
    BY <2>1, RecordKept DEF Progress
  <2>2. ASSUME NEW caller \in Account, NEW id \in DOMAIN mandates,
               NEW fills \in Batches, NEW holdings \in Holdings,
               ValidateAndRecord(caller, id, fills, holdings)
        PROVE  Shape' /\ IInv'
    BY <2>2, RecordGrows, SettlementStep DEF Progress, IInv
  <2>3. QED
    BY <2>1, <2>2, StepKinds
<1>2. QED
  BY InitRecord, <1>1, PTL DEF Spec

\* Settlements keep the interval of the later one's version, for every policy
\* and every sequence of policy changes.
THEOREM SettlementsKeepTheIntervalHolds == Spec => []SettlementsKeepTheInterval
<1>1. IInv => SettlementsKeepTheInterval
  BY DEF IInv
<1>2. QED
  BY RecordInvariance, <1>1, PTL

\* Every receipt obeys the version it names, for every policy and every oracle.
THEOREM ReceiptsObeyTheirVersionHolds == Spec => []ReceiptsObeyTheirVersion
<1>1. IInv => ReceiptsObeyTheirVersion
  BY DEF IInv
<1>2. QED
  BY RecordInvariance, <1>1, PTL

\* The receipt a settlement leaves is the last of the record, and the gate
\* accepted it.
LEMMA NewReceiptIs ==
  ASSUME Shape, IInv, [Next]_vars, receipts' # receipts
  PROVE  \E id \in DOMAIN mandates, fills \in Batches, holdings \in Holdings :
           /\ NewReceipt = ReceiptOf(id, fills)
           /\ Accepts(id, fills, holdings)
           /\ mandates'[id].active = mandates[id].active
           /\ \A j \in DOMAIN mandates : j # id => mandates'[j] = mandates[j]
<1>1. PICK caller \in Account, id \in DOMAIN mandates, fills \in Batches,
           holdings \in Holdings :
        ValidateAndRecord(caller, id, fills, holdings)
  BY StepKinds
<1>2. /\ receipts' = receipts \o <<ReceiptOf(id, fills)>>
      /\ mandates'[id].active = mandates[id].active
      /\ \A j \in DOMAIN mandates : j # id => mandates'[j] = mandates[j]
  BY <1>1, Settlement
<1>3. NewReceipt = ReceiptOf(id, fills)
  <2>1. /\ Len(receipts') = Len(receipts) + 1
        /\ receipts'[Len(receipts) + 1] = ReceiptOf(id, fills)
    BY <1>2, OneMore, ReceiptOfType DEF Shape
  <2>2. QED
    BY <2>1 DEF NewReceipt
<1>4. Accepts(id, fills, holdings)
  BY <1>1 DEF ValidateAndRecord
<1>5. QED
  BY <1>2, <1>3, <1>4

---------------------------------------------------------------------------
(* What a single step may never do.                                        *)

\* None of the owner's calls opens a mandate.
LEMMA OwnerNeverReopens ==
  ASSUME Shape, Versions, NEW caller \in Account, NEW id \in DOMAIN mandates,
         OwnerAction(caller, id), NEW j \in DOMAIN mandates, ~mandates[j].active
  PROVE  ~mandates'[j].active
<1> DEFINE Closed(m) == m.active = mandates[id].active \/ m.active = FALSE
<1>1. mandates[id] \in MandateRecord
  BY Parts
<1>2. ASSUME NEW m, Amend(id, m), Closed(m)
      PROVE  ~mandates'[j].active
  <2>1. mandates' = [mandates EXCEPT ![id] = m]
    BY <1>2 DEF Amend
  <2>2. mandates \in [1 .. Len(mandates) -> MandateRecord]
    BY LenProperties DEF Shape
  <2>3. QED
    BY <1>2, <2>1, <2>2
<1>3. ASSUME NEW p \in Policy, UpdatePolicy(caller, id, p)
      PROVE  ~mandates'[j].active
  <2> DEFINE m == [mandates[id] EXCEPT !.policy = p, !.version = NextVersion(id)]
  <2>1. m.active = mandates[id].active
    BY <1>1 DEF MandateRecord
  <2>2. Amend(id, m)
    BY <1>3 DEF UpdatePolicy
  <2> HIDE DEF m
  <2>3. QED
    BY <1>2, <2>1, <2>2
<1>4. ASSUME NEW trs \in TriggerList, SetTriggers(caller, id, trs)
      PROVE  ~mandates'[j].active
  <2> DEFINE m == [mandates[id] EXCEPT !.version = NextVersion(id)]
  <2>1. m.active = mandates[id].active
    BY <1>1 DEF MandateRecord
  <2>2. Amend(id, m)
    BY <1>4 DEF SetTriggers
  <2> HIDE DEF m
  <2>3. QED
    BY <1>2, <2>1, <2>2
<1>5. ASSUME NEW agent \in Account, SetAgent(caller, id, agent)
      PROVE  ~mandates'[j].active
  <2> DEFINE m == [mandates[id] EXCEPT !.agent = agent]
  <2>1. m.active = mandates[id].active
    BY <1>1 DEF MandateRecord
  <2>2. Amend(id, m)
    BY <1>5 DEF SetAgent
  <2> HIDE DEF m
  <2>3. QED
    BY <1>2, <2>1, <2>2
<1>6. ASSUME NEW executor \in Account, SetExecutor(caller, id, executor)
      PROVE  ~mandates'[j].active
  <2> DEFINE m == [mandates[id] EXCEPT !.executor = executor]
  <2>1. m.active = mandates[id].active
    BY <1>1 DEF MandateRecord
  <2>2. Amend(id, m)
    BY <1>6 DEF SetExecutor
  <2> HIDE DEF m
  <2>3. QED
    BY <1>2, <2>1, <2>2
<1>7. ASSUME NEW asset \in Asset, NEW allow \in BOOLEAN,
             SetAssetAllowed(caller, id, asset, allow)
      PROVE  ~mandates'[j].active
  BY <1>7 DEF SetAssetAllowed
<1>8. ASSUME NEW tripped \in BOOLEAN, SetCircuitBreaker(caller, id, tripped)
      PROVE  ~mandates'[j].active
  <2> DEFINE m == [mandates[id] EXCEPT !.circuitBreaker = tripped]
  <2>1. m.active = mandates[id].active
    BY <1>1 DEF MandateRecord
  <2>2. Amend(id, m)
    BY <1>8 DEF SetCircuitBreaker
  <2> HIDE DEF m
  <2>3. QED
    BY <1>2, <2>1, <2>2
<1>9. CASE CloseMandate(caller, id)
  <2> DEFINE m == [mandates[id] EXCEPT !.active = FALSE]
  <2>1. m.active = FALSE
    BY <1>1 DEF MandateRecord
  <2>2. Amend(id, m)
    BY <1>9 DEF CloseMandate
  <2> HIDE DEF m
  <2>3. QED
    BY <1>2, <2>1, <2>2
<1>10. QED
  BY <1>3, <1>4, <1>5, <1>6, <1>7, <1>8, <1>9 DEF OwnerAction

\* No step opens a mandate that is closed.
LEMMA NeverReopened ==
  ASSUME Shape, IInv, [Next]_vars, NEW j \in DOMAIN mandates, ~mandates[j].active
  PROVE  ~mandates'[j].active
<1>1. Versions
  BY DEF IInv
<1>2. ASSUME NEW caller \in Account, NEW agent \in Account,
             NEW executor \in Account, NEW p \in Policy,
             NEW assets \in AssetArrays,
             CreateMandate(caller, agent, executor, p, assets)
      PROVE  ~mandates'[j].active
  <2> DEFINE m == [owner |-> caller, agent |-> agent, executor |-> executor,
                   version |-> 1, active |-> TRUE, circuitBreaker |-> FALSE,
                   lastActionAt |-> 0, epochStart |-> now, fillsThisEpoch |-> 0,
                   policy |-> p]
  <2>1. mandates' = Append(mandates, m)
    BY <1>2 DEF CreateMandate
  <2>2. m \in MandateRecord
    BY DEF MandateRecord, Shape
  <2> HIDE DEF m
  <2>3. j \in 1 .. Len(mandates)
    BY LenProperties DEF Shape
  <2>4. mandates'[j] = mandates[j]
    BY <2>1, <2>2, <2>3, OneMore DEF Shape
  <2>5. QED
    BY <2>4
<1>3. ASSUME NEW caller \in Account, NEW id \in DOMAIN mandates,
             OwnerAction(caller, id)
      PROVE  ~mandates'[j].active
  BY <1>1, <1>3, OwnerNeverReopens
<1>4. ASSUME NEW caller \in Account, NEW id \in DOMAIN mandates,
             NEW fills \in Batches, NEW holdings \in Holdings,
             ValidateAndRecord(caller, id, fills, holdings)
      PROVE  ~mandates'[j].active
  BY <1>4, Settlement
<1>5. CASE \/ \E allow \in BOOLEAN : SetGuardWriter(allow)
           \/ OracleAction
           \/ UNCHANGED vars
  BY <1>5 DEF SetGuardWriter, OracleAction, vars, guardVars
<1>6. QED
  BY <1>2, <1>3, <1>4, <1>5 DEF Next

\* A mandate that is closed or tripped settles nothing, and stays closed,
\* whatever its owner, its agent and the oracle do.
THEOREM StoppedMandatesSettleNothingHolds == Spec => StoppedMandatesSettleNothing
<1> DEFINE Stopped(id) ==
      /\ ~mandates[id].active => ~mandates'[id].active
      /\ receipts' # receipts /\ NewReceipt.mandateId = id =>
           mandates[id].active /\ ~mandates[id].circuitBreaker
<1>1. Shape /\ IInv /\ [Next]_vars => [\A id \in DOMAIN mandates : Stopped(id)]_vars
  <2> SUFFICES ASSUME Shape, IInv, [Next]_vars, NEW id \in DOMAIN mandates
               PROVE  Stopped(id)
    OBVIOUS
  <2>1. ~mandates[id].active => ~mandates'[id].active
    BY NeverReopened
  <2>2. ASSUME receipts' # receipts, NewReceipt.mandateId = id
        PROVE  mandates[id].active /\ ~mandates[id].circuitBreaker
    BY <2>2, NewReceiptIs DEF ReceiptOf, Accepts
  <2>3. QED
    BY <2>1, <2>2
<1>2. QED
  BY RecordInvariance, <1>1, PTL DEF Spec, StoppedMandatesSettleNothing

\* The record never carries a value the oracle would not stand behind.
THEOREM ReceiptsNeverStampAStaleValueHolds == Spec => ReceiptsNeverStampAStaleValue
<1> DEFINE Sound ==
      receipts' # receipts =>
        \A i \in DOMAIN NewReceipt.fills :
          LET f == NewReceipt.fills[i] IN
          f.fairValueE8 # 0 => /\ FreshNow(f.asset) /\ obs[f.asset].hasValue
                               /\ f.fairValueE8 = obs[f.asset].fairValueE8
<1>1. Shape /\ IInv /\ [Next]_vars => [Sound]_vars
  <2> SUFFICES ASSUME Shape, IInv, [Next]_vars, receipts' # receipts,
                      NEW i \in DOMAIN NewReceipt.fills,
                      NewReceipt.fills[i].fairValueE8 # 0
               PROVE  LET f == NewReceipt.fills[i] IN
                      /\ FreshNow(f.asset) /\ obs[f.asset].hasValue
                      /\ f.fairValueE8 = obs[f.asset].fairValueE8
    OBVIOUS
  <2>1. PICK id \in DOMAIN mandates, fills \in Batches :
          NewReceipt = ReceiptOf(id, fills)
    BY NewReceiptIs
  <2>2. i \in DOMAIN fills /\ NewReceipt.fills[i] = Stamped(fills[i])
    BY <2>1 DEF ReceiptOf
  <2>3. /\ Stamped(fills[i]).asset = fills[i].asset
        /\ FairValueReturns(obs[fills[i].asset], now, maxAge)
        /\ Stamped(fills[i]).fairValueE8 = obs[fills[i].asset].fairValueE8
    BY <2>2 DEF Stamped
  <2>4. QED
    BY <2>2, <2>3 DEF FairValueReturns, FreshNow
<1>2. QED
  BY RecordInvariance, <1>1, PTL DEF Spec, ReceiptsNeverStampAStaleValue

\* No entry is added to a position while a trigger of its own thesis fires, or
\* cannot be evaluated.
THEOREM NoEntryPastAFiredTriggerHolds == Spec => NoEntryPastAFiredTrigger
<1> DEFINE Sound ==
      receipts' # receipts =>
        LET id == NewReceipt.mandateId IN
        \A i \in DOMAIN NewReceipt.fills :
          LET f == NewReceipt.fills[i] IN
          ~f.isExit =>
            \A tr \in ToSet(rules[id][NewReceipt.policyVersion].triggers) :
              Covers(tr, f.asset) =>
                /\ Available(tr.metric, obs[f.asset], positions[id][f.asset])
                /\ ~Fired(tr, obs[f.asset], positions[id][f.asset], now)
<1>1. Shape /\ IInv /\ [Next]_vars => [Sound]_vars
  <2> SUFFICES ASSUME Shape, IInv, [Next]_vars, receipts' # receipts,
                      NEW i \in DOMAIN NewReceipt.fills,
                      ~NewReceipt.fills[i].isExit,
                      NEW tr \in ToSet(rules[NewReceipt.mandateId]
                                            [NewReceipt.policyVersion].triggers),
                      Covers(tr, NewReceipt.fills[i].asset)
               PROVE  LET id == NewReceipt.mandateId
                          f == NewReceipt.fills[i]
                      IN /\ Available(tr.metric, obs[f.asset], positions[id][f.asset])
                         /\ ~Fired(tr, obs[f.asset], positions[id][f.asset], now)
    OBVIOUS
  <2>1. PICK id \in DOMAIN mandates, fills \in Batches, holdings \in Holdings :
          NewReceipt = ReceiptOf(id, fills) /\ Accepts(id, fills, holdings)
    BY NewReceiptIs
  <2>2. /\ NewReceipt.mandateId = id
        /\ NewReceipt.policyVersion = mandates[id].version
        /\ i \in DOMAIN fills /\ NewReceipt.fills[i] = Stamped(fills[i])
    BY <2>1 DEF ReceiptOf
  <2>3. Stamped(fills[i]).asset = fills[i].asset
        /\ Stamped(fills[i]).isExit = fills[i].isExit
    BY DEF Stamped
  <2>4. rules[id][mandates[id].version].triggers = triggers[id]
    <3>1. rules[id][mandates[id].version]
            = [policy |-> mandates[id].policy, triggers |-> triggers[id]]
      BY DEF IInv, Versions
    <3>2. QED
      BY <3>1
  <2>5. ~TriggerBlocks(id, fills[i].asset)
    BY <2>1, <2>2, <2>3 DEF Accepts
  <2>6. tr \in ToSet(triggers[id])
    BY <2>2, <2>4
  <2>7. triggers[id] # <<>>
    BY <2>6 DEF ToSet
  <2>8. QED
    BY <2>2, <2>3, <2>5, <2>6, <2>7 DEF TriggerBlocks
<1>2. QED
  BY RecordInvariance, <1>1, PTL DEF Spec, NoEntryPastAFiredTrigger

---------------------------------------------------------------------------
(* The budget.  An epoch restarts at the first settlement after it ran out, *)
(* so the fills of a version lie in stretches that no window can straddle   *)
(* three of.                                                                *)

Matching(id, v, from, to) ==
  {i \in DOMAIN receipts : /\ receipts[i].mandateId = id
                           /\ receipts[i].policyVersion = v
                           /\ receipts[i].timestamp \in from .. to}

FillCounts == [i \in DOMAIN receipts |-> Len(receipts[i].fills)]

\* The fills of a window are a sum over its receipts,
LEMMA WindowIs ==
  ASSUME NEW id, NEW v, NEW from, NEW to
  PROVE  FillsInWindow(id, v, from, to) = SumFunctionOnSet(FillCounts, Matching(id, v, from, to))
BY DEF FillsInWindow, FillCounts, Matching

\* The receipts of a window are finitely many, and each has a number of fills.
LEMMA WindowParts ==
  ASSUME Shape, NEW id, NEW v, NEW from \in Int, NEW to \in Int
  PROVE  /\ Matching(id, v, from, to) \subseteq DOMAIN receipts
         /\ IsFiniteSet(DOMAIN receipts)
         /\ IsFiniteSet(Matching(id, v, from, to))
         /\ \A i \in DOMAIN receipts : /\ FillCounts[i] = Len(receipts[i].fills)
                                       /\ FillCounts[i] \in Nat
                                       /\ receipts[i] \in Receipt
                                       /\ receipts[i].timestamp \in Nat
<1>1. DOMAIN receipts = 1 .. Len(receipts) /\ Len(receipts) \in Nat
  BY LenProperties DEF Shape
<1>2. IsFiniteSet(DOMAIN receipts)
  BY <1>1, FS_Interval
<1>3. Matching(id, v, from, to) \subseteq DOMAIN receipts
  BY DEF Matching
<1>4. \A i \in DOMAIN receipts : receipts[i] \in Receipt
  BY <1>1, ElementOfSeq DEF Shape
<1>5. \A i \in DOMAIN receipts : Len(receipts[i].fills) \in Nat /\ receipts[i].timestamp \in Nat
  BY <1>4, LenProperties DEF Receipt
<1>6. QED
  BY <1>2, <1>3, <1>4, <1>5, FS_Subset DEF FillCounts

\* and so a number.
LEMMA WindowNat ==
  ASSUME Shape, NEW id, NEW v, NEW from \in Int, NEW to \in Int
  PROVE  FillsInWindow(id, v, from, to) \in Nat
<1>1. /\ IsFiniteSet(Matching(id, v, from, to))
      /\ \A i \in Matching(id, v, from, to) : FillCounts[i] \in Nat
  BY WindowParts
<1>2. QED
  BY <1>1, WindowIs, SumIsNat

\* A window without receipts.
LEMMA WindowEmpty ==
  ASSUME NEW id, NEW v, NEW from, NEW to, Matching(id, v, from, to) = {}
  PROVE  FillsInWindow(id, v, from, to) = 0
BY WindowIs, SumOfNothing

\* A window whose receipts all lie in another one.
LEMMA WindowWithin ==
  ASSUME Shape, NEW id, NEW v, NEW from \in Int, NEW to \in Int, NEW f \in Int, NEW t \in Int,
         Matching(id, v, from, to) \subseteq Matching(id, v, f, t)
  PROVE  FillsInWindow(id, v, from, to) <= FillsInWindow(id, v, f, t)
<1>1. /\ IsFiniteSet(Matching(id, v, f, t))
      /\ \A i \in Matching(id, v, f, t) : FillCounts[i] \in Nat
  BY WindowParts
<1>2. QED
  BY <1>1, WindowIs, SumOfFewer

\* A window whose receipts lie in one or the other of two windows apart.
LEMMA WindowAcross ==
  ASSUME Shape, NEW id, NEW v, NEW from \in Int, NEW to \in Int,
         NEW f \in Int, NEW m \in Int, NEW t \in Int,
         Matching(id, v, from, to) \subseteq Matching(id, v, f, m - 1) \cup Matching(id, v, m, t)
  PROVE  FillsInWindow(id, v, from, to) <= FillsInWindow(id, v, f, m - 1) + FillsInWindow(id, v, m, t)
<1> DEFINE A == Matching(id, v, f, m - 1)
           B == Matching(id, v, m, t)
<1>1. /\ IsFiniteSet(A) /\ IsFiniteSet(B)
      /\ \A i \in A \cup B : FillCounts[i] \in Nat /\ receipts[i].timestamp \in Nat
  <2>1. f \in Int /\ m - 1 \in Int /\ m \in Int /\ t \in Int
    OBVIOUS
  <2>2. A \subseteq DOMAIN receipts /\ IsFiniteSet(A)
    BY <2>1, WindowParts
  <2>3. B \subseteq DOMAIN receipts /\ IsFiniteSet(B)
    BY <2>1, WindowParts
  <2>4. \A i \in DOMAIN receipts : FillCounts[i] \in Nat /\ receipts[i].timestamp \in Nat
    BY <2>1, WindowParts
  <2>5. QED
    BY <2>2, <2>3, <2>4
<1>2. A \cap B = {}
  BY <1>1 DEF Matching
<1>3. SumFunctionOnSet(FillCounts, A \cup B) = SumFunctionOnSet(FillCounts, A) + SumFunctionOnSet(FillCounts, B)
  BY <1>1, <1>2, SumOfBoth
<1>4. SumFunctionOnSet(FillCounts, Matching(id, v, from, to)) <= SumFunctionOnSet(FillCounts, A \cup B)
  BY <1>1, FS_Union, SumOfFewer
<1>5. QED
  BY <1>3, <1>4, WindowIs

\* A settlement adds its fills to the windows it falls into.
LEMMA WindowGrows ==
  ASSUME Shape, NEW r \in Receipt, receipts' = receipts \o <<r>>,
         NEW id, NEW v, NEW from \in Int, NEW to \in Int
  PROVE  FillsInWindow(id, v, from, to)' =
           FillsInWindow(id, v, from, to)
             + IF r.mandateId = id /\ r.policyVersion = v /\ r.timestamp \in from .. to
               THEN Len(r.fills) ELSE 0
<1> DEFINE n == Len(receipts)
           W == Matching(id, v, from, to)
           lies == r.mandateId = id /\ r.policyVersion = v /\ r.timestamp \in from .. to
<1>1. /\ DOMAIN receipts' = 1 .. n + 1 /\ DOMAIN receipts = 1 .. n /\ n \in Nat
      /\ \A i \in 1 .. n : receipts'[i] = receipts[i]
      /\ receipts'[n + 1] = r
      /\ receipts' \in Seq(Receipt)
  BY OneMore, LenProperties DEF Shape
<1>2. /\ W \subseteq 1 .. n
      /\ IsFiniteSet(W)
      /\ \A i \in 1 .. n : FillCounts[i] \in Nat /\ FillCounts'[i] = FillCounts[i]
      /\ FillCounts'[n + 1] = Len(r.fills)
      /\ Len(r.fills) \in Nat
  <2>1. Len(r.fills) \in Nat
    BY LenProperties DEF Receipt
  <2>2. FillCounts'[n + 1] = Len(r.fills)
    BY <1>1 DEF FillCounts
  <2>3. \A i \in 1 .. n : FillCounts'[i] = FillCounts[i]
    BY <1>1 DEF FillCounts
  <2>4. QED
    BY <1>1, <2>1, <2>2, <2>3, WindowParts
<1>3. W' = IF lies THEN W \cup {n + 1} ELSE W
  BY <1>1 DEF Matching
<1>4. SumFunctionOnSet(FillCounts', W) = SumFunctionOnSet(FillCounts, W)
  <2>1. \A i \in W : FillCounts'[i] \in Int /\ FillCounts'[i] = FillCounts[i]
    BY <1>2
  <2>2. QED
    BY <1>2, <2>1, SumOfTheSame
<1>5. FillsInWindow(id, v, from, to)' = SumFunctionOnSet(FillCounts', W')
  BY DEF FillsInWindow, FillCounts, Matching
<1>6. CASE lies
  <2>1. n + 1 \notin W
    BY <1>1, <1>2
  <2>2. \A i \in W : FillCounts'[i] \in Int
    BY <1>2
  <2>3. SumFunctionOnSet(FillCounts', W \cup {n + 1}) = SumFunctionOnSet(FillCounts', W) + FillCounts'[n + 1]
    BY <1>2, <2>1, <2>2, SumWith
  <2>4. QED
    BY <1>2, <1>3, <1>4, <1>5, <1>6, <2>3, WindowIs
<1>7. CASE ~lies
  <2>1. FillsInWindow(id, v, from, to)' = FillsInWindow(id, v, from, to)
    BY <1>3, <1>4, <1>5, <1>7, WindowIs
  <2>2. FillsInWindow(id, v, from, to) \in Nat
    BY WindowNat
  <2>3. QED
    BY <1>7, <2>1, <2>2
<1>8. QED
  BY <1>6, <1>7

---------------------------------------------------------------------------
(* What a step may do to a mandate's epoch.                                *)

\* A mandate's policy is one the contract accepts, and its epoch has begun.
Sane(m, t) == ValidPolicy(m.policy) /\ m.epochStart <= t

Epochs == \A id \in DOMAIN mandates : Sane(mandates[id], now)

\* A step that settles nothing: a mandate that was there either has a new
\* version or the epoch, the count and the policy it had.
Quiet ==
  \A id \in DOMAIN mandates' :
    /\ Sane(mandates'[id], now')
    /\ \/ id \notin DOMAIN mandates
       \/ mandates'[id].version = mandates[id].version + 1
       \/ /\ mandates'[id].version = mandates[id].version
          /\ mandates'[id].policy = mandates[id].policy
          /\ mandates'[id].epochStart = mandates[id].epochStart
          /\ mandates'[id].fillsThisEpoch = mandates[id].fillsThisEpoch

\* Nothing happened to any mandate.
LEMMA QuietWhenUnchanged ==
  ASSUME Shape, Epochs, mandates' = mandates, now' \in Nat, now <= now'
  PROVE  Quiet
<1> SUFFICES ASSUME NEW id \in DOMAIN mandates PROVE Sane(mandates[id], now')
  BY DEF Quiet
<1>1. mandates[id] \in MandateRecord /\ now \in Nat
  BY ElementOfSeq, LenProperties DEF Shape
<1>2. mandates[id].epochStart \in Nat
  BY <1>1 DEF MandateRecord
<1>3. QED
  BY <1>1, <1>2 DEF Epochs, Sane

\* One mandate was changed, and its epoch was not.
LEMMA QuietWhenAmended ==
  ASSUME Shape, Epochs, NEW id \in DOMAIN mandates, NEW m \in MandateRecord, Amend(id, m), now' = now,
         ValidPolicy(m.policy), m.epochStart = mandates[id].epochStart,
         \/ m.version = mandates[id].version + 1
         \/ /\ m.version = mandates[id].version
            /\ m.policy = mandates[id].policy
            /\ m.fillsThisEpoch = mandates[id].fillsThisEpoch
  PROVE  Quiet
<1>1. /\ DOMAIN mandates' = DOMAIN mandates
      /\ mandates'[id] = m
      /\ \A j \in DOMAIN mandates : j # id => mandates'[j] = mandates[j]
  BY AmendShape
<1>2. Sane(m, now)
  BY DEF Epochs, Sane
<1>3. \A j \in DOMAIN mandates : Sane(mandates'[j], now')
  BY <1>1, <1>2 DEF Epochs
<1>4. QED
  BY <1>1, <1>3 DEF Quiet

\* An owner's own transaction records nothing and spends no budget.
LEMMA OwnerIsQuiet ==
  ASSUME Shape, Epochs, NEW caller \in Account, NEW id \in DOMAIN mandates, OwnerAction(caller, id)
  PROVE  Quiet
<1>1. mandates[id] \in MandateRecord /\ ValidPolicy(mandates[id].policy) /\ now \in Nat
  BY ElementOfSeq, LenProperties DEF Shape, Epochs, Sane
<1>2. ASSUME NEW p \in Policy, UpdatePolicy(caller, id, p)
      PROVE  Quiet
  <2> DEFINE m == [mandates[id] EXCEPT !.policy = p, !.version = NextVersion(id)]
  <2>1. /\ m \in MandateRecord /\ m.version = mandates[id].version + 1
        /\ m.policy = p /\ m.epochStart = mandates[id].epochStart
    <3>1. NextVersion(id) \in Nat
      BY <1>1 DEF NextVersion, MandateRecord
    <3>2. m \in MandateRecord
      BY <1>1, <3>1 DEF MandateRecord
    <3>3. m.version = NextVersion(id) /\ m.policy = p /\ m.epochStart = mandates[id].epochStart
      BY <1>1 DEF MandateRecord
    <3>4. QED
      BY <3>2, <3>3 DEF NextVersion
  <2>2. Amend(id, m) /\ ValidPolicy(p) /\ now' = now
    BY <1>2 DEF UpdatePolicy, feedVars
  <2> HIDE DEF m
  <2>3. QED
    BY <2>1, <2>2, QuietWhenAmended
<1>3. ASSUME NEW trs \in TriggerList, SetTriggers(caller, id, trs)
      PROVE  Quiet
  <2> DEFINE m == [mandates[id] EXCEPT !.version = NextVersion(id)]
  <2>1. /\ m \in MandateRecord /\ m.version = mandates[id].version + 1
        /\ m.policy = mandates[id].policy /\ m.epochStart = mandates[id].epochStart
    BY <1>1 DEF MandateRecord, NextVersion
  <2>2. Amend(id, m) /\ now' = now
    BY <1>3 DEF SetTriggers, feedVars
  <2> HIDE DEF m
  <2>3. QED
    BY <1>1, <2>1, <2>2, QuietWhenAmended
<1>4. ASSUME NEW agent \in Account, SetAgent(caller, id, agent)
      PROVE  Quiet
  <2> DEFINE m == [mandates[id] EXCEPT !.agent = agent]
  <2>1. /\ m \in MandateRecord /\ m.version = mandates[id].version
        /\ m.policy = mandates[id].policy /\ m.epochStart = mandates[id].epochStart
        /\ m.fillsThisEpoch = mandates[id].fillsThisEpoch
    BY <1>1 DEF MandateRecord
  <2>2. Amend(id, m) /\ now' = now
    BY <1>4 DEF SetAgent, feedVars
  <2> HIDE DEF m
  <2>3. QED
    BY <1>1, <2>1, <2>2, QuietWhenAmended
<1>5. ASSUME NEW executor \in Account, SetExecutor(caller, id, executor)
      PROVE  Quiet
  <2> DEFINE m == [mandates[id] EXCEPT !.executor = executor]
  <2>1. /\ m \in MandateRecord /\ m.version = mandates[id].version
        /\ m.policy = mandates[id].policy /\ m.epochStart = mandates[id].epochStart
        /\ m.fillsThisEpoch = mandates[id].fillsThisEpoch
    BY <1>1 DEF MandateRecord
  <2>2. Amend(id, m) /\ now' = now
    BY <1>5 DEF SetExecutor, feedVars
  <2> HIDE DEF m
  <2>3. QED
    BY <1>1, <2>1, <2>2, QuietWhenAmended
<1>6. ASSUME NEW asset \in Asset, NEW allow \in BOOLEAN, SetAssetAllowed(caller, id, asset, allow)
      PROVE  Quiet
  <2>1. mandates' = mandates /\ now' = now
    BY <1>6 DEF SetAssetAllowed, feedVars
  <2>2. QED
    BY <1>1, <2>1, QuietWhenUnchanged
<1>7. ASSUME NEW tripped \in BOOLEAN, SetCircuitBreaker(caller, id, tripped)
      PROVE  Quiet
  <2> DEFINE m == [mandates[id] EXCEPT !.circuitBreaker = tripped]
  <2>1. /\ m \in MandateRecord /\ m.version = mandates[id].version
        /\ m.policy = mandates[id].policy /\ m.epochStart = mandates[id].epochStart
        /\ m.fillsThisEpoch = mandates[id].fillsThisEpoch
    BY <1>1 DEF MandateRecord
  <2>2. Amend(id, m) /\ now' = now
    BY <1>7 DEF SetCircuitBreaker, feedVars
  <2> HIDE DEF m
  <2>3. QED
    BY <1>1, <2>1, <2>2, QuietWhenAmended
<1>8. CASE CloseMandate(caller, id)
  <2> DEFINE m == [mandates[id] EXCEPT !.active = FALSE]
  <2>1. /\ m \in MandateRecord /\ m.version = mandates[id].version
        /\ m.policy = mandates[id].policy /\ m.epochStart = mandates[id].epochStart
        /\ m.fillsThisEpoch = mandates[id].fillsThisEpoch
    BY <1>1 DEF MandateRecord
  <2>2. Amend(id, m) /\ now' = now
    BY <1>8 DEF CloseMandate, feedVars
  <2> HIDE DEF m
  <2>3. QED
    BY <1>1, <2>1, <2>2, QuietWhenAmended
<1>9. QED
  BY <1>2, <1>3, <1>4, <1>5, <1>6, <1>7, <1>8 DEF OwnerAction

\* Every step but a settlement is quiet and leaves the record as it is.
LEMMA QuietOrSettles ==
  ASSUME Shape, IInv, Epochs, [Next]_vars
  PROVE  \/ Quiet /\ Progress /\ receipts' = receipts
         \/ \E caller \in Account, id \in DOMAIN mandates, fills \in Batches,
               holdings \in Holdings :
              ValidateAndRecord(caller, id, fills, holdings)
<1>1. Versions
  BY DEF IInv
<1>2. ASSUME NEW caller \in Account, NEW agent \in Account,
             NEW executor \in Account, NEW p \in Policy,
             NEW assets \in AssetArrays,
             CreateMandate(caller, agent, executor, p, assets)
      PROVE  Quiet
  <2> DEFINE m == [owner |-> caller, agent |-> agent, executor |-> executor,
                   version |-> 1, active |-> TRUE, circuitBreaker |-> FALSE,
                   lastActionAt |-> 0, epochStart |-> now, fillsThisEpoch |-> 0,
                   policy |-> p]
  <2>1. mandates' = Append(mandates, m) /\ now' = now /\ ValidPolicy(p) /\ now \in Nat
    BY <1>2 DEF CreateMandate, feedVars, Shape
  <2>2. m \in MandateRecord /\ Sane(m, now)
    BY <2>1 DEF MandateRecord, Sane
  <2> HIDE DEF m
  <2>3. /\ DOMAIN mandates' = 1 .. Len(mandates) + 1 /\ DOMAIN mandates = 1 .. Len(mandates)
        /\ \A j \in 1 .. Len(mandates) : mandates'[j] = mandates[j]
        /\ mandates'[Len(mandates) + 1] = m /\ Len(mandates) \in Nat
    BY <2>1, <2>2, OneMore, LenProperties DEF Shape
  <2>4. \A j \in 1 .. Len(mandates) + 1 : j \in 1 .. Len(mandates) \/ j = Len(mandates) + 1
    BY <2>3
  <2>5. QED
    BY <2>1, <2>2, <2>3, <2>4 DEF Quiet, Epochs
<1>3. CASE OracleAction
  <2>1. Progress
    BY <1>1, <1>3, OracleStep
  <2>2. mandates' = mandates /\ now' \in Nat /\ now <= now'
    BY <1>3, <2>1 DEF OracleAction, guardVars, Progress, Shape, OnlyGrows
  <2>3. QED
    BY <1>1, <1>3, <2>1, <2>2, OracleStep, QuietWhenUnchanged
<1>4. ASSUME UNCHANGED <<mandates, triggers, rules, receipts, now, obs>>
      PROVE  Quiet /\ Progress /\ receipts' = receipts
  BY <1>1, <1>4, QuietWhenUnchanged, SettledForNow DEF Shape
<1>5. ASSUME NEW allow \in BOOLEAN, SetGuardWriter(allow)
      PROVE  UNCHANGED <<mandates, triggers, rules, receipts, now, obs>>
  BY <1>5 DEF SetGuardWriter, SetWriter, guardVars, feedVars
<1>6. CASE UNCHANGED vars
  <2>1. UNCHANGED <<mandates, triggers, rules, receipts, now, obs>>
    BY <1>6 DEF vars, guardVars
  <2>2. QED
    BY <1>4, <2>1
<1>7. QED
  BY <1>1, <1>2, <1>3, <1>4, <1>5, <1>6, CreateStep, OwnerStep, OwnerIsQuiet DEF Next

---------------------------------------------------------------------------
(* The budget's invariant.                                                 *)

\* What is known of the fills of the version in force: none lies past the
\* epoch, those of the epoch are counted and within the limit, and those of a
\* stretch as long right before it are within the limit as well.
Within(id, v, start, length, limit, count) ==
  /\ \A i \in DOMAIN receipts :
       receipts[i].mandateId = id /\ receipts[i].policyVersion = v
         => receipts[i].timestamp < start + length
  /\ FillsInWindow(id, v, start, start + length - 1) <= count
  /\ FillsInWindow(id, v, start, start + length - 1) <= limit
  /\ FillsInWindow(id, v, start - length, start - 1) <= limit

Never(id, v, length, limit) ==
  \A t \in Int : FillsInWindow(id, v, t, t + length - 1) <= 2 * limit

Current(id) ==
  LET m == mandates[id] IN
  Within(id, m.version, m.epochStart, m.policy.epochDuration,
         m.policy.maxFillsPerEpoch, m.fillsThisEpoch)

Bounded(id) ==
  \A v \in DOMAIN rules[id] :
    Never(id, v, rules[id][v].policy.epochDuration, rules[id][v].policy.maxFillsPerEpoch)

Budget == \A id \in DOMAIN mandates : Current(id) /\ Bounded(id)

\* The settlement that adds a batch to the version in force: over the epoch's
\* end or not, the batch is counted, and no window sees more than two limits.
LEMMA BatchWithin ==
  ASSUME Shape, NEW id, NEW v, NEW r \in Receipt, receipts' = receipts \o <<r>>,
         r.mandateId = id, r.policyVersion = v,
         NEW start \in Nat, NEW length \in Nat \ {0}, NEW limit \in Nat, NEW count \in Nat,
         Within(id, v, start, length, limit, count), Never(id, v, length, limit),
         start <= r.timestamp,
         \A i \in DOMAIN receipts : receipts[i].timestamp <= r.timestamp,
         NEW used, used = IF r.timestamp >= start + length THEN 0 ELSE count,
         used + Len(r.fills) <= limit,
         NEW begun, begun = IF r.timestamp >= start + length THEN r.timestamp ELSE start
  PROVE  /\ Within(id, v, begun, length, limit, used + Len(r.fills))'
         /\ Never(id, v, length, limit)'
<1> DEFINE t == r.timestamp
           n == Len(r.fills)
           Window(f, u) == FillsInWindow(id, v, f, u)
<1>1. t \in Nat /\ n \in Nat /\ used \in Nat /\ begun \in Nat
  BY LenProperties DEF Receipt
<1>0. /\ start - length \in Int /\ start - 1 \in Int /\ start + length - 1 \in Int
      /\ t - length \in Int /\ t - 1 \in Int /\ t + length - 1 \in Int
      /\ \A u \in Int : u + length - 1 \in Int
  BY <1>1
<1>2. /\ DOMAIN receipts' = 1 .. Len(receipts) + 1 /\ DOMAIN receipts = 1 .. Len(receipts)
      /\ \A i \in 1 .. Len(receipts) : receipts'[i] = receipts[i]
      /\ receipts'[Len(receipts) + 1] = r /\ Len(receipts) \in Nat
  BY OneMore, LenProperties DEF Shape
<1>3. \A i \in DOMAIN receipts : receipts[i].timestamp \in Nat
  BY WindowParts
<1>4. \A f, u \in Int : Window(f, u) \in Nat
  BY WindowNat
<1>5. \A f, u \in Int : Window(f, u)' = Window(f, u) + IF t \in f .. u THEN n ELSE 0
  BY WindowGrows
<1>6. \A i \in DOMAIN receipts : receipts[i].mandateId = id /\ receipts[i].policyVersion = v
                                  => receipts[i].timestamp < start + length
  BY DEF Within
<1>7. Window(start, start + length - 1) <= count /\ Window(start, start + length - 1) <= limit
  BY DEF Within
<1>8. Window(start - length, start - 1) <= limit
  BY DEF Within
<1>9. \A u \in Int : Window(u, u + length - 1) <= 2 * limit
  BY DEF Never
<1>10. \A f, u, g, w \in Int :
         Matching(id, v, f, u) \subseteq Matching(id, v, g, w) => Window(f, u) <= Window(g, w)
  BY WindowWithin
<1>11. CASE t >= start + length
  <2>1. Matching(id, v, t, t + length - 1) = {}
    BY <1>1, <1>3, <1>6, <1>11 DEF Matching
  <2>2. Window(t, t + length - 1) = 0
    BY <2>1, WindowEmpty
  <2>3. Matching(id, v, t - length, t - 1) \subseteq Matching(id, v, start, start + length - 1)
    BY <1>1, <1>3, <1>6, <1>11 DEF Matching
  <2>4. Window(t - length, t - 1) <= limit
    <3>1. Window(t - length, t - 1) <= Window(start, start + length - 1)
      BY <1>1, <1>10, <2>3
    <3>2. Window(t - length, t - 1) \in Nat /\ Window(start, start + length - 1) \in Nat
      BY <1>1, <1>4
    <3>3. QED
      BY <1>7, <3>1, <3>2
  <2>5. begun = t /\ used = 0 /\ n <= limit
    BY <1>1, <1>11
  <2>6. Window(t, t + length - 1)' = n
    BY <1>1, <1>5, <2>2
  <2>7. Window(t - length, t - 1)' <= limit
    <3>1. Window(t - length, t - 1) \in Nat
      BY <1>0, WindowNat
    <3>2. t \notin t - length .. t - 1
      BY <1>0, <1>1
    <3>3. Window(t - length, t - 1)' = Window(t - length, t - 1) + IF t \in t - length .. t - 1 THEN n ELSE 0
      BY <1>0, <1>5
    <3>4. QED
      BY <2>4, <3>1, <3>2, <3>3
  <2>8. \A i \in DOMAIN receipts' : receipts'[i].timestamp < t + length
    BY <1>1, <1>2, <1>3
  <2>9. Within(id, v, begun, length, limit, used + n)'
    <3>1. Window(t, t + length - 1)' <= n /\ Window(t, t + length - 1)' <= limit
      BY <1>1, <2>5, <2>6
    <3>2. Within(id, v, t, length, limit, n)'
      BY <2>7, <2>8, <3>1 DEF Within
    <3>3. begun = t /\ 0 + n = n /\ used = 0
      BY <1>1, <2>5
    <3>4. QED
      BY <3>2, <3>3
  <2>10. ASSUME NEW u \in Int PROVE Window(u, u + length - 1)' <= 2 * limit
    <3>1. CASE t \in u .. u + length - 1
      <4>1. Matching(id, v, u, u + length - 1) \subseteq Matching(id, v, start, start + length - 1)
        BY <1>1, <1>3, <1>6, <1>11, <3>1 DEF Matching
      <4>2. Window(u, u + length - 1) <= Window(start, start + length - 1)
        BY <1>1, <1>10, <4>1
      <4>3. PICK a, b : a = Window(u, u + length - 1) /\ b = Window(start, start + length - 1)
        OBVIOUS
      <4>4. a \in Nat /\ b \in Nat /\ a <= b /\ b <= limit
        <5>1. a \in Nat /\ b \in Nat
          BY <1>0, <4>3, WindowNat
        <5>2. QED
          BY <1>7, <4>2, <4>3, <5>1
      <4>5. Window(u, u + length - 1)' = a + n
        BY <1>1, <1>5, <3>1, <4>3
      <4>6. a + n <= 2 * limit
        BY <1>1, <2>5, <4>4
      <4>7. QED
        BY <4>5, <4>6
    <3>2. CASE t \notin u .. u + length - 1
      <4>1. Window(u, u + length - 1) \in Nat
        BY <1>4
      <4>2. Window(u, u + length - 1)' = Window(u, u + length - 1)
        BY <1>5, <3>2, <4>1
      <4>3. QED
        BY <1>9, <4>2
    <3>3. QED
      BY <3>1, <3>2
  <2>11. QED
    BY <2>9, <2>10 DEF Never
<1>12. CASE ~(t >= start + length)
  <2>1. t < start + length /\ begun = start /\ used = count /\ count + n <= limit
    BY <1>1, <1>12
  <2>2. PICK c : c = Window(start, start + length - 1)
    OBVIOUS
  <2>3. c \in Nat /\ c <= count
    BY <1>1, <1>4, <1>7, <2>2
  <2>4. Window(start, start + length - 1)' = c + n
    <3>1. t \in start .. start + length - 1
      BY <1>1, <2>1
    <3>2. QED
      BY <1>1, <1>5, <2>2, <3>1
  <2>5. Window(start - length, start - 1)' <= limit
    <3>1. t \notin start - length .. start - 1
      BY <1>1
    <3>2. Window(start - length, start - 1) \in Nat
      BY <1>0, WindowNat
    <3>3. Window(start - length, start - 1)' = Window(start - length, start - 1)
      BY <1>5, <3>1, <3>2
    <3>4. QED
      BY <1>8, <3>3
  <2>6. \A i \in DOMAIN receipts' : receipts'[i].mandateId = id /\ receipts'[i].policyVersion = v
                                    => receipts'[i].timestamp < start + length
    BY <1>1, <1>2, <1>6, <2>1
  <2>7. Within(id, v, begun, length, limit, used + n)'
    <3>1. c + n <= count + n /\ c + n <= limit
      BY <1>1, <2>1, <2>3
    <3>2. Within(id, v, start, length, limit, count + n)'
      BY <2>4, <2>5, <2>6, <3>1 DEF Within
    <3>3. QED
      BY <2>1, <3>2
  <2>8. ASSUME NEW u \in Int PROVE Window(u, u + length - 1)' <= 2 * limit
    <3>1. CASE t \in u .. u + length - 1
      <4>1. Matching(id, v, u, u + length - 1)
              \subseteq Matching(id, v, start - length, start - 1)
                          \cup Matching(id, v, start, start + length - 1)
        BY <1>1, <1>3, <1>6, <2>1, <3>1 DEF Matching
      <4>2. Window(u, u + length - 1)
              <= Window(start - length, start - 1) + Window(start, start + length - 1)
        <5>1. PICK f, w, y : f = start - length /\ w = u + length - 1 /\ y = start + length - 1
          OBVIOUS
        <5>2. f \in Int /\ w \in Int /\ y \in Int /\ start \in Int
          BY <1>0, <5>1
        <5>3. Matching(id, v, u, w) \subseteq Matching(id, v, f, start - 1) \cup Matching(id, v, start, y)
          BY <4>1, <5>1
        <5>4. FillsInWindow(id, v, u, w) <= FillsInWindow(id, v, f, start - 1) + FillsInWindow(id, v, start, y)
          BY <5>2, <5>3, WindowAcross
        <5>5. QED
          BY <5>1, <5>4
      <4>3. PICK a, b : a = Window(u, u + length - 1) /\ b = Window(start - length, start - 1)
        OBVIOUS
      <4>4. a \in Nat /\ b \in Nat /\ a <= b + c /\ b <= limit
        <5>1. a \in Nat /\ b \in Nat
          BY <1>0, <4>3, WindowNat
        <5>2. QED
          BY <1>8, <2>2, <4>2, <4>3, <5>1
      <4>5. Window(u, u + length - 1)' = a + n
        BY <1>0, <1>5, <3>1, <4>3
      <4>6. a + n <= 2 * limit
        BY <1>1, <2>1, <2>3, <4>4
      <4>7. QED
        BY <4>5, <4>6
    <3>2. CASE t \notin u .. u + length - 1
      <4>1. Window(u, u + length - 1) \in Nat
        BY <1>4
      <4>2. Window(u, u + length - 1)' = Window(u, u + length - 1)
        BY <1>5, <3>2, <4>1
      <4>3. QED
        BY <1>9, <4>2
    <3>3. QED
      BY <3>1, <3>2
  <2>9. QED
    BY <2>7, <2>8 DEF Never
<1>13. QED
  BY <1>11, <1>12

\* A version that has not been installed has no receipts.
LEMMA NoneYet ==
  ASSUME Shape, IInv, NEW id, NEW v,
         id \notin DOMAIN mandates \/ v \notin DOMAIN rules[id]
  PROVE  /\ \A i \in DOMAIN receipts : ~(receipts[i].mandateId = id /\ receipts[i].policyVersion = v)
         /\ \A from, to \in Int : FillsInWindow(id, v, from, to) = 0
<1>1. \A i \in DOMAIN receipts : ~(receipts[i].mandateId = id /\ receipts[i].policyVersion = v)
  BY DEF IInv, Placed
<1>2. ASSUME NEW from, NEW to PROVE Matching(id, v, from, to) = {}
  BY <1>1 DEF Matching
<1>3. QED
  BY <1>1, <1>2, WindowEmpty

\* The numbers a mandate and its rules are made of.
LEMMA Numbers ==
  ASSUME Shape, NEW id \in DOMAIN mandates
  PROVE  /\ mandates[id] \in MandateRecord
         /\ mandates[id].epochStart \in Nat /\ mandates[id].fillsThisEpoch \in Nat
         /\ mandates[id].policy.epochDuration \in Nat
         /\ mandates[id].policy.maxFillsPerEpoch \in Nat
<1>1. mandates[id] \in MandateRecord
  BY ElementOfSeq, LenProperties DEF Shape
<1>2. QED
  BY <1>1, GuardAssumption DEF MandateRecord

\* Steps that settle nothing.
LEMMA BudgetKept ==
  ASSUME Shape, IInv, Budget, Quiet, Progress, receipts' = receipts
  PROVE  Budget'
<1>0. Shape' /\ Versions' /\ OnlyGrows /\ Versions
  BY DEF Progress, IInv
<1>1. \A id, v : \A from, to \in Int : FillsInWindow(id, v, from, to)' = FillsInWindow(id, v, from, to)
  BY DEF FillsInWindow
<1> SUFFICES ASSUME NEW id \in DOMAIN mandates'
             PROVE  Current(id)' /\ Bounded(id)'
  BY DEF Budget
<1>2. PICK m : m = mandates'[id]
  OBVIOUS
<1>3. /\ m \in MandateRecord /\ m.epochStart \in Nat /\ m.fillsThisEpoch \in Nat
      /\ m.policy.epochDuration \in Nat /\ m.policy.maxFillsPerEpoch \in Nat
  <2>1. m \in MandateRecord
    BY <1>0, <1>2, ElementOfSeq, LenProperties DEF Shape
  <2>2. QED
    BY <2>1, GuardAssumption DEF MandateRecord
<1>4. Within(id, m.version, m.epochStart, m.policy.epochDuration, m.policy.maxFillsPerEpoch, m.fillsThisEpoch)'
  <2>1. CASE id \notin DOMAIN mandates \/ m.version \notin DOMAIN rules[id]
    <3>1. /\ \A i \in DOMAIN receipts :
               ~(receipts[i].mandateId = id /\ receipts[i].policyVersion = m.version)
          /\ \A from, to \in Int : FillsInWindow(id, m.version, from, to) = 0
      BY <2>1, NoneYet
    <3>2. \A from, to \in Int : FillsInWindow(id, m.version, from, to)' = 0
      BY <1>1, <3>1
    <3>3. PICK e, d, k, c : e = m.epochStart /\ d = m.policy.epochDuration
                            /\ k = m.policy.maxFillsPerEpoch /\ c = m.fillsThisEpoch
      OBVIOUS
    <3>4. e \in Nat /\ d \in Nat /\ k \in Nat /\ c \in Nat
      BY <1>3, <3>3
    <3>5. e + d - 1 \in Int /\ e - d \in Int /\ e - 1 \in Int
      BY <3>4
    <3>6. Within(id, m.version, e, d, k, c)'
      BY <3>1, <3>2, <3>4, <3>5 DEF Within
    <3>7. QED
      BY <3>3, <3>6
  <2>2. CASE id \in DOMAIN mandates /\ m.version \in DOMAIN rules[id]
    <3>1. /\ Len(rules[id]) = mandates[id].version /\ DOMAIN rules[id] = 1 .. Len(rules[id])
          /\ mandates[id].version \in Nat
      BY <1>0, <2>2, Parts, LenProperties DEF Versions
    <3>2. m.version # mandates[id].version + 1
      BY <2>2, <3>1
    <3>3. /\ m.version = mandates[id].version /\ m.policy = mandates[id].policy
          /\ m.epochStart = mandates[id].epochStart /\ m.fillsThisEpoch = mandates[id].fillsThisEpoch
      BY <1>2, <2>2, <3>2 DEF Quiet
    <3>4. Within(id, m.version, m.epochStart, m.policy.epochDuration, m.policy.maxFillsPerEpoch, m.fillsThisEpoch)
      BY <2>2, <3>3 DEF Budget, Current
    <3>5. PICK v, e, d, k, c : v = m.version /\ e = m.epochStart /\ d = m.policy.epochDuration
                               /\ k = m.policy.maxFillsPerEpoch /\ c = m.fillsThisEpoch
      OBVIOUS
    <3>6. Within(id, v, e, d, k, c)
      BY <3>4, <3>5
    <3>7. Within(id, v, e, d, k, c)'
      BY <3>6 DEF Within, FillsInWindow
    <3>8. QED
      BY <3>5, <3>7
  <2>3. QED
    BY <2>1, <2>2
<1>5. ASSUME NEW v \in DOMAIN rules'[id], NEW x, NEW y,
             x = rules'[id][v].policy.epochDuration, y = rules'[id][v].policy.maxFillsPerEpoch
      PROVE  Never(id, v, x, y)'
  <2>2. x \in Nat /\ y \in Nat
    <3>1. id \in 1 .. Len(rules')
      BY <1>0, <1>2, LenProperties DEF Versions, Shape
    <3>2. rules'[id] \in Seq(Rule)
      BY <1>0, <3>1, ElementOfSeq DEF Shape
    <3>3. rules'[id][v] \in Rule
      BY <3>2, ElementOfSeq, LenProperties
    <3>4. QED
      BY <1>5, <3>3, GuardAssumption DEF Rule
  <2>3. CASE id \notin DOMAIN mandates \/ v \notin DOMAIN rules[id]
    <3>1. \A from, to \in Int : FillsInWindow(id, v, from, to)' = 0
      BY <1>1, <2>3, NoneYet
    <3>2. \A t \in Int : t + x - 1 \in Int
      BY <2>2
    <3>3. \A t \in Int : FillsInWindow(id, v, t, t + x - 1)' = 0
      BY <3>1, <3>2
    <3>4. 0 <= 2 * y
      BY <2>2
    <3>5. QED
      BY <3>3, <3>4 DEF Never
  <2>4. CASE id \in DOMAIN mandates /\ v \in DOMAIN rules[id]
    <3>1. rules'[id][v] = rules[id][v]
      BY <1>0, <2>4 DEF OnlyGrows
    <3>2. Never(id, v, x, y)
      BY <1>5, <2>4, <3>1 DEF Budget, Bounded
    <3>3. QED
      BY <3>2 DEF Never, FillsInWindow
  <2>5. QED
    BY <2>3, <2>4
<1>6. Current(id)'
  BY <1>2, <1>4 DEF Current
<1>7. Bounded(id)'
  BY <1>5 DEF Bounded
<1>8. QED
  BY <1>6, <1>7

\* A settlement.
LEMMA BudgetGrows ==
  ASSUME Shape, IInv, Epochs, Budget, NEW caller \in Account, NEW id \in DOMAIN mandates,
         NEW fills \in Batches, NEW holdings \in Holdings,
         ValidateAndRecord(caller, id, fills, holdings)
  PROVE  Epochs' /\ Budget'
<1> DEFINE m == mandates[id]
           next == [m EXCEPT !.epochStart = IF EpochOver(m) THEN now ELSE @,
                             !.fillsThisEpoch = UsedThisEpoch(m) + Len(fills),
                             !.lastActionAt = now]
<1>0. UNCHANGED <<rules, now>>
  BY DEF ValidateAndRecord, feedVars
<1>1. m \in MandateRecord /\ now \in Nat /\ Len(fills) \in Nat /\ UsedThisEpoch(m) \in Nat
  <2>1. m \in MandateRecord
    BY Numbers
  <2>2. QED
    BY <2>1, StampedBatch DEF UsedThisEpoch, MandateRecord, Shape
<1>2. /\ next \in MandateRecord
      /\ next.version = m.version /\ next.policy = m.policy
      /\ next.epochStart = IF EpochOver(m) THEN now ELSE m.epochStart
      /\ next.fillsThisEpoch = UsedThisEpoch(m) + Len(fills)
  <2>1. UsedThisEpoch(m) + Len(fills) \in Nat
    BY <1>1
  <2>2. QED
    BY <1>1, <2>1 DEF MandateRecord
<1>3. Amend(id, next)
  BY DEF ValidateAndRecord
<1> HIDE DEF next
<1>4. /\ DOMAIN mandates' = DOMAIN mandates
      /\ mandates'[id] = next
      /\ \A j \in DOMAIN mandates : j # id => mandates'[j] = mandates[j]
  BY <1>2, <1>3, AmendShape
<1>5. PICK r : r = ReceiptOf(id, fills)
  OBVIOUS
<1>6. /\ r \in Receipt /\ receipts' = receipts \o <<r>>
      /\ r.mandateId = id /\ r.policyVersion = m.version /\ r.timestamp = now
      /\ Len(r.fills) = Len(fills)
  <2>1. r \in Receipt /\ receipts' = receipts \o <<r>>
    BY <1>5, ReceiptOfType, Settlement
  <2>2. r.mandateId = id /\ r.policyVersion = m.version /\ r.timestamp = now
    BY <1>5 DEF ReceiptOf
  <2>3. r.fills = [i \in DOMAIN fills |-> Stamped(fills[i])]
    BY <1>5 DEF ReceiptOf
  <2>4. Len(r.fills) = Len(fills)
    <3>1. PICK n \in 0 .. MAX_FILLS : fills \in [1 .. n -> Fill]
      BY DEF Batches
    <3>2. r.fills \in Seq(StampedFill)
      BY <2>3, StampedBatch
    <3>3. DOMAIN r.fills = 1 .. n /\ n \in Nat
      BY <2>3, <3>1
    <3>4. QED
      BY <3>1, <3>2, <3>3, LenProperties
  <2>5. QED
    BY <2>1, <2>2, <2>4
<1>7. m.epochStart \in Nat /\ m.epochStart <= now /\ ValidPolicy(m.policy)
  BY Numbers DEF Epochs, Sane
<1>8. Epochs'
  <2>1. Sane(next, now)
    BY <1>1, <1>2, <1>7 DEF Sane
  <2>2. QED
    BY <1>0, <1>4, <2>1 DEF Epochs
<1>9. PICK v, e, d, k, c, u :
        /\ v = m.version /\ e = m.epochStart /\ d = m.policy.epochDuration
        /\ k = m.policy.maxFillsPerEpoch /\ c = m.fillsThisEpoch /\ u = UsedThisEpoch(m)
  OBVIOUS
<1>10. /\ e \in Nat /\ d \in Nat \ {0} /\ k \in Nat /\ c \in Nat /\ e <= now
       /\ u = IF now >= e + d THEN 0 ELSE c
       /\ u + Len(fills) <= k
  <2>1. d # 0
    BY <1>7, <1>9 DEF ValidPolicy
  <2>2. u + Len(fills) <= k
    BY <1>9 DEF ValidateAndRecord, Accepts, WithinRate
  <2>3. u = IF now >= e + d THEN 0 ELSE c
    BY <1>9 DEF UsedThisEpoch, EpochOver
  <2>4. QED
    BY <1>7, <1>9, <2>1, <2>2, <2>3, Numbers
<1>11. Versions /\ v \in DOMAIN rules[id] /\ rules[id][v].policy = m.policy
  <2>1. Versions /\ rules[id] \in Seq(Rule) /\ v \in Nat
    BY <1>9, Parts DEF IInv
  <2>2. Len(rules[id]) = v /\ v # 0
        /\ rules[id][v] = [policy |-> m.policy, triggers |-> triggers[id]]
    BY <1>9, <2>1 DEF Versions
  <2>3. QED
    BY <2>1, <2>2, LenProperties
<1>12. Within(id, v, e, d, k, c) /\ Never(id, v, d, k)
  BY <1>9, <1>11 DEF Budget, Current, Bounded
<1>13. \A i \in DOMAIN receipts : receipts[i].timestamp <= now
  <2> SUFFICES ASSUME NEW i \in DOMAIN receipts PROVE receipts[i].timestamp <= now
    OBVIOUS
  <2>1. /\ receipts[i].timestamp \in Nat /\ mandates[receipts[i].mandateId].lastActionAt \in Nat
    BY Times DEF IInv
  <2>2. receipts[i].timestamp <= mandates[receipts[i].mandateId].lastActionAt
        /\ mandates[receipts[i].mandateId].lastActionAt <= now
    BY DEF IInv, Placed, Versions
  <2>3. QED
    BY <1>1, <2>1, <2>2
<1>14. PICK b : b = IF now >= e + d THEN now ELSE e
  OBVIOUS
<1>15. Within(id, v, b, d, k, u + Len(fills))' /\ Never(id, v, d, k)'
  <2>1. /\ e <= r.timestamp /\ \A i \in DOMAIN receipts : receipts[i].timestamp <= r.timestamp
        /\ u = IF r.timestamp >= e + d THEN 0 ELSE c
        /\ u + Len(r.fills) <= k
        /\ b = IF r.timestamp >= e + d THEN r.timestamp ELSE e
        /\ r.policyVersion = v /\ Len(r.fills) = Len(fills)
    BY <1>6, <1>9, <1>10, <1>13, <1>14
  <2>2. PICK n : n = Len(r.fills)
    OBVIOUS
  <2>3. Within(id, v, b, d, k, u + Len(r.fills))' /\ Never(id, v, d, k)'
    BY <1>6, <1>10, <1>12, <2>1, BatchWithin
  <2>4. QED
    BY <1>6, <2>3
<1>16. \A j, w : j # id \/ w # v => \A from, to \in Int :
         FillsInWindow(j, w, from, to)' = FillsInWindow(j, w, from, to)
  <2> SUFFICES ASSUME NEW j, NEW w, j # id \/ w # v, NEW from \in Int, NEW to \in Int
               PROVE  FillsInWindow(j, w, from, to)' = FillsInWindow(j, w, from, to)
    OBVIOUS
  <2>1. FillsInWindow(j, w, from, to)' = FillsInWindow(j, w, from, to) + 0
    BY <1>6, <1>9, WindowGrows
  <2>2. FillsInWindow(j, w, from, to) \in Nat
    BY WindowNat
  <2>3. QED
    BY <2>1, <2>2
<1>17. ASSUME NEW j \in DOMAIN mandates, NEW w \in DOMAIN rules[j], NEW x, NEW y,
              x = rules[j][w].policy.epochDuration, y = rules[j][w].policy.maxFillsPerEpoch
       PROVE  Never(j, w, x, y)'
  <2>2. CASE j = id /\ w = v
    <3>1. x = d /\ y = k
      BY <1>9, <1>11, <1>17, <2>2
    <3>2. QED
      BY <1>15, <2>2, <3>1
  <2>3. CASE j # id \/ w # v
    <3>1. Never(j, w, x, y) /\ x \in Nat
      <4>1. rules[j] \in Seq(Rule)
        BY <1>11, Parts
      <4>2. rules[j][w] \in Rule
        BY <4>1, ElementOfSeq, LenProperties
      <4>3. QED
        BY <1>17, <4>2, GuardAssumption DEF Budget, Bounded, Rule
    <3>2. \A t \in Int : FillsInWindow(j, w, t, t + x - 1)' = FillsInWindow(j, w, t, t + x - 1)
      <4> SUFFICES ASSUME NEW t \in Int
                   PROVE  FillsInWindow(j, w, t, t + x - 1)' = FillsInWindow(j, w, t, t + x - 1)
        OBVIOUS
      <4>1. t + x - 1 \in Int
        BY <3>1
      <4>2. QED
        BY <1>16, <2>3, <4>1
    <3>3. QED
      BY <3>1, <3>2 DEF Never
  <2>4. QED
    BY <2>2, <2>3
<1>18. ASSUME NEW j \in DOMAIN mandates
       PROVE  Current(j)'
  <2>1. CASE j = id
    <3>1. /\ next.version = v /\ next.epochStart = b /\ next.policy.epochDuration = d
          /\ next.policy.maxFillsPerEpoch = k /\ next.fillsThisEpoch = u + Len(fills)
      BY <1>2, <1>9, <1>14 DEF EpochOver
    <3>2. QED
      BY <1>4, <1>15, <2>1, <3>1 DEF Current
  <2>2. CASE j # id
    <3>1. mandates'[j] = mandates[j]
      BY <1>4, <2>2
    <3>2. PICK w, f, x, y, z :
            /\ w = mandates[j].version /\ f = mandates[j].epochStart
            /\ x = mandates[j].policy.epochDuration
            /\ y = mandates[j].policy.maxFillsPerEpoch /\ z = mandates[j].fillsThisEpoch
      OBVIOUS
    <3>3. Within(j, w, f, x, y, z) /\ f \in Nat /\ x \in Nat
      BY <3>2, Numbers DEF Budget, Current
    <3>4. f + x - 1 \in Int /\ f - x \in Int /\ f - 1 \in Int
      BY <3>3
    <3>5. /\ FillsInWindow(j, w, f, f + x - 1)' = FillsInWindow(j, w, f, f + x - 1)
          /\ FillsInWindow(j, w, f - x, f - 1)' = FillsInWindow(j, w, f - x, f - 1)
      BY <1>16, <2>2, <3>3, <3>4
    <3>6. \A i \in DOMAIN receipts' :
            receipts'[i].mandateId = j => i \in DOMAIN receipts /\ receipts'[i] = receipts[i]
      <4>1. /\ DOMAIN receipts' = 1 .. Len(receipts) + 1 /\ DOMAIN receipts = 1 .. Len(receipts)
            /\ \A i \in 1 .. Len(receipts) : receipts'[i] = receipts[i]
            /\ receipts'[Len(receipts) + 1] = r /\ Len(receipts) \in Nat
        BY <1>6, OneMore, LenProperties DEF Shape
      <4>2. QED
        BY <1>6, <2>2, <4>1
    <3>7. Within(j, w, f, x, y, z)'
      BY <3>3, <3>5, <3>6 DEF Within
    <3>8. QED
      BY <3>1, <3>2, <3>7 DEF Current
  <2>3. QED
    BY <2>1, <2>2
<1>19. \A j \in DOMAIN mandates : Bounded(j)'
  BY <1>0, <1>17 DEF Bounded
<1>21. Budget'
  BY <1>4, <1>18, <1>19 DEF Budget
<1>20. QED
  BY <1>8, <1>21

\* However the batches fall around the ends of the epochs, no stretch of one
\* epoch's length sees more than twice a version's limit of fills: for every
\* policy, every clock and every sequence of settlements and changes.
THEOREM SlidingWindowBudgetHolds == Spec => []SlidingWindowBudget
<1>1. Init => Epochs /\ Budget
  <2> SUFFICES ASSUME Init PROVE Epochs /\ Budget
    OBVIOUS
  <2>1. DOMAIN mandates = {}
    BY DEF Init
  <2>2. QED
    BY <2>1 DEF Epochs, Budget
<1>2. Shape /\ IInv /\ Shape' /\ Epochs /\ Budget /\ [Next]_vars => Epochs' /\ Budget'
  <2> SUFFICES ASSUME Shape, IInv, Shape', Epochs, Budget, [Next]_vars
               PROVE  Epochs' /\ Budget'
    OBVIOUS
  <2>1. ASSUME Quiet, Progress, receipts' = receipts PROVE Epochs' /\ Budget'
    BY <2>1, BudgetKept DEF Quiet, Epochs
  <2>2. QED
    BY <2>1, BudgetGrows, QuietOrSettles
<1>3. Shape /\ Budget => SlidingWindowBudget
  <2> SUFFICES ASSUME Shape, Budget, NEW id \in DOMAIN mandates, NEW v \in DOMAIN rules[id],
                      NEW t \in 1 .. now
               PROVE  FillsInWindow(id, v, t, t + rules[id][v].policy.epochDuration - 1)
                        <= 2 * rules[id][v].policy.maxFillsPerEpoch
    BY DEF SlidingWindowBudget
  <2>1. Never(id, v, rules[id][v].policy.epochDuration, rules[id][v].policy.maxFillsPerEpoch)
    BY DEF Budget, Bounded
  <2>2. t \in Int
    BY DEF Shape
  <2>3. QED
    BY <2>1, <2>2 DEF Never
<1>4. QED
  BY <1>1, <1>2, <1>3, RecordInvariance, PTL DEF Spec

---------------------------------------------------------------------------
(* The replay.  What the receipts leave of a mandate's positions is taken  *)
(* receipt by receipt, so a settlement adds one step to it.                *)

Blank == [a \in Asset |-> NoPosition]

\* A function that replays the first receipts of a record rs, one by one.
Replays(g, id, rs) ==
  g = [n \in 0 .. Len(rs) |-> IF n = 0 THEN Blank ELSE Replayed(id, g[n - 1], rs[n])]

AfterAll(id, rs) == CHOOSE g : Replays(g, id, rs)

\* The replay of the record is the last step of replaying it receipt by receipt.
LEMMA ReplayIs == ASSUME NEW id PROVE Replay(id) = AfterAll(id, receipts)[Len(receipts)]
BY DEF Replay, AfterAll, Replays, Blank

\* Any record can be replayed.
LEMMA ReplayExists ==
  ASSUME NEW id, NEW S, NEW rs \in Seq(S)
  PROVE  \E g : Replays(g, id, rs)
<1> DEFINE Step(g, n) == IF n = 0 THEN Blank ELSE Replayed(id, g[n - 1], rs[n])
           Upto(k) == \E g : \A n \in 0 .. Len(rs) : n <= k => g[n] = Step(g, n)
           T == {k \in Nat : Upto(k)}
<1>0. Len(rs) \in Nat
  BY LenProperties
<1>1. 0 \in T
  <2> DEFINE g == [n \in 0 .. Len(rs) |-> Blank]
  <2>1. \A n \in 0 .. Len(rs) : n <= 0 => g[n] = Step(g, n)
    BY <1>0
  <2> HIDE DEF g, Step
  <2>2. QED
    BY <2>1
<1>2. ASSUME NEW k \in Nat, k \in T PROVE k + 1 \in T
  <2>1. PICK g : \A n \in 0 .. Len(rs) : n <= k => g[n] = Step(g, n)
    BY <1>2
  <2> DEFINE h == [n \in 0 .. Len(rs) |-> Step(g, n)]
  <2>2. ASSUME NEW n \in 0 .. Len(rs), n <= k + 1 PROVE h[n] = Step(h, n)
    <3>1. CASE n = 0
      BY <3>1
    <3>2. CASE n # 0
      <4>1. n - 1 \in 0 .. Len(rs) /\ n - 1 <= k
        BY <1>0, <2>2, <3>2
      <4>2. h[n - 1] = g[n - 1]
        BY <2>1, <4>1
      <4>3. QED
        BY <3>2, <4>2
    <3>3. QED
      BY <3>1, <3>2
  <2> HIDE DEF h, Step
  <2>3. QED
    BY <2>2
<1>3. T = Nat
  <2> HIDE DEF Upto
  <2>1. QED
    BY <1>1, <1>2, EveryNatural
<1>4. PICK g : \A n \in 0 .. Len(rs) : n <= Len(rs) => g[n] = Step(g, n)
  <2>1. Len(rs) \in T
    BY <1>0, <1>3
  <2>2. QED
    BY <2>1
<1> DEFINE h == [n \in 0 .. Len(rs) |-> g[n]]
<1>5. ASSUME NEW n \in 0 .. Len(rs) PROVE h[n] = Step(h, n)
  <2>1. n # 0 => n - 1 \in 0 .. Len(rs)
    BY <1>0
  <2>2. QED
    BY <1>0, <1>4, <2>1
<1>6. h = [n \in 0 .. Len(rs) |-> Step(h, n)]
  BY <1>5
<1>7. Replays(h, id, rs)
  BY <1>6 DEF Replays
<1>8. QED
  BY <1>7

\* The replay of one receipt more is one step more.
LEMMA ReplaySteps ==
  ASSUME NEW id, NEW S, NEW rs \in Seq(S), NEW n \in 0 .. Len(rs)
  PROVE  AfterAll(id, rs)[n] = IF n = 0 THEN Blank ELSE Replayed(id, AfterAll(id, rs)[n - 1], rs[n])
<1>1. Replays(AfterAll(id, rs), id, rs)
  BY ReplayExists DEF AfterAll
<1>2. PICK h : h = AfterAll(id, rs)
  OBVIOUS
<1>3. h = [k \in 0 .. Len(rs) |-> IF k = 0 THEN Blank ELSE Replayed(id, h[k - 1], rs[k])]
  BY <1>1, <1>2 DEF Replays
<1>4. h[n] = IF n = 0 THEN Blank ELSE Replayed(id, h[n - 1], rs[n])
  BY <1>3
<1>5. QED
  BY <1>2, <1>4

\* The replay of a record does not change when the record grows.
LEMMA ReplayMore ==
  ASSUME NEW id, NEW S, NEW rs \in Seq(S), NEW r \in S
  PROVE  AfterAll(id, rs \o <<r>>)[Len(rs) + 1] = Replayed(id, AfterAll(id, rs)[Len(rs)], r)
<1> DEFINE more == rs \o <<r>>
           T == {n \in Nat : n <= Len(rs) => AfterAll(id, more)[n] = AfterAll(id, rs)[n]}
<1>1. /\ more \in Seq(S) /\ Len(more) = Len(rs) + 1 /\ Len(rs) \in Nat
      /\ \A n \in 1 .. Len(rs) : more[n] = rs[n]
      /\ more[Len(rs) + 1] = r
  BY OneMore, LenProperties
<1> HIDE DEF more
<1>2. 0 \in T
  <2>1. 0 \in 0 .. Len(rs) /\ 0 \in 0 .. Len(more)
    BY <1>1
  <2>2. AfterAll(id, more)[0] = Blank /\ AfterAll(id, rs)[0] = Blank
    BY <1>1, <2>1, ReplaySteps
  <2>3. QED
    BY <2>2
<1>3. ASSUME NEW n \in Nat, n \in T PROVE n + 1 \in T
  <2> SUFFICES ASSUME n + 1 <= Len(rs) PROVE AfterAll(id, more)[n + 1] = AfterAll(id, rs)[n + 1]
    OBVIOUS
  <2>1. PICK k : k = n + 1
    OBVIOUS
  <2>2. /\ k \in 0 .. Len(rs) /\ k \in 0 .. Len(more) /\ k # 0 /\ k - 1 = n /\ more[k] = rs[k]
    BY <1>1, <2>1
  <2>3. AfterAll(id, more)[n] = AfterAll(id, rs)[n]
    BY <1>1, <1>3, <2>1, <2>2
  <2>4. AfterAll(id, more)[k] = Replayed(id, AfterAll(id, more)[k - 1], more[k])
    BY <1>1, <2>2, ReplaySteps
  <2>5. AfterAll(id, rs)[k] = Replayed(id, AfterAll(id, rs)[k - 1], rs[k])
    BY <1>1, <2>2, ReplaySteps
  <2>6. QED
    BY <2>1, <2>2, <2>3, <2>4, <2>5
<1>4. T = Nat
  <2>1. T \subseteq Nat
    OBVIOUS
  <2> HIDE DEF T
  <2>2. QED
    BY <1>2, <1>3, <2>1, EveryNatural
<1>5. AfterAll(id, more)[Len(rs)] = AfterAll(id, rs)[Len(rs)]
  BY <1>1, <1>4
<1>6. PICK k : k = Len(rs) + 1
  OBVIOUS
<1>7. k \in 0 .. Len(more) /\ k # 0 /\ k - 1 = Len(rs) /\ more[k] = r
  BY <1>1, <1>6
<1>8. AfterAll(id, more)[k] = Replayed(id, AfterAll(id, more)[k - 1], more[k])
  BY <1>1, <1>7, ReplaySteps
<1>9. QED
  BY <1>5, <1>6, <1>7, <1>8 DEF more

\* A mandate no receipt names has an empty position.
LEMMA ReplayNone ==
  ASSUME NEW id, NEW S, NEW rs \in Seq(S), \A n \in 1 .. Len(rs) : rs[n].mandateId # id
  PROVE  AfterAll(id, rs)[Len(rs)] = Blank
<1> DEFINE T == {n \in Nat : n <= Len(rs) => AfterAll(id, rs)[n] = Blank}
<1>1. Len(rs) \in Nat
  BY LenProperties
<1>2. 0 \in T
  <2>1. 0 \in 0 .. Len(rs)
    BY <1>1
  <2>2. QED
    BY <2>1, ReplaySteps
<1>3. ASSUME NEW n \in Nat, n \in T PROVE n + 1 \in T
  <2> SUFFICES ASSUME n + 1 <= Len(rs) PROVE AfterAll(id, rs)[n + 1] = Blank
    OBVIOUS
  <2>1. PICK k : k = n + 1
    OBVIOUS
  <2>2. k \in 0 .. Len(rs) /\ k \in 1 .. Len(rs) /\ k # 0 /\ k - 1 = n
    BY <1>1, <2>1
  <2>3. AfterAll(id, rs)[k] = Replayed(id, AfterAll(id, rs)[k - 1], rs[k])
    BY <2>2, ReplaySteps
  <2>4. AfterAll(id, rs)[n] = Blank
    BY <1>1, <1>3, <2>1, <2>2
  <2>5. QED
    BY <2>1, <2>2, <2>3, <2>4 DEF Replayed
<1>4. T = Nat
  <2>1. T \subseteq Nat
    OBVIOUS
  <2> HIDE DEF T
  <2>2. QED
    BY <1>2, <1>3, <2>1, EveryNatural
<1>5. QED
  BY <1>1, <1>4

---------------------------------------------------------------------------
IsSequence(s) == \E S : s \in Seq(S)

Positioned ==
  /\ IsSequence(positions)
  /\ Len(positions) = Len(mandates)
  /\ PositionsReplayFromReceipts

\* A step that neither trades nor creates.
LEMMA PositionedStill ==
  ASSUME Shape, Positioned, UNCHANGED <<positions, receipts>>, DOMAIN mandates' = DOMAIN mandates,
         Len(mandates') = Len(mandates)
  PROVE  Positioned'
<1>1. \A id : Replay(id)' = Replay(id)
  BY DEF Replay
<1>2. QED
  BY <1>1 DEF Positioned, PositionsReplayFromReceipts, IsSequence

\* An owner's own transaction leaves positions and record as they were.
LEMMA PositionedOwner ==
  ASSUME Shape, Positioned, NEW caller \in Account, NEW id \in DOMAIN mandates, OwnerAction(caller, id)
  PROVE  Positioned'
<1>1. UNCHANGED <<positions, receipts>>
  BY DEF OwnerAction, UpdatePolicy, SetTriggers, SetAgent, SetExecutor, SetAssetAllowed,
         SetCircuitBreaker, CloseMandate, registryVars
<1>2. \E m : mandates' = [mandates EXCEPT ![id] = m]
  <2>1. (\E m : Amend(id, m)) \/ UNCHANGED mandates
    BY DEF OwnerAction, UpdatePolicy, SetTriggers, SetAgent, SetExecutor, SetAssetAllowed,
           SetCircuitBreaker, CloseMandate
  <2>2. mandates = [mandates EXCEPT ![id] = mandates[id]]
    BY DEF Shape
  <2>3. QED
    BY <2>1, <2>2 DEF Amend
<1>3. PICK m : mandates' = [mandates EXCEPT ![id] = m]
  BY <1>2
<1>4. DOMAIN mandates' = DOMAIN mandates /\ Len(mandates') = Len(mandates)
  <2>1. mandates \in Seq(MandateRecord \cup {m}) /\ id \in 1 .. Len(mandates)
    BY LenProperties DEF Shape
  <2>2. mandates' \in Seq(MandateRecord \cup {m}) /\ Len(mandates') = Len(mandates)
    BY <1>3, <2>1, ExceptSeq
  <2>3. QED
    BY <2>1, <2>2, LenProperties
<1>5. QED
  BY <1>1, <1>4, PositionedStill

\* A new mandate has no positions and no receipts.
LEMMA PositionedCreate ==
  ASSUME Shape, IInv, Positioned,
         NEW caller \in Account, NEW agent \in Account, NEW executor \in Account,
         NEW p \in Policy, NEW assets \in AssetArrays,
         CreateMandate(caller, agent, executor, p, assets)
  PROVE  Positioned'
<1>1. PICK m : mandates' = Append(mandates, m)
  BY DEF CreateMandate
<1>2. positions' = Append(positions, Blank) /\ receipts' = receipts
  BY DEF CreateMandate, Blank, registryVars
<1>3. PICK S : positions \in Seq(S)
  BY DEF Positioned, IsSequence
<1>4. /\ mandates \in Seq(MandateRecord \cup {m}) /\ positions \in Seq(S \cup {Blank})
      /\ m \in MandateRecord \cup {m} /\ Blank \in S \cup {Blank}
  BY <1>3, LenProperties DEF Shape
<1>5. /\ Len(mandates') = Len(mandates) + 1 /\ DOMAIN mandates' = 1 .. Len(mandates) + 1
      /\ DOMAIN mandates = 1 .. Len(mandates) /\ Len(mandates) \in Nat
  BY <1>1, <1>4, OneMore, LenProperties
<1>6. /\ positions' \in Seq(S \cup {Blank}) /\ Len(positions') = Len(mandates) + 1
      /\ \A j \in 1 .. Len(mandates) : positions'[j] = positions[j]
      /\ positions'[Len(mandates) + 1] = Blank
  BY <1>2, <1>4, OneMore DEF Positioned
<1>7. \A id : Replay(id)' = Replay(id)
  BY <1>2 DEF Replay
<1>8. Replay(Len(mandates) + 1) = Blank
  <2>1. \A n \in 1 .. Len(receipts) : receipts[n].mandateId # Len(mandates) + 1
    BY <1>5, LenProperties DEF IInv, Placed, Shape
  <2>2. QED
    BY <2>1, ReplayIs, ReplayNone DEF Shape
<1>9. \A j \in 1 .. Len(mandates) : positions[j] = Replay(j)
  BY <1>5 DEF Positioned, PositionsReplayFromReceipts
<1>10. PositionsReplayFromReceipts'
  <2> SUFFICES ASSUME NEW id \in 1 .. Len(mandates) + 1 PROVE positions'[id] = Replay(id)'
    BY <1>5 DEF PositionsReplayFromReceipts
  <2>1. CASE id \in 1 .. Len(mandates)
    BY <1>6, <1>7, <1>9, <2>1
  <2>2. CASE id = Len(mandates) + 1
    BY <1>6, <1>7, <1>8, <2>2
  <2>3. QED
    BY <1>5, <2>1, <2>2
<1>11. QED
  BY <1>5, <1>6, <1>10 DEF Positioned, IsSequence

\* A settlement moves the positions by what its receipt says.
LEMMA PositionedSettlement ==
  ASSUME Shape, Positioned, NEW caller \in Account, NEW id \in DOMAIN mandates,
         NEW fills \in Batches, NEW holdings \in Holdings,
         ValidateAndRecord(caller, id, fills, holdings)
  PROVE  Positioned'
<1>1. PICK r : r = ReceiptOf(id, fills)
  OBVIOUS
<1>2. /\ r \in Receipt /\ receipts' = receipts \o <<r>>
      /\ Len(mandates') = Len(mandates) /\ DOMAIN mandates' = DOMAIN mandates
      /\ DOMAIN mandates = 1 .. Len(mandates)
  BY <1>1, ReceiptOfType, Settlement, LenProperties DEF Shape
<1>3. PositionsAfter(id, fills) = FoldLeft(Settle, positions[id], r.fills)
  BY <1>1 DEF PositionsAfter, ReceiptOf
<1>4. PICK S : positions \in Seq(S)
  BY DEF Positioned, IsSequence
<1>5. PICK q : q = PositionsAfter(id, fills)
  OBVIOUS
<1>6. positions' = [positions EXCEPT ![id] = q]
  BY <1>5 DEF ValidateAndRecord
<1>7. positions \in Seq(S \cup {q}) /\ id \in 1 .. Len(positions) /\ q \in S \cup {q}
  BY <1>2, <1>4, LenProperties DEF Positioned
<1>8. /\ positions' \in Seq(S \cup {q}) /\ Len(positions') = Len(positions)
      /\ positions'[id] = q
      /\ \A j \in 1 .. Len(positions) : j # id => positions'[j] = positions[j]
  BY <1>6, <1>7, ExceptSeq
<1>9. ASSUME NEW j PROVE Replay(j)' = Replayed(j, Replay(j), r)
  <2>1. receipts \in Seq(Receipt) /\ Len(receipts') = Len(receipts) + 1
    BY <1>2, OneMore DEF Shape
  <2>2. Replay(j)' = AfterAll(j, receipts')[Len(receipts')]
    BY ReplayIs DEF Replay, AfterAll, Replays, Blank
  <2>3. AfterAll(j, receipts')[Len(receipts')] = Replayed(j, AfterAll(j, receipts)[Len(receipts)], r)
    BY <1>2, <2>1, ReplayMore
  <2>4. QED
    BY <2>2, <2>3, ReplayIs
<1>10. PositionsReplayFromReceipts'
  <2> SUFFICES ASSUME NEW j \in DOMAIN mandates PROVE positions'[j] = Replay(j)'
    BY <1>2 DEF PositionsReplayFromReceipts
  <2>1. positions[j] = Replay(j)
    BY DEF Positioned, PositionsReplayFromReceipts
  <2>2. r.mandateId = id
    BY <1>1 DEF ReceiptOf
  <2>3. CASE j = id
    <3>1. Replay(j)' = FoldLeft(Settle, Replay(j), r.fills)
      BY <1>9, <2>2, <2>3 DEF Replayed
    <3>2. QED
      BY <1>3, <1>5, <1>8, <2>1, <2>3, <3>1
  <2>4. CASE j # id
    <3>1. Replay(j)' = Replay(j)
      BY <1>9, <2>2, <2>4 DEF Replayed
    <3>2. QED
      BY <1>2, <1>8, <2>1, <2>4, <3>1 DEF Positioned
  <2>5. QED
    BY <2>3, <2>4
<1>11. QED
  BY <1>2, <1>8, <1>10 DEF Positioned, IsSequence

\* The positions are what the record replays to, for every record: no step
\* moves one without the other.
THEOREM PositionsReplayFromReceiptsHolds == Spec => []PositionsReplayFromReceipts
<1>1. Init => Positioned
  <2> SUFFICES ASSUME Init PROVE Positioned
    OBVIOUS
  <2>1. mandates = <<>> /\ positions = <<>>
    BY DEF Init
  <2>2. positions \in Seq({}) /\ Len(positions) = Len(mandates) /\ DOMAIN mandates = {}
    BY <2>1
  <2>3. QED
    BY <2>2 DEF Positioned, PositionsReplayFromReceipts, IsSequence
<1>2. Shape /\ IInv /\ Positioned /\ [Next]_vars => Positioned'
  <2> SUFFICES ASSUME Shape, IInv, Positioned, [Next]_vars PROVE Positioned'
    OBVIOUS
  <2>1. ASSUME UNCHANGED <<mandates, positions, receipts>> PROVE Positioned'
    BY <2>1, PositionedStill
  <2>2. ASSUME NEW allow \in BOOLEAN, SetGuardWriter(allow)
        PROVE  UNCHANGED <<mandates, positions, receipts>>
    BY <2>2 DEF SetGuardWriter, SetWriter, guardVars
  <2>3. CASE OracleAction
    BY <2>1, <2>3 DEF OracleAction, guardVars, registryVars
  <2>4. CASE UNCHANGED vars
    BY <2>1, <2>4 DEF vars, guardVars
  <2>5. QED
    BY <2>1, <2>2, <2>3, <2>4, PositionedOwner, PositionedCreate, PositionedSettlement DEF Next
<1>3. Positioned => PositionsReplayFromReceipts
  BY DEF Positioned
<1>4. QED
  BY <1>1, <1>2, <1>3, RecordInvariance, PTL DEF Spec

=============================================================================
