---------------------------- MODULE LimitsProofs ----------------------------
(*****************************************************************************)
(* What the scripts and the pages promise around the guard's limits, for     *)
(* every constant their assumptions allow: a capacity fits the limit it was  *)
(* searched for, so that a board's rungs agree with it and a basket is       *)
(* sized as far as its pools go; the board's answers are recent and only a   *)
(* writer that saw nothing takes a price away; a run of the administration   *)
(* script confirms only the change it asked the Safe for; a leg the planner  *)
(* allows passes the walls of the contract; and a quote made from a pool     *)
(* that was read whole is what the pool pays, and no more than its price.    *)
(*****************************************************************************)
EXTENDS Board, SafeAdmin, BasketPlanner, TickWalk, PolicyGuardProofs

---------------------------------------------------------------------------
(* Steps taken one after the other.                                        *)

\* A step that leads from S to S, and n such steps taken one after the other.
StepsWithin(S, n, step) == \A i \in 1 .. n : \A x \in S : step[<<i, x>>] \in S

Repeats(f, S, base, n, step) ==
  /\ f \in [0 .. n -> S]
  /\ \A i \in 0 .. n : f[i] = IF i = 0 THEN base ELSE step[<<i, f[i - 1]>>]

\* They lead somewhere.
LEMMA StepsAreTaken ==
  ASSUME NEW S, NEW base \in S, NEW n \in Nat, NEW step, StepsWithin(S, n, step)
  PROVE  \E f : Repeats(f, S, base, n, step)
<1> USE DEF StepsWithin
<1> DEFINE Taken(f, m) ==
             \A i \in 0 .. n : i <= m => f[i] = IF i = 0 THEN base ELSE step[<<i, f[i - 1]>>]
           T == {m \in Nat : \E f \in [0 .. n -> S] : Taken(f, m)}
<1>1. 0 \in T
  <2> DEFINE f == [i \in 0 .. n |-> base]
  <2>1. f \in [0 .. n -> S] /\ Taken(f, 0)
    OBVIOUS
  <2> HIDE DEF f, Taken
  <2>2. QED
    BY <2>1
<1>2. ASSUME NEW m \in Nat, m \in T PROVE m + 1 \in T
  <2>1. PICK f \in [0 .. n -> S] : Taken(f, m)
    BY <1>2
  <2>2. CASE ~(m + 1 <= n)
    <3>1. Taken(f, m + 1)
      BY <2>1, <2>2
    <3> HIDE DEF Taken
    <3>2. QED
      BY <3>1
  <2>3. CASE m + 1 <= n
    <3>1. m \in 0 .. n /\ m + 1 \in 1 .. n /\ m + 1 \in 0 .. n
      BY <2>3
    <3>2. PICK y \in S : y = step[<<m + 1, f[m]>>]
      BY <3>1
    <3> DEFINE h == [f EXCEPT ![m + 1] = y]
    <3>3. h \in [0 .. n -> S]
      BY <3>1
    <3>4. \A i \in 0 .. n : i <= m => h[i] = f[i]
      BY <3>1
    <3>5. h[m + 1] = y
      BY <3>1
    <3> HIDE DEF h
    <3>6. ASSUME NEW i \in 0 .. n, i <= m + 1
          PROVE  h[i] = IF i = 0 THEN base ELSE step[<<i, h[i - 1]>>]
      <4>1. CASE i = m + 1
        <5>1. h[m] = f[m] /\ i - 1 = m /\ i # 0
          BY <3>1, <3>4, <4>1
        <5>2. QED
          BY <3>2, <3>5, <4>1, <5>1
      <4>2. CASE i <= m
        <5>1. h[i] = f[i] /\ (i # 0 => i - 1 \in 0 .. n /\ i - 1 <= m /\ h[i - 1] = f[i - 1])
          BY <3>4, <4>2
        <5>2. QED
          BY <2>1, <4>2, <5>1
      <4>3. QED
        BY <3>6, <4>1, <4>2
    <3>7. Taken(h, m + 1)
      BY <3>6
    <3> HIDE DEF Taken
    <3>8. QED
      BY <3>3, <3>7
  <2>4. QED
    BY <2>2, <2>3
<1>3. T = Nat
  <2>1. T \subseteq Nat
    OBVIOUS
  <2> HIDE DEF T
  <2>2. QED
    BY <1>1, <1>2, <2>1, EveryNatural
<1>4. PICK f \in [0 .. n -> S] : Taken(f, n)
  <2>1. n \in T
    BY <1>3
  <2> HIDE DEF Taken
  <2>2. QED
    BY <2>1
<1>5. QED
  BY <1>4 DEF Repeats

---------------------------------------------------------------------------
(* Quotes and capacities.                                                  *)

\* More output than what is at least as good as a third is more than the third's.
LEMMA MoreIsMore ==
  ASSUME NEW c1 \in Nat, NEW c2 \in Nat, NEW c3 \in Nat,
         NEW a1 \in Nat, NEW a2 \in Nat, NEW a3 \in Nat, a1 > 0, a2 > 0, a3 > 0,
         c1 * a2 > c2 * a1, c2 * a3 >= c3 * a2
  PROVE  c1 * a3 > c3 * a1
<1>1. (c1 * a2) * a3 > (c2 * a1) * a3
  BY SMT
<1>2. (c2 * a3) * a1 >= (c3 * a2) * a1
  BY SMT
<1>3. (c2 * a1) * a3 = (c2 * a3) * a1 /\ (c1 * a2) * a3 = (c1 * a3) * a2 /\ (c3 * a2) * a1 = (c3 * a1) * a2
  BY SMT
<1>4. (c1 * a3) * a2 > (c3 * a1) * a2
  BY <1>1, <1>2, <1>3, SMT
<1>5. c1 * a3 \in Nat /\ c3 * a1 \in Nat
  BY SMT
<1>6. QED
  BY <1>4, <1>5, SMT

\* What a venue says is a number, and its price is not zero.
LEMMA QuoteTypes ==
  ASSUME NEW venues \in Venues, NEW k \in DOMAIN venues, NEW n \in Nat
  PROVE  /\ venues[k].depth \in Nat /\ venues[k].spot \in Nat /\ venues[k].fee \in Nat /\ venues[k].slope \in Nat
         /\ Consumed(venues[k], n) \in Nat /\ Consumed(venues[k], n) <= n
         /\ Impact(venues[k], n) \in Nat
         /\ Average(venues[k], n) = venues[k].spot + Impact(venues[k], n)
         /\ Average(venues[k], n) \in Nat /\ Average(venues[k], n) > 0
<1>1. venues[k] \in VenueShape
  BY ElementOfSeq, LenProperties DEF Venues
<1>2. /\ venues[k].depth \in Nat /\ venues[k].spot \in Nat /\ venues[k].fee \in Nat /\ venues[k].slope \in Nat
      /\ venues[k].spot > 0
  BY <1>1 DEF VenueShape
<1>3. Consumed(venues[k], n) \in Nat /\ Consumed(venues[k], n) <= n
  BY <1>2 DEF Consumed, Smaller
<1>4. PICK p \in Nat : p = venues[k].slope * Consumed(venues[k], n)
  BY <1>2, <1>3, SMT
<1>5. Impact(venues[k], n) = venues[k].fee + p /\ Average(venues[k], n) = venues[k].spot + venues[k].fee + p
  BY <1>4 DEF Average, Impact
<1>6. QED
  BY <1>2, <1>3, <1>5

\* Of any venues that quote, one is the best.
LEMMA BestExists ==
  ASSUME NEW venues \in Venues, NEW n \in Nat, Quoting(venues, n) # {}
  PROVE  \E k \in Quoting(venues, n) : Best(venues, n, k)
<1> DEFINE Q == Quoting(venues, n)
           BestUpto(m, k) == /\ k \in Q /\ k <= m
                             /\ \A j \in Q : j <= m => /\ ~MoreOut(venues[j], venues[k], n)
                                                      /\ (j < k => MoreOut(venues[k], venues[j], n))
           T == {m \in Nat : (\E k \in Q : k <= m) => \E k \in Q : BestUpto(m, k)}
<1>1. Q \subseteq DOMAIN venues /\ DOMAIN venues = 1..Len(venues) /\ Len(venues) \in Nat
  BY LenProperties DEF Quoting, Venues
<1>2. \A j \in Q, k \in Q, i \in Q :
         MoreOut(venues[j], venues[k], n) /\ ~MoreOut(venues[i], venues[k], n) => MoreOut(venues[j], venues[i], n)
  <2> SUFFICES ASSUME NEW j \in Q, NEW k \in Q, NEW i \in Q,
                      MoreOut(venues[j], venues[k], n), ~MoreOut(venues[i], venues[k], n)
               PROVE  MoreOut(venues[j], venues[i], n)
    OBVIOUS
  <2>1. \A v \in {venues[i], venues[j], venues[k]} : Consumed(v, n) \in Nat /\ Average(v, n) \in Nat /\ Average(v, n) > 0
    BY <1>1, QuoteTypes
  <2> DEFINE ci == Consumed(venues[i], n)
             ai == Average(venues[i], n)
             cj == Consumed(venues[j], n)
             aj == Average(venues[j], n)
             ck == Consumed(venues[k], n)
             ak == Average(venues[k], n)
  <2>2. ci \in Nat /\ cj \in Nat /\ ck \in Nat /\ ai \in Nat /\ aj \in Nat /\ ak \in Nat /\ ai > 0 /\ aj > 0 /\ ak > 0
    BY <2>1
  <2>3. cj * ak > ck * aj /\ ~(ci * ak > ck * ai)
    BY DEF MoreOut
  <2> HIDE DEF ci, ai, cj, aj, ck, ak
  <2>4. ci * ak \in Nat /\ ck * ai \in Nat
    BY <2>2, SMT
  <2>5. ck * ai >= ci * ak
    BY <2>3, <2>4
  <2>6. cj * ai > ci * aj
    BY <2>2, <2>3, <2>5, MoreIsMore
  <2>7. QED
    BY <2>6 DEF MoreOut, ci, ai, cj, aj, ck, ak
<1>3. \A j \in Q, k \in Q : ~(MoreOut(venues[j], venues[k], n) /\ MoreOut(venues[k], venues[j], n))
  <2> SUFFICES ASSUME NEW j \in Q, NEW k \in Q
               PROVE  ~(MoreOut(venues[j], venues[k], n) /\ MoreOut(venues[k], venues[j], n))
    OBVIOUS
  <2>1. \A v \in {venues[j], venues[k]} : Consumed(v, n) \in Nat /\ Average(v, n) \in Nat
    BY <1>1, QuoteTypes
  <2>2. PICK p \in Nat, q \in Nat : /\ p = Consumed(venues[j], n) * Average(venues[k], n)
                                   /\ q = Consumed(venues[k], n) * Average(venues[j], n)
    BY <2>1, SMT
  <2>3. QED
    BY <2>2 DEF MoreOut
<1> HIDE DEF Q
<1>4. 0 \in T
  BY <1>1
<1>5. ASSUME NEW m \in Nat, m \in T PROVE m + 1 \in T
  <2> SUFFICES ASSUME \E k \in Q : k <= m + 1 PROVE \E k \in Q : BestUpto(m + 1, k)
    OBVIOUS
  <2>1. CASE m + 1 \notin Q
    <3>1. \A k \in Q : k <= m + 1 <=> k <= m
      BY <1>1, <2>1
    <3>2. PICK k \in Q : BestUpto(m, k)
      BY <1>5, <3>1
    <3>3. QED
      BY <3>1, <3>2
  <2>2. CASE m + 1 \in Q /\ ~\E k \in Q : k <= m
    <3>1. \A k \in Q : k <= m + 1 => k = m + 1
      BY <1>1, <2>2
    <3>2. BestUpto(m + 1, m + 1)
      BY <1>3, <2>2, <3>1
    <3>3. QED
      BY <2>2, <3>2
  <2>3. CASE m + 1 \in Q /\ \E k \in Q : k <= m
    <3>1. PICK k \in Q : BestUpto(m, k)
      BY <1>5, <2>3
    <3>2. \A j \in Q : j <= m + 1 => j <= m \/ j = m + 1
      BY <1>1
    <3>3. CASE MoreOut(venues[m + 1], venues[k], n)
      <4>1. \A j \in Q : j <= m => MoreOut(venues[m + 1], venues[j], n)
        BY <1>2, <2>3, <3>1, <3>3
      <4>2. \A j \in Q : j <= m => ~MoreOut(venues[j], venues[m + 1], n)
        BY <1>3, <2>3, <4>1
      <4>3. BestUpto(m + 1, m + 1)
        BY <1>3, <2>3, <3>2, <4>1, <4>2
      <4>4. QED
        BY <2>3, <4>3
    <3>4. CASE ~MoreOut(venues[m + 1], venues[k], n)
      <4>1. k <= m + 1 /\ ~(m + 1 < k)
        BY <1>1, <3>1
      <4>2. BestUpto(m + 1, k)
        BY <3>1, <3>2, <3>4, <4>1
      <4>3. QED
        BY <4>2
    <3>5. QED
      BY <3>3, <3>4
  <2>4. QED
    BY <2>1, <2>2, <2>3
<1>6. T = Nat
  <2> HIDE DEF BestUpto
  <2>1. QED
    BY <1>4, <1>5, EveryNatural
<1>7. \A k \in Q : k <= Len(venues)
  BY <1>1
<1>8. PICK k \in Q : BestUpto(Len(venues), k)
  <2> HIDE DEF BestUpto
  <2>1. Len(venues) \in T
    BY <1>1, <1>6
  <2>2. QED
    BY <1>7, <2>1 DEF Q
<1>9. QED
  BY <1>7, <1>8 DEF Q, Best

\* The best quote is one of them, and no other pays more.
LEMMA BestQuoteIs ==
  ASSUME NEW venues \in Venues, NEW n \in Nat, Quoting(venues, n) # {}
  PROVE  \E k \in Quoting(venues, n) : BestQuote(venues, n) = venues[k] /\ Best(venues, n, k)
BY BestExists DEF BestQuote

\* What is doubled is a size.
LEMMA DoubledSizes == \A k \in 0..20 : Doubled(k) \in Nat
<1> SUFFICES ASSUME NEW k \in 0..20 PROVE Doubled(k) \in Nat
  OBVIOUS
<1>1. CASE k = 0
  BY <1>1, SeedAssumption DEF Doubled
<1>2. CASE k = 1
  BY <1>2, SeedAssumption DEF Doubled
<1>3. CASE k = 2
  BY <1>3, SeedAssumption DEF Doubled
<1>4. CASE k = 3
  BY <1>4, SeedAssumption DEF Doubled
<1>5. CASE k = 4
  BY <1>5, SeedAssumption DEF Doubled
<1>6. CASE k = 5
  BY <1>6, SeedAssumption DEF Doubled
<1>7. CASE k = 6
  BY <1>7, SeedAssumption DEF Doubled
<1>8. CASE k = 7
  BY <1>8, SeedAssumption DEF Doubled
<1>9. CASE k = 8
  BY <1>9, SeedAssumption DEF Doubled
<1>10. CASE k = 9
  BY <1>10, SeedAssumption DEF Doubled
<1>11. CASE k = 10
  BY <1>11, SeedAssumption DEF Doubled
<1>12. CASE k = 11
  BY <1>12, SeedAssumption DEF Doubled
<1>13. CASE k = 12
  BY <1>13, SeedAssumption DEF Doubled
<1>14. CASE k = 13
  BY <1>14, SeedAssumption DEF Doubled
<1>15. CASE k = 14
  BY <1>15, SeedAssumption DEF Doubled
<1>16. CASE k = 15
  BY <1>16, SeedAssumption DEF Doubled
<1>17. CASE k = 16
  BY <1>17, SeedAssumption DEF Doubled
<1>18. CASE k = 17
  BY <1>18, SeedAssumption DEF Doubled
<1>19. CASE k = 18
  BY <1>19, SeedAssumption DEF Doubled
<1>20. CASE k = 19
  BY <1>20, SeedAssumption DEF Doubled
<1>21. CASE k = 20
  BY <1>21, SeedAssumption DEF Doubled
<1>22. QED
  BY <1>1, <1>2, <1>3, <1>4, <1>5, <1>6, <1>7, <1>8, <1>9, <1>10, <1>11, <1>12, <1>13, <1>14, <1>15, <1>16, <1>17, <1>18, <1>19, <1>20, <1>21

\* A size beyond every venue does not fit.
LEMMA TheDeepEndIsRefused ==
  ASSUME NEW venues \in Venues, NEW n \in Nat, \A k \in DOMAIN venues : venues[k].depth < n,
         NEW most \in Nat, most <= 100000
  PROVE  ~Fits(venues, n, most)
<1>1. Quoting(venues, n) # {} => Exhausted(BestQuote(venues, n), n)
  <2> SUFFICES ASSUME Quoting(venues, n) # {} PROVE Exhausted(BestQuote(venues, n), n)
    OBVIOUS
  <2>1. PICK k \in Quoting(venues, n) : BestQuote(venues, n) = venues[k]
    BY BestQuoteIs
  <2>2. k \in DOMAIN venues
    BY DEF Quoting
  <2>3. QED
    BY <2>1, <2>2, QuoteTypes DEF Exhausted
<1>2. ImpactAt(venues, n) = Unmeasured
  BY <1>1 DEF ImpactAt
<1>3. QED
  BY <1>2 DEF Fits, Unmeasured

\* The doubling ends.
LEMMA TheSearchEnds ==
  ASSUME NEW venues \in Venues, Shallow(venues), NEW most \in Nat, most <= 100000
  PROVE  Doublings(venues, most) \in 0..20
<1> DEFINE Fit(j) == Fits(venues, Doubled(j), most)
           First(k) == ~Fit(k) /\ \A j \in 0..(k - 1) : Fit(j)
           T == {n \in Nat : n > 20 \/ \A j \in 0..n : Fit(j)}
<1>1. ~Fit(20)
  <2>1. Doubled(20) \in Nat
    BY DoubledSizes
  <2>2. QED
    BY <2>1, TheDeepEndIsRefused DEF Shallow
<1> HIDE DEF Fit
<1>2. \E k \in 0..20 : First(k)
  <2> SUFFICES ASSUME \A k \in 0..20 : ~First(k) PROVE FALSE
    OBVIOUS
  <2>1. 0 \in T
    BY DEF First
  <2>2. ASSUME NEW n \in Nat, n \in T PROVE n + 1 \in T
    <3> SUFFICES ASSUME n + 1 <= 20 PROVE \A j \in 0..(n + 1) : Fit(j)
      OBVIOUS
    <3>1. \A j \in 0..n : Fit(j)
      BY <2>2
    <3>2. Fit(n + 1)
      BY <3>1
    <3>3. QED
      BY <3>1, <3>2
  <2>3. T = Nat
    BY <2>1, <2>2, EveryNatural
  <2>4. 20 \in T
    BY <2>3
  <2>5. QED
    BY <1>1, <2>4
<1>3. (CHOOSE k \in 0..20 : First(k)) \in 0..20
  <2> HIDE DEF First
  <2>1. QED
    BY <1>2
<1>4. QED
  BY <1>3 DEF Doublings, Fit

\* A range whose lower end is a size that fits, or none.
Narrows(venues, most, range) ==
  /\ range \in [lo : Nat, hi : Nat]
  /\ range.lo = 0 \/ Fits(venues, range.lo, most)

\* It stays one when it is halved.
LEMMA HalvesNarrow ==
  ASSUME NEW venues, NEW most, NEW range, Narrows(venues, most, range)
  PROVE  Narrows(venues, most, Halved(venues, most, range))
<1>1. (range.lo + range.hi) \div 2 \in Nat
  BY DEF Narrows
<1>2. QED
  BY <1>1 DEF Narrows, Halved

\* A pool's capacity is a size that fits, or none.
LEMMA CapacitiesFit ==
  ASSUME NEW venues \in Venues, Shallow(venues), NEW most \in Nat, most <= 100000
  PROVE  /\ Capacity(venues, most) \in Nat
         /\ Capacity(venues, most) = 0 \/ Fits(venues, Capacity(venues, most), most)
<1> DEFINE hi == Doubled(Doublings(venues, most))
           half == hi \div 2
           first == [lo |-> IF half > 0 /\ ~Fits(venues, half, most) THEN 0 ELSE half, hi |-> hi]
           NextRange(f, i) == IF i = 0 THEN first ELSE Halved(venues, most, f[i - 1])
           Repeated(f) == f = [i \in 0..40 |-> NextRange(f, i)]
           after == CHOOSE f : Repeated(f)
<1>1. venues # <<>> => Capacity(venues, most) = after[40].lo
  BY DEF Capacity
<1>2. venues = <<>> => Capacity(venues, most) = 0
  BY DEF Capacity
<1>3. Narrows(venues, most, first)
  <2>1. hi \in Nat
    BY TheSearchEnds, DoubledSizes
  <2>2. half \in Nat
    BY <2>1
  <2>3. QED
    BY <2>1, <2>2 DEF Narrows
<1> HIDE DEF first
<1>4. \E f : Repeated(f)
  <2> DEFINE S == [lo : Nat, hi : Nat]
             step == [p \in (1 .. 40) \X S |-> Halved(venues, most, p[2])]
  <2>1. first \in S
    BY <1>3 DEF Narrows
  <2>2. \A range \in S : Halved(venues, most, range) \in S
    BY DEF Halved
  <2>3. \A i \in 1 .. 40 : \A x \in S : step[<<i, x>>] = Halved(venues, most, x)
    OBVIOUS
  <2>4. StepsWithin(S, 40, step)
    BY <2>2, <2>3 DEF StepsWithin
  <2> HIDE DEF S, step
  <2>5. PICK f : Repeats(f, S, first, 40, step)
    BY <2>1, <2>4, StepsAreTaken
  <2>6. \A i \in 0 .. 40 : f[i] = NextRange(f, i)
    <3> SUFFICES ASSUME NEW i \in 0 .. 40, i # 0 PROVE f[i] = Halved(venues, most, f[i - 1])
      BY <2>5 DEF Repeats
    <3>1. i \in 1 .. 40 /\ i - 1 \in 0 .. 40 /\ f[i - 1] \in S
      BY <2>5 DEF Repeats
    <3>2. QED
      BY <2>3, <2>5, <3>1 DEF Repeats
  <2> HIDE DEF NextRange
  <2>7. f = [i \in 0 .. 40 |-> NextRange(f, i)]
    BY <2>5, <2>6 DEF Repeats
  <2>8. QED
    BY <2>7
<1>5. Repeated(after)
  <2> HIDE DEF Repeated
  <2>1. QED
    BY <1>4
<1> HIDE DEF after
<1>6. \A i \in 0..40 : after[i] = NextRange(after, i)
  BY <1>5
<1>7. \A i \in 0..40 : Narrows(venues, most, after[i])
  <2> DEFINE T == {m \in Nat : m <= 40 => Narrows(venues, most, after[m])}
  <2>1. 0 \in T
    BY <1>3, <1>6
  <2>2. ASSUME NEW m \in Nat, m \in T PROVE m + 1 \in T
    <3> SUFFICES ASSUME m + 1 <= 40 PROVE Narrows(venues, most, after[m + 1])
      OBVIOUS
    <3>1. after[m + 1] = Halved(venues, most, after[m])
      BY <1>6
    <3>2. QED
      BY <2>2, <3>1, HalvesNarrow
  <2>3. T = Nat
    <3>1. T \subseteq Nat /\ \A m \in Nat : m \in T => m + 1 \in T
      BY <2>2
    <3> HIDE DEF T
    <3>2. QED
      BY ONLY <2>1, <3>1, EveryNatural
  <2>4. QED
    BY <2>3
<1>8. after[40].lo \in Nat /\ (after[40].lo = 0 \/ Fits(venues, after[40].lo, most))
  BY <1>7 DEF Narrows
<1>9. QED
  BY <1>1, <1>2, <1>8

\* What fits is quoted whole by some venue, within the limit.
LEMMA WhatFitsIsQuoted ==
  ASSUME NEW venues \in Venues, NEW most \in Nat, most <= 100000,
         NEW c \in Nat, Fits(venues, c, most)
  PROVE  \E a \in DOMAIN venues : c <= venues[a].depth /\ 10 * Impact(venues[a], c) <= most
<1>1. Quoting(venues, c) # {} /\ ~Exhausted(BestQuote(venues, c), c)
  BY DEF Fits, ImpactAt, Unmeasured
<1>2. PICK a \in Quoting(venues, c) : BestQuote(venues, c) = venues[a]
  BY <1>1, BestQuoteIs
<1>3. 10 * Impact(venues[a], c) <= most
  BY <1>1, <1>2 DEF Fits, ImpactAt
<1>4. a \in DOMAIN venues
  BY <1>2 DEF Quoting
<1>5. venues[a].depth \in Nat
  BY <1>4, QuoteTypes
<1>6. c <= venues[a].depth
  BY <1>1, <1>2, <1>5 DEF Exhausted
<1>7. QED
  BY <1>3, <1>4, <1>6

\* Where the venues agree on the price, the best quote's impact is the least.
LEMMA TheBestIsTheLeast ==
  ASSUME NEW venues \in Venues, Aligned(venues), NEW a \in DOMAIN venues,
         NEW n \in Nat, 0 < n, n <= venues[a].depth
  PROVE  /\ Quoting(venues, n) # {}
         /\ \A k \in Quoting(venues, n) :
              Best(venues, n, k) => Impact(venues[k], n) <= Impact(venues[a], n)
<1>1. Consumed(venues[a], n) = n
  <2>1. venues[a].depth \in Nat
    BY QuoteTypes
  <2>2. QED
    BY <2>1 DEF Consumed, Smaller
<1>2. a \in Quoting(venues, n)
  BY <1>1 DEF Quoting
<1>3. ASSUME NEW k \in Quoting(venues, n), Best(venues, n, k)
      PROVE  Impact(venues[k], n) <= Impact(venues[a], n)
  <2>1. k \in DOMAIN venues
    BY DEF Quoting
  <2>2. venues[k].spot = venues[a].spot
    BY <2>1 DEF Aligned
  <2>3. PICK u \in Nat, x \in Nat, y \in Nat :
          u = Consumed(venues[k], n) /\ x = Average(venues[k], n) /\ y = Average(venues[a], n) /\ u <= n
    <3>1. Consumed(venues[k], n) \in Nat /\ Average(venues[k], n) \in Nat /\ Consumed(venues[k], n) <= n
      BY <2>1, QuoteTypes
    <3>2. Average(venues[a], n) \in Nat
      BY QuoteTypes
    <3>3. QED
      BY <3>1, <3>2
  <2>4. ~MoreOut(venues[a], venues[k], n)
    BY <1>2, <1>3 DEF Best
  <2>5. n * x <= u * y
    <3>1. ~(n * x > u * y) /\ n * x \in Nat /\ u * y \in Nat
      BY <1>1, <2>3, <2>4 DEF MoreOut
    <3>2. QED
      BY <3>1
  <2>6. u * y <= n * y
    BY <2>3, ProductsGrow
  <2>7. x <= y
    <3> SUFFICES ASSUME y + 1 <= x PROVE FALSE
      BY <2>3
    <3>1. (y + 1) * n <= x * n
      BY <2>3, ProductsGrow
    <3>2. (y + 1) * n = n * y + n /\ x * n = n * x /\ n * x \in Nat /\ n * y \in Nat /\ u * y \in Nat
      BY <2>3, SMT
    <3>3. QED
      BY <2>5, <2>6, <3>1, <3>2
  <2>8. /\ x = venues[k].spot + Impact(venues[k], n) /\ venues[k].spot \in Nat /\ Impact(venues[k], n) \in Nat
    BY <2>1, <2>3, QuoteTypes
  <2>9. y = venues[a].spot + Impact(venues[a], n) /\ Impact(venues[a], n) \in Nat
    BY <2>3, QuoteTypes
  <2>10. QED
    BY <2>2, <2>7, <2>8, <2>9
<1>4. QED
  BY <1>2, <1>3

\* A size that is at most one that fits pools which have moved since by no more than the
\* headroom is quoted, and no best quote of it is beyond the guard's limit.
LEMMA HeadroomIsEnough ==
  ASSUME NEW before \in Venues, NEW later \in Venues, Aligned(before), Absorbed(before, later),
         NEW g \in Nat, g <= 10000, NEW c \in Nat, Fits(before, c, PlanningLimit(g)),
         NEW n \in Nat, 0 < n, n <= c
  PROVE  /\ Quoting(later, n) # {}
         /\ \A k \in Quoting(later, n) : Best(later, n, k) => Impact(later[k], n) <= g
<1>1. PICK a \in DOMAIN before : c <= before[a].depth /\ 10 * Impact(before[a], c) <= 9 * g
  <2>1. PlanningLimit(g) = 9 * g /\ 9 * g \in Nat /\ 9 * g <= 100000
    BY DEF PlanningLimit
  <2>2. QED
    BY <2>1, WhatFitsIsQuoted
<1>2. a \in DOMAIN later
  BY DEF Absorbed
<1>3. /\ later[a].spot = before[a].spot /\ later[a].fee = before[a].fee
      /\ later[a].depth >= before[a].depth /\ 9 * later[a].slope <= 10 * before[a].slope
  BY <1>2 DEF Absorbed
<1>4. n <= later[a].depth /\ Consumed(before[a], c) = c /\ Consumed(later[a], n) = n
  <2>1. before[a].depth \in Nat /\ later[a].depth \in Nat
    BY <1>2, QuoteTypes
  <2>2. QED
    BY <1>1, <1>3, <2>1 DEF Consumed, Smaller
<1>5. Impact(later[a], n) <= g
  <2>1. PICK f \in Nat, s \in Nat, t \in Nat : f = before[a].fee /\ s = before[a].slope /\ t = later[a].slope
    <3>1. before[a].fee \in Nat /\ before[a].slope \in Nat
      BY QuoteTypes
    <3>2. later[a].slope \in Nat
      BY <1>2, QuoteTypes
    <3>3. QED
      BY <3>1, <3>2
  <2>2. Impact(later[a], n) = f + t * n /\ Impact(before[a], c) = f + s * c
    BY <1>3, <1>4, <2>1 DEF Impact
  <2>3. (9 * t) * n <= (10 * s) * n
    <3>1. 9 * t \in Nat /\ 10 * s \in Nat /\ 9 * t <= 10 * s
      BY <1>3, <2>1
    <3>2. QED
      BY <3>1, ProductsGrow
  <2>4. n * s <= c * s
    BY <2>1, ProductsGrow
  <2>5. PICK p \in Nat, q \in Nat, r \in Nat : p = t * n /\ q = s * n /\ r = s * c
    BY <2>1, SMT
  <2>6. 9 * p <= 10 * q
    BY <2>1, <2>3, <2>5, SMT
  <2>7. q <= r
    BY <2>1, <2>4, <2>5, SMT
  <2>8. QED
    BY <1>1, <2>1, <2>2, <2>5, <2>6, <2>7
<1>6. Aligned(later)
  BY DEF Aligned, Absorbed
<1>7. QED
  <2>1. Impact(later[a], n) \in Nat
    BY <1>2, QuoteTypes
  <2>2. /\ Quoting(later, n) # {}
        /\ \A k \in Quoting(later, n) : Best(later, n, k) => Impact(later[k], n) <= Impact(later[a], n)
    BY <1>2, <1>4, <1>6, TheBestIsTheLeast
  <2>3. \A k \in Quoting(later, n) : Impact(later[k], n) \in Nat
    BY QuoteTypes DEF Quoting
  <2>4. QED
    BY <1>5, <2>1, <2>2, <2>3

\* A size that is at most one that fits the guard's limit is quoted, within that limit.
LEMMA WithinIsAllowed ==
  ASSUME NEW venues \in Venues, Aligned(venues), NEW g \in Nat, g <= 10000,
         NEW c \in Nat, Fits(venues, c, GuardLimit(g)), NEW n \in Nat, 0 < n, n <= c
  PROVE  /\ Quoting(venues, n) # {}
         /\ \A k \in Quoting(venues, n) : Best(venues, n, k) => Impact(venues[k], n) <= g
<1>1. PICK a \in DOMAIN venues : c <= venues[a].depth /\ 10 * Impact(venues[a], c) <= 10 * g
  <2>1. GuardLimit(g) = 10 * g /\ 10 * g \in Nat /\ 10 * g <= 100000
    BY DEF GuardLimit
  <2>2. QED
    BY <2>1, WhatFitsIsQuoted
<1>2. n <= venues[a].depth /\ Consumed(venues[a], c) = c /\ Consumed(venues[a], n) = n
  <2>1. venues[a].depth \in Nat
    BY QuoteTypes
  <2>2. QED
    BY <1>1, <2>1 DEF Consumed, Smaller
<1>3. Impact(venues[a], n) <= Impact(venues[a], c)
  <2>1. PICK f \in Nat, s \in Nat : f = venues[a].fee /\ s = venues[a].slope
    BY QuoteTypes
  <2>2. Impact(venues[a], n) = f + s * n /\ Impact(venues[a], c) = f + s * c
    BY <1>2, <2>1 DEF Impact
  <2>3. n * s <= c * s
    BY <2>1, ProductsGrow
  <2>4. s * n = n * s /\ s * c = c * s /\ s * n \in Nat /\ s * c \in Nat
    BY <2>1, SMT
  <2>5. QED
    BY <2>1, <2>2, <2>3, <2>4
<1>4. QED
  <2>1. Impact(venues[a], n) \in Nat /\ Impact(venues[a], c) \in Nat
    BY QuoteTypes
  <2>2. /\ Quoting(venues, n) # {}
        /\ \A k \in Quoting(venues, n) : Best(venues, n, k) => Impact(venues[k], n) <= Impact(venues[a], n)
    BY <1>2, TheBestIsTheLeast
  <2>3. \A k \in Quoting(venues, n) : Impact(venues[k], n) \in Nat
    BY QuoteTypes DEF Quoting
  <2>4. QED
    BY <1>1, <1>3, <2>1, <2>2, <2>3

---------------------------------------------------------------------------
(* The board's route.                                                      *)

\* What is being fetched was read within the time a request may last, and what is cached
\* was cached within that time of being read.
FreshlyRead ==
  /\ hour \in Nat
  /\ cache.at \in Int /\ cache.read \in Int /\ cache.at <= hour /\ cache.at <= cache.read + FETCH
  /\ \A r \in Reader : fetching[r].pc = "fetch" =>
       /\ fetching[r].at \in Int /\ fetching[r].at <= hour /\ hour <= fetching[r].at + FETCH

\* The fields of a worker's state.
IsWalk(walk) == DOMAIN walk = {"pc", "entries", "measuredAt", "found", "failed", "lastAt"}

\* What a walk has measured.
Measured == Seq({Entry(f) : f \in Finding})

\* A worker has measured assets, and about to put its board it saw no reason to withhold it
\* in what it found.
Unwithheld ==
  /\ DOMAIN worker = Worker
  /\ \A w \in Worker :
       /\ IsWalk(worker[w]) /\ worker[w].entries \in Measured
       /\ worker[w].pc = "put" =>
            ~ShouldWithhold(PublishableCount(worker[w].entries), worker[w].found)

BoardInv == DOMAIN fetching = Reader /\ FreshlyRead /\ Unwithheld

\* A worker's step is its own.
LEMMA WorksInv ==
  ASSUME BoardInv, NEW w \in Worker, NEW walk, Works(w, walk),
         IsWalk(walk), walk.entries \in Measured,
         walk.pc = "put" => ~ShouldWithhold(PublishableCount(walk.entries), walk.found)
  PROVE  BoardInv'
<1>1. /\ worker' = [worker EXCEPT ![w] = walk] /\ UNCHANGED <<cache, fetching, hour>>
  BY DEF Works
<1>2. Unwithheld'
  BY <1>1 DEF BoardInv, Unwithheld
<1>3. QED
  BY <1>1, <1>2 DEF BoardInv, FreshlyRead

\* Whatever a worker does, it decides on what it found before it puts.
LEMMA WorkerInv ==
  ASSUME BoardInv, NEW w \in Worker,
         Begins(w) \/ Measures(w) \/ WalkFails(w) \/ ReadsArchive(w) \/ Decides(w) \/ Puts(w)
  PROVE  BoardInv'
<1> USE DEF IsWalk
<1>1. IsWalk(worker[w]) /\ worker[w].entries \in Measured
  BY DEF BoardInv, Unwithheld
<1>2. <<>> \in Measured
  BY EmptySeq DEF Measured
<1>3. CASE Works(w, Idle(worker[w].lastAt))
  BY <1>2, <1>3, WorksInv DEF Idle
<1>4. CASE Begins(w)
  <2>1. PICK walk : walk = [Idle(hour) EXCEPT !.pc = "walk", !.measuredAt = hour + 1]
    OBVIOUS
  <2>2. IsWalk(walk) /\ walk.pc = "walk" /\ walk.entries \in Measured
    BY <1>2, <2>1 DEF Idle
  <2>3. QED
    BY <1>4, <2>1, <2>2, WorksInv DEF Begins
<1>5. CASE Measures(w)
  <2>1. PICK f \in Finding : Works(w, [worker[w] EXCEPT !.entries = Append(@, Entry(f))])
    BY <1>5 DEF Measures
  <2>2. Append(worker[w].entries, Entry(f)) \in Measured
    BY <1>1, AppendProperties DEF Measured
  <2>3. worker[w].pc = "walk"
    BY <1>5 DEF Measures
  <2> DEFINE walk == [worker[w] EXCEPT !.entries = Append(@, Entry(f))]
  <2>4. IsWalk(walk) /\ walk.entries \in Measured /\ walk.pc # "put"
    BY <1>1, <2>2, <2>3
  <2> HIDE DEF walk
  <2>5. QED
    BY <2>1, <2>4, WorksInv DEF walk
<1>6. CASE ReadsArchive(w)
  <2>1. CASE Works(w, [worker[w] EXCEPT !.pc = "put"]) /\ PublishableCount(worker[w].entries) > 0
    <3>1. ~ShouldWithhold(PublishableCount(worker[w].entries), worker[w].found)
      BY <2>1 DEF ShouldWithhold
    <3>2. QED
      BY <1>1, <2>1, <3>1, WorksInv
  <2>2. CASE Works(w, [worker[w] EXCEPT !.pc = "decide", !.found = archive])
    BY <1>1, <2>2, WorksInv
  <2>3. CASE Works(w, [worker[w] EXCEPT !.pc = "decide", !.failed = TRUE])
    BY <1>1, <2>3, WorksInv
  <2>4. QED
    BY <1>6, <2>1, <2>2, <2>3 DEF ReadsArchive
<1>7. CASE Decides(w)
  <2>1. CASE Works(w, [worker[w] EXCEPT !.pc = "put"])
             /\ ~ShouldWithhold(PublishableCount(worker[w].entries), worker[w].found)
    BY <1>1, <2>1, WorksInv
  <2>2. QED
    BY <1>3, <1>7, <2>1 DEF Decides
<1>8. QED
  BY <1>3, <1>4, <1>5, <1>6, <1>7 DEF WalkFails, Puts

\* A request fetches, and answers with what it fetched, within its limit.
LEMMA RouteInv ==
  ASSUME BoardInv, BoardHour \/ \E r \in Reader : Hit(r) \/ Fetches(r) \/ Answers(r)
  PROVE  BoardInv'
<1> USE BoardAssumption DEF BoardInv, FreshlyRead
<1>1. UNCHANGED worker
  BY DEF BoardHour, Hit, Fetches, Answers, Site
<1>2. Unwithheld'
  BY <1>1 DEF Unwithheld
<1>3. CASE BoardHour
  BY <1>2, <1>3 DEF BoardHour
<1>4. ASSUME NEW r \in Reader, Hit(r) PROVE BoardInv'
  BY <1>2, <1>4 DEF Hit, Site
<1>5. ASSUME NEW r \in Reader, Fetches(r) PROVE BoardInv'
  <2>1. PICK board \in {Committed} \cup ({archive} \ {NoBoard}) :
          fetching' = [fetching EXCEPT ![r] = [pc |-> "fetch", at |-> hour, board |-> board]]
    BY <1>5 DEF Fetches
  <2>2. UNCHANGED <<cache, hour>>
    BY <1>5 DEF Fetches, Site
  <2>3. QED
    BY <1>2, <2>1, <2>2
<1>6. ASSUME NEW r \in Reader, Answers(r) PROVE BoardInv'
  BY <1>2, <1>6 DEF Answers, Site
<1>7. QED
  BY <1>3, <1>4, <1>5, <1>6

\* Whatever a reader fetches was read within a request's time, and no worker puts a board it
\* saw reason to withhold.
THEOREM TimelyBoard == BoardSpec => []BoardInv
<1>1. BoardInit => BoardInv
  <2>1. <<>> \in Measured
    BY EmptySeq DEF Measured
  <2>2. QED
    BY <2>1, BoardAssumption DEF BoardInit, BoardInv, FreshlyRead, Unwithheld, Idle, IsWalk
<1>2. BoardInv /\ [BoardNext]_boardVars => BoardInv'
  <2>1. CASE UNCHANGED boardVars
    BY <2>1 DEF boardVars, BoardInv, FreshlyRead, Unwithheld
  <2>2. QED
    BY <2>1, WorkerInv, RouteInv DEF BoardNext
<1>3. QED
  BY <1>1, <1>2, PTL DEF BoardSpec

\* A cached answer was read within the cache's life and the time one request may take.
THEOREM AnswersAreRecentHolds == BoardSpec => []AnswersAreRecent
<1>1. BoardInv => AnswersAreRecent
  BY BoardAssumption DEF BoardInv, FreshlyRead, AnswersAreRecent
<1>2. QED
  BY <1>1, TimelyBoard, PTL

\* A board that priced something gives way to one that prices nothing only at the hands of a
\* writer that could not read it, or that looked before it was written.
THEOREM OnlyBlindWritersUnpriceHolds == BoardSpec => OnlyBlindWritersUnprice
<1>1. ASSUME BoardInv, [BoardNext]_boardVars, NEW w \in Worker,
             worker[w].pc = "put", archive' # archive,
             Holds(archive), archive.priced > 0, archive'.writer = w, archive'.priced = 0
      PROVE  worker[w].failed \/ worker[w].found # archive
  <2>1. PICK v \in Worker : Puts(v)
    BY <1>1 DEF BoardNext, boardVars, Begins, Measures, WalkFails, ReadsArchive, Decides,
                Hit, Fetches, Answers, Site, BoardHour
  <2>2. archive' = [measuredAt |-> worker[v].measuredAt, writer |-> v,
                    priced |-> PublishableCount(worker[v].entries),
                    totals |-> Totals(worker[v].entries)]
    BY <1>1, <2>1 DEF Puts
  <2>3. v = w /\ PublishableCount(worker[w].entries) = 0
    BY <1>1, <2>2
  <2>4. ~ShouldWithhold(PublishableCount(worker[w].entries), worker[w].found)
    BY <1>1 DEF BoardInv, Unwithheld
  <2>5. QED
    BY <1>1, <2>3, <2>4 DEF ShouldWithhold
<1>2. BoardInv /\ [BoardNext]_boardVars =>
        [\A w \in Worker :
           /\ worker[w].pc = "put" /\ archive' # archive
           /\ Holds(archive) /\ archive.priced > 0 /\ archive'.writer = w /\ archive'.priced = 0
           => worker[w].failed \/ worker[w].found # archive]_boardVars
  BY <1>1
<1>3. QED
  BY <1>2, TimelyBoard, PTL DEF BoardSpec, OnlyBlindWritersUnprice

\* A size within the capacity that is shown for an asset is quoted, within the guard's limit.
LEMMA ShownCapacityHolds ==
  ASSUME NEW f \in Finding, f.read, Aligned(f.venues), NEW n \in Ladder,
         n <= Capacity(f.venues, GuardLimit(Headline))
  PROVE  Verdict(f, n) \notin {"PRICE_IMPACT", "NO_DATA"}
<1> DEFINE c == Capacity(f.venues, GuardLimit(Headline))
<1>1. f.venues \in Venues /\ Shallow(f.venues) /\ n \in Nat /\ n > 0
  BY BoardAssumption
<1>2. Headline = 50 /\ GuardLimit(Headline) = 500
  BY DEF Headline, Mandate, GuardLimit
<1>3. c \in Nat /\ (c = 0 \/ Fits(f.venues, c, GuardLimit(Headline)))
  BY <1>1, <1>2, CapacitiesFit
<1>4. Fits(f.venues, c, GuardLimit(Headline)) /\ n <= c
  BY <1>1, <1>3
<1> HIDE DEF c
<1>5. /\ Quoting(f.venues, n) # {}
      /\ \A k \in Quoting(f.venues, n) : Best(f.venues, n, k) => Impact(f.venues[k], n) <= Headline
  BY <1>1, <1>2, <1>3, <1>4, WithinIsAllowed
<1>6. PICK k \in Quoting(f.venues, n) : BestQuote(f.venues, n) = f.venues[k] /\ Best(f.venues, n, k)
  BY <1>1, <1>5, BestQuoteIs
<1>7. Impact(BestQuote(f.venues, n), n) \in Nat /\ Impact(BestQuote(f.venues, n), n) <= Headline
  <2>1. k \in DOMAIN f.venues
    BY DEF Quoting
  <2>2. QED
    BY <1>1, <1>5, <1>6, <2>1, QuoteTypes
<1>8. f.venues # <<>>
  BY <1>5 DEF Quoting
<1>9. ~(Impact(BestQuote(f.venues, n), n) > Headline)
  BY <1>2, <1>7
<1>10. QED
  BY <1>5, <1>8, <1>9 DEF Verdict, MirrorVerdict

\* The two things a board says of an asset agree: no size within the capacity it shows is
\* refused for its impact or for want of a pool, as long as the venues agree on the price.
THEOREM RungsAgreeWithTheCapacityHolds == BoardSpec => []RungsAgreeWithTheCapacity
<1>1. BoardInv => RungsAgreeWithTheCapacity
  <2> SUFFICES ASSUME BoardInv, NEW w \in Worker, NEW i \in DOMAIN worker[w].entries
               PROVE  LET e == worker[w].entries[i]
                      IN Aligned(e.venues) => \A n \in DOMAIN e.ladder :
                           n <= e.capacity => e.ladder[n] \notin {"PRICE_IMPACT", "NO_DATA"}
    BY DEF RungsAgreeWithTheCapacity
  <2>1. worker[w].entries \in Measured
    BY DEF BoardInv, Unwithheld
  <2>2. worker[w].entries[i] \in {Entry(f) : f \in Finding}
    BY <2>1, ElementOfSeq, LenProperties DEF Measured
  <2>3. PICK f \in Finding : worker[w].entries[i] = Entry(f)
    BY <2>2
  <2>4. f.read \in BOOLEAN
    BY BoardAssumption
  <2>5. CASE f.read
    <3>1. /\ Entry(f).venues = f.venues /\ Entry(f).capacity = Capacity(f.venues, GuardLimit(Headline))
          /\ Entry(f).ladder = [n \in Ladder |-> Verdict(f, n)]
      BY <2>5 DEF Entry, Absorbs
    <3>2. QED
      BY <2>3, <2>5, <3>1, ShownCapacityHolds
  <2>6. CASE ~f.read
    <3>1. Entry(f).ladder = <<>>
      BY <2>6 DEF Entry
    <3>2. QED
      BY <2>3, <3>1
  <2>7. QED
    BY <2>4, <2>5, <2>6
<1>2. QED
  BY <1>1, TimelyBoard, PTL

---------------------------------------------------------------------------
(* The Safe.                                                               *)

\* A sequence of whatever it holds holds it still when something is appended.
LEMMA LogsGrow ==
  ASSUME NEW s, s \in Seq(Range(s)), NEW e
  PROVE  /\ Append(s, e) \in Seq(Range(Append(s, e)))
         /\ Range(Append(s, e)) = Range(s) \cup {e}
<1> DEFINE S == Range(s) \cup {e}
           t == Append(s, e)
<1>1. s \in Seq(S)
  BY SeqMonotonic
<1>2. /\ t \in Seq(S) /\ Len(t) = Len(s) + 1 /\ t[Len(s) + 1] = e
      /\ \A i \in 1 .. Len(s) : t[i] = s[i]
  BY <1>1, AppendProperties
<1>3. DOMAIN s = 1 .. Len(s) /\ DOMAIN t = 1 .. Len(s) + 1 /\ Len(s) \in Nat
  BY <1>1, <1>2, LenProperties
<1>4. Range(t) = S
  BY <1>2, <1>3 DEF Range
<1>5. QED
  BY <1>2, <1>4


\* A run's fields.
IsAsk(ask) ==
  DOMAIN ask = {"pc", "run", "setting", "value", "yes", "keys", "nonce", "approvals"}

\* The run executed what it asks for, itself.
HasExecuted(ask) ==
  \E e \in Range(executed) : e.run = ask.run /\ e.hash = TxHash(ask, e.hash.nonce)

SafeInv ==
  /\ executed \in Seq(Range(executed))
  /\ DOMAIN asks = Runner
  /\ \A r \in Runner : IsAsk(asks[r]) /\ (asks[r].pc \in {"confirm", "done"} => HasExecuted(asks[r]))

\* The step of one run that executes nothing.
LEMMA AskInv ==
  ASSUME SafeInv, NEW r \in Runner, NEW ask, asks' = [asks EXCEPT ![r] = ask], executed' = executed,
         IsAsk(ask), ask.pc \in {"confirm", "done"} => HasExecuted(ask)
  PROVE  SafeInv'
BY DEF SafeInv, IsAsk, HasExecuted, TxHash

\* Every step of a run of the administration script keeps the invariant.
LEMMA RunnerInv ==
  ASSUME SafeInv, NEW r \in Runner,
         \/ Starts(r) \/ ReadsState(r) \/ BuildsCall(r) \/ ReadsApprovals(r) \/ Approves(r)
         \/ CountsApprovals(r) \/ Executes(r) \/ ConfirmsChange(r) \/ Aborts(r)
  PROVE  SafeInv'
<1> USE DEF IsAsk
<1>1. IsAsk(asks[r]) /\ (asks[r].pc \in {"confirm", "done"} => HasExecuted(asks[r]))
  BY DEF SafeInv
<1>2. CASE Starts(r)
  <2>1. PICK request \in Request, keys \in SUBSET Owner :
          asks' = [asks EXCEPT ![r] = [NoAsk EXCEPT
                  !.pc = "state", !.run = starts + 1, !.setting = request.setting, !.value = request.value,
                  !.yes = request.yes, !.keys = keys]]
    BY <1>2 DEF Starts
  <2>2. PICK ask : ask = [NoAsk EXCEPT
                  !.pc = "state", !.run = starts + 1, !.setting = request.setting, !.value = request.value,
                  !.yes = request.yes, !.keys = keys]
    OBVIOUS
  <2>3. IsAsk(ask) /\ ask.pc = "state" /\ asks' = [asks EXCEPT ![r] = ask] /\ executed' = executed
    BY <1>2, <2>1, <2>2 DEF NoAsk, Starts
  <2>4. QED
    BY <2>3, AskInv
<1>3. ASSUME NEW pc, pc \notin {"confirm", "done"}, Becomes(r, pc), executed' = executed PROVE SafeInv'
  BY <1>1, <1>3, AskInv DEF Becomes
<1>4. CASE ReadsState(r)
  <2>1. PICK s \in Serving!Served : asks' = [asks EXCEPT ![r].nonce = s.nonce, ![r].pc = "current"]
    BY <1>4 DEF ReadsState
  <2>2. PICK ask : ask = [asks[r] EXCEPT !.nonce = s.nonce, !.pc = "current"]
    OBVIOUS
  <2>3. IsAsk(ask) /\ ask.pc = "current" /\ asks' = [asks EXCEPT ![r] = ask] /\ executed' = executed
    BY <1>1, <1>4, <2>1, <2>2 DEF ReadsState, SafeInv
  <2>4. QED
    BY <2>3, AskInv
<1>5. CASE BuildsCall(r)
  BY <1>5, <1>3 DEF BuildsCall
<1>6. CASE ReadsApprovals(r)
  <2>1. PICK approvals : asks' = [asks EXCEPT ![r].approvals = approvals, ![r].pc = "approve"]
    BY <1>6 DEF ReadsApprovals
  <2>2. PICK ask : ask = [asks[r] EXCEPT !.approvals = approvals, !.pc = "approve"]
    OBVIOUS
  <2>3. IsAsk(ask) /\ ask.pc = "approve" /\ asks' = [asks EXCEPT ![r] = ask] /\ executed' = executed
    BY <1>1, <1>6, <2>1, <2>2 DEF ReadsApprovals, SafeInv
  <2>4. QED
    BY <2>3, AskInv
<1>7. CASE Approves(r)
  <2>1. PICK o : asks' = [asks EXCEPT ![r].approvals = @ \cup {o}]
    BY <1>7 DEF Approves
  <2>2. PICK ask : ask = [asks[r] EXCEPT !.approvals = @ \cup {o}]
    OBVIOUS
  <2>3. IsAsk(ask) /\ ask.pc = "approve" /\ asks' = [asks EXCEPT ![r] = ask] /\ executed' = executed
    BY <1>1, <1>7, <2>1, <2>2 DEF Approves, SafeInv
  <2>4. QED
    BY <2>3, AskInv
<1>8. CASE CountsApprovals(r)
  BY <1>8, <1>3 DEF CountsApprovals
<1>9. CASE Executes(r)
  <2> PICK sender \in Sender :
        /\ asks[r].pc = "execute"
        /\ Becomes(r, AfterReceipt(Executable(asks[r], settings, sender)))
        /\ IF Executable(asks[r], settings, sender)
           THEN executed' = Append(executed, [run |-> asks[r].run, hash |-> TxHash(asks[r], settings.nonce)])
           ELSE executed' = executed
    BY <1>9 DEF Executes
  <2>1. CASE Executable(asks[r], settings, sender)
    <3>1. /\ asks' = [asks EXCEPT ![r].pc = "confirm"]
          /\ executed' = Append(executed, [run |-> asks[r].run, hash |-> TxHash(asks[r], settings.nonce)])
      BY <2>1 DEF Becomes, AfterReceipt
    <3>2. /\ executed' \in Seq(Range(executed')) /\ Range(executed) \subseteq Range(executed')
          /\ [run |-> asks[r].run, hash |-> TxHash(asks[r], settings.nonce)] \in Range(executed')
      BY <3>1, LogsGrow DEF SafeInv
    <3>3. \A q \in Runner \ {r} : asks'[q] = asks[q]
      BY <3>1
    <3>4. /\ IsAsk(asks'[r]) /\ asks'[r].run = asks[r].run
          /\ asks'[r].setting = asks[r].setting /\ asks'[r].value = asks[r].value
      BY <1>1, <3>1 DEF SafeInv
    <3>5. HasExecuted(asks[r])'
      BY <3>2, <3>4 DEF HasExecuted, TxHash
    <3>6. \A q \in Runner \ {r} : HasExecuted(asks[q]) => HasExecuted(asks[q])'
      BY <3>2, <3>3 DEF HasExecuted, TxHash
    <3>7. QED
      BY <3>1, <3>2, <3>3, <3>4, <3>5, <3>6 DEF SafeInv
  <2>2. CASE ~Executable(asks[r], settings, sender)
    BY <1>3, <2>2 DEF AfterReceipt
  <2>3. QED
    BY <2>1, <2>2
<1>10. CASE ConfirmsChange(r)
  <2>1. PICK ask : ask = [asks[r] EXCEPT !.pc = "done"]
    OBVIOUS
  <2>2. /\ IsAsk(ask) /\ asks' = [asks EXCEPT ![r] = ask] /\ executed' = executed
        /\ ask.run = asks[r].run /\ ask.setting = asks[r].setting /\ ask.value = asks[r].value
        /\ HasExecuted(asks[r])
    BY <1>1, <1>10, <2>1 DEF ConfirmsChange, Becomes
  <2>3. HasExecuted(ask)
    BY <2>2 DEF HasExecuted, TxHash
  <2>4. QED
    BY <2>2, <2>3, AskInv
<1>11. CASE Aborts(r)
  BY <1>11, <1>3 DEF Aborts, Ends
<1>12. QED
  BY <1>2, <1>4, <1>5, <1>6, <1>7, <1>8, <1>9, <1>10, <1>11

\* Whatever a run saw executed is the transaction it asked for, under the nonce it asked at.
THEOREM SafelyAsked == SafeSpec => []SafeInv
<1>1. SafeInit => SafeInv
  <2> SUFFICES ASSUME SafeInit PROVE SafeInv
    OBVIOUS
  <2>1. executed = <<>> /\ asks = [r \in Runner |-> NoAsk]
    BY DEF SafeInit
  <2>2. executed \in Seq(Range(executed))
    BY <2>1, EmptySeq
  <2>3. QED
    BY <2>1, <2>2 DEF SafeInv, NoAsk, IsAsk
<1>2. SafeInv /\ [SafeNext]_safeVars => SafeInv'
  <2>1. CASE SafeSyncs \/ UNCHANGED safeVars
    BY <2>1 DEF SafeSyncs, safeVars, SafeInv, HasExecuted, IsAsk, TxHash
  <2>2. QED
    BY <2>1, RunnerInv DEF SafeNext
<1>3. QED
  BY <1>1, <1>2, PTL DEF SafeSpec

\* A run that reports its change confirmed had it executed, by itself, as it asked for it.
THEOREM ConfirmedChangesAreTheRunsHolds == SafeSpec => []ConfirmedChangesAreTheRuns
<1>1. SafeInv => ConfirmedChangesAreTheRuns
  BY DEF SafeInv, HasExecuted, ConfirmedChangesAreTheRuns
<1>2. QED
  BY <1>1, SafelyAsked, PTL
---------------------------------------------------------------------------
(* The basket.                                                             *)

\* A quotient is within the factor it was bounded by.
LEMMA QuotientsAreFloors ==
  ASSUME NEW x \in Nat, NEW f \in Nat \ {0}, NEW m \in Nat, x <= m * f
  PROVE  x \div f \in Nat /\ x \div f <= m
<1>1. x = (x \div f) * f + (x % f) /\ x % f \in 0 .. f - 1 /\ x \div f \in Int
  OBVIOUS
<1>2. x \div f >= 0
  BY <1>1, Z3
<1>3. ASSUME x \div f >= m + 1 PROVE FALSE
  <2>1. (m + 1) * f <= (x \div f) * f
    BY <1>1, <1>3, <1>2, ProductsGrow
  <2>2. (m + 1) * f = m * f + f
    OBVIOUS
  <2>3. QED
    BY <1>1, <2>1, <2>2
<1>4. QED
  BY <1>1, <1>2, <1>3

\* What the mirror allows at a price the contract allows at that price, had it stored the
\* report: the engine's tolerance in half basis points is no more than the contract's,
\* rounded up, and the deviation is rounded down.
LEMMA TheMirrorIsNoLaxer ==
  ASSUME NEW r \in Report, NEW price \in Nat, NEW impact, NEW most,
         MirrorVerdict(Told(r), price, impact, most) = "OK", r.chain # "unread"
  PROVE  /\ r.chain # "none"
         /\ CheckExecution(Payload(r, r.chain = "withheld"), 1, 0, price,
                           Mandate.maxGapRisk, Mandate.maxDeviationBps) = "OK"
<1> DEFINE f == r.fairValue
           c == r.confidence
           d == AbsDiff(price, f)
           p == Payload(r, r.chain = "withheld")
<1>1. /\ f \in Nat /\ c \in Nat /\ r.gapRisk \in Nat /\ r.publishable \in BOOLEAN
      /\ r.chain \in {"valued", "withheld", "unread", "none"}
      /\ r = [fairValue |-> f, confidence |-> c, gapRisk |-> r.gapRisk,
              publishable |-> r.publishable, chain |-> r.chain]
  BY PlanAssumption
<1>2. /\ Told(r).fairValue = f /\ Told(r).confidence = c /\ Told(r).gapRisk = r.gapRisk
      /\ Told(r).publishable <=> r.publishable /\ r.chain \notin {"none", "withheld"}
  BY <1>1 DEF Told
<1>3. /\ r.publishable /\ r.chain = "valued" /\ f # 0 /\ r.gapRisk <= 60
      /\ ~(d * 20000 > (200 + c) * f)
  BY <1>1, <1>2 DEF MirrorVerdict, Mandate
<1>4. d \in Nat /\ AbsDiff(f, price) = d
  BY <1>1 DEF AbsDiff
<1>5. PICK m \in Nat : m = 100 + ((c + 1) \div 2) /\ 200 + c <= 2 * m
  <2>1. (c + 1) \div 2 \in Nat /\ c <= 2 * ((c + 1) \div 2)
    BY <1>1
  <2>2. QED
    BY <1>1, <2>1
<1>6. d * 10000 <= m * f
  <2>1. (200 + c) * f <= (2 * m) * f
    BY <1>1, <1>5, ProductsGrow
  <2>2. (2 * m) * f = 2 * (m * f) /\ m * f \in Nat /\ (200 + c) * f \in Nat
    BY <1>1, <1>5
  <2>3. QED
    BY <1>3, <1>4, <2>1, <2>2
<1>7. Bps(f, price) <= m /\ Bps(f, price) \in Nat
  BY <1>1, <1>3, <1>4, <1>5, <1>6, QuotientsAreFloors DEF Bps
<1>8. /\ p.fairValueE8 = f /\ p.hasValue /\ p.gapRisk = r.gapRisk
      /\ p.confidenceBps = (c + 1) \div 2 /\ p.updatedAt = 1
  <2>1. p.hasValue = (r.publishable /\ ~(r.chain = "withheld"))
    BY DEF Payload, NoObservation
  <2>2. (r.publishable /\ ~(r.chain = "withheld")) = TRUE
    BY <1>1, <1>3
  <2>3. p.hasValue = TRUE
    BY <2>1, <2>2, Zenon
  <2>4. QED
    BY <2>3 DEF Payload, NoObservation
<1>9. HasData(p) /\ Fresh(p, 1, 0)
  BY <1>8 DEF HasData, Fresh
<1>10. Mandate.maxGapRisk = 60 /\ Mandate.maxDeviationBps = 100
  BY DEF Mandate
<1>11. ~(p.gapRisk > Mandate.maxGapRisk)
       /\ ~(Bps(p.fairValueE8, price) > Mandate.maxDeviationBps + p.confidenceBps)
  BY <1>1, <1>3, <1>5, <1>7, <1>8, <1>10
<1>12. CheckExecution(p, 1, 0, price, Mandate.maxGapRisk, Mandate.maxDeviationBps) = "OK"
  BY <1>3, <1>8, <1>9, <1>11 DEF CheckExecution
<1>13. QED
  BY <1>3, <1>12

\* A verdict that lets its leg through is one the contract agrees with.
Agreed(v) ==
  v.reason = "OK" /\ v.report.chain # "unread" =>
    /\ v.report.chain # "none"
    /\ CheckExecution(Payload(v.report, v.report.chain = "withheld"), 1, 0, v.price,
                      Mandate.maxGapRisk, Mandate.maxDeviationBps) = "OK"

\* A verdict is on a line's size, and a line is refused for its impact only if that of its
\* best quote is beyond the limit.
JudgedAt(i) ==
  LET v == verdicts[i]
  IN /\ v.venues \in Pools /\ v.size = IF lines[i] > 1 THEN lines[i] ELSE 1
     /\ v.reason = "PRICE_IMPACT" =>
          \E k \in Quoting(v.venues, v.size) :
            Best(v.venues, v.size, k) /\ Impact(v.venues[k], v.size) > limit

\* Pools are read asset by asset.
ReadInv ==
  /\ legs \in Legs /\ notional \in Nat /\ limit \in Nat /\ limit <= 50
  /\ DOMAIN pools = {legs[i].asset : i \in DOMAIN legs} /\ \A a \in DOMAIN pools : pools[a] \in Pools
  /\ walked \in Seq(Pools) /\ Len(walked) <= Len(legs)

\* Lines follow their legs, once all pools are read, and fit.
LinesInv ==
  /\ \/ lines = <<>> /\ verdicts = <<>>
     \/ DOMAIN lines = 1 .. Len(legs) /\ Len(lines) = Len(legs) /\ Len(walked) = Len(legs)
  /\ \A i \in DOMAIN lines : lines[i] \in Nat /\ lines[i] <= Capacity(VenuesOf(i), PlanningLimit(limit))
  /\ CapitalGoesWhereItFits

\* Verdicts follow the lines.
VerdictsInv ==
  /\ verdicts \in Seq(Range(verdicts)) /\ Len(verdicts) <= Len(lines)
  /\ \A i \in DOMAIN verdicts : Agreed(verdicts[i]) /\ JudgedAt(i)

PlanInv == ReadInv /\ LinesInv /\ VerdictsInv

\* What an allocation gives to a leg, and what there is room for.
Given(targets, sized, i) == sized.allocation[targets[i].asset]
Room(target, cap, total) == Smaller(cap, Ceiling(target, total))

Unshared(targets) == \A i, j \in DOMAIN targets : targets[i].asset = targets[j].asset => i = j

\* An allocation whose freed capital was offered to the first m legs.
HandedOut(targets, caps, total, m, sized) ==
  /\ sized \in [allocation : [{targets[i].asset : i \in DOMAIN targets} -> Int], freed : Nat]
  /\ \A i \in DOMAIN targets : Given(targets, sized, i) \in Nat /\ Given(targets, sized, i) <= caps[i]
  /\ Unshared(targets) =>
       /\ SumFunction([i \in DOMAIN targets |-> Given(targets, sized, i)]) + sized.freed
            = SumFunction([i \in DOMAIN targets |-> Naive(targets[i], total)])
       /\ \A i \in DOMAIN targets :
            /\ Given(targets, sized, i) <= Room(targets[i], caps[i], total)
            /\ sized.freed > 0 /\ i <= m => Given(targets, sized, i) = Room(targets[i], caps[i], total)

\* A basket's capacities: those of one asset are one.
Caps(targets, caps) ==
  /\ caps \in [DOMAIN targets -> Nat]
  /\ \A i, j \in DOMAIN targets : targets[i].asset = targets[j].asset => caps[i] = caps[j]

\* Weights give amounts, and the ceiling is not below them.
LEMMA WeightsAreAmounts ==
  ASSUME NEW targets \in Legs, NEW total \in Nat, NEW i \in DOMAIN targets
  PROVE  /\ Naive(targets[i], total) \in Nat /\ Ceiling(targets[i], total) \in Nat
         /\ Naive(targets[i], total) <= Ceiling(targets[i], total)
<1>1. targets[i].weightBps \in Nat
  BY PlanAssumption
<1>2. PICK p \in Nat : p = total * targets[i].weightBps
  BY <1>1, SMT
<1>3. p \div 10000 \in Nat /\ (p * 2) \div 10000 \in Nat /\ p \div 10000 <= (p * 2) \div 10000
  OBVIOUS
<1>4. QED
  BY <1>2, <1>3 DEF Naive, Ceiling

\* What a leg takes of the freed capital is what there is room for, or all of it.
LEMMA TakesFit ==
  ASSUME NEW leg, NEW cap \in Nat, NEW current \in Nat, NEW freed \in Nat, NEW total,
         Ceiling(leg, total) \in Nat
  PROVE  LET take == Take(leg, cap, current, freed, total)
             room == Room(leg, cap, total)
         IN /\ take \in Nat /\ take <= freed
            /\ take > 0 => current + take <= room
            /\ room <= cap
            /\ current <= room /\ freed - take > 0 => current + take = room
BY DEF Take, Room, Smaller

\* Every leg is capped, and what is cut off is freed.
LEMMA CappingFits ==
  ASSUME NEW targets \in Legs, NEW total \in Nat, NEW caps, Caps(targets, caps), NEW sized,
         NEW capped \in [DOMAIN targets -> Nat],
         \A i \in DOMAIN targets : capped[i] = Smaller(Naive(targets[i], total), caps[i]),
         sized = [allocation |-> [a \in {targets[i].asset : i \in DOMAIN targets} |->
                                    capped[Max({i \in DOMAIN targets : targets[i].asset = a})]],
                  freed |-> SumFunction([i \in DOMAIN targets |-> Naive(targets[i], total) - capped[i]])]
  PROVE  HandedOut(targets, caps, total, 0, sized)
<1> DEFINE Latter(i) == Max({j \in DOMAIN targets : targets[j].asset = targets[i].asset})
<1>0. PICK n, freed : /\ n = Len(targets)
                      /\ freed = [i \in DOMAIN targets |-> Naive(targets[i], total) - capped[i]]
  OBVIOUS
<1>1. n \in Nat /\ DOMAIN targets = 1 .. n /\ IsFiniteSet(1 .. n)
  BY <1>0, PlanAssumption, FS_Interval
<1>2. ASSUME NEW i \in DOMAIN targets
      PROVE  Latter(i) \in DOMAIN targets /\ targets[Latter(i)].asset = targets[i].asset
  <2>1. PICK same : same = {j \in DOMAIN targets : targets[j].asset = targets[i].asset}
    OBVIOUS
  <2>2. same \subseteq 1 .. n /\ same # {}
    BY <1>1, <2>1
  <2>3. Max(same) \in same
    <3>1. 1 \in Int /\ n \in Int
      BY <1>1
    <3>2. QED
      BY ONLY <2>2, <3>1, ExtremesAreMembers
  <2>4. QED
    BY <2>1, <2>3
<1> HIDE DEF Latter
<1>3. \A i \in DOMAIN targets :
        /\ capped[i] <= caps[i] /\ capped[i] <= Room(targets[i], caps[i], total)
        /\ freed[i] \in Nat /\ Naive(targets[i], total) = capped[i] + freed[i]
        /\ Naive(targets[i], total) \in Nat
  <2> SUFFICES ASSUME NEW i \in DOMAIN targets
               PROVE  /\ capped[i] <= caps[i] /\ capped[i] <= Room(targets[i], caps[i], total)
                      /\ freed[i] \in Nat /\ Naive(targets[i], total) = capped[i] + freed[i]
                      /\ Naive(targets[i], total) \in Nat
    OBVIOUS
  <2>1. /\ Naive(targets[i], total) \in Nat /\ Ceiling(targets[i], total) \in Nat
        /\ Naive(targets[i], total) <= Ceiling(targets[i], total)
    BY WeightsAreAmounts
  <2>2. caps[i] \in Nat /\ capped[i] = Smaller(Naive(targets[i], total), caps[i])
    BY DEF Caps
  <2>3. freed[i] = Naive(targets[i], total) - capped[i]
    BY <1>0
  <2>4. QED
    BY <2>1, <2>2, <2>3 DEF Smaller, Room
<1>4. \A i \in DOMAIN targets : Given(targets, sized, i) = capped[Latter(i)]
  BY DEF Given, Latter
<1>5. \A i \in DOMAIN targets : Given(targets, sized, i) \in Nat /\ Given(targets, sized, i) <= caps[i]
  BY <1>2, <1>3, <1>4 DEF Caps
<1>6. sized.freed = SumFunctionOnSet(freed, 1 .. n) /\ sized.freed \in Nat
  <2>1. sized.freed = SumFunctionOnSet(freed, 1 .. n)
    BY <1>0, <1>1 DEF SumFunction
  <2>2. \A i \in 1 .. n : freed[i] \in Nat
    BY <1>1, <1>3
  <2>3. QED
    BY <1>1, <2>1, <2>2, SumIsNat
<1>7. ASSUME Unshared(targets)
      PROVE  /\ SumFunction([i \in DOMAIN targets |-> Given(targets, sized, i)]) + sized.freed
                  = SumFunction([i \in DOMAIN targets |-> Naive(targets[i], total)])
             /\ \A i \in DOMAIN targets : Given(targets, sized, i) <= Room(targets[i], caps[i], total)
  <2>1. \A i \in DOMAIN targets : Given(targets, sized, i) = capped[i]
    BY <1>2, <1>4, <1>7 DEF Unshared
  <2>2. PICK given, naive : /\ given = [i \in DOMAIN targets |-> Given(targets, sized, i)]
                            /\ naive = [i \in DOMAIN targets |-> Naive(targets[i], total)]
    OBVIOUS
  <2>3. \A i \in 1 .. n : given[i] \in Int /\ freed[i] \in Int /\ naive[i] = given[i] + freed[i]
    <3>1. \A i \in 1 .. n : given[i] = capped[i] /\ naive[i] = Naive(targets[i], total)
      BY <1>1, <2>1, <2>2
    <3>2. \A i \in 1 .. n : capped[i] \in Nat /\ freed[i] \in Nat /\ Naive(targets[i], total) = capped[i] + freed[i]
      BY <1>1, <1>3
    <3>3. QED
      BY ONLY <3>1, <3>2
  <2>4. SumFunction(given) = SumFunctionOnSet(given, 1 .. n) /\ SumFunction(naive) = SumFunctionOnSet(naive, 1 .. n)
    BY <1>1, <2>2 DEF SumFunction
  <2>5. SumFunctionOnSet(naive, 1 .. n) = SumFunctionOnSet(given, 1 .. n) + SumFunctionOnSet(freed, 1 .. n)
    BY <1>1, <2>3, SumOfSums
  <2>6. SumFunction(given) + sized.freed = SumFunction(naive)
    BY <1>6, <2>4, <2>5
  <2>7. QED
    BY <1>3, <2>1, <2>2, <2>6
<1>8. sized \in [allocation : [{targets[i].asset : i \in DOMAIN targets} -> Int], freed : Nat]
  <2>1. \A a \in {targets[i].asset : i \in DOMAIN targets} :
          capped[Max({i \in DOMAIN targets : targets[i].asset = a})] \in Int
    BY <1>2 DEF Latter
  <2>2. QED
    BY <1>6, <2>1
<1>9. \A i \in DOMAIN targets : ~(i <= 0)
  BY <1>1
<1>10. QED
  BY <1>5, <1>7, <1>8, <1>9 DEF HandedOut

\* What an allocation is when the next leg has taken its share of what was freed.
Served(targets, caps, total, i, sized) ==
  LET a == targets[i].asset
      take == Take(targets[i], caps[i], sized.allocation[a], sized.freed, total)
  IN [allocation |-> [sized.allocation EXCEPT ![a] = @ + take], freed |-> sized.freed - take]

\* One leg after the other, the freed capital goes where there is room.
LEMMA ServingFits ==
  ASSUME NEW targets \in Legs, NEW total \in Nat, NEW caps, Caps(targets, caps), NEW sized,
         NEW m \in DOMAIN targets, HandedOut(targets, caps, total, m - 1, sized)
  PROVE  HandedOut(targets, caps, total, m, Served(targets, caps, total, m, sized))
<1>1. PICK n, next, take, current, room :
        /\ n = Len(targets) /\ next = Served(targets, caps, total, m, sized)
        /\ current = Given(targets, sized, m) /\ room = Room(targets[m], caps[m], total)
        /\ take = Take(targets[m], caps[m], current, sized.freed, total)
  OBVIOUS
<1>2. n \in Nat /\ DOMAIN targets = 1 .. n /\ IsFiniteSet(1 .. n) /\ m \in Nat
  BY <1>1, PlanAssumption, FS_Interval
<1>3. /\ sized.allocation \in [{targets[i].asset : i \in DOMAIN targets} -> Int] /\ sized.freed \in Nat
      /\ \A i \in DOMAIN targets : Given(targets, sized, i) \in Nat /\ Given(targets, sized, i) <= caps[i]
  BY DEF HandedOut
<1>4. caps[m] \in Nat /\ current \in Nat /\ current <= caps[m]
  BY <1>1, <1>3 DEF Caps
<1>5. /\ take \in Nat /\ take <= sized.freed
      /\ take > 0 => current + take <= room
      /\ room <= caps[m]
      /\ current <= room /\ sized.freed - take > 0 => current + take = room
  <2>1. Ceiling(targets[m], total) \in Nat
    BY WeightsAreAmounts
  <2>2. QED
    BY <1>1, <1>3, <1>4, <2>1, TakesFit
<1>6. /\ next.allocation = [sized.allocation EXCEPT ![targets[m].asset] = current + take]
      /\ next.freed = sized.freed - take
  BY <1>1 DEF Served, Given
<1>7. next \in [allocation : [{targets[i].asset : i \in DOMAIN targets} -> Int], freed : Nat]
  <2>1. current + take \in Int /\ sized.freed - take \in Nat
    BY <1>3, <1>4, <1>5
  <2>2. next.allocation \in [{targets[i].asset : i \in DOMAIN targets} -> Int]
    BY <1>3, <1>6, <2>1
  <2>3. next = [allocation |-> next.allocation, freed |-> next.freed]
    BY <1>1 DEF Served
  <2>4. QED
    BY <1>6, <2>1, <2>2, <2>3
<1>8. \A i \in DOMAIN targets :
        Given(targets, next, i) = IF targets[i].asset = targets[m].asset THEN current + take
                                  ELSE Given(targets, sized, i)
  BY <1>3, <1>6 DEF Given
<1>9. \A i \in DOMAIN targets : Given(targets, next, i) \in Nat /\ Given(targets, next, i) <= caps[i]
  <2>1. current + take \in Nat /\ current + take <= caps[m]
    <3>1. room \in Int
      <4>1. Ceiling(targets[m], total) \in Nat
        BY WeightsAreAmounts
      <4>2. QED
        BY <1>1, <1>4, <4>1 DEF Room, Smaller
    <3>2. QED
      BY <1>4, <1>5, <3>1
  <2>2. \A i \in DOMAIN targets : targets[i].asset = targets[m].asset => caps[i] = caps[m]
    BY DEF Caps
  <2>3. QED
    BY <1>3, <1>8, <2>1, <2>2
<1>10. ASSUME Unshared(targets)
       PROVE  /\ SumFunction([i \in DOMAIN targets |-> Given(targets, next, i)]) + next.freed
                   = SumFunction([i \in DOMAIN targets |-> Naive(targets[i], total)])
              /\ \A i \in DOMAIN targets :
                   /\ Given(targets, next, i) <= Room(targets[i], caps[i], total)
                   /\ next.freed > 0 /\ i <= m => Given(targets, next, i) = Room(targets[i], caps[i], total)
  <2>1. \A i \in DOMAIN targets :
          Given(targets, next, i) = IF i = m THEN current + take ELSE Given(targets, sized, i)
    BY <1>1, <1>8, <1>10 DEF Unshared
  <2>2. \A i \in DOMAIN targets :
          /\ Given(targets, sized, i) <= Room(targets[i], caps[i], total)
          /\ sized.freed > 0 /\ i <= m - 1 => Given(targets, sized, i) = Room(targets[i], caps[i], total)
    BY <1>10 DEF HandedOut
  <2>3. current <= room
    BY <1>1, <2>2
  <2>4. \A i \in DOMAIN targets :
          /\ Given(targets, next, i) <= Room(targets[i], caps[i], total)
          /\ next.freed > 0 /\ i <= m => Given(targets, next, i) = Room(targets[i], caps[i], total)
    <3> SUFFICES ASSUME NEW i \in DOMAIN targets
                 PROVE  /\ Given(targets, next, i) <= Room(targets[i], caps[i], total)
                        /\ next.freed > 0 /\ i <= m =>
                             Given(targets, next, i) = Room(targets[i], caps[i], total)
      OBVIOUS
    <3>1. CASE i = m
      BY <1>1, <1>4, <1>5, <1>6, <2>1, <2>3, <3>1
    <3>2. CASE i # m
      <4>1. Given(targets, next, i) = Given(targets, sized, i)
        BY <2>1, <3>2
      <4>2. i <= m => i <= m - 1
        BY <1>2, <3>2
      <4>3. next.freed > 0 => sized.freed > 0
        BY <1>3, <1>5, <1>6
      <4>4. QED
        BY <2>2, <4>1, <4>2, <4>3
    <3>3. QED
      BY <3>1, <3>2
  <2>5. PICK before, after, rest : /\ before = [i \in DOMAIN targets |-> Given(targets, sized, i)]
                                   /\ after = [i \in DOMAIN targets |-> Given(targets, next, i)]
                                   /\ rest = (1 .. n) \ {m}
    OBVIOUS
  <2>6. /\ \A i \in 1 .. n : before[i] \in Int /\ after[i] \in Int
        /\ \A i \in rest : before[i] = after[i]
        /\ before[m] = current /\ after[m] = current + take
    <3>1. \A i \in 1 .. n : before[i] = Given(targets, sized, i) /\ after[i] = Given(targets, next, i)
      BY <1>2, <2>5
    <3>2. \A i \in 1 .. n : Given(targets, sized, i) \in Int /\ Given(targets, next, i) \in Int
      BY <1>2, <1>3, <1>9
    <3>3. QED
      BY <1>1, <1>2, <2>1, <2>5, <3>1, <3>2
  <2>7. IsFiniteSet(rest) /\ m \in 1 .. n /\ rest \subseteq 1 .. n
    BY <1>2, <2>5, FS_Subset
  <2>8. /\ SumFunctionOnSet(before, 1 .. n) = before[m] + SumFunctionOnSet(before, rest)
        /\ SumFunctionOnSet(after, 1 .. n) = after[m] + SumFunctionOnSet(after, rest)
    <3>1. \A f : (\A i \in 1 .. n : f[i] \in Int) =>
            SumFunctionOnSet(f, 1 .. n) = f[m] + SumFunctionOnSet(f, (1 .. n) \ {m})
      BY ONLY <1>2, <2>7, SumWithout
    <3>2. QED
      BY <2>5, <2>6, <3>1
  <2>9. SumFunctionOnSet(before, rest) = SumFunctionOnSet(after, rest) /\ SumFunctionOnSet(before, rest) \in Int
    BY <2>6, <2>7, SumOfTheSame, SumIsInt
  <2>10. SumFunction(before) = SumFunctionOnSet(before, 1 .. n) /\ SumFunction(after) = SumFunctionOnSet(after, 1 .. n)
    BY <1>2, <2>5 DEF SumFunction
  <2>11. SumFunction(after) + next.freed = SumFunction(before) + sized.freed
    BY <1>3, <1>4, <1>5, <1>6, <2>6, <2>8, <2>9, <2>10
  <2>12. SumFunction(before) + sized.freed = SumFunction([i \in DOMAIN targets |-> Naive(targets[i], total)])
    BY <1>10, <2>5 DEF HandedOut
  <2>13. QED
    BY <2>4, <2>5, <2>11, <2>12
<1>11. QED
  BY <1>1, <1>7, <1>9, <1>10 DEF HandedOut

\* Whatever is allocated adds up, fits, and is not given where there is no room for it.
LEMMA AllocationsFit ==
  ASSUME NEW targets \in Legs, NEW total \in Nat, NEW caps, Caps(targets, caps)
  PROVE  HandedOut(targets, caps, total, Len(targets), Allocate(targets, caps, total))
<1> DEFINE n == Len(targets)
           Capped(i) == Smaller(Naive(targets[i], total), caps[i])
           first == [allocation |-> [a \in {targets[i].asset : i \in 1 .. n} |->
                                       Capped(Max({i \in 1 .. n : targets[i].asset = a}))],
                     freed |-> SumFunction([i \in 1 .. n |-> Naive(targets[i], total) - Capped(i)])]
           NextShare(f, i) == IF i = 0 THEN first ELSE Served(targets, caps, total, i, f[i - 1])
           Shares(f) == f = [i \in 0 .. n |-> NextShare(f, i)]
           give == CHOOSE f : Shares(f)
<1>1. Allocate(targets, caps, total) = give[n]
  BY DEF Allocate, Served
<1>2. n \in Nat /\ DOMAIN targets = 1 .. n
  BY PlanAssumption
<1>3. HandedOut(targets, caps, total, 0, first)
  <2>1. PICK capped : capped = [i \in DOMAIN targets |-> Capped(i)]
    OBVIOUS
  <2>2. \A i \in DOMAIN targets : capped[i] = Capped(i) /\ Capped(i) \in Nat
    <3>1. \A i \in DOMAIN targets : Naive(targets[i], total) \in Nat /\ caps[i] \in Nat
      BY WeightsAreAmounts DEF Caps
    <3>2. QED
      BY <2>1, <3>1 DEF Smaller
  <2>3. capped \in [DOMAIN targets -> Nat]
    BY <2>1, <2>2
  <2>4. first = [allocation |-> [a \in {targets[i].asset : i \in DOMAIN targets} |->
                                   capped[Max({i \in DOMAIN targets : targets[i].asset = a})]],
                 freed |-> SumFunction([i \in DOMAIN targets |-> Naive(targets[i], total) - capped[i]])]
    <3>1. [i \in 1 .. n |-> Naive(targets[i], total) - Capped(i)]
            = [i \in DOMAIN targets |-> Naive(targets[i], total) - capped[i]]
      BY <1>2, <2>2
    <3>2. ASSUME NEW i \in DOMAIN targets
          PROVE  Capped(Max({j \in 1 .. n : targets[j].asset = targets[i].asset}))
                   = capped[Max({j \in DOMAIN targets : targets[j].asset = targets[i].asset})]
      <4>1. PICK same : same = {j \in DOMAIN targets : targets[j].asset = targets[i].asset}
        OBVIOUS
      <4>2. same = {j \in 1 .. n : targets[j].asset = targets[i].asset}
        BY <1>2, <4>1
      <4>3. same \subseteq 1 .. n /\ same # {} /\ 1 \in Int /\ n \in Int
        BY <1>2, <4>1
      <4>4. Max(same) \in same
        BY ONLY <4>3, ExtremesAreMembers
      <4>5. Max(same) \in DOMAIN targets
        BY <4>1, <4>4
      <4>6. Capped(Max(same)) = capped[Max(same)]
        BY <2>2, <4>5
      <4> HIDE DEF Capped
      <4>7. QED
        BY <4>1, <4>2, <4>6
    <3> HIDE DEF Capped
    <3>3. [a \in {targets[i].asset : i \in 1 .. n} |-> Capped(Max({i \in 1 .. n : targets[i].asset = a}))]
            = [a \in {targets[i].asset : i \in DOMAIN targets} |->
                 capped[Max({i \in DOMAIN targets : targets[i].asset = a})]]
      BY <1>2, <3>2
    <3>4. QED
      BY <3>1, <3>3
  <2> HIDE DEF first
  <2>5. QED
    BY <2>2, <2>3, <2>4, CappingFits
<1> HIDE DEF first
<1>4. \E f : Shares(f)
  <2> DEFINE A == {targets[i].asset : i \in DOMAIN targets}
             S == [allocation : [A -> Int], freed : Int]
             step == [p \in (1 .. n) \X S |-> Served(targets, caps, total, p[1], p[2])]
  <2>1. first \in S
    BY <1>3 DEF HandedOut
  <2>2. ASSUME NEW i \in 1 .. n, NEW x \in S PROVE Served(targets, caps, total, i, x) \in S
    <3>1. targets[i].asset \in A /\ x.allocation \in [A -> Int] /\ x.freed \in Int
      BY <1>2
    <3>2. caps[i] \in Nat /\ Ceiling(targets[i], total) \in Nat
      BY <1>2, WeightsAreAmounts DEF Caps
    <3>3. PICK a, take : /\ a = targets[i].asset
                         /\ take = Take(targets[i], caps[i], x.allocation[a], x.freed, total)
      OBVIOUS
    <3>4. x.allocation[a] \in Int
      BY <3>1, <3>3
    <3>5. take \in Int
      BY <3>1, <3>2, <3>3, <3>4 DEF Take, Smaller
    <3>6. Served(targets, caps, total, i, x)
            = [allocation |-> [x.allocation EXCEPT ![a] = @ + take], freed |-> x.freed - take]
      BY <3>3 DEF Served
    <3>7. x.allocation[a] + take \in Int /\ x.freed - take \in Int
      BY <3>1, <3>4, <3>5
    <3> HIDE DEF A
    <3>8. [x.allocation EXCEPT ![a] = @ + take] \in [A -> Int]
      BY <3>1, <3>3, <3>7
    <3>9. QED
      BY <3>6, <3>7, <3>8
  <2>3. \A i \in 1 .. n : \A x \in S : step[<<i, x>>] = Served(targets, caps, total, i, x)
    OBVIOUS
  <2>4. StepsWithin(S, n, step)
    BY <2>2, <2>3 DEF StepsWithin
  <2> HIDE DEF S, step
  <2>5. PICK f : Repeats(f, S, first, n, step)
    BY <1>2, <2>1, <2>4, StepsAreTaken
  <2>6. \A i \in 0 .. n : f[i] = NextShare(f, i)
    <3> SUFFICES ASSUME NEW i \in 0 .. n, i # 0
                 PROVE  f[i] = Served(targets, caps, total, i, f[i - 1])
      BY <2>5 DEF Repeats
    <3>1. i \in 1 .. n /\ i - 1 \in 0 .. n /\ f[i - 1] \in S
      BY <1>2, <2>5 DEF Repeats
    <3>2. QED
      BY <2>3, <2>5, <3>1 DEF Repeats
  <2> HIDE DEF NextShare
  <2>7. f = [i \in 0 .. n |-> NextShare(f, i)]
    BY <2>5, <2>6 DEF Repeats
  <2>8. QED
    BY <2>7
<1>5. Shares(give)
  <2> HIDE DEF Shares
  <2>1. QED
    BY <1>4
<1> HIDE DEF give
<1>6. \A i \in 0 .. n : give[i] = NextShare(give, i)
  BY <1>5
<1>7. HandedOut(targets, caps, total, n, give[n])
  <2> DEFINE T == {m \in Nat : m <= n => HandedOut(targets, caps, total, m, give[m])}
  <2>1. 0 \in T
    BY <1>2, <1>3, <1>6
  <2>2. ASSUME NEW m \in Nat, m \in T PROVE m + 1 \in T
    <3> SUFFICES ASSUME m + 1 <= n PROVE HandedOut(targets, caps, total, m + 1, give[m + 1])
      OBVIOUS
    <3>1. m + 1 \in DOMAIN targets /\ m + 1 \in 0 .. n /\ (m + 1) - 1 = m /\ m + 1 # 0 /\ m <= n
      BY <1>2
    <3>2. give[m + 1] = Served(targets, caps, total, m + 1, give[m])
      BY <1>6, <3>1
    <3>3. HandedOut(targets, caps, total, (m + 1) - 1, give[m])
      BY <2>2, <3>1
    <3>4. QED
      BY <3>1, <3>2, <3>3, ServingFits
  <2>3. T = Nat
    <3>1. T \subseteq Nat
      OBVIOUS
    <3> HIDE DEF T
    <3>2. QED
      BY <2>1, <2>2, <3>1, EveryNatural
  <2>4. QED
    BY <1>2, <2>3
<1>8. QED
  BY <1>1, <1>7

\* The average price of a size is a number.
LEMMA PricesAreNumbers ==
  ASSUME NEW v \in [spot : Nat, fee : Nat, slope : Nat, depth : Nat], NEW n \in Nat \ {0},
         Consumed(v, n) > 0
  PROVE  (n * Average(v, n)) \div Consumed(v, n) \in Nat
<1> DEFINE c == Consumed(v, n)
           cost == n * Average(v, n)
<1>1. c \in Nat \ {0}
  BY DEF Consumed, Smaller
<1>2. Average(v, n) \in Nat
  <2>1. v.slope * c \in Nat
    BY <1>1
  <2>2. QED
    BY <2>1 DEF Average
<1>3. cost \in Nat
  BY <1>2
<1> HIDE DEF c, cost
<1>4. 1 * cost <= c * cost /\ c * cost = cost * c
  BY <1>1, <1>3, ProductsGrow
<1>5. cost <= cost * c
  BY <1>3, <1>4
<1>6. QED
  BY <1>1, <1>3, <1>5, QuotientsAreFloors DEF c, cost

\* What was read for a leg is what was read for every leg of its asset.
LEMMA PoolsRead ==
  ASSUME ReadInv, Len(walked) = Len(legs), NEW i \in DOMAIN legs
  PROVE  /\ VenuesOf(i) \in Pools
         /\ \A j \in DOMAIN legs : legs[i].asset = legs[j].asset => VenuesOf(i) = VenuesOf(j)
<1>1. PICK n \in Nat : n = Len(legs) /\ DOMAIN legs = 1 .. n /\ DOMAIN walked = 1 .. n
  BY PlanAssumption, LenProperties DEF ReadInv
<1>2. PICK same : same = {j \in DOMAIN walked : legs[j].asset = legs[i].asset}
  OBVIOUS
<1>3. same \subseteq 1 .. n /\ same # {} /\ 1 \in Int /\ n \in Int
  BY <1>1, <1>2
<1>4. Max(same) \in same
  BY ONLY <1>3, ExtremesAreMembers
<1>5. Max(same) \in 1 .. Len(walked)
  BY <1>1, <1>3, <1>4 DEF ReadInv
<1>6. walked[Max(same)] \in Pools
  BY <1>5, ElementOfSeq DEF ReadInv
<1>7. VenuesOf(i) = walked[Max(same)]
  BY <1>2 DEF VenuesOf
<1>8. ASSUME NEW j \in DOMAIN legs, legs[i].asset = legs[j].asset PROVE VenuesOf(i) = VenuesOf(j)
  BY <1>8 DEF VenuesOf
<1>9. QED
  BY <1>6, <1>7, <1>8

\* A basket's sizes fit its pools.
LEMMA SizeInv == ASSUME PlanInv, Size PROVE PlanInv'
<1>1. /\ Len(walked) = Len(legs) /\ lines = <<>>
      /\ UNCHANGED <<pools, legs, notional, limit, walked, verdicts, drifts>>
  BY DEF Size
<1>2. PICK caps, sized : /\ caps = [i \in DOMAIN legs |-> Capacity(VenuesOf(i), PlanningLimit(limit))]
                         /\ sized = Allocate(legs, caps, notional)
  OBVIOUS
<1>3. lines' = [i \in DOMAIN legs |-> sized.allocation[legs[i].asset]] /\ unallocated' = sized.freed
  BY <1>2 DEF Size
<1>4. ReadInv /\ ReadInv'
  BY <1>1 DEF PlanInv, ReadInv
<1>5. legs \in Legs /\ notional \in Nat /\ Len(legs) \in Nat /\ DOMAIN legs = 1 .. Len(legs)
  BY <1>4, PlanAssumption DEF ReadInv
<1>6. \A i \in DOMAIN legs : VenuesOf(i) \in Pools /\ caps[i] \in Nat /\ caps[i] = Capacity(VenuesOf(i), PlanningLimit(limit))
  <2> SUFFICES ASSUME NEW i \in DOMAIN legs
               PROVE  VenuesOf(i) \in Pools /\ Capacity(VenuesOf(i), PlanningLimit(limit)) \in Nat
    BY <1>2
  <2>1. VenuesOf(i) \in Pools
    BY <1>1, <1>4, PoolsRead
  <2>2. VenuesOf(i) \in Venues /\ Shallow(VenuesOf(i))
    BY <2>1, PlanAssumption
  <2>3. PlanningLimit(limit) \in Nat /\ PlanningLimit(limit) <= 100000
    BY <1>4 DEF ReadInv, PlanningLimit
  <2>4. QED
    BY <2>1, <2>2, <2>3, CapacitiesFit
<1>7. Caps(legs, caps)
  <2>1. \A i, j \in DOMAIN legs : legs[i].asset = legs[j].asset => VenuesOf(i) = VenuesOf(j)
    BY <1>1, <1>4, PoolsRead
  <2>2. caps \in [DOMAIN legs -> Nat]
    BY <1>2, <1>6
  <2>3. QED
    BY <1>6, <2>1, <2>2 DEF Caps
<1>8. HandedOut(legs, caps, notional, Len(legs), sized)
  BY <1>2, <1>5, <1>7, AllocationsFit
<1>9. DOMAIN lines' = DOMAIN legs /\ \A i \in DOMAIN legs : lines'[i] = Given(legs, sized, i)
  BY <1>3 DEF Given
<1>10. \A i \in DOMAIN legs : lines'[i] \in Nat /\ lines'[i] <= caps[i]
  BY <1>8, <1>9 DEF HandedOut
<1>11. Distinct => /\ SumFunction(lines') + unallocated' = Wanted
                   /\ \A i \in DOMAIN legs :
                        /\ lines'[i] <= Room(legs[i], caps[i], notional)
                        /\ unallocated' > 0 => lines'[i] = Room(legs[i], caps[i], notional)
  <2> SUFFICES ASSUME Unshared(legs)
               PROVE  /\ SumFunction(lines') + unallocated' = Wanted
                      /\ \A i \in DOMAIN legs :
                           /\ lines'[i] <= Room(legs[i], caps[i], notional)
                           /\ unallocated' > 0 => lines'[i] = Room(legs[i], caps[i], notional)
    BY DEF Distinct, Unshared
  <2>1. lines' = [i \in DOMAIN legs |-> Given(legs, sized, i)]
    BY <1>3 DEF Given
  <2>2. \A i \in DOMAIN legs : i <= Len(legs)
    BY <1>5
  <2>3. QED
    BY <1>3, <1>8, <1>9, <2>1, <2>2 DEF HandedOut, Wanted
<1>12. /\ Distinct' <=> Distinct
       /\ Wanted' = Wanted /\ Planned' = SumFunction(lines')
       /\ \A i \in DOMAIN legs : VenuesOf(i)' = VenuesOf(i)
  BY <1>1 DEF Distinct, Wanted, Planned, VenuesOf
<1>13. CapitalGoesWhereItFits'
  <2>1. Sizes'
    BY <1>9, <1>10 DEF Sizes
  <2>2. ASSUME Distinct, NEW i \in DOMAIN legs
        PROVE  LET room == Smaller(Capacity(VenuesOf(i)', PlanningLimit(limit)), Ceiling(legs[i], notional))
               IN lines'[i] <= room /\ (unallocated' > 0 => lines'[i] = room)
    BY <1>6, <1>11, <1>12, <2>2 DEF Room
  <2>3. QED
    BY <1>1, <1>9, <1>11, <1>12, <2>1, <2>2 DEF CapitalGoesWhereItFits
<1>14. LinesInv'
  <2>1. DOMAIN lines' = 1 .. Len(legs') /\ Len(lines') = Len(legs') /\ Len(walked') = Len(legs')
    BY <1>1, <1>5, <1>9
  <2>2. \A i \in DOMAIN lines' :
          lines'[i] \in Nat /\ lines'[i] <= Capacity(VenuesOf(i)', PlanningLimit(limit'))
    BY <1>1, <1>6, <1>9, <1>10, <1>12
  <2>3. QED
    BY <1>13, <2>1, <2>2 DEF LinesInv
<1>15. verdicts = <<>> /\ verdicts' = <<>>
  <2>1. lines = <<>> /\ Len(lines) = 0 /\ verdicts \in Seq(Range(verdicts)) /\ Len(verdicts) <= 0
    BY <1>1 DEF PlanInv, VerdictsInv
  <2>2. verdicts = <<>>
    BY <2>1, LenProperties, EmptySeq
  <2>3. QED
    BY <1>1, <2>2
<1>16. VerdictsInv'
  <2>1. Len(verdicts') = 0 /\ DOMAIN verdicts' = {} /\ verdicts' \in Seq(Range(verdicts'))
    BY <1>15, EmptySeq
  <2>2. Len(lines') \in Nat
    BY <1>5, <1>9
  <2>3. QED
    BY <2>1, <2>2 DEF VerdictsInv
<1>17. QED
  BY <1>4, <1>14, <1>16 DEF PlanInv

\* The mirror's verdict on the next line is one the contract agrees with, on its own size.
LEMMA JudgeInv == ASSUME PlanInv, Judge PROVE PlanInv'
<1>0. PICK i : i = Len(verdicts) + 1
  OBVIOUS
<1> DEFINE venues == pools[legs[i].asset]
           n == IF lines[i] > 1 THEN lines[i] ELSE 1
           Says(r, price, reason) ==
             verdicts' = Append(verdicts, [venues |-> venues, report |-> r, size |-> n,
                                           price |-> price, reason |-> reason])
           Price(k) == (n * Average(venues[k], n)) \div Consumed(venues[k], n)
<1>1. /\ UNCHANGED <<pools, legs, notional, limit, walked, lines, unallocated>>
      /\ lines # <<>> /\ Len(verdicts) < Len(lines)
  BY DEF Judge
<1>2. ReadInv' /\ LinesInv'
  <2>1. ReadInv'
    BY <1>1 DEF PlanInv, ReadInv
  <2>2. LinesInv /\ ~(lines = <<>> /\ verdicts = <<>>)
    BY <1>1 DEF PlanInv
  <2>3. CapitalGoesWhereItFits'
    BY <1>1, <2>2 DEF LinesInv, CapitalGoesWhereItFits, Sizes, Sized, Distinct, Planned, Wanted, VenuesOf
  <2>4. QED
    BY <1>1, <2>1, <2>2, <2>3 DEF LinesInv, VenuesOf
<1>3. i \in DOMAIN legs /\ i \in DOMAIN lines /\ lines[i] \in Nat /\ i \in Nat /\ DOMAIN lines = 1 .. Len(lines)
  BY <1>0, <1>1, PlanAssumption, LenProperties DEF PlanInv, ReadInv, LinesInv, VerdictsInv
<1>4. venues \in Pools /\ venues \in Venues
  BY <1>3, PlanAssumption DEF PlanInv, ReadInv
<1>5. PICK r \in Report :
        \/ Quoting(venues, n) = {} /\ Says(r, 0, "NO_DATA")
        \/ \E k \in Quoting(venues, n) :
             /\ Best(venues, n, k)
             /\ Says(r, Price(k), MirrorVerdict(Told(r), Price(k), Impact(venues[k], n), limit))
  BY <1>0 DEF Judge
<1>6. ASSUME NEW price, NEW reason, Says(r, price, reason),
             reason = "OK" /\ r.chain # "unread" =>
               /\ r.chain # "none"
               /\ CheckExecution(Payload(r, r.chain = "withheld"), 1, 0, price,
                    Mandate.maxGapRisk, Mandate.maxDeviationBps) = "OK",
             reason = "PRICE_IMPACT" =>
               \E k \in Quoting(venues, n) : Best(venues, n, k) /\ Impact(venues[k], n) > limit
      PROVE  PlanInv'
  <2>1. PICK v : v = [venues |-> venues, report |-> r, size |-> n, price |-> price, reason |-> reason]
    OBVIOUS
  <2>2. verdicts \in Seq(Range(verdicts)) /\ verdicts' = Append(verdicts, v)
    BY <1>6, <2>1 DEF PlanInv, VerdictsInv
  <2>3. verdicts' \in Seq(Range(verdicts'))
    BY <2>2, LogsGrow
  <2>4. /\ Len(verdicts') = Len(verdicts) + 1 /\ DOMAIN verdicts' = 1 .. (Len(verdicts) + 1)
        /\ Len(verdicts) \in Nat /\ DOMAIN verdicts = 1 .. Len(verdicts)
        /\ \A j \in 1 .. Len(verdicts) : verdicts'[j] = verdicts[j]
        /\ verdicts'[i] = v
    <3>1. PICK S : S = Range(verdicts) \cup {v}
      OBVIOUS
    <3>2. verdicts \in Seq(S) /\ v \in S
      BY <2>2, <3>1, SeqMonotonic
    <3>3. QED
      BY <1>0, <2>2, <3>2, AppendProperties, LenProperties
  <2>5. Agreed(v)
    BY <1>6, <2>1 DEF Agreed
  <2>6. JudgedAt(i)'
    <3>1. v.venues = venues /\ v.size = n /\ v.reason = reason
      BY <2>1
    <3>2. verdicts'[i] = v /\ lines'[i] = lines[i] /\ limit' = limit
      BY <1>1, <2>4
    <3>3. v.venues \in Pools
      BY <1>4, <3>1
    <3>4. v.size = IF lines[i] > 1 THEN lines[i] ELSE 1
      BY <3>1
    <3>5. v.reason = "PRICE_IMPACT" =>
            \E k \in Quoting(v.venues, v.size) :
              Best(v.venues, v.size, k) /\ Impact(v.venues[k], v.size) > limit
      BY <1>6, <3>1
    <3>6. QED
      BY <3>2, <3>3, <3>4, <3>5 DEF JudgedAt
  <2>7. ASSUME NEW j \in 1 .. Len(verdicts) PROVE Agreed(verdicts'[j]) /\ JudgedAt(j)'
    <3>1. Agreed(verdicts[j]) /\ JudgedAt(j)
      BY <2>4 DEF PlanInv, VerdictsInv
    <3>2. verdicts'[j] = verdicts[j]
      BY <2>4
    <3>3. QED
      BY <1>1, <3>1, <3>2 DEF JudgedAt
  <2>8. Len(verdicts') <= Len(lines')
    BY <1>0, <1>1, <1>3, <2>4
  <2>9. \A j \in DOMAIN verdicts' : j \in 1 .. Len(verdicts) \/ j = i
    BY <1>0, <2>4
  <2>10. VerdictsInv'
    <3>1. \A j \in DOMAIN verdicts' : Agreed(verdicts'[j]) /\ JudgedAt(j)'
      BY <2>4, <2>5, <2>6, <2>7, <2>9
    <3>2. QED
      BY <2>3, <2>8, <3>1 DEF VerdictsInv, Agreed
  <2>11. QED
    BY <1>2, <2>10 DEF PlanInv
<1>7. CASE Says(r, 0, "NO_DATA")
  BY <1>6, <1>7
<1>8. ASSUME NEW k \in Quoting(venues, n), Best(venues, n, k),
             Says(r, Price(k), MirrorVerdict(Told(r), Price(k), Impact(venues[k], n), limit))
      PROVE  PlanInv'
  <2>1. Price(k) \in Nat
    <3>1. n \in Nat \ {0}
      BY <1>3
    <3>2. k \in DOMAIN venues /\ Consumed(venues[k], n) > 0
      BY DEF Quoting
    <3>3. venues[k] \in [spot : Nat, fee : Nat, slope : Nat, depth : Nat]
      <4>1. venues[k] \in VenueShape
        BY <1>4, <3>2, ElementOfSeq, LenProperties DEF Venues
      <4>2. QED
        BY <4>1 DEF VenueShape
    <3> HIDE DEF n, venues
    <3>4. QED
      BY <3>1, <3>2, <3>3, PricesAreNumbers
  <2>2. MirrorVerdict(Told(r), Price(k), Impact(venues[k], n), limit) = "PRICE_IMPACT"
          => Impact(venues[k], n) > limit
    BY DEF MirrorVerdict
  <2> HIDE DEF Price, Says
  <2>3. QED
    BY <2>1, <2>2, <1>6, <1>8, TheMirrorIsNoLaxer
<1>9. QED
  BY <1>5, <1>7, <1>8

\* A basket is sized as far as its pools go, its verdicts are on those sizes, and they say of
\* an allowed leg what the contract's gate says of it.
THEOREM Planning == PlanSpec => []PlanInv
<1>1. PlanInit => PlanInv
  <2> SUFFICES ASSUME PlanInit PROVE PlanInv
    OBVIOUS
  <2>1. /\ walked = <<>> /\ lines = <<>> /\ verdicts = <<>>
        /\ <<>> \in Seq(Pools) /\ verdicts \in Seq(Range(verdicts)) /\ Len(walked) = 0 /\ Len(verdicts) = 0
        /\ Len(lines) = 0 /\ DOMAIN lines = {} /\ DOMAIN verdicts = {}
    BY EmptySeq DEF PlanInit
  <2>2. limit \in Nat /\ limit <= 50 /\ notional \in Nat /\ legs \in Legs /\ Len(legs) \in Nat
    <3>1. PICK r \in Requested : limit = Smaller(r, Mandate.maxImpactBps)
      BY DEF PlanInit
    <3>2. r \in Nat /\ Mandate.maxImpactBps = 50
      BY PlanAssumption DEF Mandate
    <3>3. limit \in Nat /\ limit <= 50
      BY <3>1, <3>2 DEF Smaller
    <3>4. QED
      BY <3>3, PlanAssumption DEF PlanInit
  <2>3. ReadInv
    BY <2>1, <2>2 DEF PlanInit, ReadInv
  <2>4. LinesInv
    BY <2>1 DEF LinesInv, CapitalGoesWhereItFits, Sizes, Sized
  <2>5. VerdictsInv
    BY <2>1 DEF VerdictsInv
  <2>6. QED
    BY <2>3, <2>4, <2>5 DEF PlanInv
<1>2. PlanInv /\ [PlanNext]_planVars => PlanInv'
  <2> SUFFICES ASSUME PlanInv, [PlanNext]_planVars PROVE PlanInv'
    OBVIOUS
  <2>1. ASSUME UNCHANGED <<legs, notional, limit, lines, unallocated, verdicts>>,
               lines = <<>> \/ UNCHANGED walked, ReadInv'
        PROVE  PlanInv'
    <3>1. VerdictsInv'
      BY <2>1 DEF PlanInv, VerdictsInv, Agreed, JudgedAt
    <3>2. CASE lines = <<>>
      <4>1. LinesInv'
        <5>1. verdicts = <<>> /\ DOMAIN lines = {}
          <6>1. Len(lines) = 0 /\ DOMAIN lines = {} /\ verdicts \in Seq(Range(verdicts)) /\ Len(verdicts) <= 0
            BY <3>2 DEF PlanInv, VerdictsInv
          <6>2. QED
            BY <6>1, LenProperties, EmptySeq
        <5>2. QED
          BY <2>1, <3>2, <5>1 DEF LinesInv, CapitalGoesWhereItFits, Sizes, Sized
      <4>2. QED
        BY <2>1, <3>1, <4>1 DEF PlanInv
    <3>3. CASE UNCHANGED walked
      <4>1. CapitalGoesWhereItFits'
        BY <2>1, <3>3 DEF PlanInv, LinesInv, CapitalGoesWhereItFits, Sizes, Sized, Distinct, Planned, Wanted, VenuesOf
      <4>2. LinesInv'
        BY <2>1, <3>3, <4>1 DEF PlanInv, LinesInv, VenuesOf
      <4>3. QED
        BY <2>1, <3>1, <4>2 DEF PlanInv
    <3>4. QED
      BY <2>1, <3>2, <3>3
  <2>2. CASE Walk
    <3>1. PICK venues : venues = pools[legs[Len(walked) + 1].asset] /\ walked' = Append(walked, venues)
      BY <2>2 DEF Walk
    <3>2. Len(walked) < Len(legs) /\ UNCHANGED <<pools, legs, notional, limit, lines, unallocated, verdicts>>
      BY <2>2 DEF Walk
    <3>3. walked \in Seq(Pools) /\ Len(walked) \in Nat /\ Len(legs) \in Nat /\ DOMAIN legs = 1 .. Len(legs)
      BY PlanAssumption, LenProperties DEF PlanInv, ReadInv
    <3>4. venues \in Pools
      BY <3>1, <3>2, <3>3 DEF PlanInv, ReadInv
    <3>5. walked' \in Seq(Pools) /\ Len(walked') = Len(walked) + 1
      BY <3>1, <3>3, <3>4, AppendProperties
    <3>6. ReadInv'
      BY <3>2, <3>3, <3>5 DEF PlanInv, ReadInv
    <3>7. lines = <<>>
      BY <3>2, <3>3 DEF PlanInv, LinesInv
    <3>8. QED
      BY <2>1, <3>2, <3>6, <3>7
  <2>3. CASE Drift
    <3>1. ReadInv'
      BY <2>3 DEF Drift, PlanInv, ReadInv
    <3>2. QED
      BY <2>1, <2>3, <3>1 DEF Drift
  <2>4. CASE UNCHANGED planVars
    <3>1. ReadInv'
      BY <2>4 DEF planVars, PlanInv, ReadInv
    <3>2. QED
      BY <2>1, <2>4, <3>1 DEF planVars
  <2>5. QED
    BY <2>2, <2>3, <2>4, SizeInv, JudgeInv DEF PlanNext
<1>3. QED
  BY <1>1, <1>2, PTL DEF PlanSpec

\* A leg the planner allows passes the contract's walls.
THEOREM AllowedLegsPassTheContractHolds == PlanSpec => []AllowedLegsPassTheContract
<1>1. PlanInv => AllowedLegsPassTheContract
  BY DEF PlanInv, VerdictsInv, AllowedLegsPassTheContract, Agreed
<1>2. QED
  BY <1>1, Planning, PTL

\* A basket spends what it was given as far as its pools go, and none of its legs is refused
\* for its impact unless its pools moved by more than the headroom since they were read.
THEOREM SizesFitAndLastHolds == PlanSpec => []SizesFitAndLast
<1>1. PlanInv => HeadroomAbsorbsTheDrift
  <2> SUFFICES ASSUME PlanInv, NEW i \in DOMAIN verdicts,
                      verdicts[i].reason = "PRICE_IMPACT", Aligned(VenuesOf(i)), lines[i] > 0,
                      Absorbed(VenuesOf(i), verdicts[i].venues)
               PROVE  FALSE
    BY DEF HeadroomAbsorbsTheDrift
  <2>1. PICK v, before, c : v = verdicts[i] /\ before = VenuesOf(i) /\ c = Capacity(before, PlanningLimit(limit))
    OBVIOUS
  <2>2. /\ v.venues \in Pools /\ v.size = IF lines[i] > 1 THEN lines[i] ELSE 1
        /\ \E k \in Quoting(v.venues, v.size) :
             Best(v.venues, v.size, k) /\ Impact(v.venues[k], v.size) > limit
    BY <2>1 DEF PlanInv, VerdictsInv, JudgedAt
  <2>3. ReadInv /\ Len(walked) = Len(legs) /\ i \in DOMAIN legs /\ i \in DOMAIN lines
    <3>1. verdicts \in Seq(Range(verdicts)) /\ Len(verdicts) <= Len(lines) /\ verdicts # <<>>
      BY DEF PlanInv, VerdictsInv
    <3>2. DOMAIN lines = 1 .. Len(legs) /\ Len(lines) = Len(legs) /\ Len(walked) = Len(legs)
      BY <3>1 DEF PlanInv, LinesInv
    <3>3. i \in 1 .. Len(lines) /\ Len(legs) \in Nat /\ DOMAIN legs = 1 .. Len(legs)
      BY <3>1, <3>2, PlanAssumption, LenProperties DEF PlanInv, ReadInv
    <3>4. QED
      BY <3>2, <3>3 DEF PlanInv
  <2>4. before \in Pools /\ before \in Venues /\ Shallow(before) /\ v.venues \in Venues
    BY <2>1, <2>2, <2>3, PoolsRead, PlanAssumption
  <2>5. lines[i] \in Nat /\ lines[i] <= c /\ limit \in Nat /\ limit <= 50
    BY <2>1, <2>3 DEF PlanInv, LinesInv, ReadInv
  <2>6. c \in Nat /\ (c = 0 \/ Fits(before, c, PlanningLimit(limit)))
    <3>1. PlanningLimit(limit) \in Nat /\ PlanningLimit(limit) <= 100000
      BY <2>5 DEF PlanningLimit
    <3>2. QED
      BY <2>1, <2>4, <3>1, CapacitiesFit
  <2>7. Fits(before, c, PlanningLimit(limit)) /\ v.size \in Nat /\ 0 < v.size /\ v.size <= c
    BY <2>2, <2>5, <2>6
  <2>8. PICK k \in Quoting(v.venues, v.size) : Best(v.venues, v.size, k) /\ Impact(v.venues[k], v.size) > limit
    BY <2>2
  <2>9. Aligned(before) /\ Absorbed(before, v.venues)
    BY <2>1
  <2>10. Impact(v.venues[k], v.size) <= limit
    BY <2>4, <2>5, <2>6, <2>7, <2>8, <2>9, HeadroomIsEnough
  <2>11. Impact(v.venues[k], v.size) \in Nat
    BY <2>4, <2>7, QuoteTypes DEF Quoting
  <2>12. QED
    BY <2>5, <2>8, <2>10, <2>11
<1>2. PlanInv => SizesFitAndLast
  BY <1>1 DEF PlanInv, LinesInv, SizesFitAndLast
<1>3. QED
  BY <1>2, Planning, PTL

---------------------------------------------------------------------------
(* The walk over a loaded pool.                                            *)

\* The ticks of words, in order: both ends of a word are in it.
LEMMA WordsInOrder ==
  ASSUME NEW t \in Int, NEW u \in Int, t <= u
  PROVE  WordOf(t) \in Int /\ WordOf(u) \in Int /\ WordOf(t) <= WordOf(u)
<1>1. Compressed(t) \in Int /\ Compressed(u) \in Int /\ Compressed(t) <= Compressed(u)
  BY WalkAssumption, QuotientsKeepOrder DEF Compressed
<1>2. QED
  BY <1>1, WalkAssumption, QuotientsKeepOrder DEF WordOf

\* A word holds the ticks between its first and its last.
LEMMA EndsOfAWord ==
  ASSUME NEW w \in Int
  PROVE  /\ (w * WORD) * SPACING \in Int /\ WordOf((w * WORD) * SPACING) = w
         /\ (w * WORD + WORD - 1) * SPACING \in Int
         /\ WordOf((w * WORD + WORD - 1) * SPACING) = w
<1>1. WORD \in Nat \ {0} /\ SPACING \in Nat \ {0}
  BY WalkAssumption
<1>2. ASSUME NEW r \in 0 .. WORD - 1
      PROVE  (w * WORD + r) * SPACING \in Int /\ WordOf((w * WORD + r) * SPACING) = w
  <2>1. w * WORD + r \in Int /\ 0 \in 0 .. SPACING - 1
    BY <1>1
  <2>2. (w * WORD + r) * SPACING \in Int
    BY <1>1, <2>1
  <2>3. ((w * WORD + r) * SPACING + 0) \div SPACING = w * WORD + r
    BY <1>1, <2>1, QuotientIs
  <2>4. Compressed((w * WORD + r) * SPACING) = w * WORD + r
    BY <2>2, <2>3 DEF Compressed
  <2>5. (w * WORD + r) \div WORD = w
    BY <1>1, QuotientIs
  <2>6. QED
    BY <2>2, <2>4, <2>5 DEF WordOf
<1>3. 0 \in 0 .. WORD - 1 /\ WORD - 1 \in 0 .. WORD - 1
  BY <1>1
<1>4. w * WORD + 0 = w * WORD /\ w * WORD + (WORD - 1) = w * WORD + WORD - 1
  BY <1>1
<1>5. QED
  BY <1>2, <1>3, <1>4
\* What a load knows of a pool that stood still is so.
LoadInv ==
  /\ venue \in [slot : Slot, provided : Provided]
  /\ DOMAIN snapshot = {"pc", "read", "slot", "liquidity", "words", "net", "left", "moved"}
  /\ snapshot.pc \in {"first", "words", "ticks", "walk"}
  /\ snapshot.read \subseteq {"slot", "liquidity"}
  /\ snapshot.pc # "first" => snapshot.read = {"slot", "liquidity"}
  /\ snapshot.pc = "first" => DOMAIN snapshot.words = {} /\ DOMAIN snapshot.net = {}

Knows ==
  /\ "slot" \in snapshot.read => snapshot.slot = venue.slot
  /\ "liquidity" \in snapshot.read => snapshot.liquidity = LiquidityOf(venue)
  /\ \A w \in DOMAIN snapshot.words :
       w \in AllWords /\ snapshot.words[w] = EdgesIn(venue.provided, w)
  /\ \A t \in DOMAIN snapshot.net : snapshot.net[t] = Net(venue.provided, t)

\* The quote and the pool's own walk go together until the quote leaves the words it has.
IsAWalk(a) ==
  /\ DOMAIN a = {"tick", "price", "liquidity", "offered", "remaining", "out", "down", "exhausted"}
  /\ a.tick \in Int

Together ==
  snapshot.pc = "walk" /\ Faithful /\ ~quote.exhausted => quote = paid /\ IsAWalk(quote)

WalkInv == LoadInv /\ (~snapshot.moved => Knows) /\ Together

\* Where a step would go is not known of a word that was not read, and says so.
LEMMA StepsAheadAgree ==
  ASSUME LoadInv, Knows, NEW tick \in Int, NEW down,
         WordOf(Clamped(Ahead(snapshot.words, tick, down).next)) \in DOMAIN snapshot.words
  PROVE  Ahead(snapshot.words, tick, down) = Ahead(Whole(venue).words, tick, down)
<1> DEFINE c == IF down THEN Compressed(tick) ELSE Compressed(tick) + 1
           w == c \div WORD
           end == (IF down THEN w * WORD ELSE w * WORD + WORD - 1) * SPACING
           there(edges) == {e \in edges : IF down THEN e <= c * SPACING ELSE e >= c * SPACING}
           whole == Whole(venue).words
           ahead(edges) ==
             IF there(edges) = {} THEN [next |-> end, edge |-> FALSE]
             ELSE [next |-> IF down THEN Max(there(edges)) ELSE Min(there(edges)), edge |-> TRUE]
<1>1. \A words : Ahead(words, tick, down) = ahead(WordAt(words, w))
  BY DEF Ahead
<1>2. w \in Int
  <2>1. SPACING \in Nat \ {0} /\ WORD \in Nat \ {0}
    BY WalkAssumption
  <2>2. Compressed(tick) \in Int
    BY <2>1, QuotientsKeepOrder DEF Compressed
  <2>3. c \in Int
    BY <2>2
  <2> HIDE DEF c
  <2>4. QED
    BY <2>1, <2>3, QuotientsKeepOrder
<1>3. end \in Int /\ WordOf(end) = w
  BY <1>2, EndsOfAWord
<1>4. DOMAIN whole = AllWords /\ \A v \in AllWords : whole[v] = EdgesIn(venue.provided, v)
  BY DEF Whole
<1> HIDE DEF c, w, end, whole
<1>5. CASE w \in DOMAIN snapshot.words
  <2>1. WordAt(snapshot.words, w) = WordAt(whole, w)
    BY <1>4, <1>5 DEF WordAt, Knows
  <2>2. QED
    BY <1>1, <2>1 DEF whole
<1>6. CASE w \notin DOMAIN snapshot.words /\ w \notin AllWords
  <2>1. WordAt(snapshot.words, w) = WordAt(whole, w)
    BY <1>4, <1>6 DEF WordAt
  <2>2. QED
    BY <1>1, <2>1 DEF whole
<1>7. CASE w \notin DOMAIN snapshot.words /\ w \in AllWords
  <2>1. WordAt(snapshot.words, w) = {}
    BY <1>7 DEF WordAt
  <2>2. Ahead(snapshot.words, tick, down).next = end
    <3>1. there({}) = {}
      OBVIOUS
    <3>2. ahead({}) = [next |-> end, edge |-> FALSE]
      BY <3>1
    <3> HIDE DEF ahead
    <3>3. QED
      BY <1>1, <2>1, <3>2
  <2>3. WordOf(Clamped(end)) = w
    <3>1. /\ MIN_TICK \in Int /\ MAX_TICK \in Int
          /\ WordOf(MIN_TICK) \in Int /\ WordOf(MAX_TICK) \in Int
          /\ WordOf(MIN_TICK) <= w /\ w <= WordOf(MAX_TICK)
      BY <1>2, <1>7, WalkAssumption, WordsInOrder DEF AllWords
    <3>2. CASE end < MIN_TICK
      <4>1. Clamped(end) = MIN_TICK
        BY <1>3, <3>1, <3>2, WalkAssumption DEF Clamped, Lower, Higher
      <4>2. w <= WordOf(MIN_TICK)
        BY <1>3, <3>1, <3>2, WordsInOrder
      <4>3. QED
        BY <1>2, <3>1, <4>1, <4>2
    <3>3. CASE end > MAX_TICK
      <4>1. Clamped(end) = MAX_TICK
        BY <1>3, <3>1, <3>3, WalkAssumption DEF Clamped, Lower, Higher
      <4>2. WordOf(MAX_TICK) <= w
        BY <1>3, <3>1, <3>3, WordsInOrder
      <4>3. QED
        BY <1>2, <3>1, <4>1, <4>2
    <3>4. CASE MIN_TICK <= end /\ end <= MAX_TICK
      <4>1. Clamped(end) = end
        BY <1>3, <3>1, <3>4 DEF Clamped, Lower, Higher
      <4>2. QED
        BY <1>3, <4>1
    <3>5. QED
      BY <1>3, <3>1, <3>2, <3>3, <3>4
  <2>4. QED
    BY <1>7, <2>2, <2>3
<1>8. QED
  BY <1>5, <1>6, <1>7
\* A tick that a step ends on is a number, and an edge it crosses is one the pool has.
LEMMA TicksAreNumbers ==
  ASSUME LoadInv, Knows, Faithful, NEW tick \in Int, NEW down
  PROVE  LET ahead == Ahead(snapshot.words, tick, down)
         IN /\ ahead.next \in Int
            /\ ahead.edge => /\ Clamped(ahead.next) = ahead.next
                             /\ ahead.next \in DOMAIN snapshot.net
                             /\ ahead.next \in Edges(venue.provided)
<1> DEFINE c == IF down THEN Compressed(tick) ELSE Compressed(tick) + 1
           w == c \div WORD
           edges == WordAt(snapshot.words, w)
           there == {e \in edges : IF down THEN e <= c * SPACING ELSE e >= c * SPACING}
           end == (IF down THEN w * WORD ELSE w * WORD + WORD - 1) * SPACING
           next == IF down THEN Max(there) ELSE Min(there)
<1>1. end \in Int
  <2>1. SPACING \in Nat \ {0} /\ WORD \in Nat \ {0}
    BY WalkAssumption
  <2>2. c \in Int
    BY <2>1, QuotientsKeepOrder DEF Compressed
  <2> HIDE DEF c
  <2>3. w \in Int
    BY <2>1, <2>2, QuotientsKeepOrder
  <2>4. QED
    BY <2>3, EndsOfAWord
<1>2. \A e \in edges : /\ e \in MIN_TICK .. MAX_TICK /\ e \in DOMAIN snapshot.net
                       /\ e \in Edges(venue.provided)
  <2>1. SUFFICES ASSUME w \in DOMAIN snapshot.words, NEW e \in snapshot.words[w]
                 PROVE  /\ e \in MIN_TICK .. MAX_TICK /\ e \in DOMAIN snapshot.net
                        /\ e \in Edges(venue.provided)
    BY DEF WordAt
  <2>2. e \in DOMAIN snapshot.net
    BY <2>1 DEF Faithful
  <2>3. e \in Edges(venue.provided)
    BY <2>1 DEF Knows, EdgesIn
  <2>4. venue.provided \in Provided
    BY DEF LoadInv
  <2>5. e \in MIN_TICK .. MAX_TICK
    BY <2>3, <2>4, PoolAssumption DEF Edges
  <2>6. QED
    BY <2>2, <2>3, <2>5
<1>3. MIN_TICK \in Int /\ MAX_TICK \in Int
  BY WalkAssumption
<1>4. there \subseteq edges
  OBVIOUS
<1>5. Ahead(snapshot.words, tick, down) =
        IF there = {} THEN [next |-> end, edge |-> FALSE] ELSE [next |-> next, edge |-> TRUE]
  BY DEF Ahead
<1> HIDE DEF there, end, edges
<1>6. CASE there = {}
  <2>1. /\ Ahead(snapshot.words, tick, down).next = end
        /\ Ahead(snapshot.words, tick, down).edge = FALSE
    BY <1>5, <1>6
  <2>2. QED
    BY <1>1, <2>1
<1>7. CASE there # {}
  <2>1. there \subseteq MIN_TICK .. MAX_TICK
    BY <1>2, <1>4
  <2>2. next \in there
    BY <1>3, <1>7, <2>1, ExtremesAreMembers
  <2>3. Ahead(snapshot.words, tick, down).next = next
    BY <1>5, <1>7
  <2> HIDE DEF next
  <2>4. next \in Int /\ MIN_TICK <= next /\ next <= MAX_TICK
    BY <1>3, <2>1, <2>2
  <2>5. Clamped(next) = next
    BY <1>3, <2>4 DEF Clamped, Lower, Higher
  <2>6. QED
    BY <1>2, <1>4, <2>2, <2>3, <2>4, <2>5
<1>8. QED
  BY <1>6, <1>7

\* A price has a tick, whatever the table says.
LEMMA TickAtIsANumber == ASSUME NEW p PROVE TickAt(p) \in Int
<1> DEFINE below == {MIN_TICK} \cup {t \in MIN_TICK .. MAX_TICK : RatioAt[t] <= p}
<1>1. MIN_TICK \in Int /\ MAX_TICK \in Int /\ MIN_TICK <= MAX_TICK
  BY WalkAssumption
<1>2. below \subseteq MIN_TICK .. MAX_TICK /\ below # {}
  BY <1>1
<1>3. TickAt(p) = Max(below)
  BY DEF TickAt
<1> HIDE DEF below
<1>4. Max(below) \in MIN_TICK .. MAX_TICK
  BY <1>1, <1>2, ExtremesAreMembers
<1>5. QED
  BY <1>1, <1>3, <1>4

\* A step that stays within the words that were read is the pool's.
LEMMA StepsAgree ==
  ASSUME LoadInv, Knows, Faithful, NEW a, IsAWalk(a), ~Stepped(snapshot, a).exhausted
  PROVE  Stepped(snapshot, a) = Stepped(Whole(venue), a) /\ IsAWalk(Stepped(snapshot, a))
<1> DEFINE whole == Whole(venue)
           ahead == Ahead(snapshot.words, a.tick, a.down)
           t == Clamped(ahead.next)
           target == IF a.down THEN Higher(RatioAt[t], Limit(TRUE)) ELSE Lower(RatioAt[t], Limit(FALSE))
           step == IF a.liquidity = 0 THEN [next |-> target, out |-> 0, takes |-> 0]
                   ELSE SwapStep(a.price, target, a.liquidity, a.remaining, a.down)
           net(n) == IF ahead.edge /\ t \in DOMAIN n THEN n[t] ELSE 0
           there == step.next = RatioAt[t]
           after(n, left) ==
             [a EXCEPT !.price = step.next, !.remaining = @ - step.takes, !.out = @ + step.out,
                !.liquidity = IF ~there THEN @ ELSE IF a.down THEN @ - net(n) ELSE @ + net(n),
                !.tick = IF there THEN (IF a.down THEN t - 1 ELSE t)
                         ELSE IF a.liquidity = 0 THEN @ ELSE TickAt(step.next),
                !.exhausted = left]
<1>1. Stepped(snapshot, a) = after(snapshot.net, Outside(snapshot, a, t))
  BY DEF Stepped
<1>2. a.tick \in Int /\ DOMAIN a = {"tick", "price", "liquidity", "offered", "remaining", "out", "down", "exhausted"}
  BY DEF IsAWalk
<1>3. ~Outside(snapshot, a, t)
  <2>1. Stepped(snapshot, a).exhausted = Outside(snapshot, a, t)
    BY <1>1, <1>2
  <2>2. QED
    BY <2>1
<1>4. ahead = Ahead(whole.words, a.tick, a.down)
  BY <1>2, <1>3, StepsAheadAgree DEF Outside
<1>5. Stepped(whole, a) = after(whole.net, Outside(whole, a, t))
  BY <1>4 DEF Stepped
<1>6. /\ ahead.next \in Int
      /\ ahead.edge => /\ t = ahead.next /\ t \in DOMAIN snapshot.net
                       /\ t \in Edges(venue.provided)
  BY <1>2, TicksAreNumbers
<1>7. t \in Int
  BY <1>6, WalkAssumption DEF Clamped, Lower, Higher
<1>8. net(snapshot.net) = net(whole.net)
  <2>1. CASE ahead.edge
    <3>1. DOMAIN whole.net = Edges(venue.provided) /\ whole.net[t] = Net(venue.provided, t)
      BY <1>6, <2>1 DEF Whole
    <3>2. snapshot.net[t] = Net(venue.provided, t)
      BY <1>6, <2>1 DEF Knows
    <3>3. QED
      BY <1>6, <2>1, <3>1, <3>2
  <2>2. CASE ~ahead.edge
    BY <2>2
  <2>3. QED
    BY <2>1, <2>2
<1>9. ~Outside(whole, a, t)
  <2>1. WordOf(t) \in DOMAIN snapshot.words
    BY <1>3 DEF Outside
  <2>2. DOMAIN whole.words = AllWords
    BY DEF Whole
  <2>3. QED
    BY <2>1, <2>2 DEF Outside, Knows
<1> HIDE DEF t, ahead, step, target, whole
<1>10. after(snapshot.net, Outside(snapshot, a, t)) = after(whole.net, Outside(whole, a, t))
  <2>1. Outside(snapshot, a, t) = Outside(whole, a, t)
    BY <1>3, <1>9 DEF Outside
  <2> HIDE DEF net
  <2>2. QED
    BY <1>8, <2>1
<1>11. IsAWalk(after(snapshot.net, Outside(snapshot, a, t)))
  <2> HIDE DEF net
  <2>1. TickAt(step.next) \in Int
    BY TickAtIsANumber
  <2>2. after(snapshot.net, Outside(snapshot, a, t)).tick \in Int
    BY <1>2, <1>7, <2>1
  <2>3. DOMAIN after(snapshot.net, Outside(snapshot, a, t)) = DOMAIN a
    OBVIOUS
  <2>4. QED
    BY <1>2, <2>2, <2>3 DEF IsAWalk
<1>12. QED
  BY <1>1, <1>5, <1>10, <1>11 DEF whole
\* Nothing is read yet.
LEMMA WalkInitInv == WalkInit => WalkInv
  BY DEF WalkInit, WalkInv, LoadInv, Knows, Together, Unloaded, Nowhere

\* A read of a load, of a pool that is where it was.
LEMMA LoadsInv ==
  ASSUME WalkInv, NEW next, Loads(next), next.moved = snapshot.moved, next.pc # "walk",
         LoadInv', Knows => Knows'
  PROVE  WalkInv'
<1>1. snapshot' = next /\ UNCHANGED <<venue, venueMoves, quote, paid>>
  BY DEF Loads
<1>2. Together'
  BY <1>1 DEF Together
<1>3. ~snapshot'.moved => Knows'
  BY <1>1 DEF WalkInv
<1>4. QED
  BY <1>2, <1>3 DEF WalkInv

\* The two first reads are of one pool, unless it moved.
LEMMA FirstReadsInv == ASSUME WalkInv, ReadsSlot \/ ReadsLiquidity PROVE WalkInv'
<1> USE DEF WalkInv, LoadInv
<1>1. CASE ReadsSlot
  <2> DEFINE next == [Answered("slot") EXCEPT !.slot = venue.slot]
  <2>1. Loads(next) /\ snapshot.pc = "first" /\ "slot" \notin snapshot.read
    BY <1>1 DEF ReadsSlot
  <2>2. /\ DOMAIN next = DOMAIN snapshot
        /\ next.read = snapshot.read \cup {"slot"}
        /\ next.pc = IF snapshot.read # {} THEN "words" ELSE "first"
        /\ next.slot = venue.slot /\ next.liquidity = snapshot.liquidity
        /\ next.words = snapshot.words /\ next.net = snapshot.net
        /\ next.moved = snapshot.moved
    BY <2>1 DEF Answered
  <2>3. snapshot' = next /\ venue' = venue
    BY <2>1 DEF Loads
  <2> HIDE DEF next
  <2>4. LoadInv'
    BY <2>1, <2>2, <2>3
  <2>5. Knows => Knows'
    BY <2>1, <2>2, <2>3 DEF Knows
  <2>6. QED
    BY <2>1, <2>2, <2>4, <2>5, LoadsInv
<1>2. CASE ReadsLiquidity
  <2> DEFINE next == [Answered("liquidity") EXCEPT !.liquidity = LiquidityOf(venue)]
  <2>1. Loads(next) /\ snapshot.pc = "first" /\ "liquidity" \notin snapshot.read
    BY <1>2 DEF ReadsLiquidity
  <2>2. /\ DOMAIN next = DOMAIN snapshot
        /\ next.read = snapshot.read \cup {"liquidity"}
        /\ next.pc = IF snapshot.read # {} THEN "words" ELSE "first"
        /\ next.slot = snapshot.slot /\ next.liquidity = LiquidityOf(venue)
        /\ next.words = snapshot.words /\ next.net = snapshot.net
        /\ next.moved = snapshot.moved
    BY <2>1 DEF Answered
  <2>3. snapshot' = next /\ venue' = venue
    BY <2>1 DEF Loads
  <2> HIDE DEF next
  <2>4. LoadInv'
    BY <2>1, <2>2, <2>3
  <2>5. LiquidityOf(venue)' = LiquidityOf(venue)
    BY <2>3
  <2>6. Knows => Knows'
    BY <2>1, <2>2, <2>3, <2>5 DEF Knows
  <2>7. QED
    BY <2>1, <2>2, <2>4, <2>6, LoadsInv
<1>3. QED
  BY <1>1, <1>2

\* A word or a tick is read as it then is.
LEMMA WordReadsInv == ASSUME WalkInv, ReadsWords \/ ReadsChunk PROVE WalkInv'
<1> USE DEF WalkInv, LoadInv
<1>1. CASE ReadsWords
  <2>1. PICK got \in SUBSET Window :
          Loads([snapshot EXCEPT !.pc = "ticks",
                   !.words = [w \in got |-> EdgesIn(venue.provided, w)],
                   !.left = UNION {EdgesIn(venue.provided, w) : w \in got}])
    BY <1>1 DEF ReadsWords
  <2> DEFINE next == [snapshot EXCEPT !.pc = "ticks",
                        !.words = [w \in got |-> EdgesIn(venue.provided, w)],
                        !.left = UNION {EdgesIn(venue.provided, w) : w \in got}]
  <2>2. /\ DOMAIN next = DOMAIN snapshot /\ next.read = snapshot.read /\ next.pc = "ticks"
        /\ next.slot = snapshot.slot /\ next.liquidity = snapshot.liquidity
        /\ next.words = [w \in got |-> EdgesIn(venue.provided, w)]
        /\ next.net = snapshot.net /\ next.moved = snapshot.moved
    OBVIOUS
  <2>3. snapshot' = next /\ venue' = venue /\ snapshot.pc = "words"
    BY <1>1, <2>1 DEF Loads, ReadsWords
  <2>4. got \subseteq AllWords
    BY <2>1 DEF Window
  <2>5. Loads(next)
    BY <2>1
  <2> HIDE DEF next
  <2>6. LoadInv'
    BY <2>2, <2>3
  <2>7. Knows => Knows'
    BY <2>2, <2>3, <2>4 DEF Knows
  <2>8. QED
    BY <2>2, <2>5, <2>6, <2>7, LoadsInv
<1>2. CASE ReadsChunk
  <2>1. PICK chunk \in SUBSET snapshot.left, got \in SUBSET snapshot.left :
          Loads([snapshot EXCEPT !.left = @ \ chunk,
                   !.net = [t \in DOMAIN @ \cup got |->
                              IF t \in got THEN Net(venue.provided, t) ELSE @[t]]])
    BY <1>2 DEF ReadsChunk
  <2> DEFINE net == [t \in DOMAIN snapshot.net \cup got |->
                       IF t \in got THEN Net(venue.provided, t) ELSE snapshot.net[t]]
             next == [snapshot EXCEPT !.left = @ \ chunk, !.net = net]
  <2>2. /\ DOMAIN next = DOMAIN snapshot /\ next.read = snapshot.read /\ next.pc = snapshot.pc
        /\ next.slot = snapshot.slot /\ next.liquidity = snapshot.liquidity
        /\ next.words = snapshot.words
        /\ next.net = net /\ next.moved = snapshot.moved
    OBVIOUS
  <2>3. Loads(next)
    BY <2>1
  <2>4. snapshot' = next /\ venue' = venue /\ snapshot.pc = "ticks"
    BY <1>2, <2>3 DEF Loads, ReadsChunk
  <2> HIDE DEF next
  <2>5. LoadInv'
    BY <2>2, <2>4
  <2>6. Knows => Knows'
    BY <2>2, <2>4 DEF Knows
  <2>7. QED
    BY <2>2, <2>3, <2>4, <2>5, <2>6, LoadsInv
<1>3. QED
  BY <1>1, <1>2

\* Both walks begin at the same place.
LEMMA SimulatesInv == ASSUME WalkInv, Simulates PROVE WalkInv'
<1> USE DEF WalkInv, LoadInv
<1>1. PICK amount \in Offered, down \in BOOLEAN :
        /\ quote' = Begun(snapshot, amount, down)
        /\ paid' = Begun(Whole(venue), amount, down)
  BY DEF Simulates
<1>2. /\ snapshot' = [snapshot EXCEPT !.pc = "walk"] /\ venue' = venue /\ snapshot.pc = "ticks"
  BY DEF Simulates
<1>3. /\ DOMAIN snapshot' = DOMAIN snapshot /\ snapshot'.read = snapshot.read
      /\ snapshot'.pc = "walk" /\ snapshot'.slot = snapshot.slot
      /\ snapshot'.liquidity = snapshot.liquidity /\ snapshot'.words = snapshot.words
      /\ snapshot'.net = snapshot.net /\ snapshot'.moved = snapshot.moved
  BY <1>2
<1>4. LoadInv'
  BY <1>2, <1>3
<1>5. Knows => Knows'
  BY <1>2, <1>3 DEF Knows
<1>6. Together'
  <2>1. SUFFICES ASSUME Faithful' PROVE quote' = paid' /\ IsAWalk(quote')
    BY DEF Together
  <2>2. snapshot.slot = venue.slot /\ snapshot.liquidity = LiquidityOf(venue)
    BY <1>2, <1>3, <2>1 DEF Faithful, Knows
  <2>3. Whole(venue).slot = venue.slot /\ Whole(venue).liquidity = LiquidityOf(venue)
    BY DEF Whole
  <2>4. quote' = paid'
    BY <1>1, <2>2, <2>3 DEF Begun
  <2>5. venue.slot.tick \in Int
    <3>1. venue.slot \in Slot /\ {MIN_TICK, MAX_TICK} \subseteq Int
      BY WalkAssumption
    <3>2. venue.slot.tick \in MIN_TICK .. MAX_TICK
      BY <3>1, PoolAssumption
    <3>3. QED
      BY <3>1, <3>2
  <2>6. IsAWalk(quote')
    <3>1. quote'.tick = venue.slot.tick
      BY <1>1, <2>2 DEF Begun
    <3>2. DOMAIN quote' = {"tick", "price", "liquidity", "offered", "remaining", "out", "down",
                           "exhausted"}
      BY <1>1 DEF Begun
    <3>3. QED
      BY <2>5, <3>1, <3>2 DEF IsAWalk
  <2>7. QED
    BY <2>4, <2>6
<1>7. QED
  BY <1>3, <1>4, <1>5, <1>6

\* The two walks step alike where the page's words reach.
LEMMA IteratesInv == ASSUME WalkInv, Iterates PROVE WalkInv'
<1> USE DEF WalkInv
<1>1. /\ snapshot.pc = "walk" /\ Walking(quote) /\ quote' = Stepped(snapshot, quote)
      /\ paid' = IF Walking(paid) THEN Stepped(Whole(venue), paid) ELSE paid
      /\ UNCHANGED <<venue, venueMoves, snapshot>>
  BY DEF Iterates
<1>2. LoadInv' /\ (~snapshot.moved => Knows)'
  BY <1>1 DEF LoadInv, Knows, LiquidityOf
<1>3. Together'
  <2>1. SUFFICES ASSUME Faithful, ~quote'.exhausted
                 PROVE  quote' = paid' /\ IsAWalk(quote')
    BY <1>1 DEF Together, Faithful
  <2>2. ~quote.exhausted
    BY <1>1 DEF Walking
  <2>3. quote = paid /\ IsAWalk(quote) /\ Knows
    BY <1>1, <2>1, <2>2 DEF Together, Faithful
  <2>4. /\ Stepped(snapshot, quote) = Stepped(Whole(venue), quote)
        /\ IsAWalk(Stepped(snapshot, quote))
    BY <1>1, <2>1, <2>3, StepsAgree
  <2>5. QED
    BY <1>1, <2>3, <2>4
<1>4. QED
  BY <1>2, <1>3

\* A pool that moves after a read is no longer vouched for.
LEMMA VenueMovesInv == ASSUME WalkInv, VenueMoves PROVE WalkInv'
<1> USE DEF WalkInv, LoadInv
<1>1. /\ snapshot.pc # "walk" /\ snapshot' = [snapshot EXCEPT !.moved = snapshot.read # {}]
      /\ UNCHANGED <<quote, paid>>
  BY DEF VenueMoves
<1>2. PICK s \in Slot, p \in Provided : venue' = [slot |-> s, provided |-> p]
  BY DEF VenueMoves
<1>3. /\ DOMAIN snapshot' = DOMAIN snapshot /\ snapshot'.read = snapshot.read
      /\ snapshot'.pc = snapshot.pc
      /\ snapshot'.words = snapshot.words /\ snapshot'.net = snapshot.net
      /\ snapshot'.moved = (snapshot.read # {})
  BY <1>1
<1>4. LoadInv'
  BY <1>2, <1>3
<1>5. ~snapshot'.moved => Knows'
  <2>1. SUFFICES ASSUME snapshot.read = {} PROVE Knows'
    BY <1>3
  <2>2. DOMAIN snapshot.words = {} /\ DOMAIN snapshot.net = {}
    BY <2>1
  <2>3. QED
    BY <1>3, <2>1, <2>2 DEF Knows
<1>6. Together'
  BY <1>1, <1>3 DEF Together
<1>7. QED
  BY <1>4, <1>5, <1>6

\* The inductive invariant of a load and the walks over it.
THEOREM WalksGoTogether == WalkSpec => []WalkInv
<1>1. WalkInit => WalkInv
  BY WalkInitInv
<1>2. WalkInv /\ [WalkNext]_walkVars => WalkInv'
  <2>1. ASSUME WalkInv, UNCHANGED walkVars PROVE WalkInv'
    BY <2>1 DEF walkVars, WalkInv, LoadInv, Knows, LiquidityOf, Together, Faithful
  <2>2. QED
    BY <2>1, FirstReadsInv, WordReadsInv, SimulatesInv, IteratesInv, VenueMovesInv DEF WalkNext
<1>3. QED
  BY <1>1, <1>2, PTL DEF WalkSpec

\* Over any pool, window and amount: a quote that never left the words it has, of a pool that
\* stood still and whose ticks were all read, is the pool's own walk, step by step
\* (pool.ts 127-308).
THEOREM QuotesAreWhatThePoolPaysHolds == WalkSpec => []QuotesAreWhatThePoolPays
<1>1. WalkInv => QuotesAreWhatThePoolPays
  BY DEF WalkInv, Together, QuotesAreWhatThePoolPays
<1>2. QED
  BY <1>1, WalksGoTogether, PTL

---------------------------------------------------------------------------
(* What a step takes and pays.                                             *)

\* A quotient rounded down is the most that goes into its dividend,
LEMMA DownIs ==
  ASSUME NEW a \in Nat, NEW n \in Nat \ {0}
  PROVE  /\ a \div n \in Nat /\ (a \div n) * n <= a
         /\ \A x \in Nat : a < x * n => a \div n < x
<1>1. PICK d \in Int, m \in 0 .. n - 1 : a = d * n + m /\ d = a \div n
  OBVIOUS
<1>2. d >= 0
  <2>1. a \div n >= 0
    BY Z3
  <2>2. QED
    BY <1>1, <2>1
<1>3. ASSUME NEW x \in Nat, a < x * n, x <= d PROVE FALSE
  <2>1. d \in Nat /\ x * n <= d * n
    BY <1>1, <1>2, <1>3, ProductsGrow
  <2>2. x * n \in Nat /\ d * n \in Int
    BY <1>1
  <2>3. QED
    BY <1>1, <1>3, <2>1, <2>2
<1>4. d * n \in Int
  BY <1>1
<1>5. QED
  BY <1>1, <1>2, <1>3, <1>4

\* and rounded up the least that covers it.
LEMMA UpIs ==
  ASSUME NEW a \in Nat, NEW n \in Nat \ {0}
  PROVE  /\ Up(a, n) \in Nat /\ a <= Up(a, n) * n
         /\ \A x \in Nat : x < Up(a, n) => x * n < a
         /\ \A x \in Nat : a <= x * n => Up(a, n) <= x
<1>1. a + n - 1 \in Nat
  OBVIOUS
<1>2. PICK d \in Int, m \in 0 .. n - 1 : a + n - 1 = d * n + m /\ d = Up(a, n)
  BY <1>1 DEF Up
<1>3. d \in Nat
  BY <1>1, <1>2, DownIs DEF Up
<1>4. d * n \in Nat
  BY <1>3
<1>5. a <= d * n
  BY <1>2, <1>4
<1>6. ASSUME NEW x \in Nat, x < d PROVE x * n < a
  <2>1. (x + 1) * n <= d * n
    BY <1>3, <1>6, ProductsGrow
  <2>2. (x + 1) * n = x * n + n /\ x * n \in Nat
    OBVIOUS
  <2>3. QED
    BY <1>2, <1>4, <2>1, <2>2
<1>7. ASSUME NEW x \in Nat, a <= x * n PROVE d <= x
  <2>1. x * n \in Nat
    OBVIOUS
  <2>2. QED
    BY <1>3, <1>6, <1>7, <2>1
<1>8. QED
  BY <1>2, <1>3, <1>5, <1>6, <1>7

\* What a step takes when its fee is added covers what goes in, and is no more than there is.
LEMMA TakingsFit ==
  ASSUME NEW amount \in Nat, NEW into \in Nat
  PROVE  LET lessFee == (amount * (PIPS - FEE)) \div PIPS
             takes == into + Up(into * FEE, PIPS - FEE)
         IN /\ lessFee \in Nat /\ lessFee <= amount
            /\ into <= lessFee => takes \in Nat /\ into <= takes /\ takes <= amount
<1> DEFINE left == PIPS - FEE
           lessFee == (amount * left) \div PIPS
           fee == Up(into * FEE, left)
<1>1. PIPS \in Nat \ {0} /\ FEE \in Nat /\ left \in Nat \ {0} /\ left <= PIPS
  BY WalkAssumption
<1>2. amount * left \in Nat /\ into * FEE \in Nat
  BY <1>1
<1>3. lessFee \in Nat /\ lessFee * PIPS <= amount * left
  BY <1>1, <1>2, DownIs
<1>4. ASSUME NEW x \in Nat, x * PIPS <= amount * left PROVE x <= amount
  <2>1. amount * left <= amount * PIPS
    <3>1. left * amount <= PIPS * amount
      BY <1>1, ProductsGrow
    <3>2. QED
      BY <1>1, <3>1
  <2>2. ASSUME x >= amount + 1 PROVE FALSE
    <3>1. (amount + 1) * PIPS <= x * PIPS
      BY <1>1, <2>2, ProductsGrow
    <3>2. (amount + 1) * PIPS = amount * PIPS + PIPS /\ amount * PIPS \in Nat /\ x * PIPS \in Nat
      BY <1>1
    <3>3. QED
      BY <1>1, <1>2, <1>4, <2>1, <3>1, <3>2
  <2>3. QED
    BY <2>2
<1>5. lessFee <= amount
  BY <1>3, <1>4
<1>6. ASSUME into <= lessFee
      PROVE  into + fee \in Nat /\ into <= into + fee /\ into + fee <= amount
  <2>1. fee \in Nat /\ \A x \in Nat : into * FEE <= x * left => fee <= x
    BY <1>1, <1>2, UpIs
  <2>2. into <= amount /\ amount - into \in Nat
    BY <1>3, <1>5, <1>6
  <2>3. into * PIPS <= amount * left
    <3>1. into * PIPS <= lessFee * PIPS
      BY <1>1, <1>3, <1>6, ProductsGrow
    <3>2. into * PIPS \in Nat /\ lessFee * PIPS \in Nat
      BY <1>1, <1>3
    <3>3. QED
      BY <1>2, <1>3, <3>1, <3>2
  <2>4. /\ (amount - into) * left = amount * left - into * left
        /\ into * left = into * PIPS - into * FEE
        /\ into * left \in Nat /\ into * PIPS \in Nat
    BY <1>1
  <2>5. into * FEE <= (amount - into) * left
    BY <1>2, <2>3, <2>4
  <2>6. fee <= amount - into
    BY <2>1, <2>2, <2>5
  <2>7. QED
    BY <2>1, <2>2, <2>6
<1>7. QED
  BY <1>3, <1>5, <1>6

\* A product keeps the order of either factor.
LEMMA ProductsKeepOrder ==
  ASSUME NEW a \in Nat, NEW b \in Nat, NEW c \in Nat, NEW d \in Nat, a <= c, b <= d
  PROVE  a * b \in Nat /\ c * d \in Nat /\ a * b <= c * d
<1>1. a * b <= c * b
  BY ProductsGrow
<1>2. b * c <= d * c
  BY ProductsGrow
<1>3. b * c = c * b /\ d * c = c * d /\ a * b \in Nat /\ c * b \in Nat /\ c * d \in Nat
  OBVIOUS
<1>4. QED
  BY <1>1, <1>2, <1>3

\* What is paid in on the way down covers what is paid out at the two prices of the step.
\* `level` is the liquidity times Q96.
LEMMA InputCovers ==
  ASSUME NEW p \in Nat \ {0}, NEW n \in Nat \ {0}, n <= p, NEW level \in Nat
  PROVE  LET into == Up(Up(level * (p - n), p), n)
         IN /\ into \in Nat
            /\ level * (p - n) \in Nat
            /\ level * (p - n) <= into * (n * p)
            /\ \A x \in Nat : x < into => x * (n * p) < level * (p - n)
<1> DEFINE gap == level * (p - n)
           half == Up(gap, p)
           into == Up(half, n)
<1>1. gap \in Nat
  <2>1. p - n \in Nat
    OBVIOUS
  <2>2. QED
    BY <2>1
<1> HIDE DEF gap
<1>2. half \in Nat /\ gap <= half * p /\ \A x \in Nat : x < half => x * p < gap
  BY <1>1, UpIs
<1> HIDE DEF half
<1>3. into \in Nat /\ half <= into * n /\ \A x \in Nat : x < into => x * n < half
  BY <1>2, UpIs
<1> HIDE DEF into
<1>4. gap <= into * (n * p)
  <2>1. into * n \in Nat /\ half * p <= (into * n) * p
    BY <1>2, <1>3, ProductsGrow
  <2>2. (into * n) * p = into * (n * p) /\ half * p \in Nat /\ (into * n) * p \in Nat
    BY <1>2, <1>3
  <2>3. QED
    BY <1>1, <1>2, <2>1, <2>2
<1>5. ASSUME NEW x \in Nat, x < into PROVE x * (n * p) < gap
  <2>1. x * n \in Nat /\ x * n < half
    BY <1>3, <1>5
  <2>2. (x * n) * p < gap
    BY <1>2, <2>1
  <2>3. (x * n) * p = x * (n * p)
    OBVIOUS
  <2>4. QED
    BY <2>2, <2>3
<1>6. QED
  BY <1>1, <1>3, <1>4, <1>5 DEF gap, half, into

\* The price after an input, on the way down: no further than the input pays for, and short
\* of a price it does not reach.
LEMMA PriceAfterDown ==
  ASSUME NEW p \in Nat \ {0}, NEW l \in Nat \ {0}, NEW x \in Nat
  PROVE  LET n == PriceAfter(p, l, x, TRUE)
             level == l * PRICE_ONE
         IN /\ n \in Nat \ {0} /\ n <= p
            /\ level * (p - n) <= x * (n * p)
            /\ \A t \in Nat : t <= p /\ x * (t * p) < level * (p - t) => t < n
<1> DEFINE level == l * PRICE_ONE
           whole == level + x * p
           n == Up(level * p, whole)
<1>1. level \in Nat \ {0}
  <2>1. PRICE_ONE \in Nat \ {0}
    BY WalkAssumption
  <2>2. QED
    BY <2>1
<1>2. PriceAfter(p, l, x, TRUE) = n
  BY DEF PriceAfter
<1> HIDE DEF level
<1>3. level * p \in Nat \ {0} /\ x * p \in Nat /\ whole \in Nat \ {0}
  BY <1>1
<1>4. /\ n \in Nat /\ level * p <= n * whole
      /\ \A y \in Nat : y < n => y * whole < level * p
      /\ \A y \in Nat : level * p <= y * whole => n <= y
  BY <1>3, UpIs
<1>5. n <= p
  <2>1. p * whole = level * p + (x * p) * p /\ (x * p) * p \in Nat
    BY <1>1, <1>3
  <2>2. level * p <= p * whole
    BY <1>3, <2>1
  <2>3. QED
    BY <1>4, <2>2
<1>6. n # 0
  <2>1. SUFFICES ASSUME n = 0 PROVE FALSE
    OBVIOUS
  <2>2. n * whole = 0
    BY <1>3, <2>1
  <2>3. QED
    BY <1>3, <1>4, <2>2
<1> HIDE DEF n
<1>7. level * (p - n) <= x * (n * p)
  <2>1. n * whole = n * level + x * (n * p) /\ n * level \in Nat /\ x * (n * p) \in Nat
    BY <1>1, <1>3, <1>4
  <2>2. level * (p - n) = level * p - n * level
    BY <1>1, <1>4
  <2>3. QED
    BY <1>3, <1>4, <2>1, <2>2
<1>8. ASSUME NEW t \in Nat, t <= p, x * (t * p) < level * (p - t), n <= t PROVE FALSE
  <2>1. n * whole <= t * whole
    BY <1>3, <1>4, <1>8, ProductsGrow
  <2>2. t * whole = t * level + x * (t * p) /\ t * level \in Nat /\ x * (t * p) \in Nat
    BY <1>1, <1>3
  <2>3. level * (p - t) = level * p - t * level
    BY <1>1
  <2>4. n * whole \in Nat
    BY <1>3, <1>4
  <2>5. QED
    BY <1>3, <1>4, <1>8, <2>1, <2>2, <2>3, <2>4
<1>9. \A t \in Nat : t <= p /\ x * (t * p) < level * (p - t) => t < n
  BY <1>4, <1>8
<1>10. n \in Nat \ {0}
  BY <1>4, <1>6
<1>11. QED
  BY <1>2, <1>5, <1>7, <1>9, <1>10 DEF level

\* The same on the way up.
LEMMA PriceAfterUp ==
  ASSUME NEW p \in Nat, NEW l \in Nat \ {0}, NEW x \in Nat
  PROVE  LET n == PriceAfter(p, l, x, FALSE)
         IN /\ n \in Nat /\ p <= n
            /\ l * (n - p) <= x * PRICE_ONE
            /\ \A t \in Nat : p <= t /\ x * PRICE_ONE < l * (t - p) => n < t
<1> DEFINE more == (x * PRICE_ONE) \div l
<1>1. PRICE_ONE \in Nat \ {0}
  BY WalkAssumption
<1>2. x * PRICE_ONE \in Nat
  BY <1>1
<1>3. /\ more \in Nat /\ more * l <= x * PRICE_ONE
      /\ \A y \in Nat : x * PRICE_ONE < y * l => more < y
  BY <1>2, DownIs
<1>4. PriceAfter(p, l, x, FALSE) = p + more
  BY DEF PriceAfter
<1> HIDE DEF more
<1>5. l * ((p + more) - p) = more * l
  BY <1>3
<1>6. ASSUME NEW t \in Nat, p <= t, x * PRICE_ONE < l * (t - p) PROVE p + more < t
  <2>1. t - p \in Nat /\ l * (t - p) = (t - p) * l
    BY <1>6
  <2>2. more < t - p
    BY <1>3, <1>6, <2>1
  <2>3. QED
    BY <1>3, <2>2
<1>7. p + more \in Nat /\ p <= p + more
  BY <1>3
<1>8. l * ((p + more) - p) <= x * PRICE_ONE
  BY <1>3, <1>5
<1>9. QED
  BY <1>4, <1>6, <1>7, <1>8

\* A step on the way down stays between its price and its target, takes what it is offered
\* unless it reaches the target, and pays no more than what it takes is worth at both ends.
LEMMA StepsDown ==
  ASSUME NEW p \in Nat \ {0}, NEW target \in Nat \ {0}, target <= p,
         NEW l \in Nat \ {0}, NEW amount \in Nat
  PROVE  LET step == SwapStep(p, target, l, amount, TRUE)
         IN /\ step.next \in Nat /\ target <= step.next /\ step.next <= p
            /\ step.out \in Nat /\ step.takes \in Nat /\ step.takes <= amount
            /\ step.next # target => step.takes = amount
            /\ (step.out * PRICE_ONE) * PRICE_ONE <= step.takes * (step.next * p)
<1> DEFINE level == l * PRICE_ONE
           lessFee == (amount * (PIPS - FEE)) \div PIPS
           into == Up(Up(level * (p - target), p), target)
           short == PriceAfter(p, l, lessFee, TRUE)
           next == IF lessFee >= into THEN target ELSE short
           out == (l * (p - next)) \div PRICE_ONE
           takes == IF next # target THEN amount ELSE into + Up(into * FEE, PIPS - FEE)
<1>0. PRICE_ONE \in Nat \ {0}
  BY WalkAssumption
<1>1. level \in Nat
  BY <1>0
<1>2. SwapStep(p, target, l, amount, TRUE) = [next |-> next, out |-> out, takes |-> takes]
  BY DEF SwapStep, Amount0, Amount1
<1>3. /\ into \in Nat /\ level * (p - target) \in Nat
      /\ level * (p - target) <= into * (target * p)
      /\ \A x \in Nat : x < into => x * (target * p) < level * (p - target)
  BY <1>1, InputCovers
<1>4. /\ lessFee \in Nat /\ lessFee <= amount
      /\ into <= lessFee => LET t == into + Up(into * FEE, PIPS - FEE)
                            IN t \in Nat /\ into <= t /\ t <= amount
  BY <1>3, TakingsFit
<1>5. /\ short \in Nat \ {0} /\ short <= p
      /\ level * (p - short) <= lessFee * (short * p)
      /\ \A t \in Nat : t <= p /\ lessFee * (t * p) < level * (p - t) => t < short
  BY <1>4, PriceAfterDown
<1> HIDE DEF short, lessFee, into
<1>6. lessFee < into => target < short
  BY <1>3, <1>4, <1>5
<1>7. /\ next \in Nat /\ target <= next /\ next <= p
      /\ takes \in Nat /\ takes <= amount /\ (next # target => takes = amount)
      /\ level * (p - next) <= takes * (next * p)
  <2>1. CASE into <= lessFee
    <3>1. next = target /\ takes = into + Up(into * FEE, PIPS - FEE)
      BY <1>3, <1>4, <2>1
    <3>2. takes \in Nat /\ into <= takes /\ takes <= amount
      BY <1>4, <2>1, <3>1
    <3> HIDE DEF takes
    <3>3. target * p \in Nat
      OBVIOUS
    <3>4. into * (target * p) <= takes * (target * p)
      BY <1>3, <3>2, <3>3, ProductsGrow
    <3>5. into * (target * p) \in Nat /\ takes * (target * p) \in Nat
      BY <1>3, <3>2, <3>3
    <3>6. level * (p - target) <= takes * (target * p)
      BY <1>3, <3>4, <3>5
    <3>7. QED
      BY <3>1, <3>2, <3>6
  <2>2. CASE lessFee < into
    <3>1. next = short /\ target < short
      BY <1>3, <1>4, <1>6, <2>2
    <3>2. next # target /\ takes = amount
      BY <1>5, <3>1
    <3>3. short * p \in Nat
      BY <1>5
    <3>4. lessFee * (short * p) <= amount * (short * p)
      BY <1>4, <3>3, ProductsGrow
    <3>5. lessFee * (short * p) \in Nat /\ amount * (short * p) \in Nat /\ level * (p - short) \in Nat
      <4>1. p - short \in Nat
        BY <1>5
      <4>2. QED
        BY <1>1, <1>4, <3>3, <4>1
    <3>6. level * (p - short) <= amount * (short * p)
      BY <1>5, <3>4, <3>5
    <3> HIDE DEF takes, next
    <3>7. QED
      BY <1>5, <3>1, <3>2, <3>6
  <2>3. QED
    BY <1>3, <1>4, <2>1, <2>2
<1> HIDE DEF next, takes
<1>8. p - next \in Nat /\ l * (p - next) \in Nat
  <2>1. p - next \in Nat
    BY <1>7
  <2>2. QED
    BY <2>1
<1>9. out \in Nat /\ out * PRICE_ONE <= l * (p - next)
  BY <1>0, <1>8, DownIs
<1> HIDE DEF out
<1>10. (out * PRICE_ONE) * PRICE_ONE <= takes * (next * p)
  <2>1. out * PRICE_ONE \in Nat /\ (out * PRICE_ONE) * PRICE_ONE <= (l * (p - next)) * PRICE_ONE
    BY <1>0, <1>8, <1>9, ProductsGrow
  <2>2. (l * (p - next)) * PRICE_ONE = level * (p - next)
    BY <1>0, <1>8
  <2>3. /\ level * (p - next) \in Nat /\ takes * (next * p) \in Nat
        /\ (out * PRICE_ONE) * PRICE_ONE \in Nat
    <3>1. next * p \in Nat
      BY <1>7
    <3>2. QED
      BY <1>0, <1>1, <1>7, <1>8, <2>1, <3>1
  <2>4. QED
    BY <1>7, <2>1, <2>2, <2>3
<1> DEFINE step == SwapStep(p, target, l, amount, TRUE)
<1>11. step.next = next /\ step.out = out /\ step.takes = takes
  <2>1. step = [next |-> next, out |-> out, takes |-> takes]
    BY <1>2 DEF out
  <2> HIDE DEF step
  <2>2. QED
    BY <2>1
<1> HIDE DEF step
<1>12. /\ step.next \in Nat /\ target <= step.next /\ step.next <= p
       /\ step.out \in Nat /\ step.takes \in Nat /\ step.takes <= amount
       /\ step.next # target => step.takes = amount
       /\ (step.out * PRICE_ONE) * PRICE_ONE <= step.takes * (step.next * p)
  BY <1>7, <1>9, <1>10, <1>11
<1>13. QED
  BY <1>12 DEF step

\* The same on the way up.
LEMMA StepsUp ==
  ASSUME NEW p \in Nat \ {0}, NEW target \in Nat \ {0}, p <= target,
         NEW l \in Nat \ {0}, NEW amount \in Nat
  PROVE  LET step == SwapStep(p, target, l, amount, FALSE)
         IN /\ step.next \in Nat /\ p <= step.next /\ step.next <= target
            /\ step.out \in Nat /\ step.takes \in Nat /\ step.takes <= amount
            /\ step.next # target => step.takes = amount
            /\ step.out * (step.next * p) <= (step.takes * PRICE_ONE) * PRICE_ONE
<1> DEFINE lessFee == (amount * (PIPS - FEE)) \div PIPS
           into == Up(l * (target - p), PRICE_ONE)
           short == PriceAfter(p, l, lessFee, FALSE)
           next == IF lessFee >= into THEN target ELSE short
           out == ((l * PRICE_ONE * (next - p)) \div next) \div p
           takes == IF next # target THEN amount ELSE into + Up(into * FEE, PIPS - FEE)
<1>0. PRICE_ONE \in Nat \ {0}
  BY WalkAssumption
<1>1. target - p \in Nat /\ l * (target - p) \in Nat
  <2>1. target - p \in Nat
    OBVIOUS
  <2>2. QED
    BY <2>1
<1>2. SwapStep(p, target, l, amount, FALSE) = [next |-> next, out |-> out, takes |-> takes]
  BY DEF SwapStep, Amount0, Amount1
<1>3. /\ into \in Nat /\ l * (target - p) <= into * PRICE_ONE
      /\ \A x \in Nat : x < into => x * PRICE_ONE < l * (target - p)
  BY <1>0, <1>1, UpIs
<1>4. /\ lessFee \in Nat /\ lessFee <= amount
      /\ into <= lessFee => LET t == into + Up(into * FEE, PIPS - FEE)
                            IN t \in Nat /\ into <= t /\ t <= amount
  BY <1>3, TakingsFit
<1>5. /\ short \in Nat /\ p <= short
      /\ l * (short - p) <= lessFee * PRICE_ONE
      /\ \A t \in Nat : p <= t /\ lessFee * PRICE_ONE < l * (t - p) => short < t
  BY <1>4, PriceAfterUp
<1> HIDE DEF short, lessFee, into
<1>6. lessFee < into => short < target
  BY <1>3, <1>4, <1>5
<1>7. /\ next \in Nat \ {0} /\ p <= next /\ next <= target
      /\ takes \in Nat /\ takes <= amount /\ (next # target => takes = amount)
      /\ l * (next - p) <= takes * PRICE_ONE
  <2>1. CASE into <= lessFee
    <3>1. next = target /\ takes = into + Up(into * FEE, PIPS - FEE)
      BY <1>3, <1>4, <2>1
    <3>2. takes \in Nat /\ into <= takes /\ takes <= amount
      BY <1>4, <2>1, <3>1
    <3> HIDE DEF takes
    <3>3. /\ into * PRICE_ONE <= takes * PRICE_ONE
          /\ into * PRICE_ONE \in Nat /\ takes * PRICE_ONE \in Nat
      BY <1>0, <1>3, <3>2, ProductsGrow
    <3>4. QED
      BY <1>1, <1>3, <3>1, <3>2, <3>3
  <2>2. CASE lessFee < into
    <3>1. next = short /\ short < target
      BY <1>3, <1>4, <1>6, <2>2
    <3>2. next # target /\ takes = amount
      BY <1>5, <3>1
    <3>3. /\ lessFee * PRICE_ONE <= amount * PRICE_ONE
          /\ lessFee * PRICE_ONE \in Nat /\ amount * PRICE_ONE \in Nat
      BY <1>0, <1>4, ProductsGrow
    <3>4. short - p \in Nat /\ l * (short - p) \in Nat
      <4>1. short - p \in Nat
        BY <1>5
      <4>2. QED
        BY <4>1
    <3>5. l * (short - p) <= amount * PRICE_ONE
      BY <1>5, <3>3, <3>4
    <3> HIDE DEF takes, next
    <3>6. QED
      BY <1>5, <3>1, <3>2, <3>5
  <2>3. QED
    BY <1>3, <1>4, <2>1, <2>2
<1> HIDE DEF next, takes
<1> DEFINE gap == l * PRICE_ONE * (next - p)
           half == gap \div next
<1>8. next - p \in Nat /\ gap \in Nat /\ l * (next - p) \in Nat
  <2>1. next - p \in Nat /\ l * PRICE_ONE \in Nat
    BY <1>0, <1>7
  <2>2. QED
    BY <2>1
<1>9. gap = (l * (next - p)) * PRICE_ONE
  BY <1>0, <1>8
<1> HIDE DEF gap
<1>10. half \in Nat /\ half * next <= gap
  BY <1>7, <1>8, DownIs
<1> HIDE DEF half
<1>11. out \in Nat /\ out * p <= half
  <2>1. half \div p \in Nat /\ (half \div p) * p <= half
    BY <1>10, DownIs
  <2>2. QED
    BY <2>1 DEF half, gap
<1> HIDE DEF out
<1>12. out * (next * p) <= (takes * PRICE_ONE) * PRICE_ONE
  <2>1. out * p \in Nat /\ (out * p) * next <= half * next
    BY <1>7, <1>10, <1>11, ProductsGrow
  <2>2. (out * p) * next = out * (next * p)
    BY <1>7, <1>11
  <2>3. takes * PRICE_ONE \in Nat /\ (l * (next - p)) * PRICE_ONE <= (takes * PRICE_ONE) * PRICE_ONE
    BY <1>0, <1>7, <1>8, ProductsGrow
  <2>4. (out * p) * next \in Nat /\ half * next \in Nat /\ (takes * PRICE_ONE) * PRICE_ONE \in Nat
    BY <1>0, <1>7, <1>10, <2>1, <2>3
  <2>5. QED
    BY <1>8, <1>9, <1>10, <2>1, <2>2, <2>3, <2>4
<1> DEFINE step == SwapStep(p, target, l, amount, FALSE)
<1>13. step.next = next /\ step.out = out /\ step.takes = takes
  <2>1. step = [next |-> next, out |-> out, takes |-> takes]
    BY <1>2 DEF out, half, gap
  <2> HIDE DEF step
  <2>2. QED
    BY <2>1
<1> HIDE DEF step
<1>14. /\ step.next \in Nat /\ p <= step.next /\ step.next <= target
       /\ step.out \in Nat /\ step.takes \in Nat /\ step.takes <= amount
       /\ step.next # target => step.takes = amount
       /\ step.out * (step.next * p) <= (step.takes * PRICE_ONE) * PRICE_ONE
  BY <1>7, <1>11, <1>12, <1>13
<1>15. QED
  BY <1>14 DEF step

---------------------------------------------------------------------------
(* What a tick is worth: the positions over it.                            *)

Covering(t) == SizeOf({q \in venue.provided : q.low <= t /\ t < q.high})

\* The sizes of some of the pool's positions, as one sum over all of them.
SizeByPosition == [q \in venue.provided |-> q.size]

\* Sums over a part of the positions are sums of one function.
LEMMA SizesAreSums ==
  ASSUME LoadInv, NEW S, S \subseteq venue.provided
  PROVE  /\ IsFiniteSet(S) /\ \A q \in S : SizeByPosition[q] \in Nat
         /\ SizeOf(S) = SumFunctionOnSet(SizeByPosition, S) /\ SizeOf(S) \in Nat
<1>1. IsFiniteSet(venue.provided) /\ \A q \in venue.provided : q.size \in Nat
  BY PoolAssumption DEF LoadInv
<1>2. IsFiniteSet(S) /\ \A q \in S : SizeByPosition[q] \in Nat
  BY <1>1, FS_Subset DEF SizeByPosition
<1> DEFINE own == [q \in S |-> q.size]
<1>3. \A q \in S : own[q] \in Int /\ own[q] = SizeByPosition[q]
  BY <1>2 DEF SizeByPosition
<1>4. SizeOf(S) = SumFunctionOnSet(own, S)
  BY DEF SizeOf
<1> HIDE DEF own
<1>5. SumFunctionOnSet(own, S) = SumFunctionOnSet(SizeByPosition, S)
  BY <1>2, <1>3, SumOfTheSame
<1>6. SumFunctionOnSet(SizeByPosition, S) \in Nat
  BY <1>2, SumIsNat
<1>7. QED
  BY <1>2, <1>4, <1>5, <1>6

\* Crossing a tick adds what begins at it and takes away what ends there.
LEMMA CrossingAdds ==
  ASSUME LoadInv, NEW t \in Int
  PROVE  /\ Covering(t) \in Nat /\ Net(venue.provided, t) \in Int
         /\ Covering(t) = Covering(t - 1) + Net(venue.provided, t)
<1> DEFINE all == venue.provided
           here == {q \in all : q.low <= t /\ t < q.high}
           before == {q \in all : q.low <= t - 1 /\ t - 1 < q.high}
           both == {q \in all : q.low <= t - 1 /\ t < q.high}
           begin == {q \in all : q.low = t}
           end == {q \in all : q.high = t}
<1>1. \A q \in all : q.low \in Int /\ q.high \in Int /\ q.low < q.high
  <2>1. all \in Provided /\ {MIN_TICK, MAX_TICK} \subseteq Int
    BY WalkAssumption DEF LoadInv
  <2>2. \A q \in all : {q.low, q.high} \subseteq MIN_TICK .. MAX_TICK /\ q.low < q.high
    BY <2>1, PoolAssumption
  <2>3. QED
    BY <2>1, <2>2
<1>2. here = both \cup begin /\ both \cap begin = {}
  BY <1>1
<1>3. before = both \cup end /\ both \cap end = {}
  BY <1>1
<1>4. /\ here \subseteq all /\ before \subseteq all /\ both \subseteq all
      /\ begin \subseteq all /\ end \subseteq all
  OBVIOUS
<1>5. /\ Covering(t) = SizeOf(here) /\ Covering(t - 1) = SizeOf(before)
      /\ Net(all, t) = SizeOf(begin) - SizeOf(end)
  BY DEF Covering, Net
<1> HIDE DEF here, before, both, begin, end
<1>6. SizeOf(here) = SizeOf(both) + SizeOf(begin)
  <2>1. SumFunctionOnSet(SizeByPosition, both \cup begin)
          = SumFunctionOnSet(SizeByPosition, both) + SumFunctionOnSet(SizeByPosition, begin)
    <3>1. /\ IsFiniteSet(both) /\ IsFiniteSet(begin)
          /\ \A q \in both \cup begin : SizeByPosition[q] \in Int
      BY <1>4, SizesAreSums
    <3>2. QED
      BY <1>2, <3>1, SumOfBoth
  <2>2. QED
    BY <1>2, <1>4, <2>1, SizesAreSums
<1>7. SizeOf(before) = SizeOf(both) + SizeOf(end)
  <2>1. SumFunctionOnSet(SizeByPosition, both \cup end)
          = SumFunctionOnSet(SizeByPosition, both) + SumFunctionOnSet(SizeByPosition, end)
    <3>1. /\ IsFiniteSet(both) /\ IsFiniteSet(end)
          /\ \A q \in both \cup end : SizeByPosition[q] \in Int
      BY <1>4, SizesAreSums
    <3>2. QED
      BY <1>3, <3>1, SumOfBoth
  <2>2. QED
    BY <1>3, <1>4, <2>1, SizesAreSums
<1>8. /\ SizeOf(here) \in Nat /\ SizeOf(both) \in Nat
      /\ SizeOf(begin) \in Nat /\ SizeOf(end) \in Nat
  BY <1>4, SizesAreSums
<1>9. QED
  BY <1>5, <1>6, <1>7, <1>8

\* Between two edges, ticks are covered alike.
LEMMA CoveredAlike ==
  ASSUME LoadInv, NEW t \in Int, NEW u \in Int, t <= u,
         \A e \in Edges(venue.provided) : ~(t < e /\ e <= u)
  PROVE  Covering(t) = Covering(u)
<1>1. \A q \in venue.provided : q.low \in Int /\ q.high \in Int
  <2>1. venue.provided \in Provided /\ {MIN_TICK, MAX_TICK} \subseteq Int
    BY WalkAssumption DEF LoadInv
  <2>2. \A q \in venue.provided : {q.low, q.high} \subseteq MIN_TICK .. MAX_TICK
    BY <2>1, PoolAssumption
  <2>3. QED
    BY <2>1, <2>2
<1>2. \A q \in venue.provided : ~(t < q.low /\ q.low <= u) /\ ~(t < q.high /\ q.high <= u)
  BY DEF Edges
<1>3. {q \in venue.provided : q.low <= t /\ t < q.high}
        = {q \in venue.provided : q.low <= u /\ u < q.high}
  BY <1>1, <1>2
<1>4. QED
  BY <1>3 DEF Covering

\* A table of words that is right about those it has.
Right(words) == \A w \in DOMAIN words : words[w] = EdgesIn(venue.provided, w)

\* An edge is a tick of the pool, and a whole number of spacings.
LEMMA EdgesAreSpaced ==
  ASSUME LoadInv, NEW e \in Edges(venue.provided)
  PROVE  /\ e \in MIN_TICK .. MAX_TICK /\ e \in Int /\ WordOf(e) \in AllWords
         /\ Compressed(e) \in Int /\ e = Compressed(e) * SPACING
<1>1. venue.provided \in Provided /\ {MIN_TICK, MAX_TICK} \subseteq Int
  BY WalkAssumption DEF LoadInv
<1>2. e \in MIN_TICK .. MAX_TICK /\ e % SPACING = 0
  BY <1>1, PoolAssumption DEF Edges
<1>3. e \in Int /\ MIN_TICK <= e /\ e <= MAX_TICK
  BY <1>1, <1>2
<1>4. WordOf(e) \in AllWords
  <2>1. /\ WordOf(MIN_TICK) \in Int /\ WordOf(e) \in Int /\ WordOf(MAX_TICK) \in Int
        /\ WordOf(MIN_TICK) <= WordOf(e) /\ WordOf(e) <= WordOf(MAX_TICK)
    BY <1>1, <1>3, WordsInOrder
  <2>2. QED
    BY <2>1 DEF AllWords
<1>5. SPACING \in Nat \ {0}
  BY WalkAssumption
<1>6. PICK d \in Int, m \in 0 .. SPACING - 1 :
         e = d * SPACING + m /\ d = e \div SPACING /\ m = e % SPACING
  BY <1>3, <1>5
<1>7. m = 0
  BY <1>2, <1>5, <1>6
<1>8. e = d * SPACING
  <2>1. e = d * SPACING + 0
    BY <1>6, <1>7, Zenon
  <2>2. d * SPACING + 0 = d * SPACING
    BY <1>5
  <2>3. QED
    BY <2>1, <2>2, Zenon
<1>9. QED
  BY <1>2, <1>3, <1>4, <1>6, <1>8 DEF Compressed

\* A step looks ahead from where it is: within its own word, or the next one's on the way up.
LEMMA LooksAhead ==
  ASSUME NEW tick \in Int, NEW down \in BOOLEAN
  PROVE  LET c == IF down THEN Compressed(tick) ELSE Compressed(tick) + 1
             w == c \div WORD
             end == (IF down THEN w * WORD ELSE w * WORD + WORD - 1) * SPACING
         IN /\ c \in Int /\ w \in Int /\ end \in Int /\ c * SPACING \in Int
            /\ WordOf(end) = w /\ WordOf(c * SPACING) = w
            /\ IF down THEN end <= c * SPACING /\ c * SPACING <= tick
               ELSE c * SPACING <= end /\ tick < c * SPACING
            /\ \A d \in Int : IF down THEN d * SPACING <= tick => d * SPACING <= c * SPACING
                              ELSE tick < d * SPACING => c * SPACING <= d * SPACING
<1> DEFINE c == IF down THEN Compressed(tick) ELSE Compressed(tick) + 1
           w == c \div WORD
           end == (IF down THEN w * WORD ELSE w * WORD + WORD - 1) * SPACING
<1>0. WORD \in Nat \ {0} /\ SPACING \in Nat \ {0}
  BY WalkAssumption
<1>1. PICK k \in Int, m \in 0 .. SPACING - 1 : tick = k * SPACING + m /\ k = tick \div SPACING
  BY <1>0
<1>2. c = (IF down THEN k ELSE k + 1) /\ c \in Int
  BY <1>1 DEF Compressed
<1>3. k * SPACING \in Int /\ (k + 1) * SPACING = k * SPACING + SPACING /\ (k + 1) * SPACING \in Int
  BY <1>0, <1>1
<1>4. /\ c * SPACING \in Int
      /\ IF down THEN c * SPACING <= tick ELSE tick < c * SPACING
  BY <1>0, <1>1, <1>2, <1>3
<1>5. ASSUME NEW d \in Int
      PROVE  IF down THEN d * SPACING <= tick => d * SPACING <= c * SPACING
             ELSE tick < d * SPACING => c * SPACING <= d * SPACING
  <2>1. d <= k => d * SPACING <= k * SPACING
    BY <1>0, <1>1, ScalingKeepsOrder
  <2>2. k + 1 <= d => (k + 1) * SPACING <= d * SPACING
    BY <1>0, <1>1, ScalingKeepsOrder
  <2>3. d * SPACING \in Int
    BY <1>0
  <2> HIDE DEF c
  <2>4. d <= k \/ k + 1 <= d
    BY <1>1
  <2>5. CASE d <= k
    BY <1>0, <1>1, <1>2, <1>3, <2>1, <2>3, <2>5
  <2>6. CASE k + 1 <= d
    BY <1>0, <1>1, <1>2, <1>3, <2>2, <2>3, <2>6
  <2>7. QED
    BY <2>4, <2>5, <2>6
<1> HIDE DEF c
<1>6. PICK q \in Int, r \in 0 .. WORD - 1 : c = q * WORD + r /\ q = w
  BY <1>0, <1>2
<1>7. w * WORD \in Int
  BY <1>0, <1>6
<1>8. IF down THEN end <= c * SPACING ELSE c * SPACING <= end
  <2>1. w * WORD <= c /\ c <= w * WORD + WORD - 1 /\ w * WORD + WORD - 1 \in Int
    BY <1>0, <1>6, <1>7
  <2>2. (w * WORD) * SPACING <= c * SPACING /\ c * SPACING <= (w * WORD + WORD - 1) * SPACING
    BY <1>0, <1>2, <1>7, <2>1, ScalingKeepsOrder
  <2>3. QED
    BY <2>2
<1>9. WordOf(c * SPACING) = w
  <2>1. (c * SPACING + 0) \div SPACING = c
    BY <1>0, <1>2, QuotientIs
  <2>2. Compressed(c * SPACING) = c
    BY <1>4, <2>1 DEF Compressed
  <2>3. QED
    BY <2>2 DEF WordOf
<1>10. end \in Int /\ WordOf(end) = w
  BY <1>6, EndsOfAWord
<1>11. QED
  BY <1>2, <1>4, <1>5, <1>6, <1>8, <1>9, <1>10 DEF c

\* A step looks ahead to the next edge of the word, or to the word's end: of a table that has
\* every word, no edge lies before.
LEMMA LooksAtTheNextEdge ==
  ASSUME LoadInv, NEW words, Right(words), NEW tick \in Int, NEW down \in BOOLEAN
  PROVE  LET ahead == Ahead(words, tick, down)
         IN /\ ahead.next \in Int /\ ahead.edge \in BOOLEAN
            /\ IF down THEN ahead.next <= tick ELSE tick < ahead.next
            /\ ahead.edge => /\ ahead.next \in Edges(venue.provided)
                             /\ WordOf(ahead.next) \in DOMAIN words
            /\ AllWords \subseteq DOMAIN words =>
                 \A x \in Edges(venue.provided) :
                   (IF down THEN ahead.next <= x /\ x <= tick ELSE tick < x /\ x <= ahead.next)
                     => ahead.edge /\ x = ahead.next
<1> DEFINE c == IF down THEN Compressed(tick) ELSE Compressed(tick) + 1
           w == c \div WORD
           edges == WordAt(words, w)
           there == {e \in edges : IF down THEN e <= c * SPACING ELSE e >= c * SPACING}
           end == (IF down THEN w * WORD ELSE w * WORD + WORD - 1) * SPACING
           next == IF there = {} THEN end ELSE IF down THEN Max(there) ELSE Min(there)
           ahead == Ahead(words, tick, down)
<1>1. /\ c \in Int /\ w \in Int /\ end \in Int /\ c * SPACING \in Int
      /\ WordOf(end) = w /\ WordOf(c * SPACING) = w
      /\ IF down THEN end <= c * SPACING /\ c * SPACING <= tick
         ELSE c * SPACING <= end /\ tick < c * SPACING
      /\ \A d \in Int : IF down THEN d * SPACING <= tick => d * SPACING <= c * SPACING
                        ELSE tick < d * SPACING => c * SPACING <= d * SPACING
  BY LooksAhead
<1>2. \A e \in edges : e \in Edges(venue.provided) /\ WordOf(e) = w /\ w \in DOMAIN words
  BY DEF WordAt, Right, EdgesIn
<1>3. ahead.next = next /\ ahead.edge = (there # {})
  <2>1. ahead = IF there = {} THEN [next |-> end, edge |-> FALSE]
                ELSE [next |-> IF down THEN Max(there) ELSE Min(there), edge |-> TRUE]
    BY DEF Ahead
  <2> HIDE DEF ahead, there, end
  <2>2. QED
    BY <2>1
<1>4. MIN_TICK \in Int /\ MAX_TICK \in Int
  BY WalkAssumption
<1>5. there \subseteq MIN_TICK .. MAX_TICK /\ there \subseteq edges
  BY <1>2, EdgesAreSpaced
<1>6. there # {} => /\ next \in there
                    /\ IF down THEN \A x \in there : x <= next ELSE \A x \in there : next <= x
  <2>1. ASSUME there # {}
        PROVE  /\ Max(there) \in there /\ Min(there) \in there
               /\ \A x \in there : x <= Max(there) /\ Min(there) <= x
    <3> HIDE DEF there
    <3>1. QED
      BY <1>4, <1>5, <2>1, ExtremesAreMembers
  <2> HIDE DEF there
  <2>2. QED
    BY <2>1
<1>7. /\ next \in Int
      /\ IF down THEN next <= c * SPACING ELSE c * SPACING <= next
      /\ WordOf(next) = w
  <2>1. CASE there = {}
    <3>1. next = end
      BY <2>1
    <3>2. QED
      BY <1>1, <3>1
  <2>2. CASE there # {}
    <3>1. next \in there
      BY <1>6, <2>2
    <3> HIDE DEF next
    <3>2. next \in edges /\ IF down THEN next <= c * SPACING ELSE next >= c * SPACING
      BY <3>1
    <3>3. next \in Int
      BY <1>2, <3>2, EdgesAreSpaced
    <3> HIDE DEF edges, there
    <3>4. QED
      BY <1>1, <1>2, <3>2, <3>3
  <2>3. QED
    BY <2>1, <2>2
<1>8. there # {} => next \in Edges(venue.provided) /\ WordOf(next) \in DOMAIN words
  BY <1>2, <1>5, <1>6, <1>7
<1> HIDE DEF next
<1>9. IF down THEN next <= tick ELSE tick < next
  <2> HIDE DEF c, w, end
  <2>1. QED
    BY <1>1, <1>7
<1>10. ASSUME AllWords \subseteq DOMAIN words, NEW x \in Edges(venue.provided),
              IF down THEN next <= x /\ x <= tick ELSE tick < x /\ x <= next
       PROVE  there # {} /\ x = next
  <2>1. /\ x \in Int /\ WordOf(x) \in AllWords
        /\ Compressed(x) \in Int /\ x = Compressed(x) * SPACING
    BY EdgesAreSpaced
  <2> HIDE DEF c
  <2>2. IF down THEN x <= c * SPACING ELSE c * SPACING <= x
    BY <1>1, <1>10, <2>1
  <2>3. IF down THEN next <= x /\ x <= c * SPACING ELSE c * SPACING <= x /\ x <= next
    BY <1>10, <2>2
  <2>4. WordOf(x) = w
    <3>1. CASE down
      <4>1. /\ WordOf(next) \in Int /\ WordOf(x) \in Int /\ WordOf(next) <= WordOf(x)
            /\ WordOf(c * SPACING) \in Int /\ WordOf(x) <= WordOf(c * SPACING)
        BY <1>1, <1>7, <2>1, <2>3, <3>1, WordsInOrder
      <4>2. QED
        BY <1>1, <1>7, <4>1
    <3>2. CASE ~down
      <4>1. /\ WordOf(next) \in Int /\ WordOf(x) \in Int /\ WordOf(x) <= WordOf(next)
            /\ WordOf(c * SPACING) \in Int /\ WordOf(c * SPACING) <= WordOf(x)
        BY <1>1, <1>7, <2>1, <2>3, <3>2, WordsInOrder
      <4>2. QED
        BY <1>1, <1>7, <4>1
    <3>3. QED
      BY <3>1, <3>2
  <2>5. w \in DOMAIN words /\ x \in edges
    BY <1>10, <2>1, <2>4 DEF WordAt, Right, EdgesIn
  <2> HIDE DEF edges
  <2>6. x \in there
    BY <1>1, <2>1, <2>2, <2>5
  <2> HIDE DEF there
  <2>7. IF down THEN x <= next ELSE next <= x
    BY <1>6, <2>6
  <2>8. x = next
    BY <1>7, <1>10, <2>1, <2>7
  <2>9. QED
    BY <2>6, <2>8
<1> HIDE DEF there, ahead
<1>11. /\ ahead.next \in Int /\ ahead.edge \in BOOLEAN
       /\ IF down THEN ahead.next <= tick ELSE tick < ahead.next
       /\ ahead.edge => /\ ahead.next \in Edges(venue.provided)
                        /\ WordOf(ahead.next) \in DOMAIN words
  BY <1>3, <1>7, <1>8, <1>9
<1>12. AllWords \subseteq DOMAIN words =>
         \A x \in Edges(venue.provided) :
           (IF down THEN ahead.next <= x /\ x <= tick ELSE tick < x /\ x <= ahead.next)
             => ahead.edge /\ x = ahead.next
  BY <1>3, <1>10
<1>13. QED
  BY <1>11, <1>12 DEF ahead

---------------------------------------------------------------------------
(* A walk pays no more than the price it began at.                         *)

\* Between that price and the limit it goes to,
Between(a) ==
  IF a.down THEN RatioAt[MIN_TICK] < a.price /\ a.price <= venue.slot.price
  ELSE venue.slot.price <= a.price /\ a.price < RatioAt[MAX_TICK]

\* on a tick that is not behind its price, and with what covers it,
OnItsWay(a) ==
  /\ a.liquidity = Covering(a.tick)
  /\ IF a.down THEN a.tick \in MIN_TICK .. MAX_TICK /\ RatioAt[a.tick] <= a.price
     ELSE a.tick + 1 \in MIN_TICK .. MAX_TICK /\ a.price <= RatioAt[a.tick + 1]

\* and what it has paid is worth no more than what it took.
PaidNoMore(down, out, consumed) ==
  LET spot == venue.slot.price
  IN IF down THEN out * PRICE_ONE * PRICE_ONE <= consumed * spot * spot
     ELSE out * spot * spot <= consumed * PRICE_ONE * PRICE_ONE

\* A walk that has stopped is only as its last step left it.
Fair(a) ==
  /\ IsAWalk(a) /\ a.down \in BOOLEAN
  /\ a.price \in Nat /\ a.liquidity \in Nat /\ a.offered \in Nat /\ a.remaining \in Nat
  /\ a.out \in Nat /\ a.remaining <= a.offered
  /\ Between(a) /\ PaidNoMore(a.down, a.out, a.offered - a.remaining)
  /\ Walking(a) => OnItsWay(a)

FairInv == snapshot.pc = "walk" /\ Faithful => Fair(quote)

\* The price before, the limits, and the prices of the ticks.
LEMMA PricesAreKnown ==
  ASSUME LoadInv
  PROVE  /\ MIN_TICK \in Int /\ MAX_TICK \in Int /\ MIN_TICK <= MAX_TICK
         /\ \A t \in MIN_TICK .. MAX_TICK : t \in Int /\ RatioAt[t] \in Nat \ {0}
         /\ \A t, u \in MIN_TICK .. MAX_TICK : t <= u => RatioAt[t] <= RatioAt[u]
         /\ RatioAt[MIN_TICK] \in Nat \ {0} /\ RatioAt[MAX_TICK] \in Nat \ {0}
         /\ venue.slot.tick \in MIN_TICK .. MAX_TICK - 1
         /\ venue.slot.price \in Nat
         /\ RatioAt[MIN_TICK] < venue.slot.price /\ venue.slot.price < RatioAt[MAX_TICK]
         /\ RatioAt[venue.slot.tick] <= venue.slot.price
         /\ venue.slot.price <= RatioAt[venue.slot.tick + 1]
<1>1. MIN_TICK \in Int /\ MAX_TICK \in Int /\ MIN_TICK <= MAX_TICK
  BY WalkAssumption
<1>2. venue.slot \in Slot
  BY DEF LoadInv
<1>3. MIN_TICK \in MIN_TICK .. MAX_TICK /\ MAX_TICK \in MIN_TICK .. MAX_TICK
  BY <1>1
<1>4. \A t \in MIN_TICK .. MAX_TICK : t \in Int
  BY <1>1
<1>5. QED
  BY <1>1, <1>2, <1>3, <1>4, PoolAssumption

\* One step more: what two steps paid is worth no more than what both took.
LEMMA PaymentsAdd ==
  ASSUME LoadInv, NEW down \in BOOLEAN, NEW out \in Nat, NEW consumed \in Nat,
         PaidNoMore(down, out, consumed),
         NEW more \in Nat, NEW takes \in Nat, NEW p \in Nat, NEW n \in Nat,
         IF down THEN /\ n <= p /\ p <= venue.slot.price
                      /\ (more * PRICE_ONE) * PRICE_ONE <= takes * (n * p)
         ELSE /\ venue.slot.price <= p /\ p <= n
              /\ more * (n * p) <= (takes * PRICE_ONE) * PRICE_ONE
  PROVE  PaidNoMore(down, out + more, consumed + takes)
<1> DEFINE spot == venue.slot.price
<1>1. spot \in Nat /\ PRICE_ONE \in Nat
  BY PricesAreKnown, WalkAssumption
<1> HIDE DEF spot
<1>2. CASE down
  <2>1. n <= spot /\ p <= spot
    BY <1>1, <1>2 DEF spot
  <2>2. n * p \in Nat /\ spot * spot \in Nat /\ n * p <= spot * spot
    BY <1>1, <2>1, ProductsKeepOrder
  <2>3. takes * (n * p) <= takes * (spot * spot)
    BY <2>2, ProductsKeepOrder
  <2>4. /\ (more * PRICE_ONE) * PRICE_ONE \in Nat /\ takes * (n * p) \in Nat
        /\ takes * (spot * spot) \in Nat
        /\ (out * PRICE_ONE) * PRICE_ONE \in Nat /\ (consumed * spot) * spot \in Nat
    <3>1. more * PRICE_ONE \in Nat /\ out * PRICE_ONE \in Nat /\ consumed * spot \in Nat
      BY <1>1
    <3>2. QED
      BY <1>1, <2>2, <3>1
  <2>5. (more * PRICE_ONE) * PRICE_ONE <= takes * (spot * spot)
    BY <1>2, <2>3, <2>4
  <2>6. (out * PRICE_ONE) * PRICE_ONE <= (consumed * spot) * spot
    BY <1>2 DEF PaidNoMore, spot
  <2>7. /\ ((out + more) * PRICE_ONE) * PRICE_ONE
             = (out * PRICE_ONE) * PRICE_ONE + (more * PRICE_ONE) * PRICE_ONE
        /\ ((consumed + takes) * spot) * spot = (consumed * spot) * spot + takes * (spot * spot)
    BY <1>1
  <2>8. ((out + more) * PRICE_ONE) * PRICE_ONE <= ((consumed + takes) * spot) * spot
    BY <2>4, <2>5, <2>6, <2>7
  <2>9. QED
    BY <1>2, <2>8 DEF PaidNoMore, spot
<1>3. CASE ~down
  <2>1. spot <= n /\ spot <= p
    BY <1>1, <1>3 DEF spot
  <2>2. n * p \in Nat /\ spot * spot \in Nat /\ spot * spot <= n * p
    BY <1>1, <2>1, ProductsKeepOrder
  <2>3. more * (spot * spot) <= more * (n * p)
    BY <2>2, ProductsKeepOrder
  <2>4. /\ (takes * PRICE_ONE) * PRICE_ONE \in Nat /\ more * (n * p) \in Nat
        /\ more * (spot * spot) \in Nat
        /\ (consumed * PRICE_ONE) * PRICE_ONE \in Nat /\ (out * spot) * spot \in Nat
    <3>1. takes * PRICE_ONE \in Nat /\ consumed * PRICE_ONE \in Nat /\ out * spot \in Nat
      BY <1>1
    <3>2. QED
      BY <1>1, <2>2, <3>1
  <2>5. more * (spot * spot) <= (takes * PRICE_ONE) * PRICE_ONE
    BY <1>3, <2>3, <2>4
  <2>6. (out * spot) * spot <= (consumed * PRICE_ONE) * PRICE_ONE
    BY <1>3 DEF PaidNoMore, spot
  <2>7. /\ ((consumed + takes) * PRICE_ONE) * PRICE_ONE
             = (consumed * PRICE_ONE) * PRICE_ONE + (takes * PRICE_ONE) * PRICE_ONE
        /\ ((out + more) * spot) * spot = (out * spot) * spot + more * (spot * spot)
    BY <1>1
  <2>8. ((out + more) * spot) * spot <= ((consumed + takes) * PRICE_ONE) * PRICE_ONE
    BY <2>4, <2>5, <2>6, <2>7
  <2>9. QED
    BY <1>3, <2>8 DEF PaidNoMore, spot
<1>4. QED
  BY <1>2, <1>3

\* Where a step heads lies between its price and the limit.
LEMMA TargetsAreAhead ==
  ASSUME LoadInv, NEW a, Fair(a), OnItsWay(a), NEW t \in MIN_TICK .. MAX_TICK,
         IF a.down THEN t <= a.tick ELSE a.tick < t
  PROVE  LET target == IF a.down THEN Higher(RatioAt[t], Limit(TRUE)) ELSE Lower(RatioAt[t], Limit(FALSE))
         IN /\ a.price \in Nat \ {0} /\ target \in Nat \ {0}
            /\ target = RatioAt[t] \/ target = Limit(a.down)
            /\ IF a.down THEN target <= a.price /\ RatioAt[t] <= target /\ RatioAt[MIN_TICK] < target
               ELSE a.price <= target /\ target <= RatioAt[t] /\ target < RatioAt[MAX_TICK]
<1> DEFINE target == IF a.down THEN Higher(RatioAt[t], Limit(TRUE)) ELSE Lower(RatioAt[t], Limit(FALSE))
           low == RatioAt[MIN_TICK]
           high == RatioAt[MAX_TICK]
           to == RatioAt[t]
           spot == venue.slot.price
<1>1. /\ low \in Nat \ {0} /\ high \in Nat \ {0} /\ to \in Nat \ {0} /\ spot \in Nat
      /\ low < spot /\ spot < high /\ a.price \in Nat
  BY PricesAreKnown DEF Fair
<1>2. t \in Int /\ a.tick \in Int
  BY PricesAreKnown DEF Fair, IsAWalk
<1>3. CASE a.down
  <2>1. /\ a.tick \in MIN_TICK .. MAX_TICK /\ RatioAt[a.tick] <= a.price
        /\ low < a.price
    BY <1>3 DEF OnItsWay, Fair, Between
  <2>2. to <= RatioAt[a.tick] /\ RatioAt[a.tick] \in Nat
    BY <1>3, <2>1, PricesAreKnown
  <2>3. to <= a.price
    BY <1>1, <2>1, <2>2
  <2>4. target = IF low + 1 < to THEN to ELSE low + 1
    BY <1>1, <1>3 DEF Higher, Limit
  <2> HIDE DEF target
  <2>5. /\ target \in Nat \ {0} /\ target <= a.price /\ to <= target /\ low < target
        /\ a.price # 0 /\ (target = to \/ target = low + 1)
    BY <1>1, <2>1, <2>3, <2>4
  <2>6. Limit(a.down) = low + 1
    BY <1>3 DEF Limit
  <2>7. QED
    BY <1>1, <1>3, <2>5, <2>6 DEF target
<1>4. CASE ~a.down
  <2>1. /\ a.tick + 1 \in MIN_TICK .. MAX_TICK /\ a.price <= RatioAt[a.tick + 1]
        /\ a.price < high /\ spot <= a.price
    BY <1>4 DEF OnItsWay, Fair, Between
  <2>2. RatioAt[a.tick + 1] <= to /\ RatioAt[a.tick + 1] \in Nat
    <3>1. a.tick + 1 <= t
      BY <1>2, <1>4
    <3>2. QED
      BY <2>1, <3>1, PricesAreKnown
  <2>3. a.price <= to
    BY <1>1, <2>1, <2>2
  <2>4. target = IF to < high - 1 THEN to ELSE high - 1
    BY <1>1, <1>4 DEF Lower, Limit
  <2> HIDE DEF target
  <2>5. /\ target \in Nat \ {0} /\ a.price <= target /\ target <= to /\ target < high
        /\ a.price # 0 /\ (target = to \/ target = high - 1)
    BY <1>1, <2>1, <2>3, <2>4
  <2>6. Limit(a.down) = high - 1
    BY <1>4 DEF Limit
  <2>7. QED
    BY <1>1, <1>4, <2>5, <2>6 DEF target
<1>5. QED
  BY <1>3, <1>4

\* A step with liquidity or without, and what holds of either.
StepOver(p, target, l, amount, down) ==
  IF l = 0 THEN [next |-> target, out |-> 0, takes |-> 0] ELSE SwapStep(p, target, l, amount, down)

StepFits(step, p, target, amount, down) ==
  /\ step.next \in Nat /\ step.out \in Nat /\ step.takes \in Nat /\ step.takes <= amount
  /\ step.next # target => step.takes = amount
  /\ IF down THEN /\ target <= step.next /\ step.next <= p
                  /\ (step.out * PRICE_ONE) * PRICE_ONE <= step.takes * (step.next * p)
     ELSE /\ p <= step.next /\ step.next <= target
          /\ step.out * (step.next * p) <= (step.takes * PRICE_ONE) * PRICE_ONE

\* What a step does to price and amounts.
LEMMA StepsAreBounded ==
  ASSUME NEW p \in Nat \ {0}, NEW target \in Nat \ {0}, NEW down \in BOOLEAN,
         IF down THEN target <= p ELSE p <= target, NEW l \in Nat, NEW amount \in Nat
  PROVE  StepFits(StepOver(p, target, l, amount, down), p, target, amount, down)
<1> DEFINE none == [next |-> target, out |-> 0, takes |-> 0]
<1>1. StepFits(none, p, target, amount, down)
  <2>1. none.next = target /\ none.out = 0 /\ none.takes = 0
    OBVIOUS
  <2> HIDE DEF none
  <2>2. /\ PRICE_ONE \in Nat /\ target * p \in Nat
        /\ (0 * PRICE_ONE) * PRICE_ONE = 0 /\ 0 * (target * p) = 0
    BY WalkAssumption
  <2>3. QED
    BY <2>1, <2>2 DEF StepFits
<1>2. ASSUME l # 0 PROVE StepFits(SwapStep(p, target, l, amount, down), p, target, amount, down)
  <2>1. CASE down = TRUE
    BY <1>2, <2>1, StepsDown DEF StepFits
  <2>2. CASE down = FALSE
    <3>1. StepFits(SwapStep(p, target, l, amount, FALSE), p, target, amount, FALSE)
      BY <1>2, <2>2, StepsUp DEF StepFits
    <3>2. QED
      BY <2>2, <3>1
  <2>3. QED
    BY <2>1, <2>2
<1>3. QED
  BY <1>1, <1>2 DEF StepOver

\* What is next to be walked over has what covers it: a step that ends on an edge crosses it.
LEMMA CrossingsAreKnown ==
  ASSUME LoadInv, Knows, Faithful, NEW a, Fair(a), OnItsWay(a)
  PROVE  LET ahead == Ahead(snapshot.words, a.tick, a.down)
             t == Clamped(ahead.next)
             net == IF ahead.edge /\ t \in DOMAIN snapshot.net THEN snapshot.net[t] ELSE 0
         IN /\ t \in MIN_TICK .. MAX_TICK
            /\ IF a.down THEN t <= a.tick ELSE a.tick < t
            /\ Outside(snapshot, a, t) => net = 0
            /\ ~Outside(snapshot, a, t) =>
                 IF a.down THEN Covering(t - 1) = a.liquidity - net
                 ELSE Covering(t) = a.liquidity + net
<1> DEFINE ahead == Ahead(snapshot.words, a.tick, a.down)
           whole == Whole(venue).words
           t == Clamped(ahead.next)
           net == IF ahead.edge /\ t \in DOMAIN snapshot.net THEN snapshot.net[t] ELSE 0
           edges == Edges(venue.provided)
<1>1. a.tick \in Int /\ a.down \in BOOLEAN
  BY DEF Fair, IsAWalk
<1>2. Right(snapshot.words)
  BY DEF Right, Knows
<1>3. /\ ahead.next \in Int /\ ahead.edge \in BOOLEAN
      /\ IF a.down THEN ahead.next <= a.tick ELSE a.tick < ahead.next
      /\ ahead.edge => ahead.next \in edges /\ WordOf(ahead.next) \in DOMAIN snapshot.words
  BY <1>1, <1>2, LooksAtTheNextEdge
<1>4. ahead.edge => t = ahead.next /\ t \in DOMAIN snapshot.net
  BY <1>1, TicksAreNumbers
<1>5. /\ MIN_TICK \in Int /\ MAX_TICK \in Int /\ MIN_TICK <= MAX_TICK
      /\ IF a.down THEN a.tick \in MIN_TICK .. MAX_TICK ELSE a.tick + 1 \in MIN_TICK .. MAX_TICK
  BY PricesAreKnown DEF OnItsWay
<1> HIDE DEF ahead
<1>6. /\ t \in MIN_TICK .. MAX_TICK /\ t \in Int
      /\ IF a.down THEN ahead.next <= t /\ t <= a.tick ELSE a.tick < t /\ t <= ahead.next
  BY <1>1, <1>3, <1>5 DEF Clamped, Lower, Higher
<1> HIDE DEF t
<1>7. Outside(snapshot, a, t) => net = 0
  BY <1>3, <1>4 DEF Outside
<1>8. ASSUME ~Outside(snapshot, a, t)
      PROVE  IF a.down THEN Covering(t - 1) = a.liquidity - net ELSE Covering(t) = a.liquidity + net
  <2>1. ahead = Ahead(whole, a.tick, a.down)
    <3>1. WordOf(Clamped(ahead.next)) \in DOMAIN snapshot.words
      BY <1>8 DEF Outside, t
    <3>2. QED
      BY <1>1, <3>1, StepsAheadAgree DEF ahead
  <2>2. Right(whole) /\ AllWords \subseteq DOMAIN whole
    BY DEF Right, Whole
  <2>3. \A x \in edges :
          (IF a.down THEN ahead.next <= x /\ x <= a.tick ELSE a.tick < x /\ x <= ahead.next)
            => ahead.edge /\ x = ahead.next
    BY <1>1, <2>1, <2>2, LooksAtTheNextEdge
  <2>4. \A x \in edges : x \in Int
    BY EdgesAreSpaced
  <2>5. net = Net(venue.provided, t)
    <3>1. CASE ahead.edge
      BY <1>4, <3>1 DEF Knows
    <3>2. CASE ~ahead.edge
      <4>1. t \notin edges
        BY <1>3, <1>6, <2>3, <3>2
      <4>2. /\ {q \in venue.provided : q.low = t} = {} /\ {q \in venue.provided : q.high = t} = {}
        BY <4>1 DEF Edges
      <4>3. SizeOf({}) = 0
        BY SumOfNothing, SizesAreSums
      <4>4. Net(venue.provided, t) = 0
        <5> DEFINE begin == {q \in venue.provided : q.low = t}
                   end == {q \in venue.provided : q.high = t}
        <5>1. Net(venue.provided, t) = SizeOf(begin) - SizeOf(end)
          BY DEF Net
        <5>2. begin = {} /\ end = {}
          BY <4>2
        <5> HIDE DEF begin, end
        <5>3. QED
          BY <4>3, <5>1, <5>2
      <4>5. QED
        BY <3>2, <4>4
    <3>3. QED
      BY <3>1, <3>2
  <2>6. /\ Covering(t) \in Nat /\ Net(venue.provided, t) \in Int
        /\ Covering(t) = Covering(t - 1) + Net(venue.provided, t)
    BY <1>6, CrossingAdds
  <2>7. t - 1 \in Int
    BY <1>6
  <2>8. Covering(t - 1) \in Nat
    BY <2>7, CrossingAdds
  <2>9. a.liquidity = Covering(a.tick)
    BY DEF OnItsWay
  <2> HIDE DEF net
  <2>10. CASE a.down
    <3>1. \A x \in edges : ~(t < x /\ x <= a.tick)
      BY <1>1, <1>3, <1>4, <1>6, <2>3, <2>4, <2>10
    <3>2. Covering(t) = Covering(a.tick)
      BY <1>1, <1>6, <2>10, <3>1, CoveredAlike
    <3>3. QED
      BY <2>5, <2>6, <2>8, <2>9, <2>10, <3>2
  <2>11. CASE ~a.down
    <3>1. \A x \in edges : ~(a.tick < x /\ x <= t - 1)
      BY <1>1, <1>3, <1>4, <1>6, <2>3, <2>4, <2>11
    <3>2. Covering(a.tick) = Covering(t - 1)
      <4>1. a.tick <= t - 1
        BY <1>1, <1>6, <2>11
      <4>2. QED
        BY <1>1, <2>7, <3>1, <4>1, CoveredAlike
    <3>3. QED
      BY <2>5, <2>6, <2>8, <2>9, <2>11, <3>2
  <2>12. QED
    BY <2>10, <2>11
<1>9. QED
  BY <1>6, <1>7, <1>8 DEF t, ahead

\* A step of a fair walk leaves it fair.
LEMMA StepsStayFair ==
  ASSUME LoadInv, Knows, Faithful, NEW a, Fair(a), Walking(a)
  PROVE  Fair(Stepped(snapshot, a))
<1> DEFINE ahead == Ahead(snapshot.words, a.tick, a.down)
           t == Clamped(ahead.next)
           target == IF a.down THEN Higher(RatioAt[t], Limit(TRUE)) ELSE Lower(RatioAt[t], Limit(FALSE))
           step == StepOver(a.price, target, a.liquidity, a.remaining, a.down)
           net == IF ahead.edge /\ t \in DOMAIN snapshot.net THEN snapshot.net[t] ELSE 0
           there == step.next = RatioAt[t]
           b == Stepped(snapshot, a)
<1>1. /\ OnItsWay(a) /\ a.down \in BOOLEAN /\ a.tick \in Int
      /\ a.liquidity \in Nat /\ a.remaining \in Nat /\ a.offered \in Nat /\ a.out \in Nat
      /\ a.remaining <= a.offered
      /\ PaidNoMore(a.down, a.out, a.offered - a.remaining)
      /\ DOMAIN a = {"tick", "price", "liquidity", "offered", "remaining", "out", "down", "exhausted"}
  BY DEF Fair, IsAWalk
<1>2. /\ t \in MIN_TICK .. MAX_TICK
      /\ IF a.down THEN t <= a.tick ELSE a.tick < t
      /\ Outside(snapshot, a, t) => net = 0
      /\ ~Outside(snapshot, a, t) =>
           IF a.down THEN Covering(t - 1) = a.liquidity - net ELSE Covering(t) = a.liquidity + net
  BY <1>1, CrossingsAreKnown
<1>3. b = [a EXCEPT !.price = step.next, !.remaining = @ - step.takes, !.out = @ + step.out,
             !.liquidity = IF ~there THEN @ ELSE IF a.down THEN @ - net ELSE @ + net,
             !.tick = IF there THEN (IF a.down THEN t - 1 ELSE t)
                      ELSE IF a.liquidity = 0 THEN @ ELSE TickAt(step.next),
             !.exhausted = Outside(snapshot, a, t)]
  BY DEF Stepped, StepOver
<1> HIDE DEF b, ahead, t
<1>4. /\ a.price \in Nat \ {0} /\ target \in Nat \ {0}
      /\ target = RatioAt[t] \/ target = Limit(a.down)
      /\ IF a.down THEN target <= a.price /\ RatioAt[t] <= target /\ RatioAt[MIN_TICK] < target
         ELSE a.price <= target /\ target <= RatioAt[t] /\ target < RatioAt[MAX_TICK]
  BY <1>1, <1>2, TargetsAreAhead
<1> HIDE DEF target
<1>4b. StepFits(step, a.price, target, a.remaining, a.down)
  BY <1>1, <1>4, StepsAreBounded
<1> HIDE DEF step, net
<1>5. /\ step.next \in Nat /\ step.out \in Nat /\ step.takes \in Nat /\ step.takes <= a.remaining
      /\ step.next # target => step.takes = a.remaining
      /\ IF a.down THEN /\ target <= step.next /\ step.next <= a.price
                        /\ (step.out * PRICE_ONE) * PRICE_ONE <= step.takes * (step.next * a.price)
         ELSE /\ a.price <= step.next /\ step.next <= target
              /\ step.out * (step.next * a.price) <= (step.takes * PRICE_ONE) * PRICE_ONE
  BY <1>4b DEF StepFits
<1>6. /\ DOMAIN b = DOMAIN a /\ b.offered = a.offered /\ b.down = a.down
      /\ b.price = step.next /\ b.remaining = a.remaining - step.takes /\ b.out = a.out + step.out
      /\ b.liquidity = (IF ~there THEN a.liquidity
                        ELSE IF a.down THEN a.liquidity - net ELSE a.liquidity + net)
      /\ b.tick = (IF there THEN (IF a.down THEN t - 1 ELSE t)
                   ELSE IF a.liquidity = 0 THEN a.tick ELSE TickAt(step.next))
      /\ b.exhausted = Outside(snapshot, a, t)
  BY <1>1, <1>3
<1> HIDE DEF there
<1>7. /\ MIN_TICK \in Int /\ MAX_TICK \in Int /\ t \in Int /\ RatioAt[t] \in Nat
      /\ RatioAt[MIN_TICK] \in Nat /\ RatioAt[MAX_TICK] \in Nat
  BY <1>2, PricesAreKnown
<1>8. IsAWalk(b)
  BY <1>1, <1>6, <1>7, TickAtIsANumber DEF IsAWalk
<1>9. /\ b.price \in Nat /\ b.offered \in Nat /\ b.remaining \in Nat /\ b.out \in Nat
      /\ b.remaining <= b.offered
  BY <1>1, <1>5, <1>6
<1>10. Between(b)
  <2>1. IF a.down THEN RatioAt[MIN_TICK] < a.price /\ a.price <= venue.slot.price
        ELSE venue.slot.price <= a.price /\ a.price < RatioAt[MAX_TICK]
    BY DEF Fair, Between
  <2>2. venue.slot.price \in Nat
    BY PricesAreKnown
  <2>3. QED
    BY <1>4, <1>5, <1>6, <1>7, <2>1, <2>2 DEF Between
<1>11. PaidNoMore(b.down, b.out, b.offered - b.remaining)
  <2>1. /\ a.offered - a.remaining \in Nat
        /\ b.offered - b.remaining = (a.offered - a.remaining) + step.takes
    BY <1>1, <1>5, <1>6
  <2>2. IF a.down THEN a.price <= venue.slot.price ELSE venue.slot.price <= a.price
    BY DEF Fair, Between
  <2>3. PaidNoMore(a.down, a.out + step.out, (a.offered - a.remaining) + step.takes)
    BY <1>1, <1>4, <1>5, <2>1, <2>2, PaymentsAdd
  <2>4. QED
    BY <1>6, <2>1, <2>3
<1>12. there => IF a.down THEN t # MIN_TICK ELSE t # MAX_TICK
  BY <1>4, <1>5, <1>7 DEF there
<1>13. ~there => b.remaining = 0 \/ b.price = Limit(b.down)
  BY <1>1, <1>4, <1>5, <1>6 DEF there
<1>14. b.liquidity \in Nat
  <2>1. t - 1 \in Int
    BY <1>7
  <2>2. Covering(t) \in Nat /\ Covering(t - 1) \in Nat
    BY <1>7, <2>1, CrossingAdds
  <2>3. QED
    BY <1>1, <1>2, <1>6, <2>2
<1>15. ASSUME Walking(b) PROVE OnItsWay(b)
  <2>1. there /\ ~Outside(snapshot, a, t)
    BY <1>6, <1>9, <1>13, <1>15 DEF Walking
  <2>2. step.next = RatioAt[t]
    BY <2>1 DEF there
  <2>3. CASE a.down
    <3>1. b.tick = t - 1 /\ b.liquidity = a.liquidity - net
      BY <1>6, <2>1, <2>3
    <3>2. t - 1 \in MIN_TICK .. MAX_TICK
      BY <1>2, <1>7, <1>12, <2>1, <2>3
    <3>3. RatioAt[t - 1] <= RatioAt[t]
      BY <1>2, <1>7, <3>2, PricesAreKnown
    <3>4. QED
      BY <1>2, <1>6, <2>1, <2>2, <2>3, <3>1, <3>2, <3>3 DEF OnItsWay
  <2>4. CASE ~a.down
    <3>1. b.tick = t /\ b.liquidity = a.liquidity + net
      BY <1>6, <2>1, <2>4
    <3>2. t + 1 \in MIN_TICK .. MAX_TICK
      BY <1>2, <1>7, <1>12, <2>1, <2>4
    <3>3. RatioAt[t] <= RatioAt[t + 1]
      BY <1>2, <1>7, <3>2, PricesAreKnown
    <3>4. QED
      BY <1>2, <1>6, <2>1, <2>2, <2>4, <3>1, <3>2, <3>3 DEF OnItsWay
  <2>5. QED
    BY <2>3, <2>4
<1>16. Fair(b)
  BY <1>1, <1>6, <1>8, <1>9, <1>10, <1>11, <1>14, <1>15 DEF Fair
<1>17. QED
  BY <1>16 DEF b

\* A walk begins at the pool's own price, on its tick, with what covers it.
LEMMA WalksBeginFair ==
  ASSUME LoadInv, snapshot.slot = venue.slot, snapshot.liquidity = LiquidityOf(venue),
         NEW amount \in Nat, NEW down \in BOOLEAN
  PROVE  Fair(Begun(snapshot, amount, down))
<1> DEFINE a == Begun(snapshot, amount, down)
           tick == venue.slot.tick
           spot == venue.slot.price
<1>1. /\ DOMAIN a = {"tick", "price", "liquidity", "offered", "remaining", "out", "down", "exhausted"}
      /\ a.tick = tick /\ a.price = spot /\ a.liquidity = LiquidityOf(venue)
      /\ a.offered = amount /\ a.remaining = amount /\ a.out = 0 /\ a.down = down
  BY DEF Begun
<1> HIDE DEF a
<1>2. /\ MIN_TICK \in Int /\ MAX_TICK \in Int /\ tick \in MIN_TICK .. MAX_TICK - 1
      /\ spot \in Nat /\ RatioAt[MIN_TICK] < spot /\ spot < RatioAt[MAX_TICK]
      /\ RatioAt[tick] <= spot /\ spot <= RatioAt[tick + 1]
  BY PricesAreKnown
<1>3. tick \in Int /\ tick \in MIN_TICK .. MAX_TICK /\ tick + 1 \in MIN_TICK .. MAX_TICK
  BY <1>2
<1>4. LiquidityOf(venue) = Covering(tick) /\ Covering(tick) \in Nat
  BY <1>3, CrossingAdds DEF LiquidityOf, Covering
<1>5. Between(a) /\ OnItsWay(a)
  <2>1. spot <= spot
    BY <1>2
  <2>2. QED
    BY <1>1, <1>2, <1>3, <1>4, <2>1 DEF Between, OnItsWay
<1>6. PaidNoMore(down, 0, 0)
  <2>1. PRICE_ONE \in Nat
    BY WalkAssumption
  <2>2. (0 * PRICE_ONE) * PRICE_ONE = 0 /\ (0 * spot) * spot = 0
    BY <1>2, <2>1
  <2>3. QED
    BY <2>2 DEF PaidNoMore
<1>7. amount - amount = 0 /\ amount <= amount
  OBVIOUS
<1>8. Fair(a)
  BY <1>1, <1>2, <1>3, <1>4, <1>5, <1>6, <1>7 DEF Fair, IsAWalk
<1>9. QED
  BY <1>8 DEF a

\* The inductive invariant of a quote.
THEOREM QuotesAreFair == WalkSpec => []FairInv
<1>1. WalkInit => FairInv
  BY DEF WalkInit, Unloaded, FairInv
<1>2. WalkInv /\ FairInv /\ [WalkNext]_walkVars => FairInv'
  <2> SUFFICES ASSUME WalkInv, FairInv, [WalkNext]_walkVars, snapshot'.pc = "walk", Faithful'
               PROVE  Fair(quote)'
    BY DEF FairInv
  <2>1. CASE Simulates
    <3>1. PICK amount \in Offered, down \in BOOLEAN : quote' = Begun(snapshot, amount, down)
      BY <2>1 DEF Simulates
    <3>2. /\ snapshot' = [snapshot EXCEPT !.pc = "walk"] /\ venue' = venue /\ snapshot.pc = "ticks"
      BY <2>1 DEF Simulates
    <3>3. LoadInv /\ snapshot'.moved = snapshot.moved /\ (~snapshot.moved => Knows)
      BY <3>2 DEF WalkInv, LoadInv
    <3>4. snapshot.slot = venue.slot /\ snapshot.liquidity = LiquidityOf(venue)
      BY <3>2, <3>3 DEF Faithful, Knows, LoadInv
    <3>5. amount \in Nat
      BY WalkAssumption
    <3>6. Fair(Begun(snapshot, amount, down))
      BY <3>3, <3>4, <3>5, WalksBeginFair
    <3> DEFINE a == quote'
    <3>7. Fair(a)
      BY <3>1, <3>6
    <3>8. QED
      BY <3>2, <3>7 DEF Fair, Between, OnItsWay, PaidNoMore, Covering, IsAWalk, Walking
  <2>2. CASE Iterates
    <3>1. /\ snapshot.pc = "walk" /\ Walking(quote) /\ quote' = Stepped(snapshot, quote)
          /\ venue' = venue /\ snapshot' = snapshot
      BY <2>2 DEF Iterates
    <3>2. Faithful /\ LoadInv /\ Knows
      BY <3>1 DEF Faithful, WalkInv
    <3>3. Fair(quote)
      BY <3>1, <3>2 DEF FairInv
    <3>4. Fair(Stepped(snapshot, quote))
      BY <3>1, <3>2, <3>3, StepsStayFair
    <3> DEFINE a == quote'
    <3>5. Fair(a)
      BY <3>1, <3>4
    <3>6. QED
      BY <3>1, <3>5 DEF Fair, Between, OnItsWay, PaidNoMore, Covering, IsAWalk, Walking
  <2>3. CASE UNCHANGED walkVars
    <3>1. venue' = venue /\ snapshot' = snapshot /\ quote' = quote
      BY <2>3 DEF walkVars
    <3>2. Fair(quote)
      BY <3>1 DEF FairInv, Faithful
    <3>3. QED
      BY <3>1, <3>2 DEF Fair, Between, OnItsWay, PaidNoMore, Covering, IsAWalk, Walking
  <2>4. CASE ReadsSlot \/ ReadsLiquidity
    <3>1. snapshot'.pc # "walk"
      BY <2>4 DEF ReadsSlot, ReadsLiquidity, Loads, Answered, WalkInv, LoadInv
    <3>2. QED
      BY <3>1
  <2>5. CASE ReadsWords \/ ReadsChunk
    <3>1. snapshot'.pc # "walk"
      BY <2>5 DEF ReadsWords, ReadsChunk, Loads, WalkInv, LoadInv
    <3>2. QED
      BY <3>1
  <2>6. CASE VenueMoves
    <3>1. snapshot'.pc = snapshot.pc /\ snapshot.pc # "walk"
      BY <2>6 DEF VenueMoves, WalkInv, LoadInv
    <3>2. QED
      BY <3>1
  <2>7. QED
    BY <2>1, <2>2, <2>3, <2>4, <2>5, <2>6 DEF WalkNext
<1>3. QED
  BY <1>1, <1>2, WalksGoTogether, PTL DEF WalkSpec

\* Over any pool that rounds as v3math.ts does, any window and amount: what is quoted of a pool
\* that stood still and whose ticks were all read takes no more than it was offered, and pays
\* no more than the price before it (pool.ts 226-323).
THEOREM NothingBeatsTheSpotHolds == WalkSpec => []NothingBeatsTheSpot
<1>1. WalkInv /\ FairInv => NothingBeatsTheSpot
  <2> SUFFICES ASSUME WalkInv, Fair(quote), snapshot.pc = "walk", Faithful
               PROVE  NothingBeatsTheSpot
    BY DEF FairInv, NothingBeatsTheSpot
  <2>1. snapshot.slot = venue.slot
    BY DEF WalkInv, LoadInv, Knows, Faithful
  <2>2. /\ quote.remaining \in Nat /\ quote.liquidity \in Nat
        /\ PaidNoMore(quote.down, quote.out, quote.offered - quote.remaining)
    BY DEF Fair
  <2>3. QED
    BY <2>1, <2>2 DEF NothingBeatsTheSpot, PaidNoMore
<1>2. QED
  BY <1>1, WalksGoTogether, QuotesAreFair, PTL
=============================================================================
