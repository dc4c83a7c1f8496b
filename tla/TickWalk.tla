------------------------------ MODULE TickWalk ------------------------------
(***************************************************************************)
(* Quoting a pool without asking it: loadPool and simulateExactInput of    *)
(* src/pool.ts, over the arithmetic of src/v3math.ts, next to the pool     *)
(* itself.  The load takes four reads, or more, of a pool that moves in    *)
(* between, knows the ticks of a window of words only, and steps over      *)
(* reads that fail; the swap is then walked from tick to tick.             *)
(*                                                                         *)
(* Prices and amounts are integers with the rounding of the code; a tick's *)
(* price is a table, and a word has WORD bits.  A load that throws quotes  *)
(* nothing.                                                                *)
(***************************************************************************)
EXTENDS Integers, FiniteSetsExt

CONSTANTS
  Slot,         \* what slot0 may say: the tick and the price
  Provided,     \* the positions that may be open: sets of [low, high, size]
  RatioAt,      \* the price at each tick
  MIN_TICK, MAX_TICK, SPACING,
  WORD, WORD_WINDOW,   \* ticks of one word; words read on either side
  CHUNK,        \* ticks of one multicall
  PRICE_ONE,    \* Q96
  FEE, PIPS,    \* the pool's fee, of 1,000,000
  Offered,      \* amounts
  MaxPoolTurns  \* bound on how often the pool moves

ASSUME WalkAssumption ==
  /\ {MIN_TICK, MAX_TICK} \subseteq Int
  /\ {SPACING, WORD, PRICE_ONE, PIPS, CHUNK} \subseteq Nat \ {0}
  /\ {WORD_WINDOW, FEE, MaxPoolTurns} \subseteq Nat /\ FEE < PIPS /\ Offered \subseteq Nat
  /\ MIN_TICK <= MAX_TICK

\* What the pool sees to: prices rise with the ticks, its own is within its limits and its
\* tick's, and positions are of whole spacings.
ASSUME PoolAssumption ==
  /\ \A t \in MIN_TICK..MAX_TICK : RatioAt[t] \in Nat \ {0}
  /\ \A t, u \in MIN_TICK..MAX_TICK : t <= u => RatioAt[t] <= RatioAt[u]
  /\ \A s \in Slot :
       /\ s.tick \in MIN_TICK..MAX_TICK - 1 /\ s.price \in Nat
       /\ RatioAt[MIN_TICK] < s.price /\ s.price < RatioAt[MAX_TICK]
       /\ RatioAt[s.tick] <= s.price /\ s.price <= RatioAt[s.tick + 1]
  /\ \A provided \in Provided :
       /\ IsFiniteSet(provided)
       /\ \A q \in provided :
            /\ {q.low, q.high} \subseteq MIN_TICK..MAX_TICK /\ q.low < q.high /\ q.size \in Nat
            /\ q.low % SPACING = 0 /\ q.high % SPACING = 0

VARIABLES
  venue,     \* the pool: slot and provided
  venueMoves,
  snapshot,  \* what was read of it
  quote,     \* the walk over that
  paid       \* the pool's own walk from the same moment; history

walkVars == <<venue, venueMoves, snapshot, quote, paid>>
---------------------------------------------------------------------------
(* The pool.                                                               *)

\* A tick is initialized where a position begins or ends.
Edges(provided) == {q.low : q \in provided} \cup {q.high : q \in provided}

SizeOf(positions) == SumFunctionOnSet([q \in positions |-> q.size], positions)
Net(provided, t) ==
  SizeOf({q \in provided : q.low = t}) - SizeOf({q \in provided : q.high = t})
LiquidityOf(v) == SizeOf({q \in v.provided : q.low <= v.slot.tick /\ v.slot.tick < q.high})

Compressed(t) == t \div SPACING
WordOf(t) == Compressed(t) \div WORD
AllWords == WordOf(MIN_TICK)..WordOf(MAX_TICK)
EdgesIn(provided, w) == {t \in Edges(provided) : WordOf(t) = w}

\* The pool knows all of itself.
Whole(v) ==
  [slot |-> v.slot, liquidity |-> LiquidityOf(v),
   words |-> [w \in AllWords |-> EdgesIn(v.provided, w)],
   net |-> [t \in Edges(v.provided) |-> Net(v.provided, t)]]
---------------------------------------------------------------------------
(* v3math.                                                                 *)

Up(a, b) == (a + b - 1) \div b
Lower(a, b) == IF a < b THEN a ELSE b
Higher(a, b) == IF a < b THEN b ELSE a

\* What lies between two prices a <= b, of token0 and of token1.
Amount0(a, b, l, up) ==
  IF up THEN Up(Up(l * PRICE_ONE * (b - a), b), a) ELSE ((l * PRICE_ONE * (b - a)) \div b) \div a
Amount1(a, b, l, up) ==
  IF up THEN Up(l * (b - a), PRICE_ONE) ELSE (l * (b - a)) \div PRICE_ONE

\* Defect for the checks: rounded towards the trader on the way down.
PriceAfterRoundedDown(p, l, amount, down) ==
  IF down THEN (l * PRICE_ONE * p) \div (l * PRICE_ONE + amount * p)
  ELSE p + (amount * PRICE_ONE) \div l

\* getNextSqrtPriceFromInput: rounded so that the pool is never the one that loses.
PriceAfter(p, l, amount, down) ==
  IF down THEN Up(l * PRICE_ONE * p, l * PRICE_ONE + amount * p)
  ELSE p + (amount * PRICE_ONE) \div l

\* computeSwapStep.
SwapStep(p, target, l, amount, down) ==
  LET lessFee == (amount * (PIPS - FEE)) \div PIPS
      Into(next) == IF down THEN Amount0(next, p, l, TRUE) ELSE Amount1(p, next, l, TRUE)
      next == IF lessFee >= Into(target) THEN target ELSE PriceAfter(p, l, lessFee, down)
  IN [next |-> next,
      out |-> IF down THEN Amount1(next, p, l, FALSE) ELSE Amount0(p, next, l, FALSE),
      takes |-> IF next # target THEN amount
                ELSE Into(target) + Up(Into(target) * FEE, PIPS - FEE)]

\* nextInitializedTickWithinOneWord; a word that was not read has none.
WordAt(words, w) == IF w \in DOMAIN words THEN words[w] ELSE {}

Ahead(words, t, down) ==
  LET c == IF down THEN Compressed(t) ELSE Compressed(t) + 1
      w == c \div WORD
      there == {e \in WordAt(words, w) : IF down THEN e <= c * SPACING ELSE e >= c * SPACING}
  IN IF there = {}
     THEN [next |-> (IF down THEN w * WORD ELSE w * WORD + WORD - 1) * SPACING, edge |-> FALSE]
     ELSE [next |-> IF down THEN Max(there) ELSE Min(there), edge |-> TRUE]
---------------------------------------------------------------------------
(* simulateExactInput.                                                     *)

Limit(down) == IF down THEN RatioAt[MIN_TICK] + 1 ELSE RatioAt[MAX_TICK] - 1

Begun(s, amount, down) ==
  [tick |-> s.slot.tick, price |-> s.slot.price, liquidity |-> s.liquidity,
   offered |-> amount, remaining |-> amount, out |-> 0, down |-> down, exhausted |-> FALSE]
NoWalk == [tick |-> 0, price |-> 0, liquidity |-> 0, offered |-> 0, remaining |-> 0, out |-> 0,
           down |-> FALSE, exhausted |-> FALSE]

\* A liquidity below zero, which only what was not read makes, is followed no further.
Walking(a) == a.remaining > 0 /\ a.price # Limit(a.down) /\ ~a.exhausted /\ a.liquidity >= 0

Clamped(t) == Lower(Higher(t, MIN_TICK), MAX_TICK)
TickAt(p) == Max({MIN_TICK} \cup {t \in MIN_TICK..MAX_TICK : RatioAt[t] <= p})

\* Defect for the checks: the window is left where the step begins, not where it ends.
OutsideFromHere(s, a, t) == WordOf(a.tick) \notin DOMAIN s.words

Outside(s, a, t) == WordOf(t) \notin DOMAIN s.words

\* A step without liquidity takes nothing; one that ends on an edge crosses it.
Stepped(s, a) ==
  LET ahead == Ahead(s.words, a.tick, a.down)
      t == Clamped(ahead.next)
      target == IF a.down THEN Higher(RatioAt[t], Limit(TRUE)) ELSE Lower(RatioAt[t], Limit(FALSE))
      step == IF a.liquidity = 0 THEN [next |-> target, out |-> 0, takes |-> 0]
              ELSE SwapStep(a.price, target, a.liquidity, a.remaining, a.down)
      net == IF ahead.edge /\ t \in DOMAIN s.net THEN s.net[t] ELSE 0
      there == step.next = RatioAt[t]
  IN [a EXCEPT !.price = step.next, !.remaining = @ - step.takes, !.out = @ + step.out,
        !.liquidity = IF ~there THEN @ ELSE IF a.down THEN @ - net ELSE @ + net,
        !.tick = IF there THEN (IF a.down THEN t - 1 ELSE t)
                 ELSE IF a.liquidity = 0 THEN @ ELSE TickAt(step.next),
        !.exhausted = Outside(s, a, t)]
---------------------------------------------------------------------------
(* loadPool.  `moved` is history: the pool moved since the first read.     *)

Nowhere == [tick |-> 0, price |-> 0]
Unloaded == [pc |-> "first", read |-> {}, slot |-> Nowhere, liquidity |-> 0, words |-> <<>>,
             net |-> <<>>, left |-> {}, moved |-> FALSE]

Loads(next) == snapshot' = next /\ UNCHANGED <<venue, venueMoves, quote, paid>>

\* The first reads are made at once, and are answered one by one.
Answered(field) ==
  [snapshot EXCEPT !.read = @ \cup {field}, !.pc = IF @ = "first" /\ snapshot.read # {} THEN "words" ELSE @]

ReadsSlot ==
  /\ snapshot.pc = "first" /\ "slot" \notin snapshot.read
  /\ Loads([Answered("slot") EXCEPT !.slot = venue.slot])

ReadsLiquidity ==
  /\ snapshot.pc = "first" /\ "liquidity" \notin snapshot.read
  /\ Loads([Answered("liquidity") EXCEPT !.liquidity = LiquidityOf(venue)])

\* The words around the tick, any of which may fail.
Window == {w \in AllWords : w - WordOf(snapshot.slot.tick) \in (-WORD_WINDOW)..WORD_WINDOW}

ReadsWords ==
  /\ snapshot.pc = "words"
  /\ \E got \in SUBSET Window :
       Loads([snapshot EXCEPT !.pc = "ticks",
                !.words = [w \in got |-> EdgesIn(venue.provided, w)],
                !.left = UNION {EdgesIn(venue.provided, w) : w \in got}])

\* The lowest ticks of those left, any of which may fail; a closed one has no liquidity.
ReadsChunk ==
  /\ snapshot.pc = "ticks" /\ snapshot.left # {}
  /\ \E chunk \in SUBSET snapshot.left :
       /\ Cardinality(chunk) = Lower(CHUNK, Cardinality(snapshot.left))
       /\ \A t \in chunk, u \in snapshot.left \ chunk : t < u
       /\ \E got \in SUBSET chunk :
            Loads([snapshot EXCEPT !.left = @ \ chunk,
                     !.net = [t \in DOMAIN @ \cup got |->
                                IF t \in got THEN Net(venue.provided, t) ELSE @[t]]])

\* The walk awaits nothing: the pool stays where it is.
Simulates ==
  /\ snapshot.pc = "ticks" /\ snapshot.left = {}
  /\ \E amount \in Offered, down \in BOOLEAN :
       /\ quote' = Begun(snapshot, amount, down)
       /\ paid' = Begun(Whole(venue), amount, down)
  /\ snapshot' = [snapshot EXCEPT !.pc = "walk"]
  /\ UNCHANGED <<venue, venueMoves>>

Iterates ==
  /\ snapshot.pc = "walk" /\ Walking(quote)
  /\ quote' = Stepped(snapshot, quote)
  /\ paid' = IF Walking(paid) THEN Stepped(Whole(venue), paid) ELSE paid
  /\ UNCHANGED <<venue, venueMoves, snapshot>>

VenueMoves ==
  /\ venueMoves < MaxPoolTurns /\ venueMoves' = venueMoves + 1
  /\ snapshot.pc # "walk"
  /\ \E s \in Slot, p \in Provided :
       venue' = [slot |-> s, provided |-> p] /\ venue' # venue
  /\ snapshot' = [snapshot EXCEPT !.moved = snapshot.read # {}]
  /\ UNCHANGED <<quote, paid>>

WalkInit ==
  /\ venue \in [slot : Slot, provided : Provided] /\ venueMoves = 0
  /\ snapshot = Unloaded /\ quote = NoWalk /\ paid = NoWalk

WalkNext ==
  ReadsSlot \/ ReadsLiquidity \/ ReadsWords \/ ReadsChunk \/ Simulates \/ Iterates \/ VenueMoves

WalkSpec == WalkInit /\ [][WalkNext]_walkVars
---------------------------------------------------------------------------
\* What is quoted is what the pool pays: of a pool that stood still while it was loaded, and
\* whose ticks were all read, every step of the walk is the pool's own, however few of its
\* words were; the step that leaves those says so (pool.ts 225, 260-263), on either side.
Faithful == ~snapshot.moved /\ UNION {snapshot.words[w] : w \in DOMAIN snapshot.words} \subseteq DOMAIN snapshot.net

QuotesAreWhatThePoolPays ==
  snapshot.pc = "walk" /\ Faithful /\ ~quote.exhausted => quote = paid

\* "always positive for a real trade" (pool.ts 312-314): what is quoted then takes no more
\* than it was offered, and pays no more than the price before.
NothingBeatsTheSpot ==
  snapshot.pc = "walk" /\ Faithful =>
    LET consumed == quote.offered - quote.remaining
        spot == snapshot.slot.price
    IN /\ quote.remaining >= 0 /\ quote.liquidity >= 0
       /\ IF quote.down THEN quote.out * PRICE_ONE * PRICE_ONE <= consumed * spot * spot
          ELSE quote.out * spot * spot <= consumed * PRICE_ONE * PRICE_ONE
=============================================================================
