--------------------------- MODULE PublisherProofs --------------------------
(***************************************************************************)
(* What the oracle holds was checked, and the verdict that pages nobody is *)
(* recent, for any assets, limits and ages.  What a heartbeat says is as   *)
(* old as the heartbeat and the cycle that wrote it; the cycle's part is   *)
(* bounded because a cycle ends, which asks that the worker's clock be     *)
(* able to show it: no cycle is longer than the interval it is counted in. *)
(* And of the wallet that pays for it (FundingSwap): a run that decided by *)
(* what the wallet held wraps and reports what it says, whatever runs died *)
(* before it.  And of the history of marks the width of a band is measured *)
(* of (SampleStore): a jump in it is across an open of the market, whoever *)
(* sampled and whatever was merged.                                        *)
(***************************************************************************)
EXTENDS Publisher, FundingSwap, SampleStore, FiniteSetTheorems, SequenceTheorems,
        WellFoundedInduction, TLAPS

\* A cycle ends within an interval.
CyclesFit == CYCLE_SPAN <= INTERVAL

Shape ==
  /\ pc \in Step
  /\ spent \in Nat /\ seenClosed \in Nat
  /\ beat \in [at : Nat, cycle : {"missing", "published", "withheld", "failed"},
               published : Nat, issuer : IssuerState]

\* A value was computed for an admitted asset, with a book that passed the checks.
Sound(batch) ==
  \A a \in Asset : batch[a].has =>
    a \in Admitted /\ batch[a].checked \notin {"shut", "crossed", "wide"}

\* A cycle saw the issuer closed after it started, and it started no longer ago than a
\* cycle takes; a heartbeat that says so is younger than what it saw by no more than that.
Recent ==
  /\ pc \notin {"wait", "exited"} => spent <= CYCLE_SPAN
  /\ pc \in {"price", "write", "readback"} /\ Shut(book) => seenClosed <= spent
  /\ beat.cycle # "missing" /\ beat.issuer = "closed" /\ beat.at <= HEARTBEAT_MAX_AGE
       => seenClosed <= beat.at + CYCLE_SPAN

PublisherInv == Shape /\ Sound(items) /\ Sound(vals) /\ Recent

---------------------------------------------------------------------------
\* The constants of the cycle are naturals.
LEMMA Ranges ==
  /\ INTERVAL \in Nat \ {0} /\ CYCLE_SPAN \in Nat /\ HEARTBEAT_MAX_AGE \in Nat /\ MAX_AGE \in Nat
BY PublisherConstants

\* What has landed on the feed is a number.
LEMMA LandedIsANumber == Landed \in Nat
<1>1. IsFiniteSet({a \in Asset : vals[a].has})
  BY PublisherConstants, FS_Subset
<1>2. QED
  BY <1>1, FS_CardinalityType DEF Landed

\* A batch that withholds everything, and a book that carries nothing.
LEMMA NothingIsSound == Sound(NoItems) /\ ~Shut(NoBook)
BY DEF Sound, NoItems, Engine!Withheld, Shut, NoBook, Engine!Quoting

\* The heartbeat says closed only of a book that is shut.
LEMMA ClosedIsShut ==
  ASSUME NEW b, IssuerStateOf(b) = "closed"
  PROVE  Shut(b)
BY DEF IssuerStateOf, Shut

\* The issuer's feed is in one of its states.
LEMMA IssuerStateIs == ASSUME NEW b PROVE IssuerStateOf(b) \in IssuerState
BY DEF IssuerStateOf, IssuerState

\* What the engine and the cross-check let through was checked.
LEMMA BatchIsSound ==
  ASSUME NEW late, NEW leaped, NEW far
  PROVE  Sound(Batch(late, leaped, far))
<1>1. ASSUME NEW a \in Asset, NEW from, Engine!Item(a, book[a], from, a \in leaped, a \in far).has
      PROVE  /\ a \in Admitted /\ book[a] \notin {"shut", "crossed", "wide"}
             /\ Engine!Item(a, book[a], from, a \in leaped, a \in far).checked = book[a]
  BY <1>1 DEF Engine!Item, Engine!Withheld, Engine!HasValue, Engine!CrossCheck, Engine!QuoteCoheres,
              Engine!SpreadPlausible
<1>2. QED
  BY <1>1 DEF Sound, Batch

---------------------------------------------------------------------------
(* The worker.                                                             *)

\* The invariant holds before the first cycle.
LEMMA InitInv == ASSUME CyclesFit, Init PROVE PublisherInv
<1>1. Shape
  BY Ranges DEF Init, Shape, Step, Missing, IssuerState, SEEN_MAX
<1>2. Sound(items) /\ Sound(vals)
  BY NothingIsSound DEF Init
<1>3. Recent
  BY Ranges, NothingIsSound DEF Init, Recent, Missing
<1>4. QED
  BY <1>1, <1>2, <1>3 DEF PublisherInv

\* A heartbeat that says closed of a book that is shut is as old as the cycle; and any other
\* says nothing of the kind.
LEMMA BeatKeeps ==
  ASSUME CyclesFit, PublisherInv, NEW cycle \in {"published", "withheld", "failed"}, NEW published \in Nat,
         NEW issuer \in IssuerState, Beat(cycle, published, issuer),
         issuer = "closed" => seenClosed <= CYCLE_SPAN, seenClosed' = seenClosed
  PROVE  /\ beat' \in [at : Nat, cycle : {"missing", "published", "withheld", "failed"},
                       published : Nat, issuer : IssuerState]
         /\ beat'.cycle # "missing" /\ beat'.issuer = "closed" /\ beat'.at <= HEARTBEAT_MAX_AGE
              => seenClosed' <= beat'.at + CYCLE_SPAN
<1>1. CASE "blob" \in up
  <2>1. beat' = [at |-> 0, cycle |-> cycle, published |-> published, issuer |-> issuer]
    BY <1>1 DEF Beat
  <2>2. QED
    BY <2>1, Ranges DEF PublisherInv, Shape
<1>2. CASE "blob" \notin up
  <2>1. beat' = beat
    BY <1>2 DEF Beat
  <2>2. QED
    BY <2>1 DEF PublisherInv, Shape, Recent
<1>3. QED
  BY <1>1, <1>2

\* A cycle that fails has no book and no batch left, and the worker waits or is gone.
LEMMA FailIs ==
  ASSUME Fail
  PROVE  pc' \in {"wait", "exited"} /\ Sound(items)' /\ ~Shut(book)'
<1>1. pc' \in {"wait", "exited"} /\ book' = NoBook /\ items' = NoItems
  BY DEF Fail
<1>2. QED
  BY <1>1, NothingIsSound DEF Sound, Shut

\* Reading the pools keeps the invariant.
LEMMA SampleInv == ASSUME PublisherInv, Sample PROVE PublisherInv'
BY DEF PublisherInv, Sample, Shape, Step, Sound, Recent, Shut, envVars, cycleVars, publicVars

\* A book that is shut was seen just now.
LEMMA ReadInv == ASSUME CyclesFit, PublisherInv, Read PROVE PublisherInv'
<1>1. UNCHANGED <<spent, vals>> /\ Sound(vals)'
  BY DEF Read, PublisherInv, Sound
<1>2. CASE "chain" \notin up
  <2>1. Fail /\ UNCHANGED <<beat, seenClosed>>
    BY <1>2 DEF Read
  <2>2. QED
    BY <1>1, <2>1, FailIs DEF PublisherInv, Shape, Recent, Step
<1>3. CASE "chain" \in up /\ "issuer" \notin up
  <2>1. Fail /\ Beat("failed", 0, "unreachable") /\ seenClosed' = seenClosed
    BY <1>3 DEF Read
  <2>2. /\ beat' \in [at : Nat, cycle : {"missing", "published", "withheld", "failed"},
                      published : Nat, issuer : IssuerState]
        /\ beat'.cycle # "missing" /\ beat'.issuer = "closed" /\ beat'.at <= HEARTBEAT_MAX_AGE
             => seenClosed' <= beat'.at + CYCLE_SPAN
    BY <2>1, BeatKeeps DEF IssuerState
  <2>3. QED
    BY <1>1, <2>1, <2>2, FailIs DEF PublisherInv, Shape, Recent, Step
<1>4. CASE {"chain", "issuer"} \subseteq up
  <2>1. seenClosed' = (IF Shut(market) THEN 0 ELSE seenClosed) /\ beat' = beat
        /\ \/ Fail
           \/ book' = market /\ pc' = "price" /\ items' = items
    BY <1>4 DEF Read
  <2>2. seenClosed' \in Nat /\ seenClosed' <= seenClosed /\ (Shut(market) => seenClosed' = 0)
    BY <2>1 DEF PublisherInv, Shape
  <2>3. beat.cycle # "missing" /\ beat.issuer = "closed" /\ beat.at <= HEARTBEAT_MAX_AGE
          => seenClosed' <= beat.at + CYCLE_SPAN
    BY <2>2, Ranges DEF PublisherInv, Shape, Recent
  <2>4. CASE Fail
    BY <1>1, <2>1, <2>2, <2>3, <2>4, FailIs DEF PublisherInv, Shape, Recent, Step
  <2>5. CASE book' = market /\ pc' = "price" /\ items' = items
    <3>1. spent <= CYCLE_SPAN
      BY DEF PublisherInv, Recent, Read
    <3>2. Shut(book)' => seenClosed' <= spent'
      BY <1>1, <2>2, <2>5 DEF Shut, PublisherInv, Shape
    <3>3. Sound(items)'
      BY <2>5 DEF Sound, PublisherInv
    <3>4. QED
      BY <1>1, <2>1, <2>2, <2>3, <2>5, <3>1, <3>2, <3>3 DEF PublisherInv, Shape, Recent, Step
  <2>6. QED
    BY <2>1, <2>4, <2>5
<1>5. QED
  BY <1>2, <1>3, <1>4 DEF Read

\* A heartbeat written while the cycle has its book tells of what it saw in it.
LEMMA BeatOfTheBook ==
  ASSUME CyclesFit, PublisherInv, pc \in {"price", "write", "readback"},
         NEW cycle \in {"published", "withheld", "failed"}, NEW published \in Nat,
         Beat(cycle, published, IssuerStateOf(book)), seenClosed' = seenClosed
  PROVE  /\ beat' \in [at : Nat, cycle : {"missing", "published", "withheld", "failed"},
                       published : Nat, issuer : IssuerState]
         /\ beat'.cycle # "missing" /\ beat'.issuer = "closed" /\ beat'.at <= HEARTBEAT_MAX_AGE
              => seenClosed' <= beat'.at + CYCLE_SPAN
<1>1. IssuerStateOf(book) = "closed" => seenClosed <= CYCLE_SPAN
  <2>1. IssuerStateOf(book) = "closed" => seenClosed <= spent /\ spent <= CYCLE_SPAN
    BY ClosedIsShut DEF PublisherInv, Recent
  <2>2. QED
    BY <2>1, Ranges DEF PublisherInv, Shape
<1>2. QED
  BY <1>1, IssuerStateIs, BeatKeeps

\* What is about to be written was checked, and so, if nothing is, is what is said of it.
LEMMA PriceInv ==
  ASSUME CyclesFit, PublisherInv, NEW late, NEW leaped, NEW far, Price(late, leaped, far)
  PROVE  PublisherInv'
<1>1. UNCHANGED <<spent, vals, seenClosed>> /\ pc = "price" /\ Sound(vals)'
  BY DEF Price, PublisherInv, Sound
<1>2. \/ Fail /\ beat' = beat
      \/ items' = Batch(late, leaped, far) /\ pc' = "write" /\ UNCHANGED <<book, beat>>
      \/ Beat("withheld", 0, IssuerStateOf(book)) /\ Fail
  BY DEF Price
<1>3. CASE Fail /\ beat' = beat
  BY <1>1, <1>3, FailIs DEF PublisherInv, Shape, Recent, Step
<1>4. CASE items' = Batch(late, leaped, far) /\ pc' = "write" /\ UNCHANGED <<book, beat>>
  <2>1. Sound(items)'
    BY <1>4, BatchIsSound DEF Sound
  <2>2. Shut(book)' = Shut(book)
    BY <1>4 DEF Shut
  <2>3. QED
    BY <1>1, <1>4, <2>1, <2>2 DEF PublisherInv, Shape, Recent, Step
<1>5. CASE Beat("withheld", 0, IssuerStateOf(book)) /\ Fail
  <2>1. /\ beat' \in [at : Nat, cycle : {"missing", "published", "withheld", "failed"},
                      published : Nat, issuer : IssuerState]
        /\ beat'.cycle # "missing" /\ beat'.issuer = "closed" /\ beat'.at <= HEARTBEAT_MAX_AGE
             => seenClosed' <= beat'.at + CYCLE_SPAN
    BY <1>1, <1>5, BeatOfTheBook
  <2>2. QED
    BY <1>1, <1>5, <2>1, FailIs DEF PublisherInv, Shape, Recent, Step
<1>6. QED
  BY <1>2, <1>3, <1>4, <1>5

\* What lands is what was sent, or nothing.
LEMMA WriteInv == ASSUME CyclesFit, PublisherInv, Write PROVE PublisherInv'
<1>1. UNCHANGED <<spent, beat, seenClosed>> /\ pc = "write"
  BY DEF Write
<1>2. CASE Fail /\ vals' = vals
  <2>1. Sound(vals)'
    BY <1>2 DEF PublisherInv, Sound
  <2>2. QED
    BY <1>1, <1>2, <2>1, FailIs DEF PublisherInv, Shape, Recent, Step
<1>3. CASE /\ \E jumped \in SUBSET Asset :
                vals' = [a \in Asset |-> IF a \in jumped THEN Engine!Withheld ELSE items[a]]
           /\ pc' = "readback" /\ UNCHANGED <<book, items>>
  <2>1. Sound(vals)' /\ Sound(items)'
    BY <1>3 DEF PublisherInv, Sound, Engine!Withheld
  <2>2. Shut(book)' = Shut(book)
    BY <1>3 DEF Shut
  <2>3. QED
    BY <1>1, <1>3, <2>1, <2>2 DEF PublisherInv, Shape, Recent, Step
<1>4. QED
  BY <1>2, <1>3 DEF Write, cycleVars

\* Reading back what landed keeps it.
LEMMA ReadBackInv == ASSUME CyclesFit, PublisherInv, ReadBack PROVE PublisherInv'
<1>1. UNCHANGED <<spent, vals, seenClosed>> /\ pc = "readback" /\ Sound(vals)'
  BY DEF ReadBack, PublisherInv, Sound
<1>2. CASE Fail /\ beat' = beat
  BY <1>1, <1>2, FailIs DEF PublisherInv, Shape, Recent, Step
<1>3. CASE Beat("published", Landed, IssuerStateOf(book)) /\ pc' = "wait" /\ book' = NoBook /\ items' = NoItems
  <2>1. /\ beat' \in [at : Nat, cycle : {"missing", "published", "withheld", "failed"},
                      published : Nat, issuer : IssuerState]
        /\ beat'.cycle # "missing" /\ beat'.issuer = "closed" /\ beat'.at <= HEARTBEAT_MAX_AGE
             => seenClosed' <= beat'.at + CYCLE_SPAN
    BY <1>1, <1>3, LandedIsANumber, BeatOfTheBook
  <2>2. Sound(items)'
    BY <1>3, NothingIsSound DEF Sound
  <2>3. QED
    BY <1>1, <1>3, <2>1, <2>2 DEF PublisherInv, Shape, Recent, Step
<1>4. QED
  BY <1>2, <1>3 DEF ReadBack

---------------------------------------------------------------------------
(* The host, the market and time.                                          *)

\* A worker that wakes or is restarted starts its clock again; one that is killed has no book.
LEMMA HostInv == ASSUME CyclesFit, PublisherInv, Wake \/ Restart \/ Kill PROVE PublisherInv'
<1>1. UNCHANGED <<vals, beat, seenClosed>> /\ Sound(vals)'
  BY DEF Wake, Restart, Kill, publicVars, PublisherInv, Sound
<1>2. CASE Wake \/ Restart
  <2>1. pc' = "sample" /\ spent' = 0 /\ items' = items /\ book' = book
    BY <1>2 DEF Wake, Restart, cycleVars
  <2>2. Sound(items)'
    BY <2>1 DEF PublisherInv, Sound
  <2>3. QED
    BY <1>1, <2>1, <2>2, Ranges DEF PublisherInv, Shape, Recent, Step
<1>3. CASE Kill
  <2>1. pc' = "exited" /\ spent' = spent /\ items' = NoItems /\ book' = NoBook
    BY <1>3 DEF Kill
  <2>2. Sound(items)'
    BY <2>1, NothingIsSound DEF Sound
  <2>3. QED
    BY <1>1, <2>1, <2>2 DEF PublisherInv, Shape, Recent, Step
<1>4. QED
  BY <1>2, <1>3

\* A trade and a session's turn keep it.
LEMMA MarketInv == ASSUME PublisherInv, Trade \/ Flip PROVE PublisherInv'
BY DEF PublisherInv, Trade, Flip, Shape, Sound, Recent, Shut, cycleVars, publicVars

\* Time ages the cycle, the heartbeat and what was seen alike, and a cycle that is under way
\* is not past its end.
LEMMA TickInv == ASSUME CyclesFit, PublisherInv, Tick PROVE PublisherInv'
<1>1. /\ UNCHANGED <<pc, book, items, vals>>
      /\ pc \notin {"wait", "exited"} => spent < CYCLE_SPAN
      /\ spent' = Aged(spent, INTERVAL - 1)
      /\ beat' = [beat EXCEPT !.at = Aged(beat.at, HEARTBEAT_MAX_AGE)]
      /\ seenClosed' = Aged(seenClosed, SEEN_MAX)
  BY DEF Tick, cycleVars
<1>2. /\ spent \in Nat /\ seenClosed \in Nat /\ beat.at \in Nat
      /\ spent' \in Nat /\ seenClosed' \in Nat /\ beat'.at \in Nat
      /\ beat'.at = Aged(beat.at, HEARTBEAT_MAX_AGE)
      /\ beat'.cycle = beat.cycle /\ beat'.issuer = beat.issuer
      /\ beat' \in [at : Nat, cycle : {"missing", "published", "withheld", "failed"},
                    published : Nat, issuer : IssuerState]
  BY <1>1, Ranges DEF PublisherInv, Shape, Aged, SEEN_MAX
<1>3. pc \notin {"wait", "exited"} => spent' = spent + 1 /\ spent' <= CYCLE_SPAN
  BY <1>1, <1>2, Ranges DEF Aged, CyclesFit
<1>4. seenClosed' <= seenClosed + 1
  BY <1>1, <1>2, Ranges DEF Aged
<1>5. beat'.at <= HEARTBEAT_MAX_AGE => beat'.at = beat.at + 1 /\ beat.at <= HEARTBEAT_MAX_AGE
  BY <1>2, Ranges DEF Aged
<1>6. Shape'
  BY <1>1, <1>2 DEF PublisherInv, Shape
<1>7. Sound(items)' /\ Sound(vals)' /\ Shut(book)' = Shut(book)
  BY <1>1 DEF PublisherInv, Sound, Shut
<1>8. Recent'
  <2>1. pc' \notin {"wait", "exited"} => spent' <= CYCLE_SPAN
    BY <1>1, <1>3
  <2>2. pc' \in {"price", "write", "readback"} /\ Shut(book)' => seenClosed' <= spent'
    BY <1>1, <1>2, <1>3, <1>4, <1>7 DEF PublisherInv, Recent
  <2>3. beat'.cycle # "missing" /\ beat'.issuer = "closed" /\ beat'.at <= HEARTBEAT_MAX_AGE
          => seenClosed' <= beat'.at + CYCLE_SPAN
    BY <1>2, <1>4, <1>5, Ranges DEF PublisherInv, Recent
  <2>4. QED
    BY <2>1, <2>2, <2>3 DEF Recent
<1>9. QED
  BY <1>6, <1>7, <1>8 DEF PublisherInv

---------------------------------------------------------------------------
\* Every step keeps the invariant.
LEMMA NextInv == ASSUME CyclesFit, PublisherInv, [Next]_vars PROVE PublisherInv'
<1>1. CASE UNCHANGED vars
  BY <1>1 DEF vars, cycleVars, publicVars, PublisherInv, Shape, Sound, Recent, Shut
<1>2. QED
  BY <1>1, SampleInv, ReadInv, PriceInv, WriteInv, ReadBackInv, HostInv, MarketInv, TickInv
  DEF Next, Worker

\* In every reachable state, what is held and about to be written was checked, and what the
\* heartbeat says of the issuer is no older than it and one cycle.
THEOREM Watched == ASSUME CyclesFit PROVE Spec => []PublisherInv
<1>1. Init => PublisherInv
  BY InitInv, CyclesFit
<1>2. PublisherInv /\ [Next]_vars => PublisherInv'
  BY NextInv, CyclesFit
<1>3. QED
  BY <1>1, <1>2, PTL DEF Spec

\* Health calls the issuer closed only when a cycle found it so, no longer ago than a
\* heartbeat may be old and a cycle may take (health.ts, publisher-status.ts).
THEOREM ClosedVerdictIsRecentHolds == ASSUME CyclesFit PROVE Spec => []ClosedVerdictIsRecent
<1>1. PublisherInv => ClosedVerdictIsRecent
  <2>1. SUFFICES ASSUME PublisherInv, Cause = "issuer-closed"
                 PROVE  seenClosed <= HEARTBEAT_MAX_AGE + CYCLE_SPAN
    BY DEF ClosedVerdictIsRecent
  <2>2. CauseOf = "issuer-closed"
    BY <2>1 DEF Cause
  <2>3. HeartbeatRead /\ ~(beat.at > HEARTBEAT_MAX_AGE) /\ beat.issuer = "closed"
    BY <2>1, <2>2 DEF CauseOf, PublisherInv, Shape, IssuerState
  <2>4. QED
    BY <2>1, <2>3, Ranges DEF HeartbeatRead, PublisherInv, Shape, Recent
<1>2. QED
  BY <1>1, Watched, CyclesFit, PTL

\* Whatever moved between the cycle's reads, a value the oracle holds came with a
\* cross-check that found nothing wrong with the book (publish.ts, crosscheck.ts).
THEOREM OnlyCheckedValuesLandHolds == ASSUME CyclesFit PROVE Spec => []OnlyCheckedValuesLand
<1>1. PublisherInv => OnlyCheckedValuesLand
  BY DEF PublisherInv, Sound, OnlyCheckedValuesLand
<1>2. QED
  BY <1>1, Watched, CyclesFit, PTL
---------------------------------------------------------------------------
(* The funding swap.                                                       *)

Holdings == [okb : Int, wokb : Int, allowance : Int, usdg : Int, stranded : Int]
Sendable == [kind : {"deposit", "approve", "swap"}, amount : Int, minOut : Int]
Jobs ==
  [pc : {"off", "balance", "held", "quote", "wrap", "wrapped", "allowance", "approve", "approved",
         "before", "swap", "received"},
   want : Nat \cup {Everything}, okb : Int, held : Int, amount : Int, wrap : Int, minOut : Int,
   before : Int, paid : Int, reported : Int, sound : BOOLEAN]

\* The stable coin only ever comes in.
FundingTypes ==
  /\ balances \in Holdings /\ behindBalances \in Holdings
  /\ behindBalances.usdg <= balances.usdg
  /\ reserves \in [rate : Nat, first : Nat, second : Nat]
  /\ sent \in Seq(Sendable) /\ job \in Jobs
  /\ job.pc # "off" => job.reported = 0
  /\ job.pc \notin {"received", "off"} => job.paid = 0

\* What is to be wrapped is what is missing, and leaves gas.
Decided ==
  /\ job.okb = balances.okb
  /\ job.wrap = ToWrap(job.amount, balances.wokb)
  /\ job.okb - job.wrap >= LEAST_GAS

Wrapped == balances.wokb = job.amount /\ balances.okb >= LEAST_GAS - TX_GAS

\* Before the swap is mined its output is nowhere to be seen; after that, whoever sees
\* more than before sees all of it.
Earned ==
  \/ sent = <<SwapOf(job.amount, job.minOut)>> /\ balances.usdg = job.before /\ job.paid = 0
  \/ /\ sent = <<>> /\ balances.usdg = job.before + job.paid
     /\ job.paid = 0 \/ job.paid >= job.minOut
     /\ behindBalances.usdg <= job.before \/ behindBalances.usdg = job.before + job.paid

\* Where a run that read the wallet's own balances stands.
Exact ==
  /\ job.pc = "held" => sent = <<>> /\ job.okb = balances.okb
  /\ job.pc \in {"quote", "wrap"} => sent = <<>> /\ Decided
  /\ job.pc = "wrap" => job.wrap # 0
  /\ job.pc = "wrapped" =>
       \/ sent = <<Deposit(job.wrap)>> /\ Decided /\ job.wrap # 0
       \/ sent = <<>> /\ Wrapped
  /\ job.pc = "swap" => sent = <<>> /\ balances.usdg = job.before
  /\ job.pc = "received" => Earned
  /\ job.pc = "off" /\ job.reported > 0 => job.reported = job.paid /\ job.paid >= job.minOut

FundingInv == FundingTypes /\ (job.sound => Exact)

\* A swap that the chain takes pays something or nothing, and no less than was asked.
LEMMA SwapsPay ==
  ASSUME FundingTypes, NEW tx \in Sendable, tx.kind = "swap", Takes(balances, tx)
  PROVE  AmountOut(tx.amount) \in Nat /\ AmountOut(tx.amount) >= tx.minOut
<1>1. tx.amount \in Int /\ HopOne(tx.amount) > 0 /\ AmountOut(tx.amount) >= tx.minOut
  BY DEF Takes, Sendable
<1>2. HopOne(tx.amount) \in Nat /\ HopTwo(tx.amount) \in Nat
  BY <1>1 DEF HopOne, HopTwo, Least, FundingTypes
<1>3. QED
  BY <1>1, <1>2 DEF AmountOut, FundingTypes

\* Whatever is mined, the wallet stays a wallet and the stable coin only comes in.
LEMMA MinedHoldings ==
  ASSUME FundingTypes, NEW tx \in Sendable,
         NEW next, next = IF Takes(balances, tx) THEN Taken(balances, tx) ELSE Reverted(balances)
  PROVE  next \in Holdings /\ next.usdg >= balances.usdg
<1>1. balances \in Holdings /\ TX_GAS \in Int /\ tx.amount \in Int
  BY FundingAssumption DEF FundingTypes, Sendable
<1>2. CASE ~Takes(balances, tx)
  BY <1>1, <1>2 DEF Reverted, Holdings
<1>3. CASE Takes(balances, tx)
  <2> DEFINE left == [balances EXCEPT !.okb = @ - TX_GAS]
             one == HopOne(tx.amount)
             two == HopTwo(tx.amount)
             out == AmountOut(tx.amount)
  <2>1. left \in Holdings /\ left.usdg = balances.usdg
    BY <1>1 DEF Holdings
  <2>2. next = CASE tx.kind = "deposit" -> [left EXCEPT !.okb = @ - tx.amount, !.wokb = @ + tx.amount]
                 [] tx.kind = "approve" -> [left EXCEPT !.allowance = tx.amount]
                 [] OTHER -> [left EXCEPT !.wokb = @ - one, !.allowance = @ - one,
                                          !.usdg = @ + out, !.stranded = @ + one - two]
    BY <1>3 DEF Taken
  <2>3. CASE tx.kind = "swap"
    <3>1. out \in Nat
      BY <1>3, <2>3, SwapsPay
    <3>2. one \in Int /\ two \in Int
      BY <1>1 DEF HopOne, HopTwo, Least, FundingTypes
    <3> DEFINE a == [left EXCEPT !.wokb = left.wokb - one]
               b == [a EXCEPT !.allowance = left.allowance - one]
               c == [b EXCEPT !.usdg = left.usdg + out]
               d == [c EXCEPT !.stranded = left.stranded + one - two]
    <3>3. next = d
      BY <2>2, <2>3
    <3> HIDE DEF left, one, two, out
    <3>4. a \in Holdings /\ a.usdg = left.usdg
      BY <2>1, <3>2 DEF Holdings
    <3>5. b \in Holdings /\ b.usdg = left.usdg
      <4> HIDE DEF a
      <4>1. QED
        BY <2>1, <3>2, <3>4 DEF Holdings
    <3>6. c \in Holdings /\ c.usdg = left.usdg + out
      <4> HIDE DEF b
      <4>1. QED
        BY <2>1, <3>1, <3>5 DEF Holdings
    <3>7. d \in Holdings /\ d.usdg = left.usdg + out
      <4> HIDE DEF c
      <4>1. QED
        BY <2>1, <3>2, <3>6 DEF Holdings
    <3> HIDE DEF d
    <3>8. left.usdg \in Int
      BY <2>1 DEF Holdings
    <3>9. QED
      BY <2>1, <3>1, <3>3, <3>7, <3>8
  <2>4. CASE tx.kind # "swap"
    <3> DEFINE a == [left EXCEPT !.okb = left.okb - tx.amount]
               b == [a EXCEPT !.wokb = left.wokb + tx.amount]
    <3> HIDE DEF left
    <3>6. tx.kind = "deposit" \/ tx.kind = "approve"
      BY <2>4 DEF Sendable
    <3>1. next = b \/ next = [left EXCEPT !.allowance = tx.amount]
      BY ONLY <2>2, <3>6
    <3>2. a \in Holdings /\ a.usdg = left.usdg
      BY <1>1, <2>1 DEF Holdings
    <3>3. b \in Holdings /\ b.usdg = left.usdg
      <4> HIDE DEF a
      <4>1. QED
        BY <1>1, <2>1, <3>2 DEF Holdings
    <3>4. next \in Holdings /\ next.usdg = left.usdg
      <4> HIDE DEF b
      <4>1. QED
        BY <1>1, <2>1, <3>1, <3>3 DEF Holdings
    <3>5. QED
      BY <1>1, <2>1, <3>4 DEF Holdings
  <2>5. QED
    BY <2>3, <2>4
<1>4. QED
  BY <1>2, <1>3

\* The deposit of a run that read the wallet's own balances brings what was missing.
LEMMA DepositsWrap ==
  ASSUME FundingTypes, Decided, job.wrap # 0, TX_GAS <= LEAST_GAS,
         NEW tx, tx = Deposit(job.wrap)
  PROVE  /\ Takes(balances, tx)
         /\ Taken(balances, tx).wokb = job.amount
         /\ Taken(balances, tx).okb >= LEAST_GAS - TX_GAS
<1>1. /\ balances \in Holdings /\ TX_GAS \in Int /\ LEAST_GAS \in Int
      /\ job.wrap \in Int /\ job.amount \in Int /\ job.okb \in Int
  BY FundingAssumption DEF FundingTypes, Jobs
<1>2. tx.kind = "deposit" /\ tx.amount = job.wrap
  BY DEF Deposit
<1>3. job.wrap = job.amount - balances.wokb /\ balances.okb - job.wrap >= LEAST_GAS
  BY <1>1 DEF Decided, ToWrap
<1>4. balances.okb \in Int /\ balances.wokb \in Int
  BY <1>1 DEF Holdings
<1>5. Takes(balances, tx)
  BY <1>1, <1>2, <1>3, <1>4 DEF Takes
<1>6. Taken(balances, tx) = [[balances EXCEPT !.okb = @ - TX_GAS] EXCEPT !.okb = @ - tx.amount,
                                                                     !.wokb = @ + tx.amount]
  BY <1>2 DEF Taken
<1>7. /\ Taken(balances, tx).wokb = balances.wokb + tx.amount
      /\ Taken(balances, tx).okb = (balances.okb - TX_GAS) - tx.amount
  BY <1>1, <1>2, <1>6 DEF Holdings
<1>8. QED
  BY <1>1, <1>2, <1>3, <1>4, <1>5, <1>7

\* A step that sends nothing and lands nothing keeps what it does not touch.
LEMMA GoesInv ==
  ASSUME FundingInv, NEW next \in Jobs, Goes(next),
         next.pc # "off" => next.reported = 0,
         next.pc \notin {"received", "off"} => next.paid = 0,
         next.sound => Exact'
  PROVE  FundingInv'
<1>1. /\ job' = next
      /\ UNCHANGED <<balances, behindBalances, reserves, sent>>
  BY DEF Goes
<1>2. FundingTypes'
  BY <1>1 DEF FundingInv, FundingTypes
<1>3. QED
  BY <1>1, <1>2 DEF FundingInv

\* A run that is over reports what it reported.
LEMMA OverInv == ASSUME FundingInv, job.pc # "off", Goes(Over) PROVE FundingInv'
<1>1. job \in Jobs /\ job.reported = 0
  BY DEF FundingInv, FundingTypes
<1>2. Over \in Jobs /\ Over.pc = "off" /\ Over.reported = 0
  BY <1>1 DEF Over, Jobs
<1>3. job' = Over
  BY DEF Goes
<1>4. Exact'
  BY <1>2, <1>3 DEF Exact
<1>5. QED
  BY <1>2, <1>4, GoesInv

\* A balance that is the wallet's, with nothing on its way, is what a run may go by.
LEMMA ReadsBalanceInv == ASSUME FundingInv, ReadsBalance PROVE FundingInv'
<1>1. PICK w \in {balances, behindBalances} :
        Goes([job EXCEPT !.pc = "held", !.okb = w.okb, !.sound = @ /\ Settled(w)])
  BY DEF ReadsBalance, Nodes!Served
<1> DEFINE next == [job EXCEPT !.pc = "held", !.okb = w.okb, !.sound = @ /\ Settled(w)]
<1>2. job \in Jobs /\ w \in Holdings /\ job.pc = "balance" /\ job.reported = 0 /\ job.paid = 0
  BY DEF FundingInv, FundingTypes, ReadsBalance
<1>3. /\ next \in Jobs /\ next.pc = "held" /\ next.okb = w.okb
      /\ next.reported = 0 /\ next.paid = 0
      /\ next.sound => w = balances /\ sent = <<>>
  BY <1>2 DEF Jobs, Holdings, Settled
<1>4. job' = next /\ balances' = balances /\ sent' = sent
  BY <1>1 DEF Goes
<1> HIDE DEF next
<1>5. next.sound => Exact'
  BY <1>3, <1>4 DEF Exact
<1>6. QED
  BY <1>1, <1>3, <1>5, GoesInv DEF next

\* What is missing is what is asked for less what is held wrapped.
LEMMA ReadsHeldInv == ASSUME FundingInv, ReadsHeld PROVE FundingInv'
<1>1. job \in Jobs /\ job.pc = "held" /\ job.reported = 0 /\ job.paid = 0
  BY DEF FundingInv, FundingTypes, ReadsHeld
<1>2. PICK w \in {balances, behindBalances} :
       LET amount == IF job.want = Everything THEN job.okb + w.wokb - GAS_RESERVE ELSE job.want
           wrap == ToWrap(amount, w.wokb)
       IN IF amount <= 0 \/ job.okb - wrap < LEAST_GAS THEN Goes(Over)
          ELSE Goes([job EXCEPT !.pc = "quote", !.held = w.wokb, !.amount = amount,
                                !.wrap = wrap, !.sound = @ /\ Settled(w)])
  BY DEF ReadsHeld, Nodes!Served
<1> DEFINE amount == IF job.want = Everything THEN job.okb + w.wokb - GAS_RESERVE ELSE job.want
           wrap == ToWrap(amount, w.wokb)
           next == [job EXCEPT !.pc = "quote", !.held = w.wokb, !.amount = amount,
                               !.wrap = wrap, !.sound = @ /\ Settled(w)]
<1>3. CASE amount <= 0 \/ job.okb - wrap < LEAST_GAS
  BY <1>1, <1>2, <1>3, OverInv
<1>4. CASE ~(amount <= 0 \/ job.okb - wrap < LEAST_GAS)
  <2>1. w \in Holdings
    BY DEF FundingInv, FundingTypes
  <2>2. amount \in Int
    BY <1>1, <2>1, FundingAssumption DEF Jobs, Holdings
  <2>3. wrap \in Int /\ w.wokb \in Int /\ job.okb \in Int /\ LEAST_GAS \in Int
    BY <1>1, <2>1, <2>2, FundingAssumption DEF ToWrap, Holdings, Jobs
  <2>4. Goes(next)
    BY <1>2, <1>4
  <2>5. job.okb - wrap >= LEAST_GAS
    BY <1>4, <2>3
  <2>6. job.sound => sent = <<>> /\ job.okb = balances.okb
    BY <1>1 DEF FundingInv, Exact
  <2>7. wrap = ToWrap(amount, w.wokb)
    OBVIOUS
  <2> HIDE DEF amount, wrap
  <2>8. /\ next \in Jobs /\ next.pc = "quote" /\ next.okb = job.okb /\ next.amount = amount
        /\ next.wrap = wrap /\ next.reported = 0 /\ next.paid = 0
        /\ next.sound => job.sound /\ w = balances
    BY <1>1, <2>2, <2>3 DEF Jobs, Settled
  <2>9. job' = next /\ balances' = balances /\ sent' = sent
    BY <2>4 DEF Goes
  <2> HIDE DEF next
  <2>10. next.sound => Decided'
    BY <2>5, <2>6, <2>7, <2>8, <2>9 DEF Decided, ToWrap
  <2>11. next.sound => Exact'
    BY <2>6, <2>8, <2>9, <2>10 DEF Exact
  <2>12. QED
    BY <2>4, <2>8, <2>11, GoesInv
<1>5. QED
  BY <1>3, <1>4

\* A quote moves nothing; it decides whether there is anything to wrap.
LEMMA QuotesInv == ASSUME FundingInv, Quotes PROVE FundingInv'
<1>1. job \in Jobs /\ job.pc = "quote" /\ job.reported = 0 /\ job.paid = 0
  BY DEF FundingInv, FundingTypes, Quotes
<1> DEFINE out == (AmountOut(job.amount) * 9900) \div 10000
           next == [job EXCEPT !.pc = IF job.wrap = 0 THEN "allowance" ELSE "wrap", !.minOut = out]
<1>2. CASE Goes(Over)
  BY <1>1, <1>2, OverInv
<1>3. CASE Goes(next)
  <2>1. out \in Int
    <3>1. job.amount \in Int /\ reserves \in [rate : Nat, first : Nat, second : Nat]
      BY <1>1 DEF FundingInv, FundingTypes, Jobs
    <3>2. HopTwo(job.amount) \in Int /\ reserves.rate \in Int
      BY <3>1 DEF HopTwo, HopOne, Least
    <3>3. AmountOut(job.amount) \in Int
      BY <3>2 DEF AmountOut
    <3>4. QED
      BY <3>3
  <2> HIDE DEF out
  <2>2. /\ next \in Jobs /\ next.pc = (IF job.wrap = 0 THEN "allowance" ELSE "wrap")
        /\ next.okb = job.okb /\ next.amount = job.amount /\ next.wrap = job.wrap
        /\ next.reported = 0 /\ next.paid = 0 /\ next.sound = job.sound
    BY <1>1, <2>1 DEF Jobs
  <2>3. job' = next /\ balances' = balances /\ sent' = sent
    BY <1>3 DEF Goes
  <2>4. job.sound => sent = <<>> /\ Decided
    BY <1>1 DEF FundingInv, Exact
  <2> HIDE DEF next
  <2>5. next.sound => Exact'
    BY <2>2, <2>3, <2>4 DEF Exact, Decided
  <2>6. QED
    BY <1>3, <2>2, <2>5, GoesInv
<1>4. QED
  BY <1>2, <1>3 DEF Quotes

\* What is sent is at the end of what is on its way.
LEMMA SendsInv ==
  ASSUME FundingInv, NEW tx \in Sendable, NEW goal \in {"wrapped", "approved", "received"},
         job.pc \in {"wrap", "approve", "swap"}, Sends(tx, goal),
         job.sound /\ goal = "wrapped" =>
           sent = <<>> /\ Decided /\ job.wrap # 0 /\ tx = Deposit(job.wrap),
         job.sound /\ goal = "received" =>
           sent = <<>> /\ balances.usdg = job.before /\ tx = SwapOf(job.amount, job.minOut)
  PROVE  FundingInv'
<1>1. CASE Goes(Over)
  BY <1>1, OverInv
<1>2. CASE /\ sent' = Append(sent, tx) /\ job' = [job EXCEPT !.pc = goal]
           /\ UNCHANGED <<balances, behindBalances, reserves>>
  <2>1. job \in Jobs /\ job.reported = 0 /\ job.paid = 0
    BY DEF FundingInv, FundingTypes
  <2>2. /\ job' \in Jobs /\ job'.pc = goal /\ job'.okb = job.okb /\ job'.amount = job.amount
        /\ job'.wrap = job.wrap /\ job'.minOut = job.minOut /\ job'.before = job.before
        /\ job'.reported = 0 /\ job'.paid = 0 /\ job'.sound = job.sound
    BY <1>2, <2>1 DEF Jobs
  <2>3. sent' \in Seq(Sendable) /\ (sent = <<>> => sent' = <<tx>>)
    <3>1. sent \in Seq(Sendable) /\ sent' = Append(sent, tx)
      BY <1>2 DEF FundingInv, FundingTypes
    <3>2. Append(sent, tx) \in Seq(Sendable) /\ Append(<<>>, tx) = <<tx>>
      BY <3>1
    <3>3. QED
      BY <3>1, <3>2
  <2>4. FundingTypes'
    BY <1>2, <2>2, <2>3 DEF FundingInv, FundingTypes
  <2>5. ASSUME job.sound PROVE Exact'
    <3>1. CASE goal = "wrapped"
      BY <1>2, <2>2, <2>3, <2>5, <3>1 DEF Exact, Decided
    <3>2. CASE goal = "received"
      BY <1>2, <2>2, <2>3, <2>5, <3>2 DEF Exact, Earned
    <3>3. CASE goal = "approved"
      BY <2>2, <3>3 DEF Exact
    <3>4. QED
      BY <3>1, <3>2, <3>3
  <2>6. QED
    BY <2>2, <2>4, <2>5 DEF FundingInv
<1>3. QED
  BY <1>1, <1>2 DEF Sends

\* The three transactions of a run.
LEMMA TransactionsInv == ASSUME FundingInv, Wraps \/ Approves \/ Swaps PROVE FundingInv'
<1>1. job \in Jobs
  BY DEF FundingInv, FundingTypes
<1>2. /\ Deposit(job.wrap) \in Sendable /\ Approval(job.amount) \in Sendable
      /\ SwapOf(job.amount, job.minOut) \in Sendable
  BY <1>1 DEF Deposit, Approval, SwapOf, Sendable, Jobs
<1>3. CASE Wraps
  BY <1>2, <1>3, SendsInv DEF Wraps, FundingInv, Exact
<1>4. CASE Approves
  BY <1>2, <1>4, SendsInv DEF Approves
<1>5. CASE Swaps
  BY <1>2, <1>5, SendsInv DEF Swaps, FundingInv, Exact
<1>6. QED
  BY <1>3, <1>4, <1>5

\* A wait that ended, or an allowance that was read, says nothing new.
LEMMA PassesOnInv ==
  ASSUME FundingInv, SeesWrapped \/ ReadsAllowance \/ SeesAllowance
  PROVE  FundingInv'
<1>1. PICK goal \in {"allowance", "approve", "before"} : Goes([job EXCEPT !.pc = goal])
  BY DEF SeesWrapped, ReadsAllowance, SeesAllowance
<1> DEFINE next == [job EXCEPT !.pc = goal]
<1>2. job \in Jobs /\ job.reported = 0 /\ job.paid = 0
  BY DEF FundingInv, FundingTypes, SeesWrapped, ReadsAllowance, SeesAllowance
<1>3. next \in Jobs /\ next.pc = goal /\ next.reported = 0 /\ next.paid = 0
  BY <1>2 DEF Jobs
<1>4. job' = next
  BY <1>1 DEF Goes
<1> HIDE DEF next
<1>5. Exact'
  BY <1>3, <1>4 DEF Exact
<1>6. QED
  BY <1>1, <1>3, <1>5, GoesInv DEF next

\* The balance before is the wallet's, with nothing on its way.
LEMMA ReadsBeforeInv == ASSUME FundingInv, ReadsBefore PROVE FundingInv'
<1>1. PICK w \in {balances, behindBalances} :
        Goes([job EXCEPT !.pc = "swap", !.before = w.usdg, !.sound = @ /\ Settled(w)])
  BY DEF ReadsBefore, Nodes!Served
<1> DEFINE next == [job EXCEPT !.pc = "swap", !.before = w.usdg, !.sound = @ /\ Settled(w)]
<1>2. job \in Jobs /\ w \in Holdings /\ job.reported = 0 /\ job.paid = 0
  BY DEF FundingInv, FundingTypes, ReadsBefore
<1>3. /\ next \in Jobs /\ next.pc = "swap" /\ next.before = w.usdg
      /\ next.reported = 0 /\ next.paid = 0
      /\ next.sound => w = balances /\ sent = <<>>
  BY <1>2 DEF Jobs, Holdings, Settled
<1>4. job' = next /\ balances' = balances /\ sent' = sent
  BY <1>1 DEF Goes
<1> HIDE DEF next
<1>5. next.sound => Exact'
  BY <1>3, <1>4 DEF Exact
<1>6. QED
  BY <1>1, <1>3, <1>5, GoesInv DEF next

\* What is seen to have come in is the swap's.
LEMMA ReportsInv == ASSUME FundingInv, Reports PROVE FundingInv'
<1>1. PICK w \in {balances, behindBalances} :
        w.usdg > job.before /\ Goes([job EXCEPT !.pc = "off", !.reported = w.usdg - job.before])
  BY DEF Reports, Nodes!Served
<1> DEFINE gain == w.usdg - job.before
           next == [job EXCEPT !.pc = "off", !.reported = gain]
<1>2. /\ job \in Jobs /\ w \in Holdings /\ balances \in Holdings /\ behindBalances \in Holdings
      /\ behindBalances.usdg <= balances.usdg /\ job.pc = "received"
  BY DEF FundingInv, FundingTypes, Reports
<1>3. /\ w.usdg \in Int /\ job.before \in Int /\ job.paid \in Int /\ job.minOut \in Int
      /\ balances.usdg \in Int /\ behindBalances.usdg \in Int
  BY <1>2 DEF Jobs, Holdings
<1>4. /\ next \in Jobs /\ next.pc = "off" /\ next.reported = gain
      /\ next.paid = job.paid /\ next.minOut = job.minOut /\ next.sound = job.sound
  <2>1. gain \in Int /\ job \in Jobs
    BY <1>2, <1>3
  <2> HIDE DEF gain
  <2>2. QED
    BY ONLY <2>1 DEF Jobs
<1>5. job' = next
  BY <1>1 DEF Goes
<1>6. job.sound => w.usdg - job.before = job.paid /\ job.paid >= job.minOut
  <2>1. job.sound => Earned
    BY <1>2 DEF FundingInv, Exact
  <2>2. QED
    BY <1>1, <1>2, <1>3, <2>1 DEF Earned
<1> HIDE DEF next
<1>7. next.sound => Exact'
  BY <1>4, <1>5, <1>6 DEF Exact
<1>8. QED
  BY <1>1, <1>4, <1>7, GoesInv DEF next

\* A transaction is mined: the deposit and the swap of a run that is exact do what it
\* counted on, and the swap's output is all that came in.
LEMMA MinesInv == ASSUME FundingInv, TX_GAS <= LEAST_GAS, Mines PROVE FundingInv'
<1> DEFINE tx == Head(sent)
           next == IF Takes(balances, tx) THEN Taken(balances, tx) ELSE Reverted(balances)
<1>1. /\ sent # <<>> /\ sent \in Seq(Sendable) /\ tx \in Sendable
      /\ balances' = next /\ behindBalances' = behindBalances
      /\ sent' = Tail(sent) /\ sent' \in Seq(Sendable) /\ reserves' = reserves
  BY DEF Mines, Nodes!Land, FundingInv, FundingTypes
<1> DEFINE ours == Takes(balances, tx) /\ tx.kind = "swap" /\ job.pc = "received"
<1>2. job' = IF ours THEN [job EXCEPT !.paid = AmountOut(tx.amount)] ELSE job
  BY DEF Mines
<1>3. FundingTypes
  BY DEF FundingInv
<1>4. next \in Holdings /\ next.usdg >= balances.usdg
  BY <1>1, <1>3, MinedHoldings
<1> HIDE DEF tx, next
<1>5. /\ job \in Jobs /\ balances \in Holdings /\ behindBalances \in Holdings
      /\ behindBalances.usdg <= balances.usdg
  BY <1>3 DEF FundingTypes
<1>6. /\ job' \in Jobs /\ job'.pc = job.pc /\ job'.amount = job.amount /\ job'.minOut = job.minOut
      /\ job'.before = job.before /\ job'.sound = job.sound /\ job'.reported = job.reported
      /\ job'.wrap = job.wrap
      /\ job.pc # "received" => job' = job
  <2>1. CASE ours
    <3>1. AmountOut(tx.amount) \in Int
      BY <1>1, <1>3, <2>1, SwapsPay
    <3>2. QED
      BY <1>2, <1>5, <2>1, <3>1 DEF Jobs
  <2>2. CASE ~ours
    BY <1>2, <1>5, <2>2
  <2>3. QED
    BY <2>1, <2>2
<1>7. FundingTypes'
  <2>1. behindBalances.usdg <= next.usdg
    BY <1>4, <1>5 DEF Holdings
  <2>2. QED
    BY <1>1, <1>3, <1>4, <1>6, <2>1 DEF FundingTypes
<1>8. ASSUME job.sound PROVE Exact'
  <2>1. Exact
    BY <1>8 DEF FundingInv
  <2>2. CASE job.pc = "wrapped"
    <3>1. sent = <<Deposit(job.wrap)>> /\ Decided /\ job.wrap # 0
      BY <1>1, <2>1, <2>2 DEF Exact
    <3>2. tx = Deposit(job.wrap) /\ sent' = <<>>
      BY <1>1, <3>1 DEF tx
    <3>3. Takes(balances, tx) /\ Taken(balances, tx).wokb = job.amount
          /\ Taken(balances, tx).okb >= LEAST_GAS - TX_GAS
      BY <1>3, <3>1, <3>2, DepositsWrap
    <3>4. next = Taken(balances, tx)
      BY <3>3 DEF next
    <3>5. Wrapped'
      BY <1>1, <1>6, <3>3, <3>4 DEF Wrapped
    <3>6. QED
      BY <1>6, <2>2, <3>2, <3>5 DEF Exact
  <2>3. CASE job.pc = "received"
    <3>1. /\ sent = <<SwapOf(job.amount, job.minOut)>> /\ balances.usdg = job.before
          /\ job.paid = 0
      BY <1>1, <2>1, <2>3 DEF Exact, Earned
    <3>2. /\ tx = SwapOf(job.amount, job.minOut) /\ sent' = <<>>
          /\ tx.kind = "swap" /\ tx.minOut = job.minOut
      BY <1>1, <3>1 DEF tx, SwapOf
    <3>3. behindBalances.usdg <= job.before
      BY <1>5, <3>1
    <3>4. CASE Takes(balances, tx)
      <4>1. AmountOut(tx.amount) \in Nat /\ AmountOut(tx.amount) >= job.minOut
        BY <1>1, <1>3, <3>2, <3>4, SwapsPay
      <4>2. job'.paid = AmountOut(tx.amount)
        BY <1>2, <1>5, <2>3, <3>2, <3>4 DEF Jobs
      <4>3. next.usdg = balances.usdg + AmountOut(tx.amount)
        <5> DEFINE left == [balances EXCEPT !.okb = @ - TX_GAS]
                   a == [left EXCEPT !.wokb = @ - HopOne(tx.amount)]
                   b == [a EXCEPT !.allowance = left.allowance - HopOne(tx.amount)]
                   c == [b EXCEPT !.usdg = left.usdg + AmountOut(tx.amount)]
        <5>1. next = [c EXCEPT !.stranded = left.stranded + HopOne(tx.amount) - HopTwo(tx.amount)]
          BY <3>2, <3>4 DEF next, Taken
        <5>2. left.usdg = balances.usdg /\ DOMAIN left = DOMAIN balances
          BY <1>5 DEF Holdings
        <5>3. DOMAIN b = DOMAIN left
          OBVIOUS
        <5>4. "usdg" \in DOMAIN left
          BY <1>5, <5>2 DEF Holdings
        <5> HIDE DEF b, left
        <5>5. QED
          BY <5>1, <5>2, <5>3, <5>4
      <4>4. Earned'
        BY <1>1, <1>6, <3>1, <3>2, <3>3, <4>1, <4>2, <4>3 DEF Earned
      <4>5. QED
        BY <1>6, <2>3, <4>4 DEF Exact
    <3>5. CASE ~Takes(balances, tx)
      <4>1. job' = job
        BY <1>2, <3>5
      <4>2. next.usdg = balances.usdg
        BY <1>5, <3>5 DEF next, Reverted, Holdings
      <4>3. job.before \in Int /\ job.before + job.paid = job.before
        BY <1>5, <3>1 DEF Jobs
      <4>4. Earned'
        BY <1>1, <3>1, <3>2, <3>3, <4>1, <4>2, <4>3 DEF Earned
      <4>5. QED
        BY <2>3, <4>1, <4>4 DEF Exact
    <3>6. QED
      BY <3>4, <3>5
  <2>4. CASE job.pc \notin {"wrapped", "received"}
    <3>1. job.pc \notin {"held", "quote", "wrap", "swap"} /\ job' = job
      BY <1>1, <1>6, <2>1, <2>4 DEF Exact
    <3>2. QED
      BY <2>1, <2>4, <3>1 DEF Exact
  <2>5. QED
    BY <2>2, <2>3, <2>4
<1>9. QED
  BY <1>6, <1>7, <1>8 DEF FundingInv

\* A run begins with nothing read and nothing reported.
LEMMA InvokedInv == ASSUME FundingInv, Invoked PROVE FundingInv'
<1>1. PICK want \in Want : job' = [NoJob EXCEPT !.pc = "balance", !.want = want]
  BY DEF Invoked
<1>2. /\ job' \in Jobs /\ job'.pc = "balance" /\ job'.reported = 0 /\ job'.paid = 0
  <2>1. job' = [pc |-> "balance", want |-> want, okb |-> 0, held |-> 0, amount |-> 0, wrap |-> 0,
                minOut |-> 0, before |-> 0, paid |-> 0, reported |-> 0, sound |-> TRUE]
    BY <1>1 DEF NoJob
  <2>2. want \in Nat \cup {Everything}
    BY FundingAssumption
  <2>3. QED
    BY <2>1, <2>2 DEF Jobs
<1>3. UNCHANGED <<balances, behindBalances, reserves, sent>>
  BY DEF Invoked
<1>4. FundingTypes'
  BY <1>2, <1>3 DEF FundingInv, FundingTypes
<1>5. Exact'
  BY <1>2 DEF Exact
<1>6. QED
  BY <1>4, <1>5 DEF FundingInv

\* The pools and the nodes move on their own.
LEMMA OthersMoveInv == ASSUME FundingInv, PoolsMove \/ FundingSyncs PROVE FundingInv'
<1>1. balances' = balances /\ sent' = sent /\ job' = job
  BY DEF PoolsMove, FundingSyncs, Nodes!Sync
<1>2. reserves' = reserves \/ reserves' \in Pools
  BY DEF PoolsMove, FundingSyncs
<1>3. behindBalances' = behindBalances \/ behindBalances' = balances
  BY DEF PoolsMove, FundingSyncs, Nodes!Sync
<1>4. balances.usdg \in Int
  BY DEF FundingInv, FundingTypes, Holdings
<1>5. FundingTypes'
  BY <1>1, <1>2, <1>3, <1>4, FundingAssumption DEF FundingInv, FundingTypes
<1>6. Earned => Earned'
  BY <1>1, <1>3 DEF Earned
<1>7. Exact => Exact'
  BY <1>1, <1>6 DEF Exact, Decided, Wrapped
<1>8. QED
  BY <1>1, <1>5, <1>7 DEF FundingInv

\* The inductive invariant: where a run stands whose balances were the wallet's, what is on
\* its way is its own transaction and nothing else.
THEOREM FundingRunsAreExact == ASSUME TX_GAS <= LEAST_GAS PROVE FundingSpec => []FundingInv
<1>1. FundingInit => FundingInv
  <2> SUFFICES ASSUME FundingInit PROVE FundingInv
    OBVIOUS
  <2>1. /\ balances \in Start /\ behindBalances = balances /\ reserves \in Pools /\ sent = <<>>
        /\ job = NoJob
    BY DEF FundingInit, Nodes!ReadsInit
  <2>2. balances \in Holdings
    BY <2>1, FundingAssumption DEF Holdings
  <2>3. job \in Jobs /\ job.pc = "off" /\ job.reported = 0
    BY <2>1 DEF NoJob, Jobs
  <2>4. FundingTypes
    BY <2>1, <2>2, <2>3, FundingAssumption DEF FundingTypes, Holdings
  <2>5. Exact
    BY <2>3 DEF Exact
  <2>6. QED
    BY <2>4, <2>5 DEF FundingInv
<1>2. FundingInv /\ [FundingNext]_fundingVars => FundingInv'
  <2>1. ASSUME FundingInv, UNCHANGED fundingVars PROVE FundingInv'
    BY <2>1 DEF fundingVars, FundingInv, FundingTypes, Exact, Decided, Wrapped, Earned
  <2>2. ASSUME FundingInv, Dies PROVE FundingInv'
    BY <2>2, OverInv DEF Dies
  <2>3. QED
    BY <2>1, <2>2, InvokedInv, ReadsBalanceInv, ReadsHeldInv, QuotesInv, TransactionsInv,
       PassesOnInv, ReadsBeforeInv, ReportsInv, MinesInv, OthersMoveInv
       DEF FundingNext, SwapRun
<1>3. QED
  BY <1>1, <1>2, PTL DEF FundingSpec

\* For any wallet, any pools and any number of runs, killed anywhere, as long as what is
\* always left pays for one transaction: a run that decided by what the wallet held wraps
\* only what is missing and reports its own swap's output (swap.ts 102-128, 185-289).
THEOREM ResumedRunsAreExactHolds ==
  ASSUME TX_GAS <= LEAST_GAS PROVE FundingSpec => []ResumedRunsAreExact
<1>1. FundingInv => ResumedRunsAreExact
  <2>1. FundingInv /\ job.sound /\ job.pc = "wrapped" /\ sent = <<>> => Wrapped
    BY DEF FundingInv, Exact
  <2>2. QED
    BY <2>1 DEF FundingInv, Exact, Wrapped, ResumedRunsAreExact
<1>2. QED
  BY <1>1, FundingRunsAreExact, PTL

---------------------------------------------------------------------------
(* The history of marks (SampleStore).  A mark is made of the tape and     *)
(* only copied afterwards, so what any file holds was quoted.  Neighbours  *)
(* in the order of time leave nothing between them, so the stretches two   *)
(* jumps span do not overlap; each spans an open, which gives every jump   *)
(* an open of its own.                                                     *)

\* The mark of an asset at a second of the tape.
MarkAt(symbol, t) == [symbol |-> symbol, at |-> t, period |-> tape[t].period, mid |-> tape[t].mid]

\* Every mark that could have been made so far.
TrueMark == {MarkAt(a, t) : a \in Symbol, t \in DOMAIN tape}

\* Nobody holds a mark the issuer did not quote.
StoreInv ==
  /\ tape \in Seq(Moment) /\ Clock >= 1
  /\ histories \in [Sampler -> Seq(TrueMark)]
  /\ passes \in [Sampler -> [pc : {"idle", "fetched", "publish"}, marks : Seq(TrueMark)]]

---------------------------------------------------------------------------
(* Merging.                                                                *)

\* What survives a merge, and the place it gets.
KeptOf(all) == {i \in DOMAIN all : \A j \in DOMAIN all : j > i => Identity(all[j]) # Identity(all[i])}
PlaceIn(all, i) == Cardinality({j \in KeptOf(all) : Precedes(all[j], all[i])}) + 1

\* Any two marks that survive have different places.
LEMMA PlacesDiffer ==
  ASSUME NEW all, IsFiniteSet(DOMAIN all), DOMAIN all \subseteq Int,
         \A i \in DOMAIN all : all[i].at \in Int /\ all[i].symbol \in Int,
         NEW i \in KeptOf(all), NEW k \in KeptOf(all), i # k
  PROVE  PlaceIn(all, i) # PlaceIn(all, k)
<1> DEFINE Under(x) == {j \in KeptOf(all) : Precedes(all[j], all[x])}
<1>1. IsFiniteSet(KeptOf(all)) /\ KeptOf(all) \subseteq DOMAIN all
  <2>1. KeptOf(all) \subseteq DOMAIN all
    BY DEF KeptOf
  <2>2. QED
    BY <2>1, FS_Subset
<1>2. \A x, y \in KeptOf(all) : x # y => Precedes(all[x], all[y]) \/ Precedes(all[y], all[x])
  <2>1. ASSUME NEW x \in KeptOf(all), NEW y \in KeptOf(all), x # y
        PROVE  Identity(all[x]) # Identity(all[y])
    BY <2>1 DEF KeptOf
  <2>2. QED
    BY <2>1, <1>1 DEF Identity, Precedes
<1>3. ASSUME NEW x \in KeptOf(all), NEW y \in KeptOf(all), Precedes(all[x], all[y])
      PROVE  PlaceIn(all, x) # PlaceIn(all, y)
  <2>1. Under(x) \subseteq Under(y) /\ x \in Under(y) /\ x \notin Under(x)
    BY <1>1, <1>3 DEF Precedes
  <2>2. IsFiniteSet(Under(y)) /\ IsFiniteSet(Under(x)) /\ Under(x) # Under(y)
    BY <2>1, <1>1, FS_Subset
  <2>3. Cardinality(Under(x)) # Cardinality(Under(y))
        /\ Cardinality(Under(x)) \in Nat /\ Cardinality(Under(y)) \in Nat
    BY <2>1, <2>2, FS_Subset, FS_CardinalityType
  <2> HIDE DEF Under
  <2>4. Cardinality(Under(x)) + 1 # Cardinality(Under(y)) + 1
    BY <2>3
  <2>5. QED
    BY <2>4 DEF PlaceIn, Under
<1>4. QED
  BY <1>2, <1>3

\* And the places are the first so many numbers: each number is one's.
LEMMA PlacesAreTaken ==
  ASSUME NEW all, IsFiniteSet(DOMAIN all), DOMAIN all \subseteq Int,
         \A i \in DOMAIN all : all[i].at \in Int /\ all[i].symbol \in Int,
         NEW n \in 1 .. Cardinality(KeptOf(all))
  PROVE  \E i \in KeptOf(all) : PlaceIn(all, i) = n
<1> DEFINE Kept == KeptOf(all)
           Many == Cardinality(Kept)
           Placed == [i \in Kept |-> PlaceIn(all, i)]
<1>1. IsFiniteSet(Kept) /\ Kept \subseteq DOMAIN all
  <2>1. Kept \subseteq DOMAIN all
    BY DEF KeptOf
  <2>2. QED
    BY <2>1, FS_Subset
<1>2. Many \in Nat
  BY <1>1, FS_CardinalityType
<1>3. ASSUME NEW i \in Kept PROVE PlaceIn(all, i) \in 1 .. Many
  <2> DEFINE Under == {j \in Kept : Precedes(all[j], all[i])}
  <2>1. Under \subseteq Kept \ {i}
    BY <1>1 DEF Precedes
  <2>2. IsFiniteSet(Kept \ {i}) /\ Cardinality(Kept \ {i}) = Many - 1
    BY <1>1, FS_RemoveElement
  <2>3. Cardinality(Under) \in Nat /\ Cardinality(Under) <= Many - 1
    BY <2>1, <2>2, FS_Subset, FS_CardinalityType
  <2>4. PlaceIn(all, i) = Cardinality(Under) + 1
    BY DEF PlaceIn
  <2> HIDE DEF Under, Many
  <2>5. QED
    BY <1>2, <2>3, <2>4
<1>4. Placed \in Injection(Kept, 1 .. Many)
  <2>1. Placed \in [Kept -> 1 .. Many]
    BY <1>3
  <2>2. \A i, k \in Kept : Placed[i] = Placed[k] => i = k
    BY PlacesDiffer
  <2>3. QED
    BY <2>1, <2>2 DEF Injection, IsInjective
<1>5. IsFiniteSet(1 .. Many) /\ Cardinality(1 .. Many) = Many
  BY <1>2, FS_Interval
<1>6. Placed \in Surjection(Kept, 1 .. Many)
  BY <1>4, <1>5, FS_Injection
<1>7. QED
  BY <1>6 DEF Surjection

\* A merge of two histories holds marks of theirs.
LEMMA MergedIsAHistory ==
  ASSUME NEW S, S \subseteq [symbol : Int, at : Int, period : {"market", "overnight"}, mid : Mid],
         NEW into \in Seq(S), NEW from \in Seq(S)
  PROVE  Merge(into, from) \in Seq(S)
<1> DEFINE all == into \o from
           Kept == KeptOf(all)
           Many == Cardinality(Kept)
           Pick(n) == CHOOSE i \in Kept : PlaceIn(all, i) = n
<1>1. all \in Seq(S) /\ DOMAIN all = 1 .. Len(all) /\ Len(all) \in Nat
  OBVIOUS
<1>2. IsFiniteSet(DOMAIN all) /\ DOMAIN all \subseteq Int
  BY <1>1, FS_Interval
<1>3. \A i \in DOMAIN all : all[i] \in S /\ all[i].at \in Int /\ all[i].symbol \in Int
  BY <1>1
<1> HIDE DEF all
<1>4. Kept \subseteq DOMAIN all /\ Many \in Nat
  <2>1. Kept \subseteq DOMAIN all
    BY DEF KeptOf
  <2>2. QED
    BY <2>1, <1>2, FS_Subset, FS_CardinalityType
<1>5. ASSUME NEW n \in 1 .. Many PROVE all[Pick(n)] \in S
  <2>1. Pick(n) \in Kept
    BY <1>2, <1>3, PlacesAreTaken
  <2>2. QED
    BY <2>1, <1>3, <1>4
<1>6. Merge(into, from) = [n \in 1 .. Many |-> all[Pick(n)]]
  BY DEF Merge, all, KeptOf, PlaceIn
<1> HIDE DEF Kept, Many, Pick
<1>7. [n \in 1 .. Many |-> all[Pick(n)]] \in [1 .. Many -> S]
  BY <1>5
<1>8. Merge(into, from) \in [1 .. Many -> S]
  BY <1>6, <1>7
<1>9. QED
  BY <1>4, <1>8

---------------------------------------------------------------------------
(* Sampling.                                                               *)

\* A mark that could have been made has its fields.
LEMMA TrueMarkIs ==
  ASSUME tape \in Seq(Moment), NEW m \in TrueMark
  PROVE  /\ m \in [symbol : Symbol, at : DOMAIN tape, period : {"market", "overnight"}, mid : Mid]
         /\ m.period = tape[m.at].period /\ m.mid = tape[m.at].mid
<1>1. PICK a \in Symbol, t \in DOMAIN tape : m = MarkAt(a, t)
  BY DEF TrueMark
<1>2. tape[t] \in Moment
  BY <1>1
<1>3. QED
  BY <1>1, <1>2 DEF MarkAt, Moment

\* The marks of a book, listed.
LEMMA ListedMarks ==
  ASSUME StoreInv, NEW quoted \in SUBSET Symbol
  PROVE  SetToSeq({Mark(a) : a \in quoted}) \in Seq(TrueMark)
<1> DEFINE Made == {Mark(a) : a \in quoted}
<1>1. IsFiniteSet(Made)
  <2>1. IsFiniteSet(quoted)
    BY StoreAssumption, FS_Subset
  <2>2. [a \in quoted |-> Mark(a)] \in Surjection(quoted, Made)
    BY DEF Surjection
  <2>3. QED
    BY <2>1, <2>2, FS_Surjection
<1>2. Made \subseteq TrueMark
  <2>1. Clock \in DOMAIN tape
    BY DEF StoreInv, Clock
  <2>2. QED
    BY <2>1 DEF TrueMark, MarkAt, Mark
<1> DEFINE Many == Cardinality(Made)
<1>3. Many \in Nat /\ \E f \in [1 .. Many -> Made] : IsInjective(f)
  <2>1. Many \in Nat /\ ExistsBijection(1 .. Many, Made)
    BY <1>1, FS_CardinalityType
  <2>2. QED
    BY <2>1 DEF ExistsBijection, Bijection, Injection
<1> HIDE DEF Made
<1>4. SetToSeq(Made) \in [1 .. Many -> Made]
  BY <1>3 DEF SetToSeq
<1> HIDE DEF Many
<1>5. SetToSeq(Made) \in Seq(TrueMark)
  BY <1>2, <1>3, <1>4
<1>6. QED
  BY <1>5 DEF Made

---------------------------------------------------------------------------
(* The samplers.                                                           *)

\* A history that was true stays true when more is quoted.
LEMMA TrueMarksStay ==
  ASSUME StoreInv, NEW m \in Moment, tape' = Append(tape, m)
  PROVE  /\ tape' \in Seq(Moment) /\ Clock' >= 1
         /\ TrueMark \subseteq TrueMark'
<1>1. tape \in Seq(Moment) /\ Len(tape) \in Nat /\ Len(tape) >= 1
  BY DEF StoreInv, Clock
<1>2. /\ tape' \in Seq(Moment) /\ Len(tape') = Len(tape) + 1
      /\ DOMAIN tape \subseteq DOMAIN tape' /\ \A t \in DOMAIN tape : tape'[t] = tape[t]
  BY <1>1
<1>3. Clock' >= 1
  BY <1>1, <1>2 DEF Clock
<1>4. ASSUME NEW a \in Symbol, NEW t \in DOMAIN tape
      PROVE  MarkAt(a, t) \in TrueMark'
  <2>1. MarkAt(a, t) = MarkAt(a, t)'
    BY <1>2 DEF MarkAt
  <2>2. QED
    BY <1>2, <2>1 DEF TrueMark
<1>5. QED
  BY <1>2, <1>3, <1>4 DEF TrueMark

\* What a sampler turns to keeps the shape of a pass.
LEMMA PassesKeepTheStore ==
  ASSUME StoreInv, NEW s \in Sampler, NEW pass, Passes(s, pass),
         pass \in [pc : {"idle", "fetched", "publish"}, marks : Seq(TrueMark)]
  PROVE  StoreInv'
<1>1. UNCHANGED <<TrueMark, Clock, tape, histories>>
  BY DEF Passes, TrueMark, MarkAt, Clock
<1>2. passes' \in [Sampler -> [pc : {"idle", "fetched", "publish"}, marks : Seq(TrueMark)]]
  BY DEF Passes, StoreInv
<1>3. QED
  BY <1>1, <1>2 DEF StoreInv

\* And so does what the repository keeps of a merge.
LEMMA MergesKeepTheStore ==
  ASSUME StoreInv, NEW from \in Seq(TrueMark), Keeps(Merge(histories[Repository], from))
  PROVE  StoreInv'
<1>1. UNCHANGED <<TrueMark, Clock, tape, passes>>
  BY DEF Keeps, TrueMark, MarkAt, Clock
<1>2. TrueMark \subseteq [symbol : Int, at : Int, period : {"market", "overnight"}, mid : Mid]
  <2>1. tape \in Seq(Moment) /\ DOMAIN tape \subseteq Int /\ Symbol \subseteq Int
    BY StoreAssumption DEF StoreInv
  <2>2. QED
    BY <2>1, TrueMarkIs
<1>3. histories[Repository] \in Seq(TrueMark)
  BY DEF StoreInv, Sampler
<1>4. Merge(histories[Repository], from) \in Seq(TrueMark)
  BY <1>2, <1>3, MergedIsAHistory
<1>5. histories' \in [Sampler -> Seq(TrueMark)]
  BY <1>4 DEF Keeps, StoreInv
<1>6. QED
  BY <1>1, <1>5 DEF StoreInv

\* Nobody ever holds a mark the issuer did not quote: not a sampler that waits before it
\* appends, nor a file that two others were merged into (observations.ts 82-126).
THEOREM MarksAreTrue == StoreSpec => []StoreInv
<1>1. StoreInit => StoreInv
  <2>1. SUFFICES ASSUME StoreInit PROVE StoreInv
    OBVIOUS
  <2>2. tape \in Seq(Moment) /\ Clock >= 1
    BY <2>1 DEF StoreInit, Clock
  <2>3. <<>> \in Seq(TrueMark)
    OBVIOUS
  <2>4. histories \in [Sampler -> Seq(TrueMark)]
    BY <2>1, <2>3 DEF StoreInit
  <2>5. passes \in [Sampler -> [pc : {"idle", "fetched", "publish"}, marks : Seq(TrueMark)]]
    BY <2>1, <2>3 DEF StoreInit, Resting
  <2>6. QED
    BY <2>2, <2>4, <2>5 DEF StoreInv
<1>2. StoreInv /\ [StoreNext]_storeVars => StoreInv'
  <2> SUFFICES ASSUME StoreInv, [StoreNext]_storeVars PROVE StoreInv'
    OBVIOUS
  <2>1. ASSUME NEW s \in Sampler
        PROVE  /\ After(s) \in [pc : {"idle", "fetched", "publish"}, marks : Seq(TrueMark)]
               /\ Resting \in [pc : {"idle", "fetched", "publish"}, marks : Seq(TrueMark)]
    <3>1. Resting \in [pc : {"idle", "fetched", "publish"}, marks : Seq(TrueMark)]
      BY DEF Resting
    <3>2. /\ [Resting EXCEPT !.pc = "publish"]
               \in [pc : {"idle", "fetched", "publish"}, marks : Seq(TrueMark)]
          /\ [Resting EXCEPT !.pc = "idle"]
               \in [pc : {"idle", "fetched", "publish"}, marks : Seq(TrueMark)]
      BY <3>1
    <3>3. CASE s = Volume
      BY <3>1, <3>2, <3>3 DEF After
    <3>4. CASE s # Volume
      BY <3>1, <3>2, <3>4 DEF After
    <3>5. QED
      BY <3>3, <3>4
  <2>2. CASE \E s \in Sampler : Fetches(s)
    <3>1. PICK s \in Sampler, quoted \in SUBSET Symbol :
            Passes(s, [pc |-> "fetched", marks |-> SetToSeq({Mark(a) : a \in quoted})])
      BY <2>2 DEF Fetches
    <3>2. SetToSeq({Mark(a) : a \in quoted}) \in Seq(TrueMark)
      BY ListedMarks
    <3>3. QED
      BY <3>1, <3>2, PassesKeepTheStore
  <2>3. CASE \E s \in Sampler : FetchFails(s)
    BY <2>1, <2>3, PassesKeepTheStore DEF FetchFails
  <2>4. CASE \E s \in Sampler : Appends(s)
    <3>1. PICK s \in Sampler : Appends(s)
      BY <2>4
    <3>2. UNCHANGED <<TrueMark, Clock, tape>>
      BY <3>1 DEF Appends, TrueMark, MarkAt, Clock
    <3>3. histories[s] \in Seq(TrueMark) /\ passes[s].marks \in Seq(TrueMark)
      BY DEF StoreInv
    <3>4. histories[s] \o passes[s].marks \in Seq(TrueMark)
      BY <3>3
    <3>5. histories' \in [Sampler -> Seq(TrueMark)]
      BY <3>1, <3>4 DEF Appends, StoreInv
    <3>6. passes' \in [Sampler -> [pc : {"idle", "fetched", "publish"}, marks : Seq(TrueMark)]]
      BY <3>1, <2>1 DEF Appends, StoreInv
    <3>7. QED
      BY <3>2, <3>5, <3>6 DEF StoreInv
  <2>5. CASE Publishes
    <3>1. Volume \in Sampler
      BY DEF Sampler
    <3>2. QED
      BY <2>1, <2>5, <3>1, PassesKeepTheStore DEF Publishes
  <2>6. histories[Volume] \in Seq(TrueMark)
    BY DEF StoreInv, Sampler
  <2>7. CASE Pulls
    BY <2>6, <2>7, MergesKeepTheStore DEF Pulls
  <2>8. CASE MergesCopy
    <3>1. PICK n \in 1 .. Len(histories[Volume]) :
            Keeps(Merge(histories[Repository], SubSeq(histories[Volume], 1, n)))
      BY <2>8 DEF MergesCopy
    <3>2. SubSeq(histories[Volume], 1, n) \in Seq(TrueMark)
      BY <2>6
    <3>3. QED
      BY <3>1, <3>2, MergesKeepTheStore
  <2>9. CASE Moves
    <3>1. PICK m \in Moment : tape' = Append(tape, m)
      BY <2>9 DEF Moves
    <3>2. /\ tape' \in Seq(Moment) /\ Clock' >= 1
          /\ TrueMark \subseteq TrueMark'
      BY <3>1, TrueMarksStay
    <3>3. Seq(TrueMark) \subseteq Seq(TrueMark')
      BY <3>2
    <3>4. UNCHANGED <<histories, passes>>
      BY <2>9 DEF Moves
    <3>5. histories' \in [Sampler -> Seq(TrueMark')]
      BY <3>3, <3>4 DEF StoreInv
    <3>6. passes' \in [Sampler -> [pc : {"idle", "fetched", "publish"}, marks : Seq(TrueMark')]]
      BY <3>3, <3>4 DEF StoreInv
    <3>7. QED
      BY <3>2, <3>5, <3>6 DEF StoreInv
  <2>10. CASE UNCHANGED storeVars
    <3>1. UNCHANGED <<TrueMark, Clock, tape, histories, passes>>
      BY <2>10 DEF storeVars, TrueMark, MarkAt, Clock
    <3>2. QED
      BY <3>1 DEF StoreInv
  <2>11. QED
    BY <2>2, <2>3, <2>4, <2>5, <2>7, <2>8, <2>9, <2>10 DEF StoreNext
<1>3. QED
  BY <1>1, <1>2, PTL DEF StoreSpec

---------------------------------------------------------------------------
(* The opens.                                                              *)

\* Two marks of one asset come one before the other.
LEMMA MarksAreInOrder ==
  ASSUME NEW history, \A i \in DOMAIN history : i \in Int /\ history[i].at \in Int,
         NEW i \in DOMAIN history, NEW j \in DOMAIN history, i # j
  PROVE  (Earlier(history, i, j) \/ Earlier(history, j, i)) /\ ~(Earlier(history, i, j) /\ Earlier(history, j, i))
BY DEF Earlier

\* A set of numbers has a least.
LEMMA LeastMoment ==
  ASSUME NEW S, S \subseteq Nat, S # {}
  PROVE  \E m \in S : \A n \in S : m <= n
<1> DEFINE Upto(n) == 1 .. n
           Intervals == {Upto(n) : n \in S}
<1>1. Intervals \subseteq FiniteSubsetsOf(Nat)
  <2>1. \A n \in Nat : IsFiniteSet(Upto(n)) /\ Upto(n) \subseteq Nat
    BY FS_Interval
  <2>2. QED
    BY <2>1 DEF FiniteSubsetsOf
<1>2. Intervals # {}
  OBVIOUS
<1>3. PICK s \in Intervals : \A r \in Intervals : <<r, s>> \notin StrictSubsetOrdering(Nat)
  BY <1>1, <1>2, FS_StrictSubsetOrderingWellFounded, WFMin
<1>4. PICK m \in S : s = Upto(m)
  BY <1>3
<1>5. ASSUME NEW n \in S, ~(m <= n) PROVE FALSE
  <2>1. Upto(n) \subseteq Upto(m) /\ m \in Upto(m) /\ m \notin Upto(n)
    BY <1>5
  <2>2. Upto(n) \in Intervals /\ Upto(m) \in Intervals
    BY <1>5
  <2>3. Upto(n) # Upto(m) /\ Upto(n) \in SUBSET Nat /\ Upto(m) \in SUBSET Nat
    BY <2>1
  <2> HIDE DEF Upto, Intervals
  <2>4. <<Upto(n), Upto(m)>> \in StrictSubsetOrdering(Nat)
    BY <2>1, <2>3 DEF StrictSubsetOrdering
  <2>5. QED
    BY <1>3, <1>4, <2>2, <2>4
<1>6. QED
  BY <1>5

\* Before the market was open, and then it was: it opened in between.
LEMMA AnOpenBetween ==
  ASSUME tape \in Seq(Moment), NEW x \in DOMAIN tape, NEW y \in DOMAIN tape, x < y,
         tape[x].period # "market", tape[y].period = "market"
  PROVE  \E t \in Opens : x < t /\ t <= y
<1> DEFINE Open == {t \in x + 1 .. y : tape[t].period = "market"}
<1>1. DOMAIN tape = 1 .. Clock /\ Clock \in Nat
  BY DEF Clock
<1>2. Open \subseteq Nat /\ y \in Open
  BY <1>1
<1>3. PICK t \in Open : \A u \in Open : t <= u
  BY <1>2, LeastMoment
<1>4. t \in 2 .. Clock /\ tape[t].period = "market" /\ x < t /\ t <= y
  BY <1>1
<1>5. tape[t - 1].period # "market"
  <2>1. CASE t - 1 = x
    BY <2>1
  <2>2. CASE t - 1 # x
    <3>1. t - 1 \in x + 1 .. y /\ t - 1 \notin Open
      BY <1>1, <1>3, <1>4, <2>2
    <3>2. QED
      BY <3>1
  <2>3. QED
    BY <2>1, <2>2
<1>6. QED
  BY <1>4, <1>5 DEF Opens

\* What a jump of a true history is of.
LEMMA JumpsCrossOpens ==
  ASSUME tape \in Seq(Moment), NEW history \in Seq(TrueMark), NEW a, NEW p \in Jumps(history, a)
  PROVE  /\ p[1] \in Of(history, a) /\ p[2] \in Of(history, a) /\ p = <<p[1], p[2]>>
         /\ Earlier(history, p[1], p[2])
         /\ \A k \in Of(history, a) : ~(Earlier(history, p[1], k) /\ Earlier(history, k, p[2]))
         /\ \E t \in Opens : history[p[1]].at < t /\ t <= history[p[2]].at
<1>1. /\ p[1] \in Of(history, a) /\ p[2] \in Of(history, a) /\ p = <<p[1], p[2]>>
      /\ Earlier(history, p[1], p[2])
      /\ \A k \in Of(history, a) : ~(Earlier(history, p[1], k) /\ Earlier(history, k, p[2]))
      /\ history[p[1]].period # "market" /\ history[p[2]].period = "market"
  BY DEF Jumps, Neighbours
<1> DEFINE x == history[p[1]].at
           y == history[p[2]].at
<1>2. history[p[1]] \in TrueMark /\ history[p[2]] \in TrueMark
  BY <1>1 DEF Of
<1>3. /\ x \in DOMAIN tape /\ history[p[1]].period = tape[x].period
      /\ y \in DOMAIN tape /\ history[p[2]].period = tape[y].period
  BY <1>2, TrueMarkIs
<1>4. x < y
  BY <1>1, <1>3 DEF Earlier
<1>5. QED
  BY <1>1, <1>3, <1>4, AnOpenBetween

\* Two jumps are across stretches that do not overlap.
LEMMA JumpsAreApart ==
  ASSUME tape \in Seq(Moment), NEW history \in Seq(TrueMark), NEW a,
         NEW p \in Jumps(history, a), NEW q \in Jumps(history, a), p # q
  PROVE  history[p[2]].at <= history[q[1]].at \/ history[q[2]].at <= history[p[1]].at
<1>1. \A i \in DOMAIN history : i \in Int /\ history[i].at \in Int
  <2>1. \A i \in DOMAIN history : i \in Int /\ history[i] \in TrueMark
    OBVIOUS
  <2>2. DOMAIN tape \subseteq Int
    OBVIOUS
  <2>3. QED
    BY <2>1, <2>2, TrueMarkIs
<1>2. Of(history, a) \subseteq DOMAIN history
  BY DEF Of
<1>3. /\ p[1] \in Of(history, a) /\ p[2] \in Of(history, a) /\ p = <<p[1], p[2]>>
      /\ Earlier(history, p[1], p[2])
      /\ \A k \in Of(history, a) : ~(Earlier(history, p[1], k) /\ Earlier(history, k, p[2]))
  BY JumpsCrossOpens
<1>4. /\ q[1] \in Of(history, a) /\ q[2] \in Of(history, a) /\ q = <<q[1], q[2]>>
      /\ Earlier(history, q[1], q[2])
      /\ \A k \in Of(history, a) : ~(Earlier(history, q[1], k) /\ Earlier(history, k, q[2]))
  BY JumpsCrossOpens
<1>5. CASE p[1] = q[1]
  <2>1. p[2] # q[2]
    BY <1>3, <1>4, <1>5
  <2>2. Earlier(history, p[2], q[2]) \/ Earlier(history, q[2], p[2])
    BY <1>1, <1>2, <1>3, <1>4, <2>1, MarksAreInOrder
  <2>3. QED
    BY <1>3, <1>4, <1>5, <2>2
<1>6. CASE p[1] # q[1]
  <2>1. Earlier(history, p[1], q[1]) \/ Earlier(history, q[1], p[1])
    BY <1>1, <1>2, <1>3, <1>4, <1>6, MarksAreInOrder
  <2>2. ASSUME Earlier(history, p[1], q[1]) PROVE history[p[2]].at <= history[q[1]].at
    <3>1. p[2] = q[1] \/ Earlier(history, p[2], q[1])
      BY <1>1, <1>2, <1>3, <1>4, <2>2, MarksAreInOrder
    <3>2. history[p[2]].at \in Int /\ history[q[1]].at \in Int
      BY <1>1, <1>2, <1>3, <1>4
    <3>3. QED
      BY <3>1, <3>2 DEF Earlier
  <2>3. ASSUME Earlier(history, q[1], p[1]) PROVE history[q[2]].at <= history[p[1]].at
    <3>1. q[2] = p[1] \/ Earlier(history, q[2], p[1])
      BY <1>1, <1>2, <1>3, <1>4, <2>3, MarksAreInOrder
    <3>2. history[q[2]].at \in Int /\ history[p[1]].at \in Int
      BY <1>1, <1>2, <1>3, <1>4
    <3>3. QED
      BY <3>1, <3>2 DEF Earlier
  <2>4. QED
    BY <2>1, <2>2, <2>3
<1>7. QED
  BY <1>5, <1>6

\* There are no more jumps than opens.
LEMMA NoMoreJumpsThanOpens ==
  ASSUME tape \in Seq(Moment), NEW history \in Seq(TrueMark), NEW a
  PROVE  /\ Cardinality(Jumps(history, a)) \in Nat /\ Cardinality(Opens) \in Nat
         /\ Cardinality(Jumps(history, a)) <= Cardinality(Opens)
<1> DEFINE all == Jumps(history, a)
           Crosses(p, t) == history[p[1]].at < t /\ t <= history[p[2]].at
           opening == [p \in all |-> CHOOSE t \in Opens : Crosses(p, t)]
<1>1. IsFiniteSet(Opens) /\ Opens \subseteq Int
  <2>1. Clock \in Nat
    BY DEF Clock
  <2>2. IsFiniteSet(2 .. Clock) /\ Opens \subseteq 2 .. Clock /\ Opens \subseteq Int
    BY <2>1, FS_Interval DEF Opens
  <2>3. QED
    BY <2>2, FS_Subset
<1>2. ASSUME NEW p \in all PROVE opening[p] \in Opens /\ Crosses(p, opening[p])
  <2>1. \E t \in Opens : Crosses(p, t)
    BY JumpsCrossOpens
  <2> HIDE DEF Crosses
  <2>2. QED
    BY <2>1
<1>3. ASSUME NEW p \in all, NEW q \in all, p # q PROVE opening[p] # opening[q]
  <2>1. history[p[2]].at <= history[q[1]].at \/ history[q[2]].at <= history[p[1]].at
    BY <1>3, JumpsAreApart
  <2>2. /\ history[p[1]].at \in Int /\ history[p[2]].at \in Int
        /\ history[q[1]].at \in Int /\ history[q[2]].at \in Int
    <3>1. /\ history[p[1]] \in TrueMark /\ history[p[2]] \in TrueMark
          /\ history[q[1]] \in TrueMark /\ history[q[2]] \in TrueMark
      BY JumpsCrossOpens DEF Of
    <3>2. DOMAIN tape \subseteq Int
      OBVIOUS
    <3>3. QED
      BY <3>1, <3>2, TrueMarkIs
  <2> DEFINE t == opening[p]
             u == opening[q]
  <2>3. t \in Int /\ u \in Int /\ Crosses(p, t) /\ Crosses(q, u)
    BY <1>1, <1>2
  <2> HIDE DEF t, u, opening
  <2>4. t # u
    BY <2>1, <2>2, <2>3
  <2>5. QED
    BY <2>4 DEF t, u
<1> HIDE DEF all, Crosses
<1>4. opening \in Injection(all, Opens)
  <2>1. opening \in [all -> Opens]
    BY <1>2
  <2> HIDE DEF opening
  <2>2. \A p, q \in all : opening[p] = opening[q] => p = q
    BY <1>3
  <2>3. QED
    BY <2>1, <2>2 DEF Injection, IsInjective
<1>5. IsFiniteSet(all) /\ Cardinality(all) <= Cardinality(Opens)
  BY <1>1, <1>4, FS_Injection
<1>6. QED
  BY <1>1, <1>5, FS_CardinalityType DEF all

\* For every set of assets, any tape however long, whoever samples and however often files
\* are merged, a jump is across an open that happened, no open is counted twice, and a
\* deviation is derived only once the market opened often enough (observations.ts 178-196).
THEOREM EveryJumpIsAnOpenHolds == StoreSpec => []EveryJumpIsAnOpen
<1>1. StoreInv => EveryJumpIsAnOpen
  <2> SUFFICES ASSUME StoreInv PROVE EveryJumpIsAnOpen
    OBVIOUS
  <2> DEFINE history == histories[Repository]
  <2>1. tape \in Seq(Moment) /\ history \in Seq(TrueMark)
    BY DEF StoreInv, Sampler
  <2>2. ASSUME NEW a \in Symbol
        PROVE  /\ \A j \in Jumps(history, a) :
                     \E t \in Opens : history[j[1]].at < t /\ t <= history[j[2]].at
               /\ Cardinality(Jumps(history, a)) <= Cardinality(Opens)
               /\ Ready(a) => Cardinality(Opens) >= MIN_JUMPS
    <3> HIDE DEF history
    <3>1. /\ Cardinality(Jumps(history, a)) \in Nat /\ Cardinality(Opens) \in Nat
          /\ Cardinality(Jumps(history, a)) <= Cardinality(Opens)
      BY <2>1, NoMoreJumpsThanOpens
    <3>2. ASSUME NEW j \in Jumps(history, a)
          PROVE  \E t \in Opens : history[j[1]].at < t /\ t <= history[j[2]].at
      BY <2>1, JumpsCrossOpens
    <3>3. Ready(a) => Cardinality(Opens) >= MIN_JUMPS
      BY <3>1, StoreAssumption DEF Ready, history
    <3>4. QED
      BY <3>1, <3>2, <3>3
  <2>3. QED
    BY <2>2 DEF EveryJumpIsAnOpen
<1>2. QED
  BY <1>1, MarksAreTrue, PTL
=============================================================================
