------------------------------- MODULE Board -------------------------------
(***************************************************************************)
(* The assets board: a worker walks every asset and measures it            *)
(* (src/board.ts), puts the board in the archive (src/board-store.ts,      *)
(* driven by src/publish-loop.ts), and the site serves what it finds there *)
(* (app/api/board/route.ts).                                               *)
(*                                                                         *)
(* Every worker with the archive's credentials writes the same object.     *)
(* Pools and reports are what each read happens to find.  Of a finished    *)
(* board the archive keeps what the store and the page look at.            *)
(***************************************************************************)
EXTENDS PoolQuotes, FiniteSets, FiniteSetsExt, SequencesExt

CONSTANTS
  Worker,      \* the machines that measure and hold the archive's credentials
  NAssets,     \* the size of the universe
  Finding,     \* what the reads of an asset can find: [venues, listed, read, report]
  Ladder,      \* the sizes asked about
  Committed,   \* the board that shipped with the site, or NoBoard
  Reader,      \* requests the site serves at once
  TTL,         \* the route's cache
  FETCH,       \* the longest a request may last, maxDuration
  BoardInterval,   \* BOARD_INTERVAL_SEC
  MaxBoards, MaxBoardTime   \* bounds: walks begun, time

ASSUME BoardAssumption ==
  /\ NAssets \in Nat \ {0} /\ {TTL, FETCH, BoardInterval, MaxBoards, MaxBoardTime} \subseteq Nat
  /\ Ladder \subseteq Nat \ {0}
  /\ \A f \in Finding : f.read \in BOOLEAN /\ f.venues \in Venues /\ Shallow(f.venues)

VARIABLES
  worker,    \* per worker: its walk, and when it last began one
  archive,   \* the object under BOARD_BLOB_KEY
  cache,     \* the route's: what it answers, and since when
  fetching,  \* per reader: the fetch under way
  measured,  \* walks begun
  hour       \* the time

boardVars == <<worker, archive, cache, fetching, measured, hour>>

NoBoard == [measuredAt |-> 0]
Holds(board) == board # NoBoard
---------------------------------------------------------------------------
(* Measuring one asset, and what a header says of them all.                *)

Headline == Mandate.maxImpactBps

\* depthOf: an asset without a venue is asked about once more, and a failed read is
\* none of these.
Depth(f) == IF ~f.read THEN "unreadable"
            ELSE IF f.venues # <<>> THEN "ok"
            ELSE IF f.listed THEN "no-liquidity" ELSE "no-pool"

\* A rung of the ladder: the mirror's verdict on this size.  A venue that runs dry is
\* asked about all the same, at the price of the whole payment.
Verdict(f, n) ==
  IF f.venues = <<>> \/ Quoting(f.venues, n) = {} THEN "NO_DATA"
  ELSE LET best == BestQuote(f.venues, n)
       IN MirrorVerdict(Told(f.report), (n * Average(best, n)) \div Consumed(best, n),
                        Impact(best, n), Headline)

\* Null where nothing was read, zero where nothing can be bought.
Null == -1

Absorbs(f) == IF ~f.read THEN Null ELSE Capacity(f.venues, GuardLimit(Headline))

\* One asset of the board.
Entry(f) ==
  [depth |-> Depth(f), publishable |-> Told(f.report).publishable, capacity |-> Absorbs(f),
   ladder |-> IF f.read THEN [n \in Ladder |-> Verdict(f, n)] ELSE <<>>, venues |-> f.venues]

\* Half units: the mean of the middle two when the count is even.
Median(values) ==
  LET sorted == SortSeq(values, <)
      n == Len(values)
  IN IF n = 0 THEN 0 ELSE sorted[(n + 1) \div 2] + sorted[(n + 2) \div 2]

\* summarise: only what could not be read is left out of the sums.
Totals(entries) ==
  LET priced == SelectSeq(entries, LAMBDA e : e.depth # "unreadable")
      values == [i \in DOMAIN priced |-> priced[i].capacity]
  IN [total |-> FoldSeq(+, 0, values), median |-> Median(values),
      largest |-> IF values = <<>> THEN 0 ELSE Max({values[i] : i \in DOMAIN values}),
      unmeasured |-> Len(SelectSeq(entries, LAMBDA e : e.depth = "unreadable")),
      dry |-> Len(SelectSeq(entries, LAMBDA e : e.depth \in {"no-liquidity", "no-pool"}))]

PublishableCount(entries) == Len(SelectSeq(entries, LAMBDA e : e.publishable))
---------------------------------------------------------------------------
(* The worker.                                                             *)

\* Between two walks: only when the last one began is remembered.
Idle(lastAt) == [pc |-> "idle", entries |-> <<>>, measuredAt |-> 0, found |-> NoBoard,
                 failed |-> FALSE, lastAt |-> lastAt]

BoardInit ==
  /\ worker = [w \in Worker |-> Idle(-BoardInterval)]
  /\ archive = NoBoard /\ cache = [at |-> -TTL, board |-> NoBoard, read |-> 0]
  /\ fetching = [r \in Reader |-> [pc |-> "idle"]]
  /\ measured = 0 /\ hour = 0

Works(w, walk) ==
  /\ worker' = [worker EXCEPT ![w] = walk]
  /\ UNCHANGED <<cache, fetching, hour>>

\* The hour counts from the start of a walk, whatever becomes of it.
Begins(w) ==
  /\ worker[w].pc = "idle" /\ measured < MaxBoards
  /\ hour - worker[w].lastAt >= BoardInterval
  /\ Works(w, [Idle(hour) EXCEPT !.pc = "walk", !.measuredAt = hour + 1])
  /\ measured' = measured + 1 /\ UNCHANGED archive

Measures(w) ==
  /\ worker[w].pc = "walk" /\ Len(worker[w].entries) < NAssets
  /\ \E f \in Finding : Works(w, [worker[w] EXCEPT !.entries = Append(@, Entry(f))])
  /\ UNCHANGED <<archive, measured>>

\* The universe or an engine's read fails: the board is dropped, the loop goes on.
WalkFails(w) ==
  /\ worker[w].pc = "walk" /\ Works(w, Idle(worker[w].lastAt)) /\ UNCHANGED <<archive, measured>>

Finished(w) == worker[w].pc = "walk" /\ Len(worker[w].entries) = NAssets

\* persistBoard asks the archive only about a board that prices nothing; a read that
\* fails looks like an archive that is empty.
ReadsArchive(w) ==
  /\ Finished(w)
  /\ IF PublishableCount(worker[w].entries) > 0
     THEN Works(w, [worker[w] EXCEPT !.pc = "put"])
     ELSE \/ Works(w, [worker[w] EXCEPT !.pc = "decide", !.found = archive])
          \/ Works(w, [worker[w] EXCEPT !.pc = "decide", !.failed = TRUE])
  /\ UNCHANGED <<archive, measured>>

\* Defect for the checks: any board is better than an older one.
ShouldWithholdNothing(n, existing) == FALSE

ShouldWithhold(n, existing) == n = 0 /\ Holds(existing) /\ existing.priced > 0

Decides(w) ==
  /\ worker[w].pc = "decide"
  /\ IF ShouldWithhold(PublishableCount(worker[w].entries), worker[w].found)
     THEN Works(w, Idle(worker[w].lastAt)) ELSE Works(w, [worker[w] EXCEPT !.pc = "put"])
  /\ UNCHANGED <<archive, measured>>

\* put, or a disk that nobody serves from.
Puts(w) ==
  /\ worker[w].pc = "put"
  /\ \/ archive' = [measuredAt |-> worker[w].measuredAt, writer |-> w,
                    priced |-> PublishableCount(worker[w].entries),
                    totals |-> Totals(worker[w].entries)]
     \/ UNCHANGED archive
  /\ Works(w, Idle(worker[w].lastAt)) /\ UNCHANGED measured
---------------------------------------------------------------------------
(* The route.                                                              *)

Site == <<worker, archive, measured, hour>>

\* Defect for the checks: a hit renews the cache.
HitRenewing(r) ==
  /\ fetching[r].pc = "idle" /\ hour - cache.at < TTL
  /\ cache' = [cache EXCEPT !.at = hour]
  /\ UNCHANGED <<fetching, Site>>

\* A hit answers what is cached.
Hit(r) ==
  /\ fetching[r].pc = "idle" /\ hour - cache.at < TTL
  /\ UNCHANGED <<cache, fetching, Site>>

\* fetchBoard sees the archive at one moment, or fails and falls back to the file.
Fetches(r) ==
  /\ fetching[r].pc = "idle" /\ hour - cache.at >= TTL
  /\ \E board \in {Committed} \cup ({archive} \ {NoBoard}) :
       fetching' = [fetching EXCEPT ![r] = [pc |-> "fetch", at |-> hour, board |-> board]]
  /\ UNCHANGED <<cache, Site>>

\* What was fetched is answered, and cached from now on, whoever cached what meanwhile.
Answers(r) ==
  /\ fetching[r].pc = "fetch"
  /\ cache' = [at |-> hour, board |-> fetching[r].board, read |-> fetching[r].at]
  /\ fetching' = [fetching EXCEPT ![r] = [pc |-> "idle"]]
  /\ UNCHANGED Site

\* A function does not outlive its limit.
BoardHour ==
  /\ hour < MaxBoardTime
  /\ \A r \in Reader : fetching[r].pc = "fetch" => hour - fetching[r].at < FETCH
  /\ hour' = hour + 1 /\ UNCHANGED <<worker, archive, cache, fetching, measured>>

BoardNext ==
  \/ \E w \in Worker : Begins(w) \/ Measures(w) \/ WalkFails(w) \/ ReadsArchive(w)
                       \/ Decides(w) \/ Puts(w)
  \/ \E r \in Reader : Hit(r) \/ Fetches(r) \/ Answers(r)
  \/ BoardHour

BoardSpec == BoardInit /\ [][BoardNext]_boardVars
---------------------------------------------------------------------------
(* Properties.                                                             *)

\* The two things a board says of an asset agree: no size within the capacity it shows
\* is refused for its impact or for want of a pool (board.ts 299-341), as long as the
\* venues agree on the price.
RungsAgreeWithTheCapacity ==
  \A w \in Worker : \A i \in DOMAIN worker[w].entries :
    LET e == worker[w].entries[i]
    IN Aligned(e.venues) => \A n \in DOMAIN e.ladder :
         n <= e.capacity => e.ladder[n] \notin {"PRICE_IMPACT", "NO_DATA"}

\* A board that prices something gives way to one that prices nothing only if the writer
\* could not read the archive, or somebody wrote between its look and its write
\* (board-store.ts 140-163).
OnlyBlindWritersUnprice ==
  [][\A w \in Worker :
       /\ worker[w].pc = "put" /\ archive' # archive
       /\ Holds(archive) /\ archive.priced > 0 /\ archive'.writer = w /\ archive'.priced = 0
       => worker[w].failed \/ worker[w].found # archive]_boardVars

\* What a request can be answered with from the cache was in the archive, or in the file,
\* within a cache's life and the time a request may take (route.ts 24-87), however the
\* requests that fill it overtake each other.
AnswersAreRecent == hour - cache.at < TTL => hour - cache.read < TTL + FETCH

\* board-store.ts 149-151: "a board that prices nothing does not displace a board that
\* priced something".
APricedBoardStays == [][Holds(archive) /\ archive.priced > 0 => archive'.priced > 0]_boardVars
=============================================================================
