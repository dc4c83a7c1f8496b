----------------------------- MODULE Publisher -----------------------------
(***************************************************************************)
(* The worker that keeps the oracle fresh, and the health rule that says   *)
(* why it is not: the supervisor loop of src/src/publish-loop.ts, the      *)
(* one-shot cycle it spawns (src/src/publish.ts), the sample store that    *)
(* cycle reads (src/src/observations.ts), the heartbeat it leaves behind   *)
(* (src/src/publisher-status.ts) and the cause GET /api/health derives     *)
(* from that heartbeat (src/src/health.ts).                                *)
(*                                                                         *)
(* Between two steps of the worker the issuer's market moves, services go  *)
(* away and come back, time passes, and the host may kill the container.   *)
(* Time is counted in units of one publish interval; ages saturate one     *)
(* past the limit they are compared with.                                  *)
(*                                                                         *)
(* The pricing loop is one step: every asset is priced from the book the   *)
(* cycle fetched or from one refetch of it. The hourly assets board, the   *)
(* session label and the printed report are left out.                      *)
(***************************************************************************)
EXTENDS Naturals, FiniteSets

CONSTANTS
  Asset,                     \* the assets the run prices, and the mandate allows
  Admitted, Measured,        \* see FairValueEngine
  MarketKind,                \* the kinds of quote the issuer may give
  MAX_CONSECUTIVE_FAILURES,
  INTERVAL,                  \* between the starts of two cycles
  CYCLE_SPAN,                \* the longest a cycle may take (RPC time-outs)
  HEARTBEAT_MAX_AGE,
  MAX_AGE,                   \* the oracle's maxAge
  Tears                      \* whether an append may leave half a line

ASSUME PublisherConstants ==
  /\ IsFiniteSet(Asset)
  /\ {MAX_CONSECUTIVE_FAILURES, INTERVAL} \subseteq Nat \ {0}
  /\ {CYCLE_SPAN, HEARTBEAT_MAX_AGE, MAX_AGE} \subseteq Nat
  /\ Tears \in BOOLEAN

VARIABLES
  market,      \* the issuer's quote for each asset
  up,          \* the services that answer: the issuer, the chain, the blob store
  pc,          \* where the worker is
  failures,    \* consecutiveFailures
  spent,       \* time since the cycle started
  book,        \* the book the cycle fetched
  items,       \* the batch the cycle is about to write
  store,       \* the sample store: every line parses, or one is torn
  vals,        \* what the oracle holds for each asset
  chainAge,    \* time since publishMany last landed
  beat,        \* the heartbeat blob
  seenClosed   \* history: time since a cycle's book said the issuer is closed

envVars    == <<market, up>>
cycleVars  == <<book, items>>
publicVars == <<vals, chainAge, beat>>
vars == <<envVars, pc, failures, spent, cycleVars, store, publicVars, seenClosed>>

Engine == INSTANCE FairValueEngine

Service == {"issuer", "chain", "blob"}
IssuerState == {"quoting", "closed", "unreachable"}
Step == {"sample", "read", "price", "write", "readback", "wait", "exited"}
SEEN_MAX == HEARTBEAT_MAX_AGE + CYCLE_SPAN

NoBook == [a \in Asset |-> "absent"]
NoItems == [a \in Asset |-> Engine!Withheld]
Missing == [at |-> HEARTBEAT_MAX_AGE + 1, cycle |-> "missing", published |-> 0,
            issuer |-> "unreachable"]

\* Defect for the checks: a market that is shut is reported as an outage.
IssuerStateOfTwoStates(b) ==
  IF \E a \in Asset : Engine!Quoting(b[a]) THEN "quoting" ELSE "unreachable"

\* No quote for anything selected is an outage; `closed` takes quotes, none
\* of which the issuer would deal at.
IssuerStateOf(b) ==
  IF \A a \in Asset : b[a] = "absent" THEN "unreachable"
  ELSE IF \E a \in Asset : Engine!Quoting(b[a]) THEN "quoting" ELSE "closed"

\* The issuer carries something of ours and would deal in none of it.
Shut(b) == /\ \E a \in Asset : b[a] # "absent"
           /\ \A a \in Asset : ~Engine!Quoting(b[a])

\* writeHeartbeat never throws: without the blob store the old word stands.
Beat(cycle, published, issuer) ==
  beat' = IF "blob" \in up
          THEN [at |-> 0, cycle |-> cycle, published |-> published, issuer |-> issuer]
          ELSE beat

-----------------------------------------------------------------------------
Init ==
  /\ market \in [Asset -> MarketKind]
  /\ up = Service
  /\ pc = "sample" /\ failures = 0 /\ spent = 0
  /\ book = NoBook /\ items = NoItems
  /\ store = "whole"
  /\ vals = NoItems /\ chainAge = MAX_AGE + 1
  /\ beat = Missing
  /\ seenClosed = SEEN_MAX + 1

\* The loop samples the issuer before it publishes, and appends the marks it
\* got. A fetch that fails is caught; so is an append that fails half way (a
\* full volume), which leaves its torn line.
Sample ==
  /\ pc = "sample"
  /\ pc' = "read"
  /\ \/ UNCHANGED store
     \/ /\ Tears /\ "issuer" \in up
        /\ \E a \in Asset : Engine!HasMid(market[a])
        /\ store' = "torn"
  /\ UNCHANGED <<envVars, failures, spent, cycleVars, publicVars, seenClosed>>

\* A cycle that exits non-zero counts against the loop, which gives up and
\* leaves the decision to the host after MAX_CONSECUTIVE_FAILURES in a row.
Fail ==
  /\ failures' = failures + 1
  /\ pc' = IF failures' >= MAX_CONSECUTIVE_FAILURES THEN "exited" ELSE "wait"
  /\ book' = NoBook /\ items' = NoItems

\* The balance and gas price come first and need the chain; then the issuer's
\* book, whose failure is a heartbeat; then the last marks, whose reader
\* throws on a line it cannot parse.
Read ==
  /\ pc = "read"
  /\ \/ /\ "chain" \notin up
        /\ Fail
        /\ UNCHANGED <<beat, seenClosed>>
     \/ /\ "chain" \in up /\ "issuer" \notin up
        /\ Beat("failed", 0, "unreachable")
        /\ Fail
        /\ UNCHANGED seenClosed
     \/ /\ {"chain", "issuer"} \subseteq up
        /\ seenClosed' = IF Shut(market) THEN 0 ELSE seenClosed
        /\ IF store = "torn" THEN Fail
           ELSE /\ book' = market
                /\ pc' = "price"
                /\ UNCHANGED <<failures, items>>
        /\ UNCHANGED beat
  /\ UNCHANGED <<envVars, spent, store, vals, chainAge>>

\* The engine asks the issuer again for every asset, through a cache of 30
\* seconds: an asset priced `late` gets whatever the issuer answers by then,
\* while the cross-check keeps judging the book fetched first.
Refetched(a) == IF "issuer" \in up THEN market[a] ELSE "absent"

Batch(late, leaped, far) ==
  [a \in Asset |-> Engine!Item(a, book[a], IF a \in late THEN Refetched(a) ELSE book[a],
                               a \in leaped, a \in far)]

\* Defect for the checks: a batch the chain already holds is not sent again.
PriceSkippingRepeats(late, leaped, far) ==
  /\ pc = "price"
  /\ "chain" \in up
  /\ LET batch == Batch(late, leaped, far)
     IN IF \E a \in Asset : batch[a].has
        THEN IF batch = vals
             THEN /\ Beat("published", 0, IssuerStateOf(book))
                  /\ pc' = "wait" /\ failures' = 0 /\ book' = NoBook /\ items' = NoItems
             ELSE /\ items' = batch
                  /\ pc' = "write"
                  /\ UNCHANGED <<failures, book, beat>>
        ELSE /\ Beat("withheld", 0, IssuerStateOf(book))
             /\ Fail
  /\ UNCHANGED <<envVars, spent, store, vals, chainAge, seenClosed>>

\* With nothing to publish the cycle says so in a heartbeat, spends no gas and
\* exits non-zero: a shut market counts against the loop like a failure.
Price(late, leaped, far) ==
  /\ pc = "price"
  /\ \/ /\ "chain" \notin up
        /\ Fail
        /\ UNCHANGED beat
     \/ /\ "chain" \in up
        /\ LET batch == Batch(late, leaped, far)
           IN IF \E a \in Asset : batch[a].has
              THEN /\ items' = batch
                   /\ pc' = "write"
                   /\ UNCHANGED <<failures, book, beat>>
              ELSE /\ Beat("withheld", 0, IssuerStateOf(book))
                   /\ Fail
  /\ UNCHANGED <<envVars, spent, store, vals, chainAge, seenClosed>>

\* publishMany lands whole or not at all, and reverts on a value of zero. The
\* oracle's jump bound may still withhold a value it was sent (`jumped`).
Write ==
  /\ pc = "write"
  /\ \/ /\ "chain" \notin up \/ \E a \in Asset : Engine!Valueless(items[a])
        /\ Fail
        /\ UNCHANGED <<vals, chainAge>>
     \/ /\ "chain" \in up
        /\ \A a \in Asset : ~Engine!Valueless(items[a])
        /\ \E jumped \in SUBSET Asset :
             vals' = [a \in Asset |-> IF a \in jumped THEN Engine!Withheld ELSE items[a]]
        /\ chainAge' = 0
        /\ pc' = "readback"
        /\ UNCHANGED <<failures, cycleVars>>
  /\ UNCHANGED <<envVars, spent, store, beat, seenClosed>>

\* The cycle counts what landed from the chain, not from what it sent. A chain
\* that cannot be read now fails a cycle whose write is already in.
Landed == Cardinality({a \in Asset : vals[a].has})

\* The block and every asset are read back before the cycle counts as done.
ReadBack ==
  /\ pc = "readback"
  /\ \/ /\ "chain" \notin up
        /\ Fail
        /\ UNCHANGED beat
     \/ /\ "chain" \in up
        /\ Beat("published", Landed, IssuerStateOf(book))
        /\ failures' = 0
        /\ pc' = "wait"
        /\ book' = NoBook /\ items' = NoItems
  /\ UNCHANGED <<envVars, spent, store, vals, chainAge, seenClosed>>

\* The next cycle is due an INTERVAL after the last one started.
Wake ==
  /\ pc = "wait"
  /\ spent >= INTERVAL
  /\ pc' = "sample" /\ spent' = 0
  /\ UNCHANGED <<envVars, failures, cycleVars, store, publicVars, seenClosed>>

\* The host restarts a worker that exited non-zero or whose container died;
\* the store is on a volume and outlives it.
Restart ==
  /\ pc = "exited"
  /\ pc' = "sample" /\ failures' = 0 /\ spent' = 0
  /\ UNCHANGED <<envVars, cycleVars, store, publicVars, seenClosed>>

\* The container is replaced or killed, the cycle it was in included. A SIGTERM
\* that lets the cycle finish first is a Kill at `wait`.
Kill ==
  /\ pc # "exited"
  /\ pc' = "exited"
  /\ failures' = 0
  /\ book' = NoBook /\ items' = NoItems
  /\ UNCHANGED <<envVars, spent, store, publicVars, seenClosed>>

\* The environment: the market moves, a service goes or comes back.
Trade ==
  /\ market' \in [Asset -> MarketKind] \ {market}
  /\ UNCHANGED <<up, pc, failures, spent, cycleVars, store, publicVars, seenClosed>>

Flip ==
  /\ \E s \in Service : up' = IF s \in up THEN up \ {s} ELSE up \union {s}
  /\ UNCHANGED <<market, pc, failures, spent, cycleVars, store, publicVars, seenClosed>>

\* One unit of time. A cycle that has run for CYCLE_SPAN ends before it.
Aged(age, limit) == IF age > limit THEN age ELSE age + 1

Tick ==
  /\ pc \notin {"wait", "exited"} => spent < CYCLE_SPAN
  /\ spent' = Aged(spent, INTERVAL - 1)
  /\ chainAge' = Aged(chainAge, MAX_AGE)
  /\ beat' = [beat EXCEPT !.at = Aged(@, HEARTBEAT_MAX_AGE)]
  /\ seenClosed' = Aged(seenClosed, SEEN_MAX)
  /\ UNCHANGED <<envVars, pc, failures, cycleVars, store, vals>>

Worker ==
  \/ Sample \/ Read \/ Write \/ ReadBack \/ Wake
  \/ \E late, leaped, far \in SUBSET Asset : Price(late, leaped, far)

Next == Worker \/ Restart \/ Kill \/ Trade \/ Flip \/ Tick

\* The loop's steps are never refused by anything but themselves, the host
\* restarts a dead worker, and time passes.
Fairness == WF_vars(Worker) /\ WF_vars(Restart) /\ WF_vars(Tick)

Spec == Init /\ [][Next]_vars /\ Fairness

-----------------------------------------------------------------------------
\* GET /api/health reads the heartbeat (unreadable without the blob store,
\* missing before the first cycle), every allowed asset, and the chain.
HeartbeatRead == "blob" \in up /\ beat.cycle # "missing"

\* Defect for the checks: the age of the heartbeat is not looked at.
CauseOfAnyAge ==
  IF ~HeartbeatRead THEN "unknown"
  ELSE CASE beat.issuer = "closed"      -> "issuer-closed"
         [] beat.issuer = "unreachable" -> "issuer-unreachable"
         [] OTHER                       -> "publisher-failing"

CauseOf ==
  IF ~HeartbeatRead THEN "unknown"
  ELSE IF beat.at > HEARTBEAT_MAX_AGE THEN "publisher-stopped"
  ELSE CASE beat.issuer = "closed"      -> "issuer-closed"
         [] beat.issuer = "unreachable" -> "issuer-unreachable"
         [] OTHER                       -> "publisher-failing"

Usable(a) == chainAge <= MAX_AGE /\ vals[a].has

\* classifyHealth, for a `down` report: worst first, and the first cause wins.
Cause ==
  IF "chain" \notin up THEN "rpc"
  ELSE IF \E a \in Asset : Usable(a) THEN "none" ELSE CauseOf

-----------------------------------------------------------------------------
\* Shapes and ranges; the loop never counts past its own limit.
PublisherTypeOK ==
  /\ market \in [Asset -> MarketKind] /\ up \subseteq Service
  /\ pc \in Step
  /\ failures \in 0 .. MAX_CONSECUTIVE_FAILURES
  /\ book \in [Asset -> Engine!Quote]
  /\ items \in [Asset -> Engine!Items] /\ vals \in [Asset -> Engine!Items]
  /\ store \in {"whole", "torn"}
  /\ chainAge \in 0 .. MAX_AGE + 1
  /\ beat.at \in 0 .. HEARTBEAT_MAX_AGE + 1
  /\ beat.cycle \in {"missing", "published", "withheld", "failed"}
  /\ beat.issuer \in IssuerState

\* `issuer-closed` is the one verdict that pages nobody. When health gives it,
\* a cycle really found the issuer closed, no longer ago than a heartbeat may
\* be old plus the time a cycle takes to write one: a dead worker, an outage
\* or a failing publish never hides behind an old weekend.
ClosedVerdictIsRecent ==
  Cause = "issuer-closed" => seenClosed <= HEARTBEAT_MAX_AGE + CYCLE_SPAN

\* Whatever the market and the services did between the cycle's reads, a value
\* the oracle holds came with a cross-check that found nothing wrong with the
\* book, for an asset the reconciliation test admitted.
OnlyCheckedValuesLand ==
  \A a \in Asset : vals[a].has =>
    a \in Admitted /\ vals[a].checked \notin {"shut", "crossed", "wide"}

\* The cross-check's report says that no number it could not defend reaches
\* the chain (publish.ts): what the oracle holds was computed from a coherent
\* quote.
NothingUndefendedLands ==
  \A a \in Asset : vals[a].has => vals[a].from \in {"good", "resting"}

\* Sampling the issuer is for the history alone and must never stop a publish
\* (publish-loop.ts): with the issuer and the chain answering, a cycle gets to
\* price its assets.
SamplingNeverStopsAPublish ==
  [][Read /\ {"issuer", "chain"} \subseteq up => pc' = "price"]_vars

\* Nothing kills the worker; nothing it is shown makes the cross-check doubt a
\* price it would otherwise let through.
Unkilled  == [][~Kill]_vars
Undoubted == [][~(\E late, leaped, far \in SUBSET Asset :
                    /\ Batch(late, leaped, far) # Batch(late, {}, {})
                    /\ Price(late, leaped, far))]_vars

\* Once the issuer quotes, every service answers and nothing kills the worker or
\* casts doubt on its prices, the oracle is written again and again, however
\* many cycles failed before.
FeedRecovers ==
  (/\ <>[](up = Service /\ \A a \in Asset : market[a] = "good")
   /\ <>Unkilled /\ <>Undoubted)
    => []<>(chainAge = 0)

\* Once the issuer stops dealing for good, the worker, although every cycle
\* counts as a failure and the host keeps restarting it, says so again and
\* again.
ClosedMarketIsNamed ==
  (/\ <>[](up = Service /\ \A a \in Asset : market[a] = "shut")
   /\ <>Unkilled)
    => []<>(beat.at = 0 /\ beat.issuer = "closed")
=============================================================================
