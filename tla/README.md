# reckonz: verification development

TLA+ models of reckonz, model-checked with TLC, with theorems about them checked by TLAPS.

reckonz is non-custodial execution and risk tooling for tokenised equities on X Layer. Off-chain
workers price the tokens and publish a fair value, its uncertainty and a gap-risk score to an
on-chain oracle; a written thesis is compiled to a basket and to exit rules; mandates stored on-chain
say what an agent may do with an owner's money; an executor spends the owner's Permit2 signatures,
trades against pools and hands the fills to a gate that validates and records them in the same
transaction; the record is indexed and shown.

Paths below are relative to the repository: `contracts/*.sol` are the contracts, `src/*.ts` the
off-chain programs and libraries, `app/` the Next.js application.

1. [The system](#1-the-system): components, state, operations, interactions, what is hard
2. [The modules](#2-the-modules): which module models which part
3. [The runs](#3-the-runs): what each one asks, bounds, fairness, findings
4. [The proofs](#4-the-proofs)
5. [What is not modelled](#5-what-is-not-modelled)
6. [Running it](#6-running-it), and what is checked by hand

## 1. The system

```
 issuer API ──> sample store ──┐                             ┌── heartbeat ──> GET /api/health
      │                        v                             │
      └──> publish loop ──> cycle: price, cross-check ──> publishMany ──> FairValueOracle
                 └──> board ──> archive ──> site                               │ fairValue,
                                                                               │ observation
 thesis ──> run stream ──> compiler ──> mandate pages/CLIs ──> PolicyGuard <───┘ checkExecution
   └──> ThesisRegistry                        ^   │               ^   │
                                              │   └─ nodes that lag   └──> ReceiptRegistry ──> index
 quote ──> plan ──> evidence ──> sign (Permit2) ──> Executor ─────┘                       └──> page
                                                       └──> pools, FeeCollector
 handover, safe:prove, safe:admin ──> who may administer and publish
```

### 1.1 On-chain

A transaction is atomic and totally ordered: interleaving happens between transactions, never inside
one. What is hard is the order of legal calls of different accounts, block time passing between
them, and two contracts reading a third one's state at different moments.

| Component | State | Operations | What makes it correct |
|---|---|---|---|
| **FairValueOracle** (`contracts/FairValueOracle.sol`) | one observation and one anchor per asset, publishers, admin, `maxAge` | `publish`, `publishMany`, `setPublisher`, `setMaxAge`, `setAdmin`; reads `fairValue`, `observation`, `peek`, `checkExecution` | A value that moved beyond the bound is believed only after it was announced and waited for; a withheld or stale value is never handed out; observation and anchor, two mappings written on different paths, agree. |
| **ExitTriggers** (library) | none (the guard's positions) | `evaluate`, `fired`, `applyFill` | A metric without its input stops the caller rather than reading as "not fired"; positions follow the fills. |
| **PolicyGuard** | mandates, trigger lists, positions, allow flags and the asset list | `createMandate`, `updatePolicy`, `setTriggers`, `setAgent`, `setExecutor`, `setAssetAllowed`, `setCircuitBreaker`, `closeMandate`, `validateAndRecord`; reads `dryRun`, `firedTriggers` | Rate limits hold around epoch boundaries and policy changes; a stopped mandate stays stopped; entries obey oracle, triggers and weights; an exit is never trapped by the oracle; the reads agree with the gate. |
| **ReceiptRegistry** | append-only receipts, writers | `append`, `setWriter`, reads | The record replays to the positions and to the owner's wallet. |
| **Executor** with **V3Swapper** | nothing between transactions | `execute`, `exit` | Custody of nothing; one signature moves at most what it names, once; fee, fills and receipts add up to what left the wallet. |
| **FeeCollector** | fee in basis points, admin, treasury | `setFeeBps`, `setTreasury`, `setAdmin`, `record`, `withdraw` | The fee stays under its ceiling; what it collects goes to the treasury. |
| **ThesisRegistry** | author and id by hash | `publish` | The first publisher of a hash keeps it, and is the one the page names. |
| **PoolSwapper** (with `src/swap.ts`) | nothing | `swapExactInput`; `pnpm swap` wraps, approves, swaps | A run resumed after one that died swaps what it was asked for, not what it finds. |

### 1.2 Off-chain

Asynchronous programs that share the chain, files and a blob store. The chain is read through a pool
of public nodes behind a balancer, so two reads of one function may see two different moments. Here
the hard parts are reads made at different moments and used together, programs that die between two
steps, waits that give up on something that happens later, and two writers of one value.

| Component | State | Operations | What makes it correct |
|---|---|---|---|
| **Publish loop and cycle** (`src/publish-loop.ts`, `src/publish.ts`) | consecutive failures; one cycle's book, batch | sample, spawn a cycle, wait, give up; read, price, cross-check, write, read back | Only checked values reach the chain; the feed comes back when the services do; failures of the side jobs never stop a publish. |
| **Fair-value engine, cross-check** (`src/fairvalue.ts`, `src/crosscheck.ts`) | none | quote to value; value to verdict | A value the sources do not support is withheld. |
| **Heartbeat and health** (`src/publisher-status.ts`, `src/health.ts`) | one blob | write, read, classify | The one benign verdict ("issuer closed") is given only when it is true. |
| **Sample store** (`src/observations.ts`, `src/sample.ts`, `src/pull-stores.ts`) | ndjson files | append, read, merge, measure | The jumps measured are opens, counted once. |
| **Board and board store** (`src/board.ts`, `src/board-store.ts`) | an object, a memory cache | walk, persist, read | A board that prices nothing never replaces one that did; the ladder and the capacity agree. |
| **Planner, pools, guard mirror** (`src/planner.ts`, `src/pool.ts`, `src/guard.ts`) | none | quotes, capacities, baskets, verdicts | Money is handed where it fits; what the mirror allows the contract allows. |
| **Thesis compiler, triggers** (`src/thesis.ts`, `src/triggers.ts`) | none | scope, scale, encode | The rules on chain fire exactly when the thesis says. |
| **Rate-limit gate** (`src/ratelimit.ts`) and **run stream** (`app/api/run`, `useRun.ts`) | buckets, slots | enter, release; start, stop, deliver | No caller outspends its rate; no slot is lost. |
| **Mandate pages and CLIs** (`Mandate.tsx`, `MandateManage.tsx`, `src/mandate-*.ts`) | a list read from a node | create, edit, poll | An edit keeps what it does not mean to change. |
| **Fill and exit flow** (`Fill.tsx`, `Exit.tsx`, `src/fill.ts`, `src/exit-plan.ts`, `src/permit.ts`) | a plan, a nonce, a signature | quote, approve, sign, send, wait | What is sent is what was shown; no fill is made twice. |
| **Thesis publishing and handoff** (`PublishThesis.tsx`, `handoff.ts`) | panel, stash | check, publish, follow | Nobody is told a thesis is theirs that is not. |
| **Wallet store** (`useWallet.ts`) | one snapshot, one bound wallet | connect, reconnect, events, disconnect | The page signs with the account of the wallet it shows. |
| **Registry index** (`src/indexer.ts`) | an ndjson file | count, fetch, append, rebuild | Every line says what the chain says; every deep record gets in. |
| **Track record** (`src/track-record.ts`, `src/receipts-view.ts`) | none | join, count | What the page claims, happened. |
| **Evidence store** (`src/evidence-store.ts`) | blobs and files by hash | put, get, check | A bundle is where its author was told it is, and whoever asks there gets it. |
| **Administration** (`src/handover.ts`, `src/safe-prove.ts`, `src/safe-admin.ts`) | roles on chain | grant, probe, revoke, hand over, change | Stopped anywhere and run again, nothing is lost and what is reported done was done. |

### 1.3 Hazards

`PROJECT.json` lists, at the line where each bites, what in this code is hard to test and the property that
would catch it. In short: announcements that a retry restarts; limits that restart at a boundary; positions
measured before or after the batch; money counted on the wrong side of a fee; a torn line; a heartbeat that
outlives its author; a list written back that was read before the last write; a quote that answers after its
form was changed; a permit nonce taken twice; a receipt given up on that is mined later; a wallet left behind
that goes on sending events; a script that dies between two roles; an index file whose writer died mid-line
under a chain that reorganises; requests that fill a cache in any order; a swap tool run again over a
transaction not yet mined; an answer kept for half a minute about facts that were read one after another; a
pool read in pieces while it moves. Two hazards have no property and say why: the announcement a fast
publisher restarts (shown by hand, section 6), and the host's limit on restarts, whose rule is not in the
repository. Where a hazard's worst case does happen in this code, the property listed for it covers what is
left, and its note names the property that is false and shown so by hand (section 6).

## 2. The modules

```
 contracts   OracleReads ──> OracleFeed <~~ implements ~~ FairValueOracle
                   │             v
                   │     PolicyGuard <── ExitTriggers, ReceiptRegistry
                   │             └──> Executor <── FeeCollector
 pricing     Publisher <── FairValueEngine      SampleStore      HealthRoute
 planning    PoolQuotes ──> BasketPlanner, Board        TickWalk
 clients     NodeReads ──> MandateDesk, TradeDesk, ThesisDesk, Handover, SafeAdmin, RegistryIndex,
                           TrackRecord, FundingSwap
             ExitTriggers ──> ExitRules       OracleReads ──> OrderPlan       Evidence
 site        Gate ──> RunStream       WalletStore

 proofs      FairValueOracleProofs (oracle, health route)   PolicyGuardProofs
             ExecutorProofs (executor, orders, track record)
             LimitsProofs (board, Safe, basket, pool walk)
             PublisherProofs (publisher, funding swap, sample store)
             MandateDeskProofs      TradeDeskProofs (trade and thesis desks)
             ServicesProofs (wallet store, gate, handover, evidence, registry index)
```

An arrow reads "is used by". Operators marked "Defect for the checks" are the same definition with a
plausible bug; they only confirm that each property notices the bug it is there for.

### 2.1 Contracts

**OracleReads** — the oracle's read side as pure operators on one observation.
**FairValueOracle** — the contract: `obs` and `anchor` are `_obs` and `_anchor`, `now` is block time.
One transaction is one step, except `publishMany`, whose items are admitted one at a time through
`batch` because each meets the anchor its predecessors left; nothing else happens meanwhile (`Idle`).
`withheldSince` is history. **OracleFeed** — the abstract oracle: per asset one observation,
overwritten at the current time, zero exactly when withheld. FairValueOracle implements it (checked and
proved), and PolicyGuard and Executor are composed with it, so that what they guarantee does not depend
on how the oracle decides what to publish. `CycleSpec`, in MCFairValueOracle, is the contract driven by one
publisher that reports what it sees every `CYCLE` (section 6).

**ExitTriggers**, **ReceiptRegistry**, **PolicyGuard** — the gate. Each operation is one action guarded
by everything it requires. `Accepts` is the chain of checks of `validateAndRecord`: lifecycle, rate,
per-fill limits, oracle, triggers against the positions *before* the batch, weights against the balances
*after* it. `DryRunOk` and the `firedTriggers` operators are separate definitions because they are
separate code. **FeeCollector**, **Executor** — `execute` and `exit` as one step each, with the guard's
`ValidateAndRecord` a conjunct of the same step. External, from the way the contract uses them: tokens,
Permit2 (a signature moves at most what it names, before its deadline, once) and pools, which may give
anything and take less than offered.

### 2.2 Pricing and publishing

**FairValueEngine** — which quotes become a value and which values the cross-check withholds; a quote is
its kind. **Publisher** — the worker: `sample → read → price → write → readback → wait`; any step can
fail, `MAX_CONSECUTIVE_FAILURES` end the process, the host restarts it. In between the market moves
(`Trade`), services come and go (`Flip`), time passes (`Tick`), the container is killed (`Kill`), an
append tears (`Tears`). Both looks at the issuer are there: `book`, and `Refetched`, what the engine's
30-second cache may answer later. **SampleStore** — the history behind the bands: the worker's file, the
repository's, appends, both merges, the open jumps and the bar they are held to. Time is the length of
the tape; clocks agree; reading, merging and writing a file is one step.

**PoolQuotes** — quotes, capacities, impact and the guard's mirror as pure operators; a pool is a line
up to its depth. **BasketPlanner** — the three passes of `planBasket`, walked pool by pool, and the
verdicts on pools that have moved since. **Board** — workers that walk every asset, an archive that one
of them may fail to read, requests and their cache. **TickWalk** — `loadPool` read by read over a pool that
moves and reads that fail, and `simulateExactInput` over what it got, step by step next to the pool's own
swap; `v3math.ts` with its roundings, at a small width.

**HealthRoute** — the health answer: heartbeat, roles, gas and every asset's observation are facts that
change by themselves; a request reads them one after another, with the asset list remembered from its own
read, and what it answers is kept for `TTL` and handed to the next.

### 2.3 Chain clients

**NodeReads** — `head` is the chain, `behind` what a node that has not caught up still serves, `Served`
either of them, `Sync` the node catching up. One older state at a time is enough to be wrong.

**MandateDesk** — the create page, the panel and the command line: every read of a node, write, wait,
poll and give-up a step of its own; PolicyGuard's owner operations are cut to what they overwrite.
**ExitRules** — from a thesis' conditions to the triggers on chain, for any allowlist the form picks.
**TradeDesk** — both panels and both commands: quote, approve, sign, send, wait, read the balance. The
form stays editable, a button can be pressed twice, a poll can give up and its transaction be mined
later. The chain is cut to nonces, approvals and fills. **OrderPlan** — what TradeDesk cuts to a verdict:
`prepareFill` and `prepareExit` read by read, up to the settlement on the terms the plan fixed. Pools pay
one average price; mandates carry no triggers or weights here, as `dryRun` asks about neither. The commands' own steps
are there too: the sizing of a sale from what is held, the scan for a mandate downwards from the newest,
the second look at it. **ThesisDesk** — ThesisRegistry with the page and command that publish, strangers who may be first, and
the handoff.

**Handover** — `handover` and `safe:prove` as programs of steps: send, wait for the receipt, poll until
visible. A script stops anywhere, what it sent lands later, and it is run again. **SafeAdmin** —
`safe:admin` on several machines: approvals are kept on chain by the hash of a call at one nonce of the
Safe. The treasury setting behaves as the fee does and is not among the requests. **FundingSwap** —
`pnpm swap`: balances, wrap, approval, the swap through PoolSwapper (one step over two pools) and the
report, over lagging nodes and transactions sent and not yet mined; a run dies anywhere and is run again.

**RegistryIndex** — a run's counts, head and records, each read of its own moment; the depth cutoff; the
append, which may die mid-line; the rebuild; the chain replacing its tip. The two registries are indexed
alike, one stands for both. **TrackRecord** — the join and the claims and totals made of it, while theses
and receipts land. An orphan receipt comes only from another client: `fill.ts` refuses unpublished hashes.
**Evidence** — a blob store that refuses, or accepts and does not say so; files; copies spoiled by hand;
a reader. A write cut short by a kill is left out.

### 2.4 Site

**Gate** — `enter` with its sweep, refill and both refusals, and `release`. **RunStream** — a run's
EventSource, the route and the gate: the connection breaks, the page stops or starts again, and neither
tells the pipeline, which holds its slot until its next event. **WalletStore** — connects and silent
reconnects that ask for accounts and then for a chain, the events of the bound wallet, reloads.

## 3. The runs

Twelve runs, about a quarter of an hour with two workers. "States" are distinct states. Parts that never
touch each other share a run: its variable `scene` is chosen in the initial state and says which part
moves, so the number of states is the sum of the parts' and not their product.

| Run | Scenes | States | Question |
|---|---|---|---|
| `oracle` | oracle, record, evidence, health | 3,850,905 | Can any order of publications, batches, role changes and waiting get a value past the jump bound? Does the receipts page claim what did not happen? Does a reader get the bundle its author was told of? Was what health says so when it was read? |
| `guard_limits` | guard, basket, board, safe, walk | 2,508,510 | Rate limits and versions while the owner changes everything. Do sized baskets pass their own guard? Two workers and one archive; several machines and one Safe; a pool quoted from what was read of it. |
| `guard_oracle` | trading, history | 2,436,284 | Positions, triggers and weights against an oracle that moves, withholds and goes stale. Are measured jumps opens? |
| `executor` | executor, order, funding | 5,080,937 | Is the record the money? Does a plan settle on the terms it was made on? Does a wallet that funds itself get what it asked for? |
| `publisher` | | 537,888 | What lands, what heartbeat and health say, whether the feed recovers. |
| `mandates` | desk, rules | 736,331 | Edits from three places over lagging nodes. Do the rules on chain say what the thesis says? |
| `trade` | desk, theses | 2,896,276 | Fills from two panels and two commands at once. Who published a thesis? |
| `services` | wallet, gate, stream, index, roles | 555,903 | The wallet store, the gate and the run behind it, the index, and the scripts that move roles. |
| `executor_selling` | | violation | Can selling breach the portfolio limits? |
| `publisher_torn_store` | | violation | Can sampling stop a publish? |
| `mandates_lost_rule` | | violation | Can adding a rule delete one? |
| `trade_stale_plan` | | violation | Is the plan on screen the form's? |

### 3.1 What the passing properties say

*Oracle.* `OnlyAdmittedValuesExecute`: what executes is the value last admitted, with its time, never zero
(`ValueIsTheAnchor`), and nothing while a jump is pending (`NothingExecutesOnAPendingJump`).
`JumpCostsTheDelay`: a value beyond the bound of a live anchor takes effect only after consumers had
no value for the whole delay, whatever was sent in between. `ImplementsFeed`: the refinement.

*Guard.* `SlidingWindowBudget`: at most twice `maxFillsPerEpoch` in any stretch of an epoch's length, the
true bound of an epoch that restarts at the first action after it ran out. `ReceiptsObeyTheirVersion`: a
receipt obeys the version stamped in it, whatever the owner changed since. `PositionsReplayFromReceipts`:
drawdowns can be recomputed from the record. `NoEntryPastAFiredTrigger`.

*Executor and orders.* `RecordReplaysTheWallet`: receipts and fee events add up to the owner's wallet,
and nothing of what left it rests in the executor (`ExecutorHoldsNothing`).
`NothingLeavesUnsigned`. `PlansKeepTheirTerms`: a plan that may be signed settles if nothing moved
(`AnUnmovedPlanSettles`), and a sale measured when planned settles within the policy's slippage, the
tolerance and the rounding of that measure, though the oracle has lapsed since
(`MeasuredSalesKeepTheirMeasure`). `ResumedRunsAreExact`: however many runs died before
it, a run that reports success leaves the wallet richer by all of what its own swap paid, and by no other.

*Publishing.* `OnlyCheckedValuesLand`; `ClosedVerdictIsRecent` (an old weekend never excuses a dead
worker); `FeedRecovers` and `ClosedMarketIsNamed` (section 3.3). `EveryJumpIsAnOpen`: a jump in the
history is across an open that happened, and none is counted twice. `ServedAnswersAreRecent`: every fact
behind a health answer was so within a request and a cache's life of being served.

*Planning.* `SizesFitAndLast`: no leg beyond what its pools absorbed or twice its weight, what is reported
as unallocated fits nowhere (`CapitalGoesWhereItFits`), and a leg is refused for impact only if its pools
moved by more than the headroom (`HeadroomAbsorbsTheDrift`). `AllowedLegsPassTheContract`: the mirror's
yes is the contract's. `RungsAgreeWithTheCapacity`, `AnswersAreRecent`, `OnlyBlindWritersUnprice`: the
board's two computations agree; the cache ages within its bound whoever fills it; a priced board gives way
to an unpriced one only through a writer that could not see it. `QuotesAreWhatThePoolPays`: of a pool that
stood still and whose ticks were all read, a quote that does not call itself exhausted is the pool's own
answer, however few of its words were read. `NothingBeatsTheSpot`: and it is never better than the price
before, nor takes more than was offered, for all the roundings.

*Clients.* `AFirstMandateIsNeverAnOlderOne`, `UnracedEditsKeepTheRest`, `CreatingEnds`.
`TheRulesSayWhatTheThesisSays`: the chain fires exactly when a condition about that asset holds, for every
allowlist. `NoOverlappingFills`: between the permit of a fill that settles and its settlement no other
fill settled. `UnmeasuredSalesWereAcknowledged`: for that very form. `ReportedThesesAreTheFirst`.
`TheSnapshotFollowsItsWallet`. `ThePageSaysWhatHappened`: "published before every fill" holds of the whole
chain for ever; figures lie between the measured ones. `KeptBundlesVerify`: where an author was told its
bundle is, a whole copy is, unless that very copy was meddled with; and what follows for whoever opens the
receipt (`ReadersGetIt`): on the machine that was named, always; anywhere, when the archive was named and
answers, and no edited file of the reader's own is found first. An archive that does not answer, and a file on
a machine the reader is not on, leave it without a verdict, and nothing is claimed then.

*Services and roles.* `NoCallerOutspendsItsRate`; `SlotsComeBack`, and a pass given back twice frees one slot
(`SlotsAreOfPasses`). `TheIndexSaysWhatTheChainSays` and
`TheIndexCatchesUp`. `HandoversMayBeRepeated`: some account that may publish has published
(`TheOracleKeepsAProvenPublisher`), and the contracts' administration ends up in one place
(`AdminsAreNeverSplit`). `ConfirmedChangesAreTheRuns`: a run that reports its change confirmed executed it.

### 3.2 Bounds, and why they are enough

* **oracle**: one asset, because no operation relates two except a batch, and batch items for one asset
  are the case that matters. Values 0, 100, 120, 150: zero, a pair on the bound, pairs beyond. One tick
  is fifteen minutes; the anchor's window is six ticks so that it lapses inside `MAX_TIME` 10; the order
  delay < TTL < window is the contract's. *record*: three receipts over one thesis, two seconds: a fill
  before, with and after a publication. *evidence*: two bundles, two machines, two spoils. *health*: two
  assets, two requests, two changes of the world, three ticks, an answer kept for two: a second request
  inside, on and past the life of the first one's answer, with a change between any two of the reads.
* **guard_limits**: *guard* has two valid policies and one invalid, two versions, four receipts, five
  blocks, epochs of two and three: both sides of a boundary, two changes of it. *basket*: two legs, of two
  assets or of one twice, seven kinds of pool, 25 of capital, one drift. *board*: two workers, two readers,
  two assets, four findings; `Effort` allows one walk while requests run, or two walks alone. *safe*: two
  of three owners, two machines, two starts (with three starts and two owners, 7.1 million states, nothing
  more was found). *walk*: 17 ticks in words of two, prices 8 to 72, four sets of positions over three
  slots, amounts that stay inside a step, end on its edge, cross several and leave the window, one move of
  the pool between the reads.
* **guard_oracle**: *trading* has two triggers, a value, a lower value and a withheld one, two wallets,
  three receipts. *history*: one symbol on a tape of five, two jumps needed (two symbols on a tape of
  three, 474,374 states, by hand).
* **executor**: one asset, one or two legs, fee zero or the ceiling, a pool that pays a fair or a drained
  price; permits that are too small, expire, share a nonce, cover two legs. Weights need two assets:
  `executor_selling`, where the same module trades two against one policy (`TradingSpec`). *order*: 20,000
  of cash or of units so that a basis point is two units, an oracle that says 10,050 or nothing, two tiers of
  which the executor derives one, four books, requests of the page and of the command, two moves of
  anything, three ticks. *funding*: an amount or everything, a reserve of ten transactions' gas, two runs
  and one move of the pools: enough for a run that finds what a dead one left behind, still in flight or
  landed.
* **publisher**: one asset (each is priced independently; the batch reverts as a whole), three kinds of
  quote, two failures to give up where the code has six, ages saturating one past the limit they are
  compared with. `CYCLE_SPAN` bounds a cycle by one interval: time-outs make it finite in the code, the
  figure is an assumption.
* **mandates**: two mandates and three transactions are a creation, and an edit that another edit or
  creation has overtaken. *rules*: theses of one or two conditions at and around every bound of a
  metric's domain, two assets, three ways to express two entities.
* **trade**: two forms, two runs, two nonces, two transactions under way; three quotes with one run, or one
  quote with two (`Effort`). Forms and runs are interchangeable (symmetry; no liveness in this run).
  *theses*: two hashes, two checks.
* **services**: *wallet* has one announced wallet besides WalletConnect and one reload. *gate* has two
  callers for five ticks, a bucket of 4 and a cost of 3, so that a refill is partial. *stream*: three
  requests for two slots, two stages. *index*: two contents, two confirmations, a reorganisation of one
  block, a node one block behind, four blocks, two mishaps (five blocks alone, 1.07 million states, by
  hand). *roles*: two keys, three runs.

`MAX_TIME`, `MAX_RECEIPTS`, `MAX_VERSION`, `MAX_MANDATES`, `MAX_BATCH`, `MAX_FILLS`, `MAX_LEGS` and every
constant whose name begins with `Max` appear only in guards that stop the exploration; `MAX_ASSETS`,
`MAX_TRIGGERS`, `MAX_MAX_AGE` are the contracts' limits. Where `CHECK_DEADLOCK FALSE` appears, a part
really stops: its bound is used up, or a program has ended. It is on in `guard_oracle` and `publisher`.

### 3.3 Fairness

* **Publisher**: weak fairness of the worker's steps (one process whose awaits all have time-outs), of
  the host's restart (`railway.json`) and of time. Nothing is assumed of market, services or kills; the
  properties name what they need. `FeedRecovers`: if from some point on services answer, the issuer
  quotes a sound market, nothing kills the worker and the cross-check has nothing to doubt, the oracle is
  written again and again. `ClosedMarketIsNamed`: if from some point on the issuer deals in nothing, the
  heartbeat says so again and again, although every such cycle ends in failure and restart.
* **Stream** (`StreamFairness`): a request is served and a pipeline goes on, since each of its awaits has
  a time-out. Nothing is assumed of the client.
* **Index** (`IndexFairness`): the schedule starts runs every six hours, a run that is not killed goes on,
  and a node catches up.
* **Desk** (`DeskFairness`): the page's own waits go on; the wallet answers, yes or no, and polls are bounded.

### 3.4 Findings

Each is a statement of the repository that the code does not keep; the run produces the behaviour.

1. `executor_selling` — selling below the oracle's value shrinks the total the weights are measured
   against, so an asset that was not sold can end above its cap; `PolicyGuard.sol` says that leaving
   cannot breach.
2. `publisher_torn_store` — an append that fails half way leaves a line on which the next cycle's `readAll`
   throws, and every later one's; `publish-loop.ts` says sampling must never stop a publish.
3. `mandates_lost_rule` — the panel adds a rule to the list it loaded 1.2 seconds after the last write,
   which a lagging node may have served without it; `MandateManage.tsx` says the set is rewritten so
   that no rule is silently deleted.
4. `trade_stale_plan` — a quote that answers after the form changed becomes the plan on screen;
   `Fill.tsx` says that must not be.

## 4. The proofs

Eight modules hold theorems. Each is for every value of the constants that the named assumption allows, and
whatever the bounds: any number of assets, owners, receipts, nodes' delays, runs. Hardly any of these
properties is inductive; what is said of each below is the strengthening that is.

| Module | Assumes | Theorems |
|---|---|---|
| `FairValueOracleProofs` | `OracleAssumption`: naturals, the delay positive, delay ≤ TTL < anchor window; `HealthAssumption`: a finite asset list, a cache that lives at least a tick | *oracle*: `TypeCorrect`, `Invariance`, `ValueIsTheAnchorHolds`, `PendingIsAJumpHolds`, `PendingJumpBlocksExecution`, **`OnlyAdmittedValuesExecuteHolds`**, **`JumpCostsTheDelayHolds`**, **`OracleImplementsFeed`**; *health*: `Investigating`, **`ServedAnswersAreRecentHolds`** |
| `PolicyGuardProofs` | `GuardAssumption`: the contract's types | `RecordInvariance`, `SettlementsKeepTheIntervalHolds`, **`ReceiptsObeyTheirVersionHolds`**, `StoppedMandatesSettleNothingHolds`, `ReceiptsNeverStampAStaleValueHolds`, **`NoEntryPastAFiredTriggerHolds`**, **`SlidingWindowBudgetHolds`**, **`PositionsReplayFromReceiptsHolds`** |
| `ExecutorProofs` | the guard's, `ExecutorAssumption`, `PermitAssumption`: types; the addresses are distinct; `RecordAssumption`: fills are records; `OrderAssumption`: types, a fee of at most the collector's ceiling, pools that sell at some price | *money*: `LedgersAndRecordAgree`, `ExecutorHoldsNothingHolds`, **`RecordReplaysTheWalletHolds`**, **`NothingLeavesUnsignedHolds`**; *record*: `TheRecordIsInOrder`, **`ThePageSaysWhatHappenedHolds`**; *orders*: `OrdersAreInOrder`, **`PlansKeepTheirTermsHolds`** |
| `PublisherProofs` | `CyclesFit`: a cycle is no longer than an interval; for the swap `TX_GAS <= LEAST_GAS`: the gas `swap.ts` 151 insists on pays for one transaction; `StoreAssumption`: finitely many symbols, which are numbered | `Watched`, **`ClosedVerdictIsRecentHolds`**, **`OnlyCheckedValuesLandHolds`**; *funding*: `FundingRunsAreExact`, **`ResumedRunsAreExactHolds`**; *store*: `MarksAreTrue`, **`EveryJumpIsAnOpenHolds`** |
| `LimitsProofs` | `BoardAssumption`, `SafeAssumption`, `PlanAssumption`, `WalkAssumption`: types, and `Shallow`: no pool is deeper than a billion USDG, 20 doublings of where the search for a capacity starts; `PoolAssumption`: what the pool contract sees to (below) | *board*: `TimelyBoard`, **`AnswersAreRecentHolds`**, **`OnlyBlindWritersUnpriceHolds`**, **`RungsAgreeWithTheCapacityHolds`**; *Safe*: `SafelyAsked`, **`ConfirmedChangesAreTheRunsHolds`**; *basket*: `Planning`, **`SizesFitAndLastHolds`**, **`AllowedLegsPassTheContractHolds`**; *walk*: `WalksGoTogether`, **`QuotesAreWhatThePoolPaysHolds`**, `QuotesAreFair`, **`NothingBeatsTheSpotHolds`** |
| `MandateDeskProofs` | `RulesAssumption`: cash has whole halves, observations lie in their metric's domain | *desk*: `OneVersionOneMandate`, **`AFirstMandateIsNeverAnOlderOneHolds`**, **`UnracedEditsKeepTheRestHolds`**; *rules*: **`TheRulesSayWhatTheThesisSaysHolds`** |
| `TradeDeskProofs` | `BoundsAssumption`: naturals | *desk*: `Cautious`, **`NoOverlappingFillsHolds`**, **`UnmeasuredSalesWereAcknowledgedHolds`**; *theses*: `FoundOnes`, **`ReportedThesesAreTheFirstHolds`** |
| `ServicesProofs` | `GateAssumption`: a bucket fills before it is dropped; `DeployerIsAKey`: it is none of the other keys, and no Safe; `NamedWallets`, `NowhereElse`: no wallet and no machine is called none; credentials belong to machines | *wallet*: **`TheSnapshotFollowsItsWalletHolds`**, `ADisconnectSurvivesTheReloadHolds`; *gate*: `Metered`, **`NoCallerOutspendsItsRateHolds`**, `SlotsAreOfPassesHolds`; *roles*: `Careful`, `TheOracleKeepsAProvenPublisherHolds`, `AdminsAreNeverSplitHolds`, **`HandoversMayBeRepeatedHolds`**; *evidence*: `Accounted`, **`KeptBundlesVerifyHolds`**; *index*: `OnlySettledRecords`, **`TheIndexSaysWhatTheChainSaysHolds`** |

In bold, the theorems that state a property some run of section 3 checks.

*Oracle.* `AssetInv`: an announced jump and a readable value exclude each other; the value was withdrawn no
later than the jump was announced; a value is readable exactly when `withheldSince` is zero. One lemma
covers the only operation that writes (`WriteObservationInv`): not carried, admitted or refused. A value
beyond the bound can only be admitted through `Confirmable`, whose announcement is at least the delay old.
The refinement maps the variables of the same name; a publication is a `FeedWrite`, the rest stutters.

*Health.* The world changes between the reads of a request, so nothing it found need be true together. What
the invariant keeps is per fact: what the request found about the fact that is watched was so at some moment
since it began, an observation being judged usable at the age it had when the asset list was read. The
answer it builds names one asset for which both of its facts were found; the answer kept is handed out
within `TTL` of being stored, which is within one request (`SPAN`) of each of its facts.

*Guard.* That two settlements keep their interval says nothing of `lastActionAt`, which is what the
gate looks at. `Placed` connects them: every receipt names a mandate and a version that exist and is no
younger than that mandate's last action. `Versions`: the list of versions only grows, its last entry is
in force. `StepKinds` splits every step: it makes `Progress` and leaves the record alone, or settles one
batch that the gate has held to the policy in force. The sliding window needs to know of the counter that it
is the number of fills since `epochStart`, and that the epoch before it, whose counter is gone, was within
the budget of the policies in force while it lasted (`Epochs`, `Budget`); a window is split at the last
restart inside it. `Positioned` says that the positions are the replay of the record, fill by fill. The arithmetic of products and
quotients that the other modules cite is at the head of the same module.

*Executor.* `Ledgers`: of each owner the balances are the initial ones less what the receipts say was paid,
plus what they say was earned, and less the fee events. A trade moves both sides by its fills, and the
fills are the legs with what the pools paid, because a pool that leaves something unspent makes the whole
call revert. For `NothingLeavesUnsigned` a batch is read backwards: a wallet falls by what a permit it
signed names, for a nonce not spent before.

*Record.* What a node serves, and what a page counted before, is a beginning of the chain, and the chain is in
order of time, so a thesis that was first of what was served is first of everything (`TheRecordIsInOrder`).
The figures are quotients of sums over the fills: a weighted mean lies between the least and the greatest,
and parts rounded down lose less than one each (`SlippageIsMeasured`, `BasketsAreWhole`).

*Orders.* `OrderInv` follows an order through every read of page and command. What it carries was read when it
was read: a quote is the output of the pool as read, floor and price are that output's (`Quoted`); what is
called measured was, and what is allowed lies within the limit (`Judged`). What is still so if nothing moved
is asked only while the counter of moves and the clock are those of the request (`Standing`), so a move of
the world has nothing to preserve. The rest is arithmetic. A sale that settles brings at least its floor, and
integer division takes a unit of cash from floor and price alike, which over the units sold is the `Lost` of
the property. A purchase swaps what the fee leaves: the floor stands a whole per cent below the quote and the
fee takes at most half of one, which covers the roundings of every size (`PurchaseRoundings`); and a purchase of
at least as many units as its pool's price is priced at exactly that, before the fee and after (`Sizeable`;
units have eighteen decimals). For fewer the statement is false: 201 of cash at a price of 3 are planned as 67
units at exactly 3, and settle, less a fee of 1, as 66 units at 3.03, which the guard may refuse.

*Publisher.* `Recent`: a heartbeat that says closed is younger than what the cycle saw by no more than
the cycle's span. `Sound`: what is in the batch, and what the oracle holds, was checked.

*Funding.* A run whose first reads were the wallet's true state knows what it may find later: the only
transaction on its way is its own, and stable coin only ever comes in. So the balance it compares at the
end has grown by its own swap; and what it wraps is what was missing.

*Board, Safe.* What is fetched was read within the time a request may last. A writer that is about to put
a board without prices found nothing to keep, or could not look. `SafeInv`: an approval is for one call at
one nonce, so what was executed at the nonce a run asked for is what it asked.

*Capacity.* The search doubles a size until it is refused, which `Shallow` makes happen, and halves what
lies between 40 times; the invariant of a halving is that its lower end is nothing or fits (`CapacitiesFit`).
What fits at a size fits at every smaller one, the venue of most output being the cheapest when all start
from one price (`WithinIsAllowed`); and what fits nine tenths of a limit fits the limit after a drift of a
ninth (`HeadroomIsEnough`). The board measures against the whole limit, the planner against nine tenths.

*Basket.* The invariant of the pass that hands out freed capital: allocated and still free are together
what was asked for, nobody is above his room, and while anything is free everybody served is at his room
(`HandedOut`, `ServingFits`). The mirror and the contract divide the same numbers, one of them in
integers; the proof is of that arithmetic (`TheMirrorIsNoLaxer`).

*Walk.* A pool that stood still was read at one moment; then liquidity and the
ticks of the words read are the pool's, both walks find the same next tick unless it lies outside what was
read, and the step that leaves it says so (`Together`).

*Prices of the walk.* `QuotesAreFair` says of a quote that stands anywhere on its way: its price lies between
where it began and its limit, what it spent and has left are what was offered, and what it gave is worth no
more, at the price before, than what it spent. Each step is the argument of one formula of `v3math.ts`: the
amount in is rounded up, the amount out down, and the price in the pool's favour, so a step gives no more than
its share (`StepsStayFair`). `PoolAssumption` is what the pool contract sees to: the price table rises with the
ticks, a pool's price lies between its tick's and the next one's and strictly inside the limits, positions are
whole spacings. A pool initialised exactly at the lowest price there is is excluded by it.

*Store.* A mark in a file, or on its way into one, was quoted at the second it bears (`MarksAreTrue`), and a merge
keeps the first of equal marks and sorts them. So two neighbours among the marks of a symbol are
at different seconds, an open lies between those of different sessions, and the stretches of different
jumps do not overlap: no open is under two of them, and there are no more jumps than opens.

*Mandates, rules.* A version number is one policy and one list of rules, wherever and whenever it is read,
because every change of either counts it up; so whoever reads the version again after his write knows what
he has overwritten. For the rules: a threshold in halves times a unit of whole halves is scaled exactly; a
rule that is dropped as unreachable could not be met by anything measurable; a scope that the allowlist
empties installs nothing rather than everything.

*Trade, theses.* A permit that is signed or in the mempool carries a nonce that is spent, or the lowest
unspent one with nothing settled since it was built; so whatever settles next takes the chance from all the
others. The tick of the box travels with request, plan, order and transaction (`TicksTravel`). A hash has
one author in every state of the registry that any node serves.

*Services.* What a caller spent since it is watched and what its bucket would let it spend now are together
within a full bucket and the time elapsed; a dropped bucket was full already. The page listens to exactly
the wallet it shows, and a call that ends binds its wallet. What a script confirmed before it sent must
still be true when its transaction lands, perhaps after the script died: a revocation is sent only once
another account has published, the oracle goes first, and what follows goes where the oracle is. Every
decision told of has its copy whole unless that very copy was spoilt; what a reader had heard of when it asked
is told still, so the copy it comes to is that one (`Heard`). The held passes change by one whenever the count
of slots does (`SlotsInv`). The index takes nothing above its
cutoff, and a cutoff is below what any two nodes may still disagree about.

**Induction over data.** The prover cannot instantiate the library's induction theorems, which take an operator. Sums
and replays over the record are reached in another way: the set of the numbers up to which a statement fails
has a least element (`EveryNatural` in PolicyGuardProofs), and a well-founded order on sets gives the sums
over finite sets (`PartialExists`), whose recursion is unfolded one element at a time. A local recursion, as of
the capacity search and of the allocation, has its function built the same way (`StepsAreTaken`).

**Only model-checked.** All liveness (`FeedRecovers`, `ClosedMarketIsNamed`, `CreatingEnds`, `SlotsComeBack` but for
its invariant, `TheIndexCatchesUp`) and whatever mentions `ENABLED` are out of the prover's reach. Every invariant and every
action property of a passing run is a theorem.

## 5. What is not modelled

The definitions stand for about three tenths of the implementation's lines. The rest is mostly layout:
landing pages, charts, tables, console screens, ABIs, tests of presentation. Left out on purpose:

* **Issuer paging and parsing** (Publisher and SampleStore
  have its consumer's side), **drift samplers** (a loop of the publish loop's shape, a store of the sample
  store's), **reconciliation** (offline statistics; its result is the constant `Admitted`), **demos,
  verification scripts, deployment scripts** (read-only or one-shot), **presentation**.
* The fixed-point arithmetic of `src/v3math.ts` at its real width is beyond TLC's integers: TickWalk has it,
  with its roundings, at a small one. Everywhere else a pool is a line up to its depth, and the board's
  ladder judges a size beyond it at the price of the whole payment.
* The fair value's own formula, its band and its basis; the language-model call of the compiler; the
  statistics of the deviation.
* The market state of an observation; evidence strings and revert reasons; the registry admin's
  handover; the callback check of V3Swapper.
* A second publish worker writing the same heartbeat; the host's limit on restarts; two runs of the index at
  once, whose lines written twice reading merges.
* In OrderPlan, the guard's pace and allowlist: time alone only ever lifts the first, and PolicyGuard has both.
  In ThesisDesk, a chain switched while the page checks, and a second run of `publish()` for one hash.

What could follow: triggers and weights in OrderPlan, and a fee that changes while an order is under way; a
composed system of publisher, oracle and guard; the walk at the real width, for which its theorems hold
already but which no run explores.

## 6. Running it

```
tlasany Executor.tla                                  # parse
tlc -workers 2 -config MCExecutor.cfg MCExecutor      # one run: module and configuration as in PROJECT.json
tlapm TradeDeskProofs.tla                             # the proofs of one module
```

`PROJECT.json` lists components, runs, hazards, findings and theorems, the source lines every definition
models, and for each property a defect of a definition under which its run fails.

### Checked by hand

Definitions that no listed run checks are here because they are implied by others, or because they are
false and the listed findings are already one each of their kind. To repeat one, put it in place of the
properties of the configuration named.

Hold, over the same instances: `ExecTypeOK`, `FillsStayNearTheStampedValue`,
`EntriesLeaveThePortfolioInside` (MCExecutor); `TypeOK`,
`AllowlistCountsEachAssetOnce` (MCPolicyGuardLimits); `TypeOK`, `ExitsNeedNoOracle`,
`DryRunNeverRefusesWhatSettles` (MCPolicyGuardOracle); `TypeOK` (MCFairValueOracle); `PublisherTypeOK`;
`DeskTypeOK`; `TradeTypeOK`; `ADisconnectSurvivesTheReload` (MCServices; also proved). A `Release` that counts down every time it is called
breaks `SlotsAreOfPasses`, and with it `SlotsComeBack` (MCServices).

Fail, most of them against a sentence of the repository that the comment above the property names:

| Property | Where | What happens |
|---|---|---|
| `HonestJumpSettlesWithinTTL` | MCFairValueOracle, `SPECIFICATION CycleSpec`, `Address = {publisher}`, `Value <- CycleValue`, `GapRisk <- CycleGapRisk`, `JUMP_CONFIRM_DELAY = 6`, `PENDING_TTL = 24`, `ANCHOR_MAX_AGE = 288`, `MAX_MAX_AGE = 12`, `DEFAULT_MAX_AGE = 3`, `MAX_BATCH = 1`, `MAX_TIME = 400`, `CYCLE = 3` (holds with `CYCLE = 6`) | A publisher faster than the confirmation delay restarts its announcement every cycle, and the asset has no value until the anchor lapses; the contract's comment gives it several attempts. |
| `DryRunRunsTheSameChecks`, `TriggersReadAnswers` | MCPolicyGuardOracle | `dryRun` looks at neither triggers nor weights; one withheld value makes `firedTriggers` revert as a whole. |
| `JumpsAreFromTheClose`, `NothingNewIsMissing`, `LeapsAreRefused` | MCPolicyGuardOracle with `Mid = {1, 2}`, `MaxTapeTime = 4` | Jumps are from the last mark before the open; a duplicate line hides a new one from the pull, which compares counts; the step check compares a mark with itself, because the worker samples just before it publishes. |
| `NothingUndefendedLands` | PublisherTornStore, `MarketKind = {"good", "crossed"}`, `Tears = FALSE` | The engine may price a refetched book while the cross-check judges the first. |
| `TheMandateShownIsTheOneCreated` | MandateDeskLostRule | The page takes the newest mandate that is served. |
| `TheUnreachableNeverFires` | MCMandateDesk | A drawdown is negative at a gain, and its domain starts at zero. |
| `ThePlanSpendsWhatItWasGiven`, `ThePlanPassesItsGuard`, `APricedBoardStays` | MCPolicyGuardLimits | Two legs of one asset share an entry; venues an arbitrage apart break the headroom; a blind writer replaces a board. |
| `OnlyTheUnsettledAreMissing`, `OrphansWereNeverPublished` | MCFairValueOracle | A lagging node's count makes a settled receipt a 404, and a published thesis one that "was never published". |
| `ARepeatedRunMakesNoSecondSafe`, `NothingIsBricked` | Handover with `Deployer = deployer`, `Key = {k, l}`, `MaxRuns = 3`, HandoverSpec, no deadlock check | A script that dies between a Safe's deployment and its confirmation makes another one when it is run again; a proof that stops leaves an admin nobody can sign for. |
| `NothingUnpublishedIsFollowed` | ThesisDesk with `Hash = {"h", "k"}`, `MaxChecks = 2`, ThesisSpec, no deadlock check | A publication that was mined and reverted is taken for one that landed, and its hash is handed over. |
| `QuotesAreWhatThePoolPays` without the half of `Faithful` that asks for every tick | MCPolicyGuardLimits | A chunk of tick reads that fails leaves ticks of which the walk knows only the bit; it crosses them as if nothing changed there (`pool.ts` 195, 280) and does not call itself exhausted. |
| `TheSwapperHoldsNothing`, `NoRunWrapsTwice` | MCExecutor, *funding* | An input the pool takes only part of stays in PoolSwapper, which says it holds nothing between transactions (`PoolSwapper.sol` 13-18); a wrap in flight when its run dies is not seen by the next (`swap.ts` 185-189). |
| `TheAddressIsNeverLeftBehind` | MCServices | An account switched between a call's two reads is shown as it was. |

Where the pull finds a torn download, `readAll` throws outside the `try` and the second source is not
looked at either (`pull-stores.ts` 105-126).
