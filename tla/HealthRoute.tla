----------------------------- MODULE HealthRoute -----------------------------
(***************************************************************************)
(* GET /api/health (src/app/api/health/route.ts) and the rule by which it  *)
(* calls the system ok, degraded or down (src/src/health.ts).  A request   *)
(* reads one fact after the other while the facts change: the block, the   *)
(* allowlist and its assets one by one, the publisher's gas, its           *)
(* heartbeat.  Its answer is kept for every request of the next TTL.       *)
(*                                                                         *)
(* A read of the chain that is throttled and a chain that does not answer  *)
(* are one.  The host ends a request that takes longer than SPAN; the gate *)
(* in front of the route is in Gate.                                       *)
(***************************************************************************)
EXTENDS Integers, FiniteSets

CONSTANTS
  Held,          \* the assets the mandate may allow
  MaxGets,       \* bound on requests
  TTL,           \* how long an answer is kept
  SPAN,          \* maxDuration: the longest a request may take
  FRESH,         \* the oracle's maxAge
  GAS_PER_RUN, RUNWAY_WARN_RUNS,
  Purse,         \* what the publisher's balance and the gas price may be
  MaxHealthTime, \* bound on time
  MaxTurns       \* bound on how often the world changes

ASSUME HealthAssumption ==
  /\ TTL \in Nat \ {0}
  /\ {SPAN, FRESH, MaxGets, MaxHealthTime, MaxTurns} \subseteq Nat
  /\ IsFiniteSet(Held)

VARIABLES
  clock,    \* Date.now()
  setup,    \* what this runtime has: an archive, a key for the compiler
  chainUp,  \* the chain answers
  allowed,  \* the mandate's allowlist
  peeks,    \* what the oracle holds of each asset
  purse,    \* the publisher's balance and the gas price
  word,     \* what the heartbeat says, "unread" and "silent" included
  turns,    \* how often that changed
  cached,   \* the answer kept
  gets,     \* the requests
  given,    \* when somebody got that answer last; history
  watched,  \* an observer's: one fact
  heldAt    \* when that fact last held

world == <<setup, chainUp, allowed, peeks, purse, word, turns>>
healthVars == <<clock, world, cached, gets, given, watched, heldAt>>

Never == -1
Getter == 1..MaxGets
Words == {"unread", "silent", "closed", "unreachable", "quoting"}

\* The host's own facts are of the configuration, which no deployment changes.
Configured == {"archive", "compiler"}
---------------------------------------------------------------------------
(* The facts an answer is made of.                                         *)

StaleAt(peek, t) == peek.at = Never \/ t - peek.at > FRESH

Runs(p) == p.balance \div (GAS_PER_RUN * p.price)
RunwayOf(p) ==
  IF p.price = 0 THEN "unmeasurable" ELSE IF Runs(p) < RUNWAY_WARN_RUNS THEN "short" ELSE "long"

Fact == ({"usable", "unusable", "allowed"} \X Held) \cup ({"runway"} \X {"long", "short"})
          \cup ({"word"} \X Words) \cup {<<"chain", "silent">>, <<"list", "empty">>}

UsableNow(a) == ~StaleAt(peeks[a], clock) /\ peeks[a].has

Holds(fact) ==
  CASE fact[1] = "usable"   -> UsableNow(fact[2])
    [] fact[1] = "unusable" -> ~UsableNow(fact[2])
    [] fact[1] = "allowed"  -> fact[2] \in allowed
    [] fact[1] = "runway"   -> RunwayOf(purse) = fact[2]
    [] fact[1] = "word"     -> word = fact[2]
    [] fact[1] = "chain"    -> ~chainUp
    [] OTHER                -> allowed = {}

Watches == UNCHANGED watched /\ heldAt' = IF Holds(watched)' THEN clock' ELSE heldAt
---------------------------------------------------------------------------
(* classifyHealth.                                                         *)

NoFindings == [block |-> FALSE, list |-> {}, at |-> Never, left |-> {}, usable |-> {},
               runway |-> "unread", silent |-> FALSE, word |-> "unread"]

\* causeOf: the heartbeat tells a closed market from a stopped publisher.
CauseOfWord(w) ==
  CASE w = "unread"      -> "unknown"
    [] w = "silent"      -> "publisher-stopped"
    [] w = "closed"      -> "issuer-closed"
    [] w = "unreachable" -> "issuer-unreachable"
    [] OTHER             -> "publisher-failing"

\* Worst first, and the first cause is the one.
CauseOfFindings(f) ==
  IF ~f.block THEN "rpc"
  ELSE IF f.list = {} THEN "no-allowlist"
  ELSE IF f.usable = {} THEN CauseOfWord(f.word)
  ELSE "none"

\* Something is wrong, and a fill can still happen.
Degraded(f) == f.usable # f.list \/ setup # Configured \/ f.runway # "long"

StatusOf(f) ==
  IF CauseOfFindings(f) # "none" THEN "down" ELSE IF Degraded(f) THEN "degraded" ELSE "ok"

\* What the answer says of the world: a fact for each thing it found.
Claims(f) ==
  {<<"usable", a>> : a \in f.usable} \cup {<<"unusable", a>> : a \in f.list \ f.usable}
    \cup {<<"allowed", a>> : a \in f.list}
    \cup {<<"runway", r>> : r \in {f.runway} \cap {"long", "short"}}
    \cup {<<"chain", "silent">> : s \in {f.silent} \cap {TRUE}}
    \cup {<<"list", "empty">> : s \in {f.block /\ f.list = {} /\ ~f.silent} \cap {TRUE}}
    \cup {<<"word", f.word>>}
---------------------------------------------------------------------------
(* GET.                                                                    *)

NoAnswer == [at |-> Never, status |-> "none", cause |-> "none", claims |-> {}]
\* What a monitor acts on.
HttpStatus(answer) == IF answer.status = "down" THEN 503 ELSE 200

Unasked == [pc |-> "unasked", began |-> 0, found |-> NoFindings]
Done == [Unasked EXCEPT !.pc = "done"]

AnswerOf(f) ==
  [at |-> clock, status |-> StatusOf(f), cause |-> CauseOfFindings(f), claims |-> Claims(f)]

Proceeds(g, request) ==
  gets' = [gets EXCEPT ![g] = request] /\ UNCHANGED <<clock, world, watched, heldAt>>

Notes(g, pc, found) ==
  /\ Proceeds(g, [gets[g] EXCEPT !.pc = pc, !.found = found])
  /\ UNCHANGED <<cached, given>>

\* Whoever is answered gets the answer that is kept from then on.
Serves(g, answer) == Proceeds(g, Done) /\ cached' = answer /\ given' = clock

IsNext(g) == gets[g].pc = "unasked" /\ \A h \in Getter : h < g => gets[h].pc # "unasked"
UnderWay(g) == gets[g].pc \notin {"unasked", "done"}

\* Defect for the checks: an answer is kept for a moment longer.
KeptToTheEdge == cached.at # Never /\ clock - cached.at <= TTL

Kept == cached.at # Never /\ clock - cached.at < TTL

Hits(g) == IsNext(g) /\ Kept /\ Serves(g, cached)

Misses(g) ==
  /\ IsNext(g) /\ ~Kept
  /\ Proceeds(g, [Unasked EXCEPT !.pc = "block", !.began = clock])
  /\ UNCHANGED <<cached, given>>

\* A read that fails leaves what it would have found unread.
Unread(f) == [f EXCEPT !.silent = TRUE]

ReadsBlock(g) ==
  LET f == gets[g].found
  IN /\ gets[g].pc = "block"
     /\ IF chainUp THEN Notes(g, "list", [f EXCEPT !.block = TRUE]) ELSE Notes(g, "word", Unread(f))

ReadsList(g) ==
  LET f == gets[g].found
  IN /\ gets[g].pc = "list"
     /\ IF chainUp
        THEN Notes(g, IF allowed = {} THEN "gas" ELSE "peek",
                   [f EXCEPT !.list = allowed, !.left = allowed, !.at = clock])
        ELSE Notes(g, "gas", Unread(f))

\* An asset's age is counted to the moment the list was read.
Peeks(g) ==
  LET f == gets[g].found
  IN /\ gets[g].pc = "peek"
     /\ IF chainUp
        THEN \E a \in f.left :
               Notes(g, IF f.left = {a} THEN "gas" ELSE "peek",
                     [f EXCEPT !.left = @ \ {a},
                        !.usable = IF StaleAt(peeks[a], f.at) \/ ~peeks[a].has THEN @
                                   ELSE @ \cup {a}])
        ELSE Notes(g, "gas", [Unread(f) EXCEPT !.list = {}, !.left = {}, !.usable = {}])

ReadsGas(g) ==
  LET f == gets[g].found
  IN /\ gets[g].pc = "gas"
     /\ Notes(g, "word", IF chainUp THEN [f EXCEPT !.runway = RunwayOf(purse)] ELSE Unread(f))

\* The heartbeat is read last and explains a system that is down.
Answers(g) ==
  /\ gets[g].pc = "word"
  /\ LET answer == AnswerOf([gets[g].found EXCEPT !.word = word])
     IN Serves(g, answer)

\* The host ends a request at maxDuration; nobody is answered.
Ended(g) ==
  /\ UnderWay(g) /\ clock - gets[g].began = SPAN
  /\ Proceeds(g, Done)
  /\ UNCHANGED <<cached, given>>

Get(g) ==
  Hits(g) \/ Misses(g) \/ ReadsBlock(g) \/ ReadsList(g) \/ Peeks(g) \/ ReadsGas(g)
    \/ Answers(g) \/ Ended(g)
---------------------------------------------------------------------------
(* The world.                                                              *)

\* One thing changes, and time does not pass.
Turns ==
  /\ turns < MaxTurns /\ turns' = turns + 1
  /\ UNCHANGED <<clock, setup, cached, gets, given>>
  /\ Watches

\* publishMany writes every asset, some of them without a value.
Published ==
  /\ \E valued \in SUBSET Held :
       peeks' = [a \in Held |-> [at |-> clock, has |-> a \in valued]]
  /\ UNCHANGED <<chainUp, allowed, purse, word>>
  /\ Turns

Relisted ==
  /\ allowed' \in SUBSET Held \ {allowed}
  /\ UNCHANGED <<chainUp, peeks, purse, word>>
  /\ Turns

ChainTurns ==
  /\ chainUp' = ~chainUp
  /\ UNCHANGED <<allowed, peeks, purse, word>>
  /\ Turns

Paid ==
  /\ purse' \in Purse \ {purse}
  /\ UNCHANGED <<chainUp, allowed, peeks, word>>
  /\ Turns

Spoke ==
  /\ word' \in Words \ {word}
  /\ UNCHANGED <<chainUp, allowed, peeks, purse>>
  /\ Turns

Minute ==
  /\ clock < MaxHealthTime
  /\ \A g \in Getter : UnderWay(g) => clock - gets[g].began < SPAN
  /\ clock' = clock + 1
  /\ UNCHANGED <<world, cached, gets, given>>
  /\ Watches

HealthInit ==
  /\ clock = 0
  /\ setup \in SUBSET Configured
  /\ chainUp = TRUE /\ allowed \in SUBSET Held
  /\ peeks = [a \in Held |-> [at |-> Never, has |-> FALSE]]
  /\ purse \in Purse /\ word \in Words /\ turns = 0
  /\ cached = NoAnswer /\ given = Never
  /\ gets = [g \in Getter |-> Unasked]
  /\ watched \in Fact /\ heldAt = IF Holds(watched) THEN 0 ELSE Never

HealthNext ==
  \/ \E g \in Getter : Get(g)
  \/ Published \/ Relisted \/ ChainTurns \/ Paid \/ Spoke \/ Minute

HealthSpec == HealthInit /\ [][HealthNext]_healthVars
---------------------------------------------------------------------------
\* Whoever else asks at the same time, and however long a request takes: everything an
\* answer says was so at a moment less than TTL and a request before it was served; and
\* an answer that a monitor takes for up, which any status but `down` is, names an asset
\* that was allowed and one whose value the guard accepted (health.ts 198-221).
ServedAnswersAreRecent ==
  given # Never =>
    /\ watched \in cached.claims => heldAt # Never /\ given - heldAt < TTL + SPAN
    /\ HttpStatus(cached) = 200 =>
         \E a \in Held : {<<"usable", a>>, <<"allowed", a>>} \subseteq cached.claims
=============================================================================
