----------------------------- MODULE SampleStore -----------------------------
(***************************************************************************)
(* The history of the issuer's marks, of which the width of a band is      *)
(* measured: src/observations.ts.  The publish worker samples into its     *)
(* volume before each cycle, a developer samples into the repository, and  *)
(* the volume is folded into the repository by hand.                       *)
(*                                                                         *)
(* Time is the length of the tape, what the issuer really quoted; all      *)
(* symbols share it, and any of them may be missing from a book.  A line   *)
(* torn by a failed append is in Publisher; clocks agree, and reading,     *)
(* merging and writing a file is one step.                                 *)
(***************************************************************************)
EXTENDS Integers, FiniteSets, SequencesExt

CONSTANTS
  Symbol,      \* a set of integers, which order as the names of the assets do
  Mid,         \* what the issuer may quote
  MIN_JUMPS,   \* jumps before a deviation is derived
  MaxTapeTime  \* bound on time

ASSUME StoreAssumption ==
  IsFiniteSet(Symbol) /\ Symbol \subseteq Int /\ MIN_JUMPS \in Nat

VARIABLES
  tape,       \* the session and the mid of every second
  histories,  \* the store each sampler appends to
  passes      \* what each sampler is doing

storeVars == <<tape, histories, passes>>

\* A sampler is known by what it samples into: the worker and the developer.
Volume == "volume"
Repository == "repository"
Sampler == {Volume, Repository}

\* The market is open, or it is not and the issuer quotes all the same.
Moment == [period : {"market", "overnight"}, mid : Mid]

Resting == [pc |-> "idle", marks |-> <<>>]

Clock == Len(tape)

StoreInit ==
  /\ tape \in {<<m>> : m \in Moment}
  /\ histories = [s \in Sampler |-> <<>>] /\ passes = [s \in Sampler |-> Resting]
---------------------------------------------------------------------------
(* sampleOnce and append: one mark of every asset that is quoted.          *)

Mark(symbol) ==
  [symbol |-> symbol, at |-> Clock, period |-> tape[Clock].period, mid |-> tape[Clock].mid]

Passes(s, pass) == passes' = [passes EXCEPT ![s] = pass] /\ UNCHANGED <<tape, histories>>

\* A sampler that waits a minute or more does not sample a second twice.
Fetches(s) ==
  /\ passes[s].pc = "idle"
  /\ \A m \in Range(histories[s]) : m.at < Clock
  /\ \E quoted \in SUBSET Symbol \ {{}} :
       Passes(s, [pc |-> "fetched", marks |-> SetToSeq({Mark(a) : a \in quoted})])

\* The worker goes on to publish, with its marks or without.
After(s) == [Resting EXCEPT !.pc = IF s = Volume THEN "publish" ELSE "idle"]

FetchFails(s) == passes[s].pc = "idle" /\ s = Volume /\ Passes(s, After(s))

Appends(s) ==
  /\ passes[s].pc = "fetched"
  /\ histories' = [histories EXCEPT ![s] = @ \o passes[s].marks]
  /\ passes' = [passes EXCEPT ![s] = After(s)]
  /\ UNCHANGED tape

\* The cycle reads the newest mark of each asset.
Newest(history, symbol) ==
  LET mine == {m \in Range(history) : m.symbol = symbol}
  IN {m \in mine : \A n \in mine : n.at <= m.at}

\* stepCheck, of mids of which any two are further apart than the limit.
Leapt(symbol) == \E m \in Newest(histories[Volume], symbol) : m.mid # tape[Clock].mid

Publishes == passes[Volume].pc = "publish" /\ Passes(Volume, Resting)
---------------------------------------------------------------------------
(* merge, by pnpm pull:stores and by pnpm sample --merge.                  *)

Identity(mark) == <<mark.symbol, mark.at>>

Precedes(m, n) == m.at < n.at \/ (m.at = n.at /\ m.symbol < n.symbol)

\* Of the marks with one identity the last is kept, and each has its place.
Merge(into, from) ==
  LET all == into \o from
      kept == {i \in DOMAIN all : \A j \in DOMAIN all : j > i => Identity(all[j]) # Identity(all[i])}
      Place(i) == Cardinality({j \in kept : Precedes(all[j], all[i])}) + 1
  IN [n \in 1 .. Cardinality(kept) |-> all[CHOOSE i \in kept : Place(i) = n]]

Adds(into, from) == Len(Merge(into, from)) - Len(into)

Keeps(history) ==
  /\ histories' = [histories EXCEPT ![Repository] = history]
  /\ UNCHANGED <<tape, passes>>

\* A volume that cannot be reached, and a merge that adds nothing, change nothing.
Pulls ==
  /\ Adds(histories[Repository], histories[Volume]) # 0
  /\ Keeps(Merge(histories[Repository], histories[Volume]))

\* A copy of the volume, downloaded some time ago.
MergesCopy ==
  \E n \in 1 .. Len(histories[Volume]) :
    Keeps(Merge(histories[Repository], SubSeq(histories[Volume], 1, n)))
---------------------------------------------------------------------------
\* The issuer moves on.
Moves ==
  /\ Clock < MaxTapeTime
  /\ \E m \in Moment : tape' = Append(tape, m)
  /\ UNCHANGED <<histories, passes>>

StoreNext ==
  \/ \E s \in Sampler : Fetches(s) \/ FetchFails(s) \/ Appends(s)
  \/ Publishes \/ Pulls \/ MergesCopy \/ Moves

StoreSpec == StoreInit /\ [][StoreNext]_storeVars
---------------------------------------------------------------------------
(* coverage, jumps and pnpm measure.                                       *)

\* Where the marks of an asset are in the file.
Of(history, symbol) == {i \in DOMAIN history : history[i].symbol = symbol}

\* Defect for the checks: the marks of an asset are taken as the file has them.
EarlierInTheFile(history, i, j) == i < j

\* The sort is by time, and stable.
Earlier(history, i, j) ==
  history[i].at < history[j].at \/ (history[i].at = history[j].at /\ i < j)

Neighbours(history, symbol) ==
  {p \in Of(history, symbol) \X Of(history, symbol) :
     /\ Earlier(history, p[1], p[2])
     /\ \A k \in Of(history, symbol) : ~(Earlier(history, p[1], k) /\ Earlier(history, k, p[2]))}

\* A session boundary is a transition into the regular session.
Jumps(history, symbol) ==
  {p \in Neighbours(history, symbol) :
     history[p[1]].period # "market" /\ history[p[2]].period = "market"}

Ready(symbol) == Cardinality(Jumps(histories[Repository], symbol)) >= MIN_JUMPS
---------------------------------------------------------------------------
(* What the store promises; all but the first are false, and are checked   *)
(* by hand (README, section 6).                                            *)

Opens == {t \in 2 .. Clock : tape[t - 1].period # "market" /\ tape[t].period = "market"}

\* Whoever sampled, in whatever order the marks were appended and merged, a jump in the
\* repository's history is across an open that happened, no open is counted twice, and so
\* a deviation is derived only once the market opened often enough
\* (observations.ts 178-196, measure.ts 34-43).
EveryJumpIsAnOpen ==
  \A a \in Symbol :
    LET history == histories[Repository]
        all == Jumps(history, a)
    IN /\ \A j \in all : \E t \in Opens : history[j[1]].at < t /\ t <= history[j[2]].at
       /\ Cardinality(all) <= Cardinality(Opens)
       /\ Ready(a) => Cardinality(Opens) >= MIN_JUMPS

\* The deviation is of close-to-open jumps: each is from the last mid of the session
\* before (observations.ts 178-184).  It is not: the issuer quotes through the night, and
\* a jump is from the last mark before the open.
JumpsAreFromTheClose ==
  LET history == histories[Repository]
  IN \A a \in Symbol : \A j \in Jumps(history, a) :
       LET open == history[j[2]].at
       IN \A t \in 1 .. open - 1 :
            tape[t].period = "market" /\ (\A u \in t + 1 .. open - 1 : tape[u].period # "market")
              => history[j[1]].mid = tape[t].mid

\* A pull that finds nothing new leaves the file alone (pull-stores.ts 132-136).  A
\* repeated mark in the file is enough to hide a new one: the count of marks is compared.
NothingNewIsMissing ==
  Adds(histories[Repository], histories[Volume]) = 0 =>
    {Identity(m) : m \in Range(histories[Volume])}
      \subseteq {Identity(m) : m \in Range(histories[Repository])}

\* A mid that leapt since the cycle before is not published (crosscheck.ts 24 and 178-210).
\* It is: the worker has written it down a moment earlier, and compares it with itself.
LeapsAreRefused ==
  \A a \in Symbol :
    passes[Volume].pc = "publish" /\ Clock > 1 /\ tape[Clock].mid # tape[Clock - 1].mid
      /\ (\E m \in Range(histories[Volume]) : m.symbol = a /\ m.at = Clock - 1)
    => Leapt(a)
=============================================================================
