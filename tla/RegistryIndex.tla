---------------------------- MODULE RegistryIndex ----------------------------
(***************************************************************************)
(* The registry index (src/indexer.ts, run by src/index-demo.ts every six  *)
(* hours): an append-only file of the records that are deep enough in the  *)
(* chain, written by runs that read their counts, the height and every     *)
(* record from nodes of their own moment, and that may die anywhere, in    *)
(* the middle of a line too.  The chain may replace its last blocks.       *)
(* The two registries are indexed alike, and one stands for both; a block  *)
(* holds one record at most.  One run at a time: of two that overlap, the  *)
(* lines written twice are what reading merges (indexer.ts 136).           *)
(***************************************************************************)
EXTENDS Integers, Sequences, FiniteSetsExt

CONSTANTS
  Content,        \* what a record may say
  CONFIRMATIONS,
  MaxReorg,       \* blocks the chain may replace
  MaxLag,         \* blocks a node may be behind
  MaxBlocks,      \* bound: height
  MaxMishaps      \* bound: runs that die, reads that fail and rebuilds

\* The depth is enough for the replacements and the lag there are.
ASSUME DepthAssumption ==
  /\ CONFIRMATIONS \in Nat /\ MaxReorg \in Nat /\ MaxLag \in Nat /\ MaxBlocks \in Nat
  /\ MaxMishaps \in Nat /\ MaxReorg + MaxLag <= CONFIRMATIONS

VARIABLES
  tip, behindTip,   \* the chain, and what the slowest node serves of it
  store,    \* the file's lines: a record, or Torn
  ragged,   \* its last line has no end
  run,      \* the run under way
  mishaps

Blocks == INSTANCE NodeReads WITH head <- tip, behind <- behindTip

indexVars == <<tip, behindTip, store, ragged, run, mishaps>>

Torn == [id |-> -1, block |-> 0, content |-> "torn"]
NoRun == [pc |-> "off", have |-> {}, todo |-> {}, cutoff |-> 0, added |-> <<>>]

---------------------------------------------------------------------------
(* The chain: a sequence of blocks, each with a record or without.         *)

Filled(c) == {b \in DOMAIN c : c[b] # "none"}
Count(c) == Cardinality(Filled(c))
RecordIn(c, b) == [id |-> Count(SubSeq(c, 1, b)) - 1, block |-> b, content |-> c[b]]
RecordsOf(c) == {RecordIn(c, b) : b \in Filled(c)}

\* d blocks are replaced by as many and one more; d = 0 is the next block.
Grows ==
  /\ Len(tip) < MaxBlocks
  /\ \E d \in 0..Min({MaxReorg, Len(tip)}) : \E new \in [1..d + 1 -> Content \cup {"none"}] :
       Blocks!Land(SubSeq(tip, 1, Len(tip) - d) \o new)
  /\ Len(tip') - Len(behindTip) <= MaxLag
  /\ UNCHANGED <<store, ragged, run, mishaps>>

NodeFollows == Blocks!Sync /\ UNCHANGED <<store, ragged, run, mishaps>>

---------------------------------------------------------------------------
(* indexRegistries.                                                        *)

Ids(lines) == {lines[i].id : i \in {j \in DOMAIN lines : lines[j] # Torn}}

\* readIndex: a line that does not parse is skipped.
Starts ==
  /\ run.pc = "off"
  /\ run' = [NoRun EXCEPT !.pc = "counting", !.have = Ids(store)]
  /\ UNCHANGED <<tip, behindTip, store, ragged, mishaps>>

\* --rebuild: the file is moved aside.
Rebuilds ==
  /\ run.pc = "off" /\ mishaps < MaxMishaps /\ mishaps' = mishaps + 1
  /\ store' = <<>> /\ ragged' = FALSE
  /\ run' = [NoRun EXCEPT !.pc = "counting"]
  /\ UNCHANGED <<tip, behindTip>>

\* Defect for the checks: one block short.
CutoffOneShort(height) == IF height > CONFIRMATIONS THEN height - CONFIRMATIONS + 1 ELSE 0

Cutoff(height) == IF height > CONFIRMATIONS THEN height - CONFIRMATIONS ELSE 0

\* Defect for the checks: only what is beyond the highest id held.
MissingAtTheEnd(count, have) == {i \in 0..count - 1 : \A j \in have : j < i}

\* What the store lacks below the chain's count, holes among it.
Missing(count, have) == {i \in 0..count - 1 : i \notin have}

\* count and the height, in parallel.
Counts ==
  /\ run.pc = "counting"
  /\ \E c, h \in Blocks!Served :
       run' = [run EXCEPT !.pc = "fetching", !.todo = Missing(Count(c), run.have), !.cutoff = Cutoff(Len(h))]
  /\ UNCHANGED <<tip, behindTip, store, ragged, mishaps>>

\* One record after the other; what is too close to the tip is withheld.
Fetches ==
  /\ run.pc = "fetching" /\ run.todo # {}
  /\ \E s \in Blocks!Served : \E r \in RecordsOf(s) :
       /\ r.id = Min(run.todo)
       /\ run' = [run EXCEPT !.todo = @ \ {r.id},
                             !.added = IF r.block > run.cutoff THEN @ ELSE Append(@, r)]
  /\ UNCHANGED <<tip, behindTip, store, ragged, mishaps>>

\* A node that does not have the record throws, and so does one that does not answer.
FetchThrows ==
  /\ run.pc = "fetching" /\ run.todo # {}
  /\ \E s \in Blocks!Served : Min(run.todo) >= Count(s)
  /\ run' = NoRun
  /\ UNCHANGED <<tip, behindTip, store, ragged, mishaps>>

\* What is appended to a line without an end becomes part of it, and neither parses.
Glued(lines) ==
  IF ragged THEN [store EXCEPT ![Len(store)] = Torn] \o Tail(lines) ELSE store \o lines

\* appendIndex: nothing to write is no write.
Appends ==
  /\ run.pc = "fetching" /\ run.todo = {}
  /\ run' = NoRun
  /\ IF run.added = <<>> THEN UNCHANGED <<store, ragged>>
     ELSE store' = Glued(run.added) /\ ragged' = FALSE
  /\ UNCHANGED <<tip, behindTip, mishaps>>

\* The process dies with some lines written and the next one in part, or whole but for its
\* line end.
DiesWriting ==
  /\ run.pc = "fetching" /\ run.todo = {} /\ run.added # <<>>
  /\ mishaps < MaxMishaps /\ mishaps' = mishaps + 1
  /\ \E k \in 1..Len(run.added) : \E last \in {Torn, run.added[k]} :
       store' = Glued(Append(SubSeq(run.added, 1, k - 1), last))
  /\ ragged' = TRUE /\ run' = NoRun
  /\ UNCHANGED <<tip, behindTip>>

\* It dies, or a read fails, before anything is written.
Dies ==
  /\ run.pc # "off" /\ mishaps < MaxMishaps /\ mishaps' = mishaps + 1
  /\ run' = NoRun
  /\ UNCHANGED <<tip, behindTip, store, ragged>>

IndexInit ==
  /\ Blocks!ReadsInit(<<>>)
  /\ store = <<>> /\ ragged = FALSE /\ run = NoRun /\ mishaps = 0

IndexNext ==
  \/ Grows \/ NodeFollows
  \/ Starts \/ Rebuilds \/ Counts \/ Fetches \/ FetchThrows \/ Appends \/ DiesWriting \/ Dies

\* The schedule starts a run whenever none is under way, a run goes on, and nodes catch up.
IndexFairness == WF_indexVars(NodeFollows) /\ WF_indexVars(Starts \/ Counts \/ Fetches \/ FetchThrows \/ Appends)

IndexSpec == IndexInit /\ [][IndexNext]_indexVars /\ IndexFairness

---------------------------------------------------------------------------
(* Properties.                                                             *)

\* Whatever was lost, torn, written twice or read from a node behind: no line of the file
\* says anything but what the chain says, and will go on saying, under that id.
TheIndexSaysWhatTheChainSays ==
  \A i \in DOMAIN store : store[i] = Torn \/ store[i] \in RecordsOf(tip)

Deep == {RecordIn(tip, b) : b \in {k \in Filled(tip) : k <= Cutoff(Len(tip))}}

\* A run that died, a torn line and the record lost with it are made good by later runs.
TheIndexCatchesUp == <>[](\A r \in Deep : r.id \in Ids(store))
=============================================================================
