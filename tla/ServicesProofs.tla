--------------------------- MODULE ServicesProofs ---------------------------
(*****************************************************************************)
(* The services beside the contracts, for any number of wallets, callers,    *)
(* keys, runs, bundles, machines and blocks: the snapshot follows its        *)
(* wallet, no caller outspends its rate, the handed-over contracts keep a    *)
(* publisher that has published and one Safe, where a decision's author was  *)
(* told its bundle is there it is, and the index says what the chain says.   *)
(*****************************************************************************)
EXTENDS WalletStore, Gate, Handover, Evidence, RegistryIndex, SequenceTheorems,
        FiniteSetTheorems, TLAPS

---------------------------------------------------------------------------
(* The wallet store.                                                       *)

\* What is known of a connect or a silent reconnect, and of the page.
Call == [pc : {"off", "accounts", "chain"}, got : Nat]
Snapshot == [connected : Wallets \cup {"none"}, address : Nat, chainId : ChainId \cup {"none"},
             connecting : BOOLEAN]

\* The page listens to the wallet it shows, and to no other; that is what makes the
\* properties inductive.
WalletInv ==
  /\ page.connected \in Wallets \cup {"none"} /\ bound \subseteq Wallets
  /\ page \in Snapshot
  /\ account \in [Wallets -> Nat] /\ chain \in [Wallets -> ChainId]
  /\ calls \in [Wallets \X Kinds -> Call]
  /\ page.connected # "none" =>
       /\ bound = {page.connected} /\ page.chainId = chain[page.connected]
       /\ raced \/ page.address = account[page.connected]
  /\ ADisconnectSurvivesTheReload

\* No wallet is called none.
NamedWallets == "none" \notin Extension

\* The invariant holds on the first page.
LEMMA WalletInitInv == ASSUME NamedWallets, WalletInit PROVE WalletInv
BY DEF WalletInit, WalletInv, Empty, NoCall, Call, Snapshot, ChainId, ADisconnectSurvivesTheReload

\* A call that goes on or fails leaves what the page shows.
LEMMA CallsInv ==
  ASSUME WalletInv, NEW w \in Wallets, NEW k \in Kinds,
         Connect(w) \/ Announce(w) \/ Accounts(w) \/ SilentAccounts(w) \/ CallFails(w, k)
  PROVE  WalletInv'
<1>1. /\ UNCHANGED <<account, chain, bound, remembered, raced, left>>
      /\ page' = page \/ \E b \in BOOLEAN : page' = [page EXCEPT !.connecting = b]
  BY DEF Connect, Announce, Accounts, SilentAccounts, CallFails, Outside, WalletInv
<1>2. calls' \in [Wallets \X Kinds -> Call]
  <2>1. \A c \in Kinds, call \in Call : Walk(w, c, call) => calls' \in [Wallets \X Kinds -> Call]
    BY DEF Walk, WalletInv
  <2>2. /\ NoCall \in Call /\ [NoCall EXCEPT !.pc = "accounts"] \in Call
        /\ [pc |-> "chain", got |-> account[w]] \in Call
    BY DEF NoCall, Call, WalletInv
  <2>3. \/ calls' = calls
        \/ \E c \in Kinds, call \in Call : Walk(w, c, call)
    BY <2>2 DEF Connect, Announce, Accounts, SilentAccounts, CallFails, Kinds
  <2>4. QED
    BY <2>1, <2>3 DEF WalletInv
<1>3. /\ page' \in Snapshot
      /\ page'.connected = page.connected /\ page'.address = page.address
      /\ page'.chainId = page.chainId
  BY <1>1 DEF WalletInv, Snapshot
<1>4. QED
  BY <1>1, <1>2, <1>3 DEF WalletInv, ADisconnectSurvivesTheReload

\* A call that ends binds the wallet it shows, and knows whether it was overtaken.
LEMMA ChainReadInv ==
  ASSUME NamedWallets, WalletInv, NEW w \in Wallets, NEW k \in Kinds, ChainRead(w, k)
  PROVE  WalletInv'
<1>1. calls[<<w, k>>] \in Call /\ chain[w] \in ChainId
  BY DEF WalletInv
<1>2. \E b \in BOOLEAN : page' = [connected |-> w, address |-> calls[<<w, k>>].got, chainId |-> chain[w],
                                  connecting |-> b]
  <2>1. (k # "connect" /\ page.connecting) \in BOOLEAN
    OBVIOUS
  <2>2. QED
    BY <2>1 DEF ChainRead
<1>3. /\ page' \in Snapshot
      /\ page'.connected = w /\ page'.address = calls[<<w, k>>].got /\ page'.chainId = chain[w]
  BY <1>1, <1>2 DEF Call, Snapshot
<1>4. /\ bound' = {w} /\ account' = account /\ chain' = chain
      /\ raced' \/ calls[<<w, k>>].got = account[w]
  BY DEF ChainRead, Bind, Outside
<1>5. left' => remembered' = "none"
  BY DEF ChainRead, Remembers, WalletInv, ADisconnectSurvivesTheReload
<1>6. calls' \in [Wallets \X Kinds -> Call]
  BY DEF ChainRead, Walk, NoCall, Call, WalletInv
<1>7. QED
  BY <1>3, <1>4, <1>5, <1>6 DEF WalletInv, ADisconnectSurvivesTheReload

\* The bound wallet's events reach the page, and no other's do.
LEMMA EventsInv ==
  ASSUME NamedWallets, WalletInv, NEW w \in Wallets, SwitchAccount(w) \/ SwitchChain(w)
  PROVE  WalletInv'
<1>1. UNCHANGED <<bound, remembered, calls, left>>
  BY DEF SwitchAccount, SwitchChain
<1>2. CASE SwitchAccount(w)
  <2>1. PICK a \in 0..2 \ {account[w]} :
          /\ account' = [account EXCEPT ![w] = a]
          /\ page' = IF w \notin bound THEN page
                     ELSE [page EXCEPT !.address = a, !.connected = IF a = 0 THEN "none" ELSE page.connected]
    BY <1>2 DEF SwitchAccount
  <2>2. chain' = chain /\ raced' = (raced /\ w \notin bound)
    BY <1>2 DEF SwitchAccount
  <2>3. account' \in [Wallets -> Nat] /\ \A v \in Wallets : account'[v] = IF v = w THEN a ELSE account[v]
    BY <2>1 DEF WalletInv
  <2>4. CASE w \notin bound
    BY <1>1, <2>1, <2>2, <2>3, <2>4 DEF WalletInv, ADisconnectSurvivesTheReload
  <2>5. CASE w \in bound
    <3>1. /\ page' \in Snapshot
          /\ page'.address = a /\ page'.chainId = page.chainId
          /\ page'.connected = IF a = 0 THEN "none" ELSE page.connected
      <4>1. page \in Snapshot /\ a \in Nat
        BY <2>1 DEF WalletInv
      <4>2. PICK c \in Wallets \cup {"none"} :
              c = (IF a = 0 THEN "none" ELSE page.connected) /\
              page' = [page EXCEPT !.address = a, !.connected = c]
        BY <2>1, <2>5, <4>1 DEF Snapshot
      <4>3. QED
        BY <4>1, <4>2 DEF Snapshot
    <3>2. QED
      BY <1>1, <2>2, <2>3, <2>5, <3>1 DEF WalletInv, ADisconnectSurvivesTheReload
  <2>6. QED
    BY <2>4, <2>5
<1>3. CASE SwitchChain(w)
  <2>1. PICK c \in ChainId \ {chain[w]} :
          /\ chain' = [chain EXCEPT ![w] = c]
          /\ page' = IF w \in bound THEN [page EXCEPT !.chainId = c] ELSE page
    BY <1>3 DEF SwitchChain
  <2>2. account' = account /\ raced' = raced
    BY <1>3 DEF SwitchChain
  <2>3. /\ page' \in Snapshot
        /\ page'.address = page.address /\ page'.connected = page.connected
        /\ page'.chainId = IF w \in bound THEN c ELSE page.chainId
    BY <2>1 DEF WalletInv, Snapshot
  <2>4. chain' \in [Wallets -> ChainId] /\ \A v \in Wallets : chain'[v] = IF v = w THEN c ELSE chain[v]
    BY <2>1 DEF WalletInv
  <2>5. QED
    BY <1>1, <2>2, <2>3, <2>4 DEF WalletInv, ADisconnectSurvivesTheReload
<1>4. QED
  BY <1>2, <1>3

\* Disconnecting and reloading keep the invariant.
LEMMA LeavingInv ==
  ASSUME WalletInv, Disconnect \/ Reload
  PROVE  WalletInv'
<1>1. page' \in Snapshot
      /\ page'.connected = "none"
  <2>1. CASE Disconnect
    <3>1. page.connecting \in BOOLEAN /\ page' = [Empty EXCEPT !.connecting = page.connecting]
      BY <2>1 DEF Disconnect, WalletInv, Snapshot
    <3>2. PICK b \in BOOLEAN : page' = [Empty EXCEPT !.connecting = b]
      BY <3>1
    <3>3. QED
      BY <3>2 DEF Empty, Snapshot
  <2>2. CASE Reload
    BY <2>2 DEF Reload, Empty, Snapshot
  <2>3. QED
    BY <2>1, <2>2
<1>2. calls' \in [Wallets \X Kinds -> Call]
  BY DEF Disconnect, Reload, NoCall, Call, WalletInv
<1>3. QED
  BY <1>1, <1>2 DEF Disconnect, Reload, Forget, WalletInv, ADisconnectSurvivesTheReload

\* Every step of the store keeps it.
LEMMA WalletNextInv ==
  ASSUME NamedWallets, WalletInv, [WalletNext]_walletVars
  PROVE  WalletInv'
<1>1. CASE UNCHANGED walletVars
  BY <1>1 DEF walletVars, WalletInv, ADisconnectSurvivesTheReload
<1>2. "connect" \in Kinds
  BY DEF Kinds
<1>3. QED
  BY <1>1, <1>2, CallsInv, ChainReadInv, EventsInv, LeavingInv DEF WalletNext

\* Whatever the wallets do while calls are under way, the page signs with the account and
\* on the chain of the wallet it shows (useWallet.ts).
THEOREM TheSnapshotFollowsItsWalletHolds ==
  ASSUME NamedWallets
  PROVE  WalletSpec => []TheSnapshotFollowsItsWallet
<1>1. WalletInit => WalletInv
  BY WalletInitInv, NamedWallets
<1>2. WalletInv /\ [WalletNext]_walletVars => WalletInv'
  BY WalletNextInv, NamedWallets
<1>3. WalletInv => TheSnapshotFollowsItsWallet
  BY DEF WalletInv, TheSnapshotFollowsItsWallet
<1>4. QED
  BY <1>1, <1>2, <1>3, PTL DEF WalletSpec

\* Disconnected is disconnected on the next load, too (useWallet.ts).
THEOREM ADisconnectSurvivesTheReloadHolds ==
  ASSUME NamedWallets
  PROVE  WalletSpec => []ADisconnectSurvivesTheReload
<1>1. WalletInit => WalletInv
  BY WalletInitInv, NamedWallets
<1>2. WalletInv /\ [WalletNext]_walletVars => WalletInv'
  BY WalletNextInv, NamedWallets
<1>3. WalletInv => ADisconnectSurvivesTheReload
  BY DEF WalletInv
<1>4. QED
  BY <1>1, <1>2, <1>3, PTL DEF WalletSpec

---------------------------------------------------------------------------
(* The gate.  What a caller has spent since it is watched and what it could *)
(* spend now never exceed a full bucket and what the time since refills: a *)
(* step moves tokens from the second to the first, and a bucket that is    *)
(* dropped was full already.                                               *)

\* The shape of the state the theorem speaks of.
GateShape ==
  /\ now \in Nat
  /\ buckets \in [Caller -> [tokens : 0 .. Burst, updatedAt : Int]]
  /\ \A c \in Caller : buckets[c].updatedAt <= now
  /\ window.since \in Nat /\ window.since <= now
  /\ window.spent \in Nat

\* What is spent and what is left are within what the watch allows.
Spendable ==
  \A c \in Caller :
    window.of = c => window.spent + Refilled(c) <= Burst + (now - window.since)

GateInv == GateShape /\ Spendable

\* What enter() finds in a bucket is between none and a full one.
LEMMA RefilledBound ==
  ASSUME GateShape, NEW c \in Caller
  PROVE  Refilled(c) \in 0 .. Burst
<1>1. Burst \in Nat /\ now \in Nat /\ buckets[c] \in [tokens : 0 .. Burst, updatedAt : Int]
      /\ buckets[c].updatedAt <= now
  BY GateAssumption DEF GateShape
<1>2. Bucket(c).tokens \in 0 .. Burst /\ Bucket(c).updatedAt \in Int /\ Bucket(c).updatedAt <= now
  BY <1>1 DEF Bucket
<1>3. QED
  BY <1>1, <1>2 DEF Refilled, Least

\* A call leaves the buckets in shape, and each caller what it had, but for the one who
\* calls, who has what the call stores.
LEMMA StoreKeeps ==
  ASSUME GateShape, NEW c \in Caller, NEW tokens \in 0 .. Burst, Store(c, tokens), now' = now
  PROVE  /\ buckets' \in [Caller -> [tokens : 0 .. Burst, updatedAt : Int]]
         /\ \A d \in Caller : buckets'[d].updatedAt <= now'
         /\ Refilled(c)' = tokens
         /\ \A d \in Caller \ {c} : Refilled(d)' = Refilled(d)
<1> USE GateAssumption
<1>1. now \in Nat /\ Burst \in Nat /\ EvictAfter \in Nat
  BY DEF GateShape
<1>2. \A d \in Caller : /\ buckets[d] \in [tokens : 0 .. Burst, updatedAt : Int]
                        /\ buckets[d].updatedAt <= now
  BY DEF GateShape
<1>3. NoBucket \in [tokens : 0 .. Burst, updatedAt : Int] /\ NoBucket.updatedAt = -1
      /\ NoBucket.tokens = Burst
  BY <1>1 DEF NoBucket
<1>4. /\ buckets'[c] = [tokens |-> tokens, updatedAt |-> now]
      /\ \A d \in Caller \ {c} : buckets'[d] = IF Swept(d) THEN NoBucket ELSE buckets[d]
      /\ buckets' \in [Caller -> [tokens : 0 .. Burst, updatedAt : Int]]
  BY <1>1, <1>2, <1>3 DEF Store
<1>5. \A d \in Caller : buckets'[d].updatedAt <= now'
  BY <1>1, <1>2, <1>3, <1>4
<1>6. Refilled(c)' = tokens
  <2>1. Bucket(c)' = [tokens |-> tokens, updatedAt |-> now]
    BY <1>1, <1>4 DEF Bucket, Swept
  <2>2. QED
    BY <2>1, <1>1 DEF Refilled, Least
<1>7. ASSUME NEW d \in Caller \ {c}
      PROVE  Refilled(d)' = Refilled(d)
  <2>1. CASE Swept(d)
    <3>1. Bucket(d) = [tokens |-> Burst, updatedAt |-> now]
      BY <2>1 DEF Bucket
    <3>2. Bucket(d)' = [tokens |-> Burst, updatedAt |-> now]
      BY <2>1, <1>3, <1>4 DEF Bucket
    <3>3. QED
      BY <3>1, <3>2 DEF Refilled
  <2>2. CASE ~Swept(d)
    <3>1. buckets'[d] = buckets[d]
      BY <2>2, <1>4
    <3>2. Bucket(d)' = Bucket(d)
      BY <3>1 DEF Bucket, Swept
    <3>3. QED
      BY <3>2 DEF Refilled
  <2>3. QED
    BY <2>1, <2>2
<1>8. QED
  BY <1>4, <1>5, <1>6, <1>7

\* A tick refills a bucket by one unit at most, dropped or not: one that is dropped had
\* been idle for longer than a bucket takes to fill.
LEMMA TickRefillsOne ==
  ASSUME GateShape, Passing, NEW c \in Caller
  PROVE  Refilled(c)' \in 0 .. Burst /\ Refilled(c)' <= Refilled(c) + 1
<1> USE GateAssumption
<1>1. /\ now \in Nat /\ now' = now + 1 /\ buckets' = buckets
      /\ Burst \in Nat /\ EvictAfter \in Nat /\ Burst <= EvictAfter
      /\ buckets[c] \in [tokens : 0 .. Burst, updatedAt : Int] /\ buckets[c].updatedAt <= now
  BY DEF GateShape, Passing
<1>2. Refilled(c)' \in 0 .. Burst
  <2>1. /\ Bucket(c)'.tokens \in 0 .. Burst /\ Bucket(c)'.updatedAt \in Int
        /\ Bucket(c)'.updatedAt <= now'
    BY <1>1 DEF Bucket
  <2>2. QED
    BY <2>1, <1>1 DEF Refilled, Least
<1>3. ASSUME buckets[c].updatedAt < 0 \/ Swept(c)
      PROVE  Refilled(c)' <= Refilled(c) + 1
  <2>1. Bucket(c) = [tokens |-> Burst, updatedAt |-> now]
    BY <1>3 DEF Bucket
  <2>2. Refilled(c) = Burst
    BY <2>1, <1>1 DEF Refilled, Least
  <2>3. QED
    BY <2>2, <1>2, <1>1, RefilledBound
<1>4. ASSUME buckets[c].updatedAt >= 0, ~Swept(c)
      PROVE  Refilled(c)' <= Refilled(c) + 1
  <2>1. Bucket(c) = buckets[c]
    BY <1>4, <1>1 DEF Bucket
  <2>2. Refilled(c) = Least(Burst, buckets[c].tokens + (now - buckets[c].updatedAt))
    BY <2>1 DEF Refilled
  <2>3. CASE Swept(c)'
    <3>1. now + 1 - buckets[c].updatedAt > EvictAfter
      BY <2>3, <1>1 DEF Swept
    <3>2. Refilled(c) = Burst
      BY <3>1, <2>2, <1>1 DEF Least
    <3>3. QED
      BY <3>2, <1>1, <1>2
  <2>4. CASE ~Swept(c)'
    <3>1. Bucket(c)' = buckets[c]
      BY <2>4, <1>4, <1>1 DEF Bucket
    <3>2. Refilled(c)' = Least(Burst, buckets[c].tokens + (now + 1 - buckets[c].updatedAt))
      BY <3>1, <1>1 DEF Refilled
    <3>3. QED
      BY <3>2, <2>2, <1>1 DEF Least
  <2>5. QED
    BY <2>3, <2>4
<1>5. QED
  BY <1>1, <1>2, <1>3, <1>4

\* A call that is refused moves nothing from what is left to what is spent.
LEMMA RefusedKeeps ==
  ASSUME GateInv, NEW c \in Caller, Store(c, Refilled(c)), UNCHANGED <<now, window>>
  PROVE  GateInv'
<1>1. Refilled(c) \in 0 .. Burst
  BY RefilledBound DEF GateInv
<1>2. /\ buckets' \in [Caller -> [tokens : 0 .. Burst, updatedAt : Int]]
      /\ \A d \in Caller : buckets'[d].updatedAt <= now'
      /\ \A d \in Caller : Refilled(d)' = Refilled(d)
  BY <1>1, StoreKeeps DEF GateInv
<1>3. GateShape'
  BY <1>2 DEF GateInv, GateShape
<1>4. Spendable'
  BY <1>2 DEF GateInv, Spendable
<1>5. QED
  BY <1>3, <1>4 DEF GateInv

\* The inductive invariant holds in every reachable state.
THEOREM Metered == GateSpec => []GateInv
<1> USE GateAssumption
<1>1. GateInit => GateInv
  <2> SUFFICES ASSUME GateInit PROVE GateInv
    OBVIOUS
  <2>1. GateShape
    BY DEF GateInit, GateShape, NoBucket, NoWindow
  <2>2. \A c \in Caller : Refilled(c) \in 0 .. Burst
    BY <2>1, RefilledBound
  <2>3. Spendable
    BY <2>2 DEF GateInit, Spendable, NoWindow
  <2>4. QED
    BY <2>1, <2>3 DEF GateInv
<1>2. GateInv /\ [GateNext]_gateVars => GateInv'
  <2> SUFFICES ASSUME GateInv, [GateNext]_gateVars PROVE GateInv'
    OBVIOUS
  <2>1. ASSUME NEW c \in Caller, RefusedForRate(c) \/ RefusedAsBusy(c) PROVE GateInv'
    BY <2>1, RefusedKeeps DEF RefusedForRate, RefusedAsBusy
  <2>2. ASSUME NEW c \in Caller, NEW r \in NextRequest, Passes(c, r) PROVE GateInv'
    <3>1. Refilled(c) \in 0 .. Burst /\ Refilled(c) >= Cost /\ Store(c, Refilled(c) - Cost)
          /\ now' = now /\ Cost \in Nat /\ Burst \in Nat
      BY <2>2, RefilledBound DEF Passes, GateInv
    <3>2. Refilled(c) - Cost \in 0 .. Burst
      BY <3>1
    <3>3. /\ buckets' \in [Caller -> [tokens : 0 .. Burst, updatedAt : Int]]
          /\ \A d \in Caller : buckets'[d].updatedAt <= now'
          /\ Refilled(c)' = Refilled(c) - Cost
          /\ \A d \in Caller \ {c} : Refilled(d)' = Refilled(d)
      BY <3>1, <3>2, StoreKeeps DEF GateInv
    <3>4. /\ window'.of = window.of /\ window'.since = window.since
          /\ window'.spent = IF window.of = c THEN window.spent + Cost ELSE window.spent
      BY <2>2 DEF Passes, Spend
    <3>5. GateShape'
      BY <3>1, <3>3, <3>4 DEF GateInv, GateShape
    <3>6. ASSUME NEW d \in Caller, window'.of = d
          PROVE  window'.spent + Refilled(d)' <= Burst + (now' - window'.since)
      <4>1. window.spent + Refilled(d) <= Burst + (now - window.since)
        BY <3>4, <3>6 DEF GateInv, Spendable
      <4>2. window.spent \in Nat /\ window.since \in Nat /\ now \in Nat
        BY DEF GateInv, GateShape
      <4>3. QED
        BY <3>1, <3>3, <3>4, <3>6, <4>1, <4>2
    <3>7. QED
      BY <3>5, <3>6 DEF GateInv, Spendable
  <2>3. ASSUME NEW c \in Caller, Watch(c) PROVE GateInv'
    <3>1. /\ window' = [of |-> c, since |-> now, spent |-> 0]
          /\ now' = now /\ buckets' = buckets /\ now \in Nat
      BY <2>3 DEF Watch, GateInv, GateShape
    <3>2. GateShape'
      BY <3>1 DEF GateInv, GateShape
    <3>3. \A d \in Caller : Refilled(d)' \in 0 .. Burst
      <4>1. \A d \in Caller : Refilled(d)' = Refilled(d)
        BY <3>1 DEF Refilled, Bucket, Swept
      <4>2. QED
        BY <4>1, RefilledBound DEF GateInv
    <3>4. Spendable'
      BY <3>1, <3>3 DEF Spendable
    <3>5. QED
      BY <3>2, <3>4 DEF GateInv
  <2>4. ASSUME NEW r \in Request, Release(r) PROVE GateInv'
    BY <2>4 DEF Release, GateInv, GateShape, Spendable, Refilled, Bucket, Swept
  <2>5. CASE Passing
    <3>1. now' = now + 1 /\ buckets' = buckets /\ window' = window /\ now \in Nat
      BY <2>5 DEF Passing, GateInv, GateShape
    <3>2. GateShape'
      BY <3>1 DEF GateInv, GateShape
    <3>3. ASSUME NEW d \in Caller, window'.of = d
          PROVE  window'.spent + Refilled(d)' <= Burst + (now' - window'.since)
      <4>1. window.spent + Refilled(d) <= Burst + (now - window.since)
        BY <3>1, <3>3 DEF GateInv, Spendable
      <4>2. /\ Refilled(d)' \in 0 .. Burst /\ Refilled(d)' <= Refilled(d) + 1
            /\ Refilled(d) \in 0 .. Burst
        BY <2>5, TickRefillsOne, RefilledBound DEF GateInv
      <4>3. window.spent \in Nat /\ window.since \in Nat /\ Burst \in Nat
        BY DEF GateInv, GateShape
      <4>4. QED
        BY <3>1, <4>1, <4>2, <4>3
    <3>4. QED
      BY <3>2, <3>3 DEF GateInv, Spendable
  <2>6. CASE UNCHANGED gateVars
    BY <2>6 DEF gateVars, GateInv, GateShape, Spendable, Refilled, Bucket, Swept
  <2>7. QED
    BY <2>1, <2>2, <2>3, <2>4, <2>5, <2>6 DEF GateNext, Enter
<1>3. QED
  BY <1>1, <1>2, PTL DEF GateSpec

\* Whatever a caller does, it is let through in any stretch of time no more than a full
\* bucket and what that stretch refills.
THEOREM NoCallerOutspendsItsRateHolds == GateSpec => []NoCallerOutspendsItsRate
<1>1. GateInv => NoCallerOutspendsItsRate
  <2> SUFFICES ASSUME GateInv, window.of \in Caller
               PROVE  window.spent <= Burst + (now - window.since)
    BY DEF NoCallerOutspendsItsRate
  <2>1. window.spent + Refilled(window.of) <= Burst + (now - window.since)
    BY DEF GateInv, Spendable
  <2>2. Refilled(window.of) \in 0 .. Burst
    BY RefilledBound DEF GateInv
  <2>3. QED
    BY <2>1, <2>2, GateAssumption DEF GateInv, GateShape
<1>2. QED
  BY <1>1, Metered, PTL

\* The passes that are held.
HeldPasses == {r \in Request : passes[r] = "held"}

\* What is inductive also knows that every request has a pass or none.
SlotsInv ==
  /\ DOMAIN passes = Request
  /\ IsFiniteSet(HeldPasses) /\ inFlight = Cardinality(HeldPasses)

\* However often a pass is given back, and whoever never gives one back, the slots that count
\* as taken are those of the passes that are held.
THEOREM SlotsAreOfPassesHolds == GateSpec => []SlotsAreOfPasses
<1>1. GateInit => SlotsInv
  BY FS_EmptySet DEF GateInit, SlotsInv, HeldPasses
<1>2. SlotsInv /\ [GateNext]_gateVars => SlotsInv'
  <2> SUFFICES ASSUME SlotsInv, [GateNext]_gateVars PROVE SlotsInv'
    OBVIOUS
  <2>1. Cardinality(HeldPasses) \in Nat
    BY FS_CardinalityType DEF SlotsInv
  <2>2. ASSUME NEW c \in Caller, NEW r \in NextRequest, Passes(c, r) PROVE SlotsInv'
    <3>1. r \in Request /\ r \notin HeldPasses /\ inFlight' = inFlight + 1
          /\ passes' = [passes EXCEPT ![r] = "held"]
      BY <2>2 DEF Passes, NextRequest, HeldPasses
    <3>2. HeldPasses' = HeldPasses \cup {r} /\ DOMAIN passes' = Request
      BY <3>1 DEF SlotsInv, HeldPasses
    <3>3. QED
      BY <3>1, <3>2, FS_AddElement DEF SlotsInv
  <2>3. ASSUME NEW r \in Request, Release(r) PROVE SlotsInv'
    <3>1. passes' = [passes EXCEPT ![r] = "released"]
          /\ inFlight' = IF passes[r] = "held" THEN inFlight - 1 ELSE inFlight
      BY <2>3 DEF Release
    <3>2. HeldPasses' = HeldPasses \ {r} /\ DOMAIN passes' = Request
          /\ (r \in HeldPasses <=> passes[r] = "held")
      BY <3>1 DEF SlotsInv, HeldPasses
    <3>3. QED
      BY <3>1, <3>2, FS_RemoveElement DEF SlotsInv
  <2>4. CASE UNCHANGED <<passes, inFlight>>
    BY <2>4 DEF SlotsInv, HeldPasses
  <2>5. QED
    BY <2>2, <2>3, <2>4
    DEF GateNext, Enter, RefusedForRate, RefusedAsBusy, Watch, Passing, gateVars
<1>3. SlotsInv => SlotsAreOfPasses
  BY DEF SlotsInv, SlotsAreOfPasses, HeldPasses
<1>4. QED
  BY <1>1, <1>2, <1>3, PTL DEF GateSpec

---------------------------------------------------------------------------
(* The handover.  What its promises rest on is what a script has confirmed *)
(* by the time it sends a step, and that the step may land at any time     *)
(* after, when it is still true.                                           *)

Step == {"grant", "probe", "revoke", "deploy", "oracle", "receipts", "fees", "act", "return"}
Account == {Deployer} \cup Key

HandoverShape ==
  /\ head \in Roles /\ behind \in Roles /\ runs \in Nat
  /\ script \in [program : {"none", "handover", "prove"}, step : Nat,
                 phase : {"off", "send", "receipt", "confirm"}, key : Account, safe : Safe]
  /\ script.program = "handover" => script.step \in 1..7
  /\ script.program = "prove" => script.step \in 1..4
  /\ pending \subseteq [step : Step, run : Nat, key : Account, safe : Safe, from : Account]

\* A key other than the deployer's has published.
Shown == head.published \cap Key # {}

\* The old publisher is given up only once another was shown to work, and is not when no
\* revocation is under way.
Proven ==
  /\ Deployer \in head.published
  /\ head.published \cap Key \subseteq head.publishers
  /\ behind.published \subseteq head.published
  /\ Deployer \notin head.publishers => Shown
  /\ \A tx \in pending : tx.step = "revoke" => Shown
  /\ script.program = "handover" /\ script.step > 2 => Shown

\* The oracle is with that Safe, and for good.
Handed(safe) == ~safe.ephemeral /\ head.admin["oracle"] = safe

\* The oracle goes first, and what follows goes where the oracle is.
OneSafe ==
  /\ behind.admin["oracle"] \in Safe /\ ~behind.admin["oracle"].ephemeral
       => head.admin["oracle"] = behind.admin["oracle"]
  /\ \A c \in {"receipts", "fees"} : head.admin[c] # Deployer => Handed(head.admin[c])
  /\ script.program = "handover" =>
       ~script.safe.ephemeral /\ (script.step > 5 => Handed(script.safe))
  /\ script.program = "prove" => script.safe.ephemeral
  /\ \A tx \in pending : /\ tx.step \in {"receipts", "fees"} => Handed(tx.safe)
                         /\ tx.step \in {"act", "return"} => tx.safe.ephemeral

HandoverInv == HandoverShape /\ Proven /\ OneSafe

\* The deployer is a key of its own, and an account rather than a Safe.
DeployerIsAKey == Deployer \notin Key /\ Deployer \notin Safe
---------------------------------------------------------------------------
\* Nothing has been handed over to begin with.
LEMMA InitInv == ASSUME DeployerIsAKey, HandoverInit PROVE HandoverInv
<1> USE DEF HandoverInit, ReadsInit
<1>1. HandoverShape
  BY DEF HandoverShape, Roles, NoScript, SafeOf, Safe, Account, Contract
<1>2. Proven
  BY DEF Proven, DeployerIsAKey, NoScript
<1>3. OneSafe
  BY DEF OneSafe, DeployerIsAKey, NoScript, Contract
<1>4. QED
  BY <1>1, <1>2, <1>3 DEF HandoverInv

\* Which steps a script does where.
LEMMA WhatIsDone ==
  ASSUME HandoverShape, Running
  PROVE  /\ Doing \in Step
         /\ Doing = "revoke" => script.program = "handover" /\ script.step = 3
         /\ Doing \in {"receipts", "fees"} => script.program = "handover" /\ script.step > 5
         /\ Doing \in {"act", "return"} => script.program = "prove"
         /\ script.program = "handover" /\ script.step = 2 => Doing = "probe"
         /\ script.program = "handover" /\ script.step = 5 => Doing = "oracle"
         /\ Len(Steps(script.program)) = IF script.program = "handover" THEN 7 ELSE 4
<1>1. script.program \in {"handover", "prove"}
  BY DEF HandoverShape, Running
<1>2. CASE script.program = "handover"
  <2>1. script.step \in {1, 2, 3, 4, 5, 6, 7}
    BY <1>2 DEF HandoverShape
  <2>2. Steps(script.program) = <<"grant", "probe", "revoke", "deploy", "oracle", "receipts", "fees">>
    BY <1>2 DEF Steps
  <2>3. QED
    BY <1>2, <2>1, <2>2 DEF Doing, Step
<1>3. CASE script.program = "prove"
  <2>1. script.step \in {1, 2, 3, 4}
    BY <1>3 DEF HandoverShape
  <2>2. Steps(script.program) = <<"deploy", "oracle", "act", "return">>
    BY <1>3 DEF Steps
  <2>3. QED
    BY <1>3, <2>1, <2>2 DEF Doing, Step
<1>4. QED
  BY <1>1, <1>2, <1>3

---------------------------------------------------------------------------
(* The scripts.                                                            *)

\* A script that begins, stops or waits changes nothing on the chain; where it gets to is
\* for the caller to show.
LEMMA ScriptMovesInv ==
  ASSUME HandoverInv, UNCHANGED <<head, behind, pending>>, runs' \in Nat,
         script' \in [program : {"none", "handover", "prove"}, step : Nat,
                      phase : {"off", "send", "receipt", "confirm"}, key : Account, safe : Safe],
         script'.program = "handover" =>
           /\ script'.step \in 1..7 /\ ~script'.safe.ephemeral
           /\ script'.step > 2 => Shown
           /\ script'.step > 5 => Handed(script'.safe),
         script'.program = "prove" => script'.step \in 1..4 /\ script'.safe.ephemeral
  PROVE  HandoverInv'
<1>1. HandoverShape'
  BY DEF HandoverInv, HandoverShape
<1>2. Proven'
  BY DEF HandoverInv, Proven, Shown
<1>3. OneSafe'
  BY DEF HandoverInv, OneSafe, Handed
<1>4. QED
  BY <1>1, <1>2, <1>3 DEF HandoverInv

\* The Safe of a run is its own, and safe:prove's are the ephemeral ones.
LEMMA SafeOfIs ==
  ASSUME NEW r \in Nat
  PROVE  /\ SafeOf(r, "handover") \in Safe /\ ~SafeOf(r, "handover").ephemeral
         /\ SafeOf(r, "prove") \in Safe /\ SafeOf(r, "prove").ephemeral
<1>1. ASSUME NEW b \in BOOLEAN
      PROVE  [run |-> r, ephemeral |-> b] \in Safe /\ [run |-> r, ephemeral |-> b].ephemeral = b
  BY DEF Safe
<1>2. SafeOf(r, "handover") = [run |-> r, ephemeral |-> FALSE]
  <2>1. ("handover" = "prove") = FALSE
    OBVIOUS
  <2>2. QED
    BY <2>1 DEF SafeOf
<1>3. SafeOf(r, "prove") = [run |-> r, ephemeral |-> TRUE]
  <2>1. ("prove" = "prove") = TRUE
    OBVIOUS
  <2>2. QED
    BY <2>1 DEF SafeOf
<1>4. QED
  BY <1>1, <1>2, <1>3

\* Starting the handover script keeps the invariant.
LEMMA StartHandoverInv == ASSUME HandoverInv, StartHandover PROVE HandoverInv'
<1>1. PICK k \in Key : \E safe \in {SafeOf(runs + 1, "handover")} \cup {s \in head.safes : ~s.ephemeral} :
        script' = [program |-> "handover", step |-> 1, phase |-> "send", key |-> k, safe |-> safe]
  BY DEF StartHandover
<1>2. PICK safe \in {SafeOf(runs + 1, "handover")} \cup {s \in head.safes : ~s.ephemeral} :
        script' = [program |-> "handover", step |-> 1, phase |-> "send", key |-> k, safe |-> safe]
  BY <1>1
<1>3. safe \in Safe /\ ~safe.ephemeral /\ runs' \in Nat
  <2>1. runs \in Nat /\ runs + 1 \in Nat /\ runs' = runs + 1 /\ head.safes \subseteq Safe
    BY DEF StartHandover, HandoverInv, HandoverShape, Roles
  <2>2. QED
    BY <1>2, <2>1, SafeOfIs
<1>4. QED
  BY <1>2, <1>3, ScriptMovesInv DEF StartHandover, Account

\* Starting the proof script keeps it.
LEMMA StartProveInv == ASSUME HandoverInv, StartProve PROVE HandoverInv'
<1>1. SafeOf(runs + 1, "prove") \in Safe /\ SafeOf(runs + 1, "prove").ephemeral /\ runs' \in Nat
  <2>1. runs + 1 \in Nat /\ runs' = runs + 1
    BY DEF StartProve, HandoverInv, HandoverShape
  <2>2. QED
    BY <2>1, SafeOfIs
<1>2. script' = [program |-> "prove", step |-> 1, phase |-> "send", key |-> Deployer,
                 safe |-> SafeOf(runs + 1, "prove")]
  BY DEF StartProve
<1>3. QED
  BY <1>1, <1>2, ScriptMovesInv DEF StartProve, Account

\* A receipt, or a Safe that is there already: on to the confirmation of the same step.
LEMMA PhaseInv == ASSUME HandoverInv, Receipt \/ Reuse PROVE HandoverInv'
<1>1. script' = [script EXCEPT !.phase = "confirm"] /\ UNCHANGED <<head, behind, pending, runs>>
  BY DEF Receipt, Reuse
<1>2. QED
  BY <1>1, ScriptMovesInv DEF HandoverInv, HandoverShape, Proven, OneSafe

\* A script that stops, wherever it is.
LEMMA ScriptStopsInv == ASSUME HandoverInv, ScriptStops PROVE HandoverInv'
<1>1. script' = NoScript /\ UNCHANGED <<head, behind, pending, runs>>
  BY DEF ScriptStops
<1>2. NoScript \in [program : {"none", "handover", "prove"}, step : Nat,
                    phase : {"off", "send", "receipt", "confirm"}, key : Account, safe : Safe]
      /\ NoScript.program = "none"
  BY DEF NoScript, SafeOf, Safe, Account
<1>3. QED
  BY <1>1, <1>2, ScriptMovesInv DEF HandoverInv, HandoverShape

\* A step that is confirmed took effect: who published did so for good, and so is the Safe
\* that has the oracle.
LEMMA ConfirmStepInv == ASSUME DeployerIsAKey, HandoverInv, ConfirmStep PROVE HandoverInv'
<1>1. CASE script.step = Len(Steps(script.program))
  <2>1. ScriptStops
    BY <1>1 DEF ConfirmStep, ScriptStops
  <2>2. QED
    BY <2>1, ScriptStopsInv
<1>2. CASE script.step # Len(Steps(script.program))
  <2>1. Running /\ UNCHANGED <<head, behind, pending, runs>>
        /\ script' = [script EXCEPT !.step = @ + 1, !.phase = "send"]
    BY <1>2 DEF ConfirmStep
  <2>2. PICK s \in {head, behind} : Shows(Doing, s)
    BY DEF ConfirmStep, Served
  <2>3. script.program = "handover" /\ script.step = 2 => Shown
    <3>1. SUFFICES ASSUME script.program = "handover", script.step = 2
                   PROVE  Shown
      OBVIOUS
    <3>2. Doing = "probe"
      BY <3>1, <2>1, WhatIsDone DEF HandoverInv
    <3>3. s.published \cap Key # {}
      BY <3>2, <2>2 DEF Shows, Contract
    <3>4. QED
      BY <3>3 DEF HandoverInv, Proven, Shown
  <2>4. script.program = "handover" /\ script.step = 5 => Handed(script.safe)
    <3>1. SUFFICES ASSUME script.program = "handover", script.step = 5
                   PROVE  Handed(script.safe)
      OBVIOUS
    <3>2. s.admin["oracle"] = script.safe
      BY <3>1, <2>1, <2>2, WhatIsDone DEF HandoverInv, Shows, Contract
    <3>3. QED
      BY <3>1, <3>2 DEF HandoverInv, HandoverShape, OneSafe, Handed
  <2>5. script.program \in {"handover", "prove"}
    BY <2>1 DEF HandoverInv, HandoverShape, Running
  <2>6. script.step + 1 \in 1..(IF script.program = "handover" THEN 7 ELSE 4)
    BY <1>2, <2>1, <2>5, WhatIsDone DEF HandoverInv, HandoverShape
  <2>7. script'.program = "handover" =>
           /\ script'.step \in 1..7 /\ ~script'.safe.ephemeral
           /\ script'.step > 2 => Shown
           /\ script'.step > 5 => Handed(script'.safe)
    BY <2>1, <2>3, <2>4, <2>6 DEF HandoverInv, HandoverShape, Proven, OneSafe
  <2>8. script'.program = "prove" => script'.step \in 1..4 /\ script'.safe.ephemeral
    BY <2>1, <2>6 DEF HandoverInv, HandoverShape, OneSafe
  <2>9. script' \in [program : {"none", "handover", "prove"}, step : Nat,
                      phase : {"off", "send", "receipt", "confirm"}, key : Account, safe : Safe]
    <3>1. script \in [program : {"none", "handover", "prove"}, step : Nat,
                      phase : {"off", "send", "receipt", "confirm"}, key : Account, safe : Safe]
      BY DEF HandoverInv, HandoverShape
    <3>2. script.step + 1 \in Nat
      BY <3>1
    <3>3. script' = [[script EXCEPT !.step = script.step + 1] EXCEPT !.phase = "send"]
      BY <2>1, <3>1
    <3>4. QED
      BY <3>1, <3>2, <3>3
  <2>10. runs' \in Nat
    BY <2>1 DEF HandoverInv, HandoverShape
  <2>11. QED
    BY <2>1, <2>7, <2>8, <2>9, <2>10, ScriptMovesInv
<1>3. QED
  BY <1>1, <1>2

\* What is sent is what the script has come to, and it knows what that takes.
LEMMA SendInv == ASSUME HandoverInv, Send PROVE HandoverInv'
<1> DEFINE tx == Tx(Doing)
<1>1. Running /\ UNCHANGED <<head, behind, runs>> /\ pending' = pending \cup {tx}
      /\ script' = [script EXCEPT !.phase = "receipt"]
  BY DEF Send
<1>2. tx \in [step : Step, run : Nat, key : Account, safe : Safe, from : Account]
      /\ tx.step = Doing /\ tx.safe = script.safe
  BY <1>1, WhatIsDone DEF Tx, HandoverInv, HandoverShape, Account
<1>3. /\ tx.step = "revoke" => Shown
      /\ tx.step \in {"receipts", "fees"} => Handed(tx.safe)
      /\ tx.step \in {"act", "return"} => tx.safe.ephemeral
  BY <1>1, <1>2, WhatIsDone DEF HandoverInv, Proven, OneSafe
<1> HIDE DEF tx
<1>4. HandoverShape'
  BY <1>1, <1>2 DEF HandoverInv, HandoverShape
<1>5. Proven'
  BY <1>1, <1>3 DEF HandoverInv, HandoverShape, Proven, Shown
<1>6. OneSafe'
  BY <1>1, <1>3 DEF HandoverInv, HandoverShape, OneSafe, Handed
<1>7. QED
  BY <1>4, <1>5, <1>6 DEF HandoverInv

---------------------------------------------------------------------------
(* The chain.                                                              *)

\* What a transaction does to the roles: publishers that have published stay unless the
\* deployer is revoked, the oracle's Safe stays, and another contract follows it.
LEMMA EffectIs ==
  ASSUME DeployerIsAKey, HandoverInv, NEW tx \in pending, Valid(tx, head)
  PROVE  LET new == Effect(tx, head) IN
         /\ new \in Roles
         /\ head.published \subseteq new.published
         /\ new.published \cap Key \subseteq new.publishers
         /\ Deployer \notin new.publishers => Deployer \notin head.publishers \/ tx.step = "revoke"
         /\ \A safe \in Safe : Handed(safe) => new.admin["oracle"] = safe
         /\ \A c \in {"receipts", "fees"} :
              new.admin[c] = head.admin[c] \/ (Handed(tx.safe) /\ new.admin[c] = tx.safe)
<1>1. /\ tx.step \in Step /\ tx.key \in Account /\ tx.safe \in Safe
      /\ head \in Roles /\ head.published \cap Key \subseteq head.publishers
  BY DEF HandoverInv, HandoverShape, Proven
<1>2. /\ tx.step \in {"receipts", "fees"} => Handed(tx.safe)
      /\ tx.step \in {"act", "return"} => tx.safe.ephemeral
  BY DEF HandoverInv, OneSafe
<1>3. CASE tx.step = "grant"
  <2>1. Effect(tx, head) = [head EXCEPT !.publishers = @ \cup {tx.key}]
    BY <1>3 DEF Effect, Contract
  <2>2. QED
    BY <1>1, <2>1 DEF Roles, Account, Handed
<1>4. CASE tx.step = "probe"
  <2>1. Effect(tx, head) = [head EXCEPT !.published = @ \cup {tx.key}] /\ tx.key \in head.publishers
    BY <1>4 DEF Effect, Valid, Contract
  <2>2. QED
    BY <1>1, <2>1 DEF Roles, Account, Handed
<1>5. CASE tx.step = "revoke"
  <2>1. Effect(tx, head) = [head EXCEPT !.publishers = @ \ {Deployer}]
    BY <1>5 DEF Effect, Contract
  <2>2. QED
    BY <1>1, <1>5, <2>1 DEF Roles, Account, Handed, DeployerIsAKey
<1>6. CASE tx.step = "deploy"
  <2>1. Effect(tx, head) = [head EXCEPT !.safes = @ \cup {tx.safe}]
    BY <1>6 DEF Effect, Contract
  <2>2. QED
    BY <1>1, <2>1 DEF Roles, Handed
<1>7. CASE tx.step \in Contract
  <2>1. Effect(tx, head) = [head EXCEPT !.admin[tx.step] = tx.safe]
    BY <1>7 DEF Effect, Contract
  <2>2. head.admin[tx.step] = Deployer
    BY <1>7 DEF Valid, Contract
  <2>3. [head.admin EXCEPT ![tx.step] = tx.safe] \in [Contract -> {Deployer} \cup Safe]
    BY <1>1, <1>7 DEF Roles
  <2>4. Effect(tx, head) = [head EXCEPT !.admin = [head.admin EXCEPT ![tx.step] = tx.safe]]
    BY <2>1
  <2>5. QED
    BY <1>1, <1>2, <1>7, <2>2, <2>3, <2>4 DEF Roles, Handed, DeployerIsAKey, Contract
<1>8. CASE tx.step = "act"
  BY <1>1, <1>8 DEF Effect, Contract, Handed
<1>9. CASE tx.step = "return"
  <2>1. Effect(tx, head) = [head EXCEPT !.admin = [head.admin EXCEPT !["oracle"] = Deployer]]
    BY <1>9 DEF Effect, Contract
  <2>2. head.admin["oracle"] = tx.safe /\ tx.safe.ephemeral
    BY <1>2, <1>9 DEF Valid, Contract
  <2>3. [head.admin EXCEPT !["oracle"] = Deployer] \in [Contract -> {Deployer} \cup Safe]
    BY <1>1 DEF Roles
  <2>4. QED
    BY <1>1, <2>1, <2>2, <2>3 DEF Roles, Handed, Contract
<1>10. QED
  BY <1>1, <1>3, <1>4, <1>5, <1>6, <1>7, <1>8, <1>9 DEF Step, Contract

\* A transaction is mined, whoever still waits for it.
LEMMA MineRoleInv == ASSUME DeployerIsAKey, HandoverInv, MineRole PROVE HandoverInv'
<1>1. PICK tx \in pending :
        /\ pending' = pending \ {tx}
        /\ IF Valid(tx, head) THEN Land(Effect(tx, head)) ELSE UNCHANGED <<head, behind>>
        /\ UNCHANGED <<target, script, runs>>
  BY DEF MineRole
<1>2. CASE Valid(tx, head)
  <2>1. head' = Effect(tx, head) /\ behind' = behind
    BY <1>1, <1>2 DEF Land
  <2>2. /\ head' \in Roles
        /\ head.published \subseteq head'.published
        /\ head'.published \cap Key \subseteq head'.publishers
        /\ Deployer \notin head'.publishers => Deployer \notin head.publishers \/ tx.step = "revoke"
        /\ \A safe \in Safe : Handed(safe) => head'.admin["oracle"] = safe
        /\ \A c \in {"receipts", "fees"} :
             head'.admin[c] = head.admin[c] \/ (Handed(tx.safe) /\ head'.admin[c] = tx.safe)
    BY <1>2, <2>1, EffectIs
  <2>3. Shown => Shown'
    BY <2>2 DEF Shown
  <2>4. \A safe \in Safe : Handed(safe) => Handed(safe)'
    BY <2>2 DEF Handed
  <2>5. HandoverShape'
    BY <1>1, <2>1, <2>2 DEF HandoverInv, HandoverShape
  <2>6. Proven'
    BY <1>1, <2>1, <2>2, <2>3 DEF HandoverInv, Proven
  <2>7. OneSafe'
    <3>1. tx.safe \in Safe /\ script.safe \in Safe /\ \A u \in pending : u.safe \in Safe
      BY DEF HandoverInv, HandoverShape
    <3>2. \A c \in {"receipts", "fees"} : head'.admin[c] # Deployer =>
            ~head'.admin[c].ephemeral /\ head'.admin["oracle"] = head'.admin[c]
      <4>1. ASSUME NEW c \in {"receipts", "fees"}, head'.admin[c] # Deployer
            PROVE  ~head'.admin[c].ephemeral /\ head'.admin["oracle"] = head'.admin[c]
        <5>1. CASE head'.admin[c] = head.admin[c]
          <6>1. head.admin[c] \in Safe /\ Handed(head.admin[c])
            BY <4>1, <5>1 DEF HandoverInv, HandoverShape, Roles, OneSafe, Contract
          <6>2. head'.admin["oracle"] = head.admin[c] /\ ~head.admin[c].ephemeral
            BY <6>1, <2>2 DEF Handed
          <6>3. QED
            BY <5>1, <6>2
        <5>2. CASE Handed(tx.safe) /\ head'.admin[c] = tx.safe
          <6>1. head'.admin["oracle"] = tx.safe /\ ~tx.safe.ephemeral
            BY <5>2, <2>2, <3>1 DEF Handed
          <6>2. QED
            BY <5>2, <6>1
        <5>3. QED
          BY <4>1, <2>2, <5>1, <5>2
      <4>2. QED
        BY <4>1
    <3>3. behind'.admin["oracle"] \in Safe /\ ~behind'.admin["oracle"].ephemeral
            => head'.admin["oracle"] = behind'.admin["oracle"]
      BY <2>1, <2>2 DEF HandoverInv, OneSafe, Handed
    <3>4. QED
      <4>1. \A u \in pending' : /\ u.step \in {"receipts", "fees"} => Handed(u.safe)'
                                /\ u.step \in {"act", "return"} => u.safe.ephemeral
        BY <1>1, <2>4, <3>1 DEF HandoverInv, OneSafe
      <4>2. script'.program = "handover" =>
              ~script'.safe.ephemeral /\ (script'.step > 5 => Handed(script.safe)')
        BY <1>1, <2>4, <3>1 DEF HandoverInv, OneSafe
      <4>3. script'.program = "prove" => script'.safe.ephemeral
        BY <1>1 DEF HandoverInv, OneSafe
      <4>4. QED
        BY <1>1, <3>2, <3>3, <4>1, <4>2, <4>3 DEF OneSafe, Handed
  <2>8. QED
    BY <2>5, <2>6, <2>7 DEF HandoverInv
<1>3. CASE ~Valid(tx, head)
  BY <1>1, <1>3 DEF HandoverInv, HandoverShape, Proven, Shown, OneSafe, Handed
<1>4. QED
  BY <1>2, <1>3

---------------------------------------------------------------------------
\* Every step keeps the invariant.
LEMMA NextInv ==
  ASSUME DeployerIsAKey, HandoverInv, [HandoverNext]_handoverVars
  PROVE  HandoverInv'
<1>1. CASE UNCHANGED handoverVars
  BY <1>1 DEF handoverVars, HandoverInv, HandoverShape, Proven, Shown, OneSafe, Handed
<1>2. CASE RolesSync
  <2>1. behind' = head /\ UNCHANGED <<head, script, pending, runs>>
    BY <1>2 DEF RolesSync, Sync
  <2>2. QED
    BY <2>1 DEF HandoverInv, HandoverShape, Proven, Shown, OneSafe, Handed
<1>3. QED
  BY <1>1, <1>2, StartHandoverInv, StartProveInv, SendInv, PhaseInv, MineRoleInv, ConfirmStepInv,
     ScriptStopsInv DEF HandoverNext

\* In every reachable state, what the scripts rely on is so.
THEOREM Careful == ASSUME DeployerIsAKey PROVE HandoverSpec => []HandoverInv
<1>1. HandoverInit => HandoverInv
  BY InitInv, DeployerIsAKey
<1>2. HandoverInv /\ [HandoverNext]_handoverVars => HandoverInv'
  BY NextInv, DeployerIsAKey
<1>3. QED
  BY <1>1, <1>2, PTL DEF HandoverSpec

\* However the scripts stop and are run again, and with whatever keys, some account that
\* may publish has published (handover.ts 9-18).
THEOREM TheOracleKeepsAProvenPublisherHolds ==
  ASSUME DeployerIsAKey
  PROVE  HandoverSpec => []TheOracleKeepsAProvenPublisher
<1>1. HandoverInv => TheOracleKeepsAProvenPublisher
  BY DEF HandoverInv, Proven, Shown, TheOracleKeepsAProvenPublisher
<1>2. QED
  BY <1>1, Careful, DeployerIsAKey, PTL

\* No two contracts end under different Safes, however often handover makes one
\* (handover.ts 75-89, 165-182).
THEOREM AdminsAreNeverSplitHolds ==
  ASSUME DeployerIsAKey
  PROVE  HandoverSpec => []AdminsAreNeverSplit
<1>1. HandoverInv => AdminsAreNeverSplit
  <2>1. SUFFICES ASSUME HandoverInv, NEW c \in Contract, NEW d \in Contract,
                        head.admin[c] # Deployer, head.admin[d] # Deployer
                 PROVE  head.admin[c] = head.admin[d]
    BY DEF AdminsAreNeverSplit
  <2>2. \A e \in Contract : head.admin[e] # Deployer =>
          head.admin[e] = head.admin["oracle"]
    BY <2>1 DEF HandoverInv, OneSafe, Handed, Contract
  <2>3. QED
    BY <2>1, <2>2
<1>2. QED
  BY <1>1, Careful, DeployerIsAKey, PTL

\* So handover and safe:prove may be stopped anywhere and run again, with whatever keys.
THEOREM HandoversMayBeRepeatedHolds ==
  ASSUME DeployerIsAKey
  PROVE  HandoverSpec => []HandoversMayBeRepeated
<1>1. TheOracleKeepsAProvenPublisher /\ AdminsAreNeverSplit => HandoversMayBeRepeated
  BY DEF HandoversMayBeRepeated
<1>2. QED
  BY <1>1, TheOracleKeepsAProvenPublisherHolds, AdminsAreNeverSplitHolds, DeployerIsAKey, PTL

---------------------------------------------------------------------------
(* The evidence.  What is inductive speaks of every decision told of,      *)
(* recorded or not, and knows that a copy that reads but does not verify was *)
(* meddled with: that makes a mismatch right.  A reader gets what was kept *)
(* because what it had heard of stays told, and what is told stays kept.   *)

\* What each place has, and where a reader is.
EvidenceShape ==
  /\ copies \in [Place -> [Bundle -> {None, "whole", "edited", "torn"}]]
  /\ told \subseteq Bundle \X (Place \cup {None})
  /\ recorded \subseteq Bundle
  /\ reader \in [pc : {"off", "file", "archive", "checked", "unanswered"},
                 at : Machine \cup {None}, hash : Bundle \cup {None}, heard : SUBSET Place,
                 verdict : {None, "verified", "mismatch", "unreachable"}]
  /\ reader.pc # "off" => reader.at \in Machine /\ reader.hash \in Bundle

\* A bundle is where its author was told it is, unless that copy was meddled with.
Kept ==
  \A b \in Bundle, p \in Place :
    <<b, p>> \in told /\ <<b, p>> \notin spoiled => copies[p][b] = "whole"

\* A copy that was edited was meddled with.
Known == \A b \in Bundle, p \in Place : copies[p][b] = "edited" => <<b, p>> \in spoiled

\* A mismatch is of a copy that was meddled with.
Judged ==
  reader.verdict = "mismatch" =>
    \E p \in {reader.at, Archive} : <<reader.hash, p>> \in spoiled

\* What a reader had heard when it asked is told still; and one that went on to the archive
\* had not heard of its own machine, or finds its copy there meddled with.
Heard ==
  /\ \A p \in reader.heard : <<reader.hash, p>> \in told
  /\ reader.pc = "archive" /\ reader.at \in reader.heard => Spoilt(reader.hash, reader.at)

EvidenceInv == EvidenceShape /\ Kept /\ Known /\ Judged /\ Heard /\ ReadersGetIt

\* A place is not nowhere.
NowhereElse == None \notin Machine

---------------------------------------------------------------------------
\* A decision that is kept in some places and told to be in one of them, or nowhere,
\* keeps the invariant: it writes whole copies only.
LEMMA KeepsKeeps ==
  ASSUME NowhereElse, EvidenceInv, NEW b \in Bundle, NEW places \in SUBSET Place,
         NEW place \in places \cup {None}, Keeps(b, places, place)
  PROVE  EvidenceInv'
<1>1. None \notin Place
  BY DEF NowhereElse, Place, None, Archive
<1>2. /\ copies' = [p \in Place |-> [copies[p] EXCEPT ![b] = IF p \in places THEN "whole" ELSE @]]
      /\ told' = told \cup {<<b, place>>}
      /\ recorded' = recorded /\ spoiled' = spoiled /\ reader' = reader
  BY DEF Keeps
<1>3. \A p \in Place, c \in Bundle :
        copies'[p][c] = IF c = b /\ p \in places THEN "whole" ELSE copies[p][c]
  BY <1>2 DEF EvidenceInv, EvidenceShape
<1>4. EvidenceShape'
  <2>1. \A p \in Place : [copies[p] EXCEPT ![b] = IF p \in places THEN "whole" ELSE @]
                           \in [Bundle -> {None, "whole", "edited", "torn"}]
    BY DEF EvidenceInv, EvidenceShape
  <2>2. copies' \in [Place -> [Bundle -> {None, "whole", "edited", "torn"}]]
    BY <1>2, <2>1
  <2>3. QED
    BY <1>2, <2>2 DEF EvidenceInv, EvidenceShape
<1>5. Kept'
  <2> SUFFICES ASSUME NEW c \in Bundle, NEW p \in Place, <<c, p>> \in told', <<c, p>> \notin spoiled
               PROVE  copies'[p][c] = "whole"
    BY <1>2 DEF Kept
  <2>1. CASE <<c, p>> \in told
    BY <2>1, <1>3 DEF EvidenceInv, Kept
  <2>2. CASE c = b /\ p = place
    BY <2>2, <1>1, <1>3
  <2>3. QED
    BY <2>1, <2>2, <1>2
<1>6. Known'
  BY <1>2, <1>3 DEF EvidenceInv, Known
<1>7. Judged'
  BY <1>2 DEF EvidenceInv, Judged
<1>8. Heard' /\ ReadersGetIt'
  BY <1>2 DEF EvidenceInv, Heard, ReadersGetIt, Spoilt
<1>9. QED
  BY <1>4, <1>5, <1>6, <1>7, <1>8 DEF EvidenceInv

\* Whoever decides keeps whole what is there, and adds to what is told.
LEMMA DecidesKeeps ==
  ASSUME EvidenceAssumption, NowhereElse, EvidenceInv, Decides
  PROVE  EvidenceInv'
<1>1. PICK m \in Machine, b \in Bundle : Uploads(m, b) \/ FallsBack(m, b) \/ WritesFile(m, b)
  BY DEF Decides
<1>2. m \in Place /\ Archive \in Place
  BY DEF Place
<1>3. CASE Uploads(m, b)
  BY <1>2, <1>3, KeepsKeeps DEF Uploads
<1>4. CASE FallsBack(m, b)
  <2>1. PICK stored \in Attempted(m) :
          Keeps(b, stored \cup ({m} \cap Writing), IF m \in Writing THEN m ELSE None)
    BY <1>4 DEF FallsBack
  <2>2. stored \cup ({m} \cap Writing) \in SUBSET Place
    BY <1>2 DEF Attempted
  <2>3. (IF m \in Writing THEN m ELSE None) \in (stored \cup ({m} \cap Writing)) \cup {None}
    OBVIOUS
  <2>4. QED
    BY <2>1, <2>2, <2>3, KeepsKeeps
<1>5. CASE WritesFile(m, b)
  BY <1>2, <1>5, KeepsKeeps DEF WritesFile
<1>6. QED
  BY <1>1, <1>3, <1>4, <1>5

\* Meddling with a copy is known to have been done.
LEMMA SpoilsKeeps ==
  ASSUME EvidenceInv, Spoils
  PROVE  EvidenceInv'
<1>1. PICK p \in Place, b \in Bundle, to \in {"edited", "torn", None} :
        /\ copies' = [copies EXCEPT ![p][b] = to]
        /\ spoiled' = spoiled \cup {<<b, p>>}
  BY DEF Spoils
<1>2. told' = told /\ recorded' = recorded /\ reader' = reader
  BY DEF Spoils
<1>3. \A q \in Place, c \in Bundle : copies'[q][c] = IF q = p /\ c = b THEN to ELSE copies[q][c]
  BY <1>1 DEF EvidenceInv, EvidenceShape
<1>4. EvidenceShape'
  BY <1>1, <1>2 DEF EvidenceInv, EvidenceShape
<1>5. Kept' /\ Known' /\ Judged'
  BY <1>1, <1>2, <1>3 DEF EvidenceInv, Kept, Known, Judged
<1>6. Heard' /\ ReadersGetIt'
  BY <1>1, <1>2 DEF EvidenceInv, Heard, ReadersGetIt, Spoilt
<1>7. QED
  BY <1>4, <1>5, <1>6 DEF EvidenceInv

\* A reader changes nothing but itself, and its verdict is of a copy it had.
LEMMA ReadingKeeps ==
  ASSUME EvidenceInv, Opens \/ ReadsFile \/ ReadsArchive \/ FetchFails
  PROVE  EvidenceInv'
<1>1. UNCHANGED <<copies, told, recorded, spoiled>>
  BY DEF Opens, ReadsFile, ReadsArchive, FetchFails, Reads
<1>2. Kept' /\ Known'
  BY <1>1 DEF EvidenceInv, Kept, Known
<1>3. Archive \in Place /\ Machine \subseteq Place
  BY DEF Place
<1>4. CASE Opens
  <2>1. PICK m \in Machine, b \in recorded :
          reader' = [NoReader EXCEPT !.pc = "file", !.at = m, !.hash = b,
                                     !.heard = {p \in Place : <<b, p>> \in told}]
    BY <1>4 DEF Opens, Reads
  <2>2. reader' = [pc |-> "file", at |-> m, hash |-> b,
                   heard |-> {p \in Place : <<b, p>> \in told}, verdict |-> None]
    BY <2>1 DEF NoReader
  <2>3. EvidenceShape'
    BY <1>1, <2>2 DEF EvidenceInv, EvidenceShape
  <2>4. Judged' /\ Heard' /\ ReadersGetIt'
    BY <1>1, <2>2 DEF Judged, Heard, ReadersGetIt, None
  <2>5. QED
    BY <1>2, <2>3, <2>4 DEF EvidenceInv
<1>5. CASE ReadsFile
  <2> DEFINE copy == copies[reader.at][reader.hash]
  <2>1. /\ reader.pc = "file" /\ reader.at \in Machine /\ reader.hash \in Bundle
        /\ reader' = IF Readable(copy) THEN [reader EXCEPT !.pc = "checked", !.verdict = Verdict(copy)]
                     ELSE [reader EXCEPT !.pc = "archive"]
    BY <1>5 DEF ReadsFile, Reads, EvidenceInv, EvidenceShape
  <2>2. /\ reader'.at = reader.at /\ reader'.hash = reader.hash /\ reader'.heard = reader.heard
        /\ copy = "whole" => reader'.pc = "checked" /\ reader'.verdict = "verified"
        /\ copy = "edited" => reader'.pc = "checked" /\ reader'.verdict = "mismatch"
        /\ copy \notin {"whole", "edited"} =>
             reader'.pc = "archive" /\ reader'.verdict = reader.verdict
    BY <2>1 DEF EvidenceInv, EvidenceShape, Readable, Verdict
  <2>3. EvidenceShape'
    BY <1>1, <2>1, <2>2 DEF EvidenceInv, EvidenceShape, Readable, Verdict
  <2>4. /\ copy = "edited" => Spoilt(reader.hash, reader.at)
        /\ reader.at \in reader.heard => copy = "whole" \/ Spoilt(reader.hash, reader.at)
    BY <1>3, <2>1 DEF EvidenceInv, Known, Kept, Heard, Spoilt
  <2>5. Judged' /\ Heard' /\ ReadersGetIt'
    BY <1>1, <2>2, <2>4 DEF EvidenceInv, Judged, Heard, ReadersGetIt, Spoilt
  <2>6. QED
    BY <1>2, <2>3, <2>5 DEF EvidenceInv
<1>6. CASE ReadsArchive
  <2> DEFINE copy == copies[Archive][reader.hash]
  <2>1. /\ reader.pc = "archive" /\ reader.at \in Machine /\ reader.hash \in Bundle
        /\ reader' = [reader EXCEPT !.pc = "checked",
                        !.verdict = IF Readable(copy) THEN Verdict(copy) ELSE "unreachable"]
    BY <1>6 DEF ReadsArchive, Reads, EvidenceInv, EvidenceShape
  <2>2. /\ reader'.pc = "checked" /\ reader'.at = reader.at
        /\ reader'.hash = reader.hash /\ reader'.heard = reader.heard
        /\ copy = "whole" => reader'.verdict = "verified"
        /\ reader'.verdict = "mismatch" => copy = "edited"
    BY <2>1 DEF EvidenceInv, EvidenceShape, Readable, Verdict
  <2>3. EvidenceShape'
    BY <1>1, <2>1 DEF EvidenceInv, EvidenceShape, Readable, Verdict
  <2>4. /\ copy = "edited" => Spoilt(reader.hash, Archive)
        /\ Archive \in reader.heard => copy = "whole" \/ Spoilt(reader.hash, Archive)
    BY <1>3, <2>1 DEF EvidenceInv, Known, Kept, Heard, Spoilt
  <2>5. reader.at \in reader.heard => Spoilt(reader.hash, reader.at)
    BY <2>1 DEF EvidenceInv, Heard
  <2>6. Judged' /\ Heard' /\ ReadersGetIt'
    BY <1>1, <2>2, <2>4, <2>5 DEF EvidenceInv, Judged, Heard, ReadersGetIt, Spoilt
  <2>7. QED
    BY <1>2, <2>3, <2>6 DEF EvidenceInv
<1>7. CASE FetchFails
  <2>1. /\ reader.pc = "archive" /\ reader.at \in Machine /\ reader.hash \in Bundle
        /\ reader' = [reader EXCEPT !.pc = "unanswered", !.verdict = "unreachable"]
    BY <1>7 DEF FetchFails, Reads, EvidenceInv, EvidenceShape
  <2>2. EvidenceShape'
    BY <1>1, <2>1 DEF EvidenceInv, EvidenceShape
  <2>3. /\ reader'.pc = "unanswered" /\ reader'.verdict = "unreachable"
        /\ reader'.at = reader.at /\ reader'.hash = reader.hash /\ reader'.heard = reader.heard
    BY <2>1 DEF EvidenceInv, EvidenceShape
  <2>4. Judged' /\ Heard' /\ ReadersGetIt'
    BY <1>1, <2>1, <2>3 DEF EvidenceInv, Judged, Heard, ReadersGetIt, Spoilt
  <2>5. QED
    BY <1>2, <2>2, <2>4 DEF EvidenceInv
<1>8. QED
  BY <1>4, <1>5, <1>6, <1>7

\* The inductive invariant holds in every reachable state.
THEOREM Accounted ==
  ASSUME EvidenceAssumption, NowhereElse
  PROVE  EvidenceSpec => []EvidenceInv
<1>1. EvidenceInit => EvidenceInv
  BY DEF EvidenceInit, EvidenceInv, EvidenceShape, Kept, Known, Judged, Heard, ReadersGetIt,
         NoReader, None
<1>2. EvidenceInv /\ [EvidenceNext]_evidenceVars => EvidenceInv'
  <2> SUFFICES ASSUME EvidenceInv, [EvidenceNext]_evidenceVars PROVE EvidenceInv'
    OBVIOUS
  <2>1. CASE Decides
    BY <2>1, DecidesKeeps
  <2>2. CASE Records
    <3>1. PICK place \in Place \cup {None}, b \in Bundle :
            <<b, place>> \in told /\ recorded' = recorded \cup {b}
      BY <2>2 DEF Records
    <3>2. UNCHANGED <<copies, told, spoiled, reader>>
      BY <2>2 DEF Records
    <3>3. QED
      BY <3>1, <3>2
      DEF EvidenceInv, EvidenceShape, Kept, Known, Judged, Heard, ReadersGetIt, Spoilt
  <2>3. CASE Spoils
    BY <2>3, SpoilsKeeps
  <2>4. CASE Opens \/ ReadsFile \/ ReadsArchive \/ FetchFails
    BY <2>4, ReadingKeeps
  <2>5. CASE UNCHANGED evidenceVars
    BY <2>5
    DEF evidenceVars, EvidenceInv, EvidenceShape, Kept, Known, Judged, Heard, ReadersGetIt, Spoilt
  <2>6. QED
    BY <2>1, <2>2, <2>3, <2>4, <2>5 DEF EvidenceNext
<1>3. QED
  BY <1>1, <1>2, PTL DEF EvidenceSpec

\* Where the author was told that the bundle is, a whole copy is, unless that copy was
\* meddled with.  A reader on the machine that kept it gets it verified; any reader does when
\* it is in the archive, the archive answers and no edited file of its own stands in front of
\* it.  And what is called changed was.
THEOREM KeptBundlesVerifyHolds ==
  ASSUME EvidenceAssumption, NowhereElse
  PROVE  EvidenceSpec => []KeptBundlesVerify
<1>1. EvidenceInv => KeptBundlesVerify
  BY DEF EvidenceInv, EvidenceShape, Kept, Judged, KeptBundlesVerify, Spoilt
<1>2. QED
  BY <1>1, Accounted, PTL

---------------------------------------------------------------------------
(* The index.  A run fetches only records that are settled, and a slow node *)
(* agrees with the chain on those.                                         *)

Block == Content \cup {"none"}

\* The slow node is a little behind, and agrees on everything that can still be replaced
\* neither where it is nor since.
NodesAgree ==
  /\ tip \in Seq(Block) /\ behindTip \in Seq(Block)
  /\ Len(behindTip) <= Len(tip) /\ Len(tip) <= Len(behindTip) + MaxLag
  /\ \A b \in 1 .. Len(behindTip) - MaxReorg : behindTip[b] = tip[b]

\* The records no replacement can reach any more.
Settled == {r \in RecordsOf(tip) : r.block <= Len(tip) - CONFIRMATIONS}

\* Whatever a run fetched and whatever the file says is settled, or torn.
OnlySettled ==
  /\ run.cutoff \in Nat /\ (run.cutoff = 0 \/ run.cutoff <= Len(tip) - CONFIRMATIONS)
  /\ run.added \in Seq(Settled)
  /\ store \in Seq(Settled \cup {Torn})
  /\ ragged => store # <<>>

\* A run's fields, to be updated one at a time.
RunShape == run = [pc |-> run.pc, have |-> run.have, todo |-> run.todo, cutoff |-> run.cutoff, added |-> run.added]

IndexInv == NodesAgree /\ OnlySettled /\ RunShape

---------------------------------------------------------------------------
\* What a record says depends on the chain up to its block alone.
LEMMA AgreeingChainsShareRecords ==
  ASSUME NEW c \in Seq(Block), NEW d \in Seq(Block), NEW b \in 1 .. Len(c), b <= Len(d),
         \A k \in 1 .. b : c[k] = d[k]
  PROVE  RecordIn(c, b) = RecordIn(d, b) /\ (b \in Filled(c) <=> b \in Filled(d))
<1>1. SubSeq(c, 1, b) = SubSeq(d, 1, b)
  <2>1. /\ SubSeq(c, 1, b) \in Seq(Block) /\ Len(SubSeq(c, 1, b)) = b
        /\ \A i \in 1 .. b : SubSeq(c, 1, b)[i] = c[i]
    BY SubSeqProperties
  <2>2. /\ SubSeq(d, 1, b) \in Seq(Block) /\ Len(SubSeq(d, 1, b)) = b
        /\ \A i \in 1 .. b : SubSeq(d, 1, b)[i] = d[i]
    BY SubSeqProperties
  <2>3. QED
    BY <2>1, <2>2, SeqEqual
<1>2. c[b] = d[b] /\ b \in DOMAIN c /\ b \in DOMAIN d
  OBVIOUS
<1>3. QED
  BY <1>1, <1>2 DEF RecordIn, Filled

\* Min of two numbers is one of them.
LEMMA NoMoreThanEither ==
  ASSUME NEW m \in Nat, NEW n \in Nat
  PROVE  Min({m, n}) \in Nat /\ Min({m, n}) <= m /\ Min({m, n}) <= n
<1>1. \E x \in {m, n} : \A y \in {m, n} : x <= y
  <2>1. CASE m <= n
    BY <2>1
  <2>2. CASE n <= m
    BY <2>2
  <2>3. QED
    BY <2>1, <2>2
<1>2. Min({m, n}) \in {m, n} /\ \A y \in {m, n} : Min({m, n}) <= y
  BY <1>1 DEF Min
<1>3. QED
  BY <1>2

\* A longer chain that keeps all but the last MaxReorg blocks keeps what is settled, and
\* so do the file and the run.
LEMMA SettledStays ==
  ASSUME IndexInv, tip' \in Seq(Block), Len(tip) <= Len(tip'),
         \A b \in 1 .. Len(tip) - MaxReorg : tip'[b] = tip[b]
  PROVE  /\ Settled \subseteq Settled'
         /\ (run.cutoff = 0 \/ run.cutoff <= Len(tip') - CONFIRMATIONS)
         /\ run.added \in Seq(Settled') /\ store \in Seq(Settled' \cup {Torn})
<1>1. Settled \subseteq Settled'
  <2> SUFFICES ASSUME NEW b \in Filled(tip), RecordIn(tip, b).block <= Len(tip) - CONFIRMATIONS
               PROVE  RecordIn(tip, b) \in Settled'
    BY DEF Settled, RecordsOf
  <2>1. /\ b \in 1 .. Len(tip) /\ b <= Len(tip) - CONFIRMATIONS /\ RecordIn(tip, b).block = b
    BY DEF Filled, RecordIn, IndexInv, NodesAgree
  <2>2. \A k \in 1 .. b : tip[k] = tip'[k]
    BY <2>1, DepthAssumption DEF IndexInv, NodesAgree
  <2>3. RecordIn(tip, b) = RecordIn(tip', b) /\ b \in Filled(tip')
    BY <2>1, <2>2, AgreeingChainsShareRecords, DepthAssumption DEF IndexInv, NodesAgree
  <2>4. b <= Len(tip') - CONFIRMATIONS
    BY <2>1, DepthAssumption DEF IndexInv, NodesAgree
  <2>5. QED
    BY <2>1, <2>3, <2>4 DEF Settled, RecordsOf
<1>2. Settled \cup {Torn} \subseteq Settled' \cup {Torn}
  BY <1>1
<1>3. run.added \in Seq(Settled') /\ store \in Seq(Settled' \cup {Torn})
  BY <1>1, <1>2, SeqMonotonic DEF IndexInv, OnlySettled
<1>4. run.cutoff = 0 \/ run.cutoff <= Len(tip') - CONFIRMATIONS
  BY DepthAssumption DEF IndexInv, OnlySettled, NodesAgree
<1>5. QED
  BY <1>1, <1>3, <1>4

\* The chain grows, its last blocks replaced or not.
LEMMA GrowsInv == ASSUME IndexInv, Grows PROVE IndexInv'
<1> USE DepthAssumption
<1>1. PICK d \in 0 .. Min({MaxReorg, Len(tip)}) : \E new \in [1 .. d + 1 -> Block] :
        tip' = SubSeq(tip, 1, Len(tip) - d) \o new /\ behindTip' = behindTip
  BY DEF Grows, Blocks!Land, Block
<1>2. PICK new \in [1 .. d + 1 -> Block] :
        tip' = SubSeq(tip, 1, Len(tip) - d) \o new /\ behindTip' = behindTip
  BY <1>1
<1>3. d \in Nat /\ d <= MaxReorg /\ d <= Len(tip) /\ Len(tip) \in Nat /\ tip \in Seq(Block)
  <2>1. tip \in Seq(Block) /\ Len(tip) \in Nat /\ MaxReorg \in Nat
    BY DEF IndexInv, NodesAgree
  <2>2. Min({MaxReorg, Len(tip)}) \in Nat /\ Min({MaxReorg, Len(tip)}) <= MaxReorg
        /\ Min({MaxReorg, Len(tip)}) <= Len(tip)
    BY <2>1, NoMoreThanEither
  <2>3. QED
    BY <2>1, <2>2
<1>4. /\ SubSeq(tip, 1, Len(tip) - d) \in Seq(Block)
      /\ Len(SubSeq(tip, 1, Len(tip) - d)) = Len(tip) - d
      /\ \A i \in 1 .. Len(tip) - d : SubSeq(tip, 1, Len(tip) - d)[i] = tip[i]
  BY <1>3, SubSeqProperties
<1>5. new \in Seq(Block) /\ Len(new) = d + 1
  BY <1>3
<1>6. /\ tip' \in Seq(Block) /\ Len(tip') = Len(tip) + 1
      /\ \A i \in 1 .. Len(tip) - d : tip'[i] = tip[i]
  <2>1. PICK kept : kept = SubSeq(tip, 1, Len(tip) - d)
    OBVIOUS
  <2>2. kept \in Seq(Block) /\ Len(kept) = Len(tip) - d /\ tip' = kept \o new
        /\ \A i \in 1 .. Len(tip) - d : kept[i] = tip[i]
    BY <1>2, <1>4, <2>1
  <2>3. /\ kept \o new \in Seq(Block) /\ Len(kept \o new) = Len(kept) + Len(new)
        /\ \A i \in 1 .. Len(kept) + Len(new) :
             (kept \o new)[i] = IF i <= Len(kept) THEN kept[i] ELSE new[i - Len(kept)]
    BY <1>5, <2>2, ConcatProperties
  <2>4. QED
    BY <1>3, <1>5, <2>2, <2>3
<1>7. \A b \in 1 .. Len(tip) - MaxReorg : tip'[b] = tip[b]
  BY <1>3, <1>6
<1>8. NodesAgree'
  <2>1. Len(tip') <= Len(behindTip) + MaxLag
    BY <1>2, <1>3, <1>6 DEF Grows, IndexInv, NodesAgree
  <2>2. \A b \in 1 .. Len(behindTip) - MaxReorg : behindTip[b] = tip'[b]
    BY <1>3, <1>7 DEF IndexInv, NodesAgree
  <2>3. QED
    BY <2>1, <2>2, <1>2, <1>3, <1>6 DEF IndexInv, NodesAgree
<1>9. /\ Settled \subseteq Settled'
      /\ (run.cutoff = 0 \/ run.cutoff <= Len(tip') - CONFIRMATIONS)
      /\ run.added \in Seq(Settled') /\ store \in Seq(Settled' \cup {Torn})
  BY <1>3, <1>6, <1>7, SettledStays
<1>10. QED
  BY <1>8, <1>9 DEF IndexInv, OnlySettled, RunShape, Grows

\* The slow node catches up.
LEMMA NodeFollowsInv == ASSUME IndexInv, NodeFollows PROVE IndexInv'
<1>1. behindTip' = tip /\ tip' = tip /\ UNCHANGED <<store, ragged, run>>
  BY DEF NodeFollows, Blocks!Sync
<1>2. QED
  BY <1>1, DepthAssumption DEF IndexInv, NodesAgree, OnlySettled, RunShape, Settled, Torn

\* With the chain as it was, it is enough that the run and the file stay settled.
LEMMA RunInv ==
  ASSUME IndexInv, UNCHANGED <<tip, behindTip>>,
         run' = NoRun \/ (OnlySettled' /\ RunShape'),
         store' \in Seq(Settled \cup {Torn}), ragged' => store' # <<>>
  PROVE  IndexInv'
<1>1. Settled' = Settled
  BY DEF Settled
<1>2. OnlySettled' /\ RunShape'
  <2>1. CASE run' = NoRun
    BY <2>1, <1>1, EmptySeq DEF NoRun, OnlySettled, RunShape, Torn
  <2>2. QED
    BY <2>1
<1>3. QED
  BY <1>2 DEF IndexInv, NodesAgree

\* A run begins, with what the file has or without it, and asks for the counts.
LEMMA BeginsInv == ASSUME IndexInv, Starts \/ Rebuilds \/ Counts PROVE IndexInv'
<1> USE DepthAssumption DEF OnlySettled, RunShape
<1>1. Settled' = Settled /\ Torn' = Torn
  BY DEF Settled, Starts, Rebuilds, Counts
<1>2. CASE Starts
  BY <1>1, <1>2, RunInv, EmptySeq DEF Starts, NoRun, IndexInv
<1>3. CASE Rebuilds
  BY <1>1, <1>3, RunInv, EmptySeq DEF Rebuilds, NoRun, IndexInv
<1>4. CASE Counts
  <2>1. PICK c \in Blocks!Served, h \in Blocks!Served :
          run' = [run EXCEPT !.pc = "fetching", !.todo = Missing(Count(c), run.have), !.cutoff = Cutoff(Len(h))]
    BY <1>4 DEF Counts
  <2>2. Len(h) \in Nat /\ Len(h) <= Len(tip)
    BY DEF Blocks!Served, IndexInv, NodesAgree
  <2>3. Cutoff(Len(h)) \in Nat /\ (Cutoff(Len(h)) = 0 \/ Cutoff(Len(h)) <= Len(tip) - CONFIRMATIONS)
    BY <2>2 DEF Cutoff, IndexInv, NodesAgree
  <2>4. run'.cutoff = Cutoff(Len(h)) /\ run'.added = run.added /\ RunShape'
    BY <2>1 DEF IndexInv
  <2>5. QED
    BY <1>1, <1>4, <2>3, <2>4, RunInv DEF Counts, IndexInv
<1>5. QED
  BY <1>2, <1>3, <1>4

\* What is fetched below the cutoff is settled, whichever node served it.
LEMMA FetchesInv == ASSUME IndexInv, Fetches PROVE IndexInv'
<1> USE DepthAssumption
<1>0. PICK s \in Blocks!Served : \E b \in Filled(s) :
        run' = [run EXCEPT !.todo = @ \ {RecordIn(s, b).id},
                           !.added = IF RecordIn(s, b).block > run.cutoff THEN @
                                     ELSE Append(@, RecordIn(s, b))]
  BY DEF Fetches, RecordsOf
<1>1. PICK b \in Filled(s) :
        run' = [run EXCEPT !.todo = @ \ {RecordIn(s, b).id},
                           !.added = IF RecordIn(s, b).block > run.cutoff THEN @
                                     ELSE Append(@, RecordIn(s, b))]
  BY <1>0
<1>2. /\ s \in Seq(Block) /\ b \in 1 .. Len(s) /\ RecordIn(s, b).block = b
      /\ Len(s) <= Len(tip) /\ tip \in Seq(Block) /\ Len(tip) \in Nat
  BY DEF Blocks!Served, IndexInv, NodesAgree, Filled, RecordIn
<1>3. ASSUME b <= run.cutoff PROVE RecordIn(s, b) \in Settled
  <2>1. b <= Len(tip) - CONFIRMATIONS
    BY <1>2, <1>3 DEF IndexInv, OnlySettled
  <2>2. \A k \in 1 .. b : s[k] = tip[k]
    BY <1>2, <2>1 DEF Blocks!Served, IndexInv, NodesAgree
  <2>3. RecordIn(s, b) = RecordIn(tip, b) /\ b \in Filled(tip)
    BY <1>2, <2>2, AgreeingChainsShareRecords
  <2>4. QED
    BY <1>2, <2>1, <2>3 DEF Settled, RecordsOf
<1>4. /\ run'.cutoff = run.cutoff /\ RunShape'
      /\ run'.added = IF b > run.cutoff THEN run.added ELSE Append(run.added, RecordIn(s, b))
  BY <1>1, <1>2 DEF IndexInv, RunShape
<1>5. run'.added \in Seq(Settled)
  BY <1>2, <1>3, <1>4, AppendProperties DEF IndexInv, OnlySettled
<1>6. Settled' = Settled /\ Torn' = Torn
  BY DEF Settled, Fetches
<1>7. QED
  BY <1>4, <1>5, <1>6, RunInv DEF Fetches, IndexInv, OnlySettled

\* Lines glued to a torn one leave a torn one.
LEMMA GluedIs ==
  ASSUME NEW S, Torn \in S, store \in Seq(S), ragged => store # <<>>, NEW lines \in Seq(S), lines # <<>>
  PROVE  Glued(lines) \in Seq(S) /\ Glued(lines) # <<>>
<1>1. CASE ragged
  <2>1. [store EXCEPT ![Len(store)] = Torn] \in Seq(S) /\ Len([store EXCEPT ![Len(store)] = Torn]) = Len(store)
    BY <1>1, ExceptSeq, EmptySeq
  <2>2. Tail(lines) \in Seq(S)
    BY HeadTailProperties
  <2>3. QED
    BY <1>1, <2>1, <2>2, ConcatProperties, EmptySeq DEF Glued
<1>2. CASE ~ragged
  BY <1>2, ConcatProperties, EmptySeq DEF Glued
<1>3. QED
  BY <1>1, <1>2

\* The lines are written, all of them or some.
LEMMA WritesInv == ASSUME IndexInv, Appends \/ DiesWriting PROVE IndexInv'
<1>1. run.added \in Seq(Settled \cup {Torn})
  BY SeqMonotonic DEF IndexInv, OnlySettled
<1>2. CASE Appends
  BY <1>1, <1>2, GluedIs, RunInv DEF Appends, IndexInv, OnlySettled
<1>3. CASE DiesWriting
  <2>0. PICK k \in 1 .. Len(run.added) : \E last \in {Torn, run.added[k]} :
          store' = Glued(Append(SubSeq(run.added, 1, k - 1), last))
    BY <1>3 DEF DiesWriting
  <2>1. PICK last \in {Torn, run.added[k]} : store' = Glued(Append(SubSeq(run.added, 1, k - 1), last))
    BY <2>0
  <2>2. last \in Settled \cup {Torn} /\ SubSeq(run.added, 1, k - 1) \in Seq(Settled \cup {Torn})
    BY <1>1, SubSeqProperties, ElementOfSeq
  <2>3. /\ Append(SubSeq(run.added, 1, k - 1), last) \in Seq(Settled \cup {Torn})
        /\ Append(SubSeq(run.added, 1, k - 1), last) # <<>>
    BY <2>2, AppendProperties
  <2>4. store' \in Seq(Settled \cup {Torn}) /\ store' # <<>>
    BY <2>1, <2>3, GluedIs DEF IndexInv, OnlySettled
  <2>5. QED
    BY <1>3, <2>4, RunInv DEF DiesWriting
<1>4. QED
  BY <1>2, <1>3

\* Every step of the chain, the nodes and the indexer keeps the invariant.
LEMMA IndexNextInv ==
  ASSUME IndexInv, [IndexNext]_indexVars PROVE IndexInv'
<1>1. CASE FetchThrows \/ Dies
  BY <1>1, RunInv DEF FetchThrows, Dies, IndexInv, OnlySettled
<1>2. CASE UNCHANGED indexVars
  BY <1>2 DEF indexVars, IndexInv, NodesAgree, OnlySettled, RunShape, Settled, Torn
<1>3. QED
  BY <1>1, <1>2, GrowsInv, NodeFollowsInv, BeginsInv, FetchesInv, WritesInv DEF IndexNext

\* However its runs crash and whatever is reorganised, the indexer keeps only records no
\* replacement can reach, and keeps them in their order.
THEOREM OnlySettledRecords == IndexSpec => []IndexInv
<1>1. IndexInit => IndexInv
  <2> SUFFICES ASSUME IndexInit PROVE IndexInv
    OBVIOUS
  <2>1. tip = <<>> /\ behindTip = <<>> /\ store = <<>> /\ ragged = FALSE /\ run = NoRun
    BY DEF IndexInit, Blocks!ReadsInit
  <2>2. NodesAgree
    BY <2>1, EmptySeq, DepthAssumption DEF NodesAgree
  <2>3. QED
    BY <2>1, <2>2, EmptySeq DEF IndexInv, OnlySettled, NoRun, RunShape
<1>2. IndexInv /\ [IndexNext]_indexVars => IndexInv'
  BY IndexNextInv
<1>3. QED
  BY <1>1, <1>2, PTL DEF IndexSpec

\* The file says of every block it covers what the chain says.
THEOREM TheIndexSaysWhatTheChainSaysHolds == IndexSpec => []TheIndexSaysWhatTheChainSays
<1>1. IndexInv => TheIndexSaysWhatTheChainSays
  BY ElementOfSeq, LenProperties DEF IndexInv, OnlySettled, Settled, TheIndexSaysWhatTheChainSays
<1>2. QED
  BY <1>1, OnlySettledRecords, PTL

=============================================================================
