---------------------------- MODULE WalletStore ----------------------------
(***************************************************************************)
(* The page's wallet store (app/components/useWallet.ts): one snapshot for *)
(* every panel, filled by connects and silent reconnects that ask a wallet *)
(* for its accounts and then for its chain, and by the events of the       *)
(* wallet that is bound.  The owner switches account and chain in any      *)
(* wallet at any moment, disconnects, and reloads the page.                *)
(* WalletConnect is the wallet "walletconnect": its provider is made on    *)
(* demand and its session ends with a disconnect.                          *)
(***************************************************************************)
EXTENDS Integers, FiniteSets

CONSTANTS
  Extension,   \* wallets that announce themselves
  MaxReloads   \* bound: page loads

VARIABLES
  account,     \* per wallet: the account it would answer with, 0 while locked
  chain,       \* per wallet: the chain it is on
  session,     \* wallets that authorised this site
  page,        \* the snapshot: connected, address, chainId, connecting
  bound,       \* the wallet whose events reach the page
  remembered,  \* localStorage: the wallet that was connected last
  calls,       \* per wallet: connect and reconnect under way, by their await
  announced,   \* wallets this page load has seen
  raced,       \* the account changed between the reads of the call that connected; history
  left,        \* the owner disconnected and has not connected since; history
  reloads

walletVars == <<account, chain, session, page, bound, remembered, calls, announced, raced, left, reloads>>

Wallets == Extension \cup {"walletconnect"}
Kinds == {"connect", "silent"}
ChainId == {"xlayer", "other"}
NoCall == [pc |-> "off", got |-> 0]
Empty == [connected |-> "none", address |-> 0, chainId |-> "none", connecting |-> FALSE]

Walk(w, k, call) == calls' = [calls EXCEPT ![<<w, k>>] = call]
Outside == UNCHANGED <<account, chain, session, reloads>>

---------------------------------------------------------------------------
(* Connecting.                                                             *)

\* The menu of wallets is there while none is connected and none is being.
Connect(w) ==
  /\ ~page.connecting /\ (page.connected = "none" \/ page.address = 0)
  /\ w \in announced /\ calls[<<w, "connect">>].pc = "off"
  /\ Walk(w, "connect", [NoCall EXCEPT !.pc = "accounts"])
  /\ page' = [page EXCEPT !.connecting = TRUE]
  /\ Outside /\ UNCHANGED <<bound, remembered, announced, raced, left>>

\* A wallet announces itself, or the page starts the store: the silent reconnect.
Announce(w) ==
  /\ w \notin announced
  /\ announced' = announced \cup {w}
  /\ IF page.connected = "none" /\ remembered = w
     THEN Walk(w, "silent", [NoCall EXCEPT !.pc = "accounts"])
     ELSE UNCHANGED calls
  /\ Outside /\ UNCHANGED <<page, bound, remembered, raced, left>>

\* The user grants the request.
Accounts(w) ==
  /\ calls[<<w, "connect">>].pc = "accounts" /\ account[w] # 0
  /\ session' = session \cup {w}
  /\ Walk(w, "connect", [pc |-> "chain", got |-> account[w]])
  /\ UNCHANGED <<account, chain, page, bound, remembered, announced, raced, left, reloads>>

\* eth_accounts answers what was authorised, without a prompt, and the snapshot is
\* looked at again.
SilentAccounts(w) ==
  /\ calls[<<w, "silent">>].pc = "accounts"
  /\ IF w \in session /\ account[w] # 0 /\ page.connected = "none"
     THEN Walk(w, "silent", [pc |-> "chain", got |-> account[w]])
     ELSE Walk(w, "silent", NoCall)
  /\ Outside /\ UNCHANGED <<page, bound, remembered, announced, raced, left>>

\* Defect for the checks: the listeners of the wallet before stay where they are.
BindWithoutUnbinding(w) == bound' = bound \cup {w}

\* bind: the listeners of the wallet before are removed.
Bind(w) == bound' = {w}

\* A connect is remembered for the next load; a reconnect leaves what was.
Remembers(w, k) == remembered' = IF k = "connect" THEN w ELSE remembered

\* eth_chainId answers: bound, and the snapshot is replaced, whoever is connected by now.
ChainRead(w, k) ==
  /\ calls[<<w, k>>].pc = "chain"
  /\ Bind(w) /\ Remembers(w, k)
  /\ page' = [connected |-> w, address |-> calls[<<w, k>>].got, chainId |-> chain[w],
              connecting |-> k # "connect" /\ page.connecting]
  /\ raced' = (calls[<<w, k>>].got # account[w]) /\ left' = (left /\ k # "connect")
  /\ Walk(w, k, NoCall)
  /\ Outside /\ UNCHANGED announced

\* The owner declines, or the wallet or WalletConnect's relay does not answer.
CallFails(w, k) ==
  /\ calls[<<w, k>>].pc # "off"
  /\ Walk(w, k, NoCall)
  /\ page' = [page EXCEPT !.connecting = k # "connect" /\ @]
  /\ Outside /\ UNCHANGED <<bound, remembered, announced, raced, left>>

---------------------------------------------------------------------------
(* What the wallet does by itself.                                         *)

\* accountsChanged: nothing authorised means nothing connected.
SwitchAccount(w) ==
  /\ \E a \in 0..2 \ {account[w]} :
       /\ account' = [account EXCEPT ![w] = a]
       /\ page' = IF w \notin bound THEN page
                  ELSE [page EXCEPT !.address = a, !.connected = IF a = 0 THEN "none" ELSE @]
  /\ raced' = (raced /\ w \notin bound)
  /\ UNCHANGED <<chain, session, bound, remembered, calls, announced, left, reloads>>

\* chainChanged, asked for by switchChain or in the wallet.
SwitchChain(w) ==
  /\ \E c \in ChainId \ {chain[w]} :
       /\ chain' = [chain EXCEPT ![w] = c]
       /\ page' = IF w \in bound THEN [page EXCEPT !.chainId = c] ELSE page
  /\ UNCHANGED <<account, session, bound, remembered, calls, announced, raced, left, reloads>>

---------------------------------------------------------------------------
(* Leaving.                                                                *)

\* remember(null).
Forget == remembered' = "none"

\* Forgets the wallet here; over WalletConnect the session itself ends.
Disconnect ==
  /\ page.connected # "none" /\ page.address # 0
  /\ session' = session \ ({page.connected} \cap {"walletconnect"})
  /\ bound' = {} /\ Forget
  /\ page' = [Empty EXCEPT !.connecting = page.connecting]
  /\ left' = TRUE
  /\ UNCHANGED <<account, chain, calls, announced, raced, reloads>>

\* The page is loaded again: what was under way is gone.
Reload ==
  /\ reloads < MaxReloads /\ reloads' = reloads + 1
  /\ page' = Empty /\ bound' = {} /\ announced' = {}
  /\ calls' = [x \in Wallets \X Kinds |-> NoCall]
  /\ UNCHANGED <<account, chain, session, remembered, raced, left>>

---------------------------------------------------------------------------
WalletInit ==
  /\ account = [w \in Wallets |-> 1] /\ chain = [w \in Wallets |-> "xlayer"]
  /\ session = {} /\ page = Empty /\ bound = {} /\ remembered = "none"
  /\ calls = [x \in Wallets \X Kinds |-> NoCall]
  /\ announced = {} /\ raced = FALSE /\ left = FALSE /\ reloads = 0

WalletNext ==
  \/ \E w \in Wallets :
       \/ Connect(w) \/ Announce(w) \/ Accounts(w) \/ SilentAccounts(w)
       \/ \E k \in Kinds : ChainRead(w, k) \/ CallFails(w, k)
       \/ SwitchAccount(w) \/ SwitchChain(w)
  \/ Disconnect \/ Reload

WalletSpec == WalletInit /\ [][WalletNext]_walletVars

---------------------------------------------------------------------------
(* Properties.                                                             *)

\* The page signs with the account the wallet is on, and on its chain, unless the owner
\* switched account just between a call's two reads: the events of a wallet that was
\* left behind never reach the snapshot, and those of the current one always do.
TheSnapshotFollowsItsWallet ==
  page.connected # "none" /\ ~raced =>
    page.address = account[page.connected] /\ page.chainId = chain[page.connected]

\* Disconnected is disconnected on the next load, too, although a silent reconnect that was
\* under way may connect the page once more in this one.
ADisconnectSurvivesTheReload == left => remembered = "none"

\* The page shows the address the bound wallet is on, unconditionally.
TheAddressIsNeverLeftBehind ==
  page.connected # "none" => page.address = account[page.connected]

=============================================================================
