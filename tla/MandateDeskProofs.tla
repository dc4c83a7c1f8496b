------------------------- MODULE MandateDeskProofs --------------------------
(*****************************************************************************)
(* The page's mandates, for any ids, versions, policies and rules, any       *)
(* number of sends under way and a node that is any number of blocks behind: *)
(* the mandate a form calls the first is not an older one, and an edit that  *)
(* nobody raced keeps what it did not touch. And the rules, for any thesis   *)
(* and allowlist: what is on chain says what the thesis says.                *)
(*                                                                           *)
(* The first two follow from what a reader may conclude from a version       *)
(* number: a version of a mandate is the same policy and the same rules      *)
(* wherever and whenever it is read, because every change of either counts   *)
(* it up. The third needs no history: scaling is exact, a rule that is       *)
(* dropped could not be met, and a scope is never widened.                   *)
(*****************************************************************************)
EXTENDS MandateDesk, ExitRules, FiniteSetTheorems, SequenceTheorems, TLAPS

Mandate == [active : BOOLEAN, born : Nat, version : Nat, word : Int, policy : Policy,
            rules : Seq(Rules)]
Guard == [next : Nat, m : [Id -> Mandate]]
Row == [active : BOOLEAN, born : Nat, version : Nat, word : Int, policy : Policy,
        rules : Seq(Rules), rulesVersion : Nat]

\* Ids are given in order, and an id that is not given is blank.
GivenInOrder(s) ==
  \A id \in Id : id >= s.next => ~s.m[id].active /\ s.m[id].born = 0 /\ s.m[id].version = 0

\* The slow node serves the past: the ids it knows are the same mandates, and a version
\* is the same rules and policy wherever it is read.
SlowIsPast ==
  /\ behind.next <= head.next
  /\ \A id \in Id :
       /\ id < behind.next => head.m[id].born = behind.m[id].born
       /\ behind.m[id].version <= head.m[id].version
       /\ behind.m[id].version = head.m[id].version
            => behind.m[id].rules = head.m[id].rules /\ behind.m[id].policy = head.m[id].policy

\* So is what the panel shows.
ShownIsPast ==
  \A id \in Id :
    /\ shown[id].active => id < head.next
    /\ shown[id].version <= head.m[id].version
    /\ shown[id].version = head.m[id].version => shown[id].policy = head.m[id].policy
    /\ shown[id].rulesVersion <= head.m[id].version
    /\ shown[id].rulesVersion = head.m[id].version => shown[id].rules = head.m[id].rules

\* An edit's argument changes one thing of m.
OneThing(t, m) ==
  /\ t.op = "rules" /\ t.arg # <<>> => m.rules = Front(t.arg)
  /\ t.op = "policy" => \E f \in {"cap", "fills"} : \A g \in {"cap", "fills"} :
                          g # f => m.policy[g] = t.arg[g]

\* A transaction.
Tx == [n : Nat, op : {"create", "policy", "rules", "word", "close"}, id : Nat,
       arg : Seq(Rules) \cup Policy \cup Int, base : Nat]

\* A transaction that waits.
Sound(t) ==
  /\ t.n \in 1..sent
  /\ t.op = "rules" => t.arg \in Seq(Rules)
  /\ t.op = "policy" => t.arg \in Policy
  /\ t.op = "word" => t.arg \in Int
  /\ t.op # "create" =>
       /\ t.id \in Id /\ t.id < head.next
       /\ t.base <= head.m[t.id].version
       /\ t.base # 0 /\ t.base = head.m[t.id].version => OneThing(t, head.m[t.id])

\* An installation is of a mandate there is.
InstallIs ==
  install.pc = "signing" => install.id \in Id /\ install.id < head.next /\ install.want \in Seq(Rules)

\* The wallet had none: those there are now came with the page's transaction or after it.
NoneOlder ==
  page.alone =>
    /\ \A s \in Served, id \in Id : s.m[id].active => s.m[id].born >= page.tx
    /\ \A i \in DOMAIN mempool : mempool[i].op = "create" => mempool[i].n >= page.tx

\* The page: what it is about.
PageIs ==
  /\ page = [pc |-> page.pc, tx |-> page.tx, id |-> page.id, want |-> page.want,
             rules |-> page.rules, alone |-> page.alone]
  /\ page.tx \in 0..sent /\ page.want \in Seq(Rules) /\ page.alone \in BOOLEAN
  /\ page.pc = "done" =>
       /\ page.id \in Id /\ page.id < head.next
       /\ page.alone => head.m[page.id].born >= page.tx

Types ==
  /\ head \in Guard /\ behind \in Guard /\ shown \in [Id -> Row]
  /\ sent \in Nat
  /\ mempool \in Seq(Tx)

AllSound == \A i \in DOMAIN mempool : Sound(mempool[i])

DeskInv ==
  /\ Types
  /\ AllSound
  /\ GivenInOrder(head) /\ GivenInOrder(behind)
  /\ SlowIsPast /\ ShownIsPast /\ InstallIs /\ NoneOlder /\ PageIs

---------------------------------------------------------------------------
\* What any node serves is the past of the chain.
LEMMA ServedIsPast ==
  ASSUME DeskInv, NEW s \in Served, NEW id \in Id
  PROVE  /\ s \in Guard /\ head \in Guard
         /\ s.m[id].active => id < head.next /\ id < s.next /\ head.m[id].born = s.m[id].born
         /\ s.m[id].born # 0 => id < head.next
         /\ s.m[id].version <= head.m[id].version
         /\ s.m[id].version = head.m[id].version
              => s.m[id].rules = head.m[id].rules /\ s.m[id].policy = head.m[id].policy
<1>1. head \in Guard /\ behind \in Guard /\ GivenInOrder(head) /\ GivenInOrder(behind) /\ SlowIsPast
  BY DEF DeskInv, Types
<1>2. id \in Int /\ head.next \in Nat /\ behind.next \in Nat
  BY <1>1, DeskAssumption DEF Guard, Id
<1>3. CASE s = head
  <2>1. head.m[id].version \in Nat /\ head.m[id].born \in Nat
    BY <1>1 DEF Guard, Mandate
  <2>2. id >= head.next => ~head.m[id].active /\ head.m[id].born = 0
    BY <1>1 DEF GivenInOrder
  <2>3. QED
    BY <1>1, <1>2, <1>3, <2>1, <2>2
<1>4. CASE s = behind
  BY <1>1, <1>2, <1>4 DEF GivenInOrder, SlowIsPast
<1>5. QED
  BY <1>3, <1>4 DEF Served

\* The chain moves on: ids are given in order, what is there keeps its transaction, and
\* a version that stays keeps its rules and policy.
Grown ==
  /\ head' \in Guard /\ head'.next >= head.next /\ GivenInOrder(head)'
  /\ \A id \in Id :
       /\ id < head.next => head'.m[id].born = head.m[id].born
       /\ head.m[id].version <= head'.m[id].version
       /\ head.m[id].version = head'.m[id].version
            => head'.m[id].rules = head.m[id].rules /\ head'.m[id].policy = head.m[id].policy

\* A chain that moves on breaks nothing that was read of it.
LEMMA GrownInv ==
  ASSUME DeskInv, Grown, UNCHANGED <<behind, sent, page, install, shown>>,
         mempool' \in Seq(Tx),
         \A i \in DOMAIN mempool' : \E j \in DOMAIN mempool : mempool'[i] = mempool[j],
         page.alone => \A id \in Id : head'.m[id].active => head'.m[id].born >= page.tx
  PROVE  DeskInv'
<1>1. /\ head \in Guard /\ behind \in Guard /\ shown \in [Id -> Row] /\ sent \in Nat
      /\ mempool \in Seq(Tx) /\ head' \in Guard /\ \A id \in Id : id \in Int
  BY DeskAssumption DEF DeskInv, Types, Grown, Id
<1>2. /\ head.next \in Nat /\ head'.next \in Nat /\ behind.next \in Nat
      /\ \A id \in Id : /\ head.m[id].version \in Nat /\ head'.m[id].version \in Nat
                        /\ behind.m[id].version \in Nat /\ shown[id].version \in Nat
                        /\ shown[id].rulesVersion \in Nat
  BY <1>1 DEF Guard, Mandate, Row
<1>3. SlowIsPast'
  BY <1>1, <1>2 DEF DeskInv, SlowIsPast, Grown
<1>4. ShownIsPast'
  <2> SUFFICES ASSUME NEW id \in Id
               PROVE  /\ shown[id].active => id < head'.next
                      /\ shown[id].version <= head'.m[id].version
                      /\ shown[id].version = head'.m[id].version => shown[id].policy = head'.m[id].policy
                      /\ shown[id].rulesVersion <= head'.m[id].version
                      /\ shown[id].rulesVersion = head'.m[id].version => shown[id].rules = head'.m[id].rules
    BY DEF ShownIsPast
  <2>1. /\ shown[id].active => id < head.next
        /\ shown[id].version <= head.m[id].version
        /\ shown[id].version = head.m[id].version => shown[id].policy = head.m[id].policy
        /\ shown[id].rulesVersion <= head.m[id].version
        /\ shown[id].rulesVersion = head.m[id].version => shown[id].rules = head.m[id].rules
    BY DEF DeskInv, ShownIsPast
  <2>2. QED
    BY <1>1, <1>2, <2>1 DEF Grown
<1>5. AllSound'
  <2> SUFFICES ASSUME NEW i \in DOMAIN mempool' PROVE Sound(mempool[i])'
    BY DEF AllSound
  <2>1. PICK j \in DOMAIN mempool : mempool'[i] = mempool[j]
    OBVIOUS
  <2>2. PICK t : t = mempool[j]
    OBVIOUS
  <2>3. t \in Tx /\ Sound(t)
    BY <1>1, <2>2 DEF DeskInv, AllSound
  <2>4. Sound(t)'
    <3>1. CASE t.op = "create"
      BY <2>3, <3>1 DEF Sound
    <3>2. CASE t.op # "create"
      <4>1. /\ t.id \in Id /\ t.id < head.next /\ t.base \in Nat
            /\ t.base <= head.m[t.id].version
            /\ t.base # 0 /\ t.base = head.m[t.id].version => OneThing(t, head.m[t.id])
        BY <2>3, <3>2 DEF Sound, Tx
      <4>2. /\ t.id < head'.next /\ t.base <= head'.m[t.id].version
            /\ t.base = head'.m[t.id].version
                 => /\ t.base = head.m[t.id].version
                    /\ head'.m[t.id].rules = head.m[t.id].rules
                    /\ head'.m[t.id].policy = head.m[t.id].policy
        <5>1. head.m[t.id].version \in Nat /\ head'.m[t.id].version \in Nat /\ t.id \in Int
          BY <1>1, <1>2, <4>1
        <5>2. /\ head'.next >= head.next
              /\ head.m[t.id].version <= head'.m[t.id].version
              /\ head.m[t.id].version = head'.m[t.id].version
                   => /\ head'.m[t.id].rules = head.m[t.id].rules
                      /\ head'.m[t.id].policy = head.m[t.id].policy
          BY <4>1 DEF Grown
        <5>3. QED
          BY <1>2, <4>1, <5>1, <5>2
      <4>3. t.base # 0 /\ t.base = head'.m[t.id].version => OneThing(t, head'.m[t.id])
        BY <4>1, <4>2 DEF OneThing
      <4>4. QED
        BY <2>3, <3>2, <4>1, <4>2, <4>3 DEF Sound, OneThing
    <3>3. QED
      BY <3>1, <3>2
  <2>5. t = mempool'[i]
    BY <2>1, <2>2
  <2>6. QED
    BY <2>4, <2>5 DEF Sound, OneThing
<1>6. InstallIs' /\ PageIs'
  BY <1>1, <1>2 DEF DeskInv, InstallIs, PageIs, Grown
<1>7. NoneOlder'
  BY DEF DeskInv, NoneOlder, Served
<1>8. GivenInOrder(head)' /\ GivenInOrder(behind)'
  BY DEF DeskInv, Grown, GivenInOrder
<1>9. Types'
  BY <1>1 DEF Types
<1>10. QED
  BY <1>3, <1>4, <1>5, <1>6, <1>7, <1>8, <1>9 DEF DeskInv

\* A transaction that lands moves the chain on.
LEMMA LandsGrown ==
  ASSUME DeskInv, NEW t \in Tx, Sound(t), head' = After(t)
  PROVE  /\ Grown
         /\ \A id \in Id : head'.m[id].active
              => (id < head.next /\ head.m[id].active) \/ (t.op = "create" /\ head'.m[id].born = t.n)
<1>1. /\ head \in Guard /\ GivenInOrder(head) /\ \A id \in Id : id \in Int
      /\ head.next \in Nat /\ head.m \in [Id -> Mandate]
  BY DeskAssumption DEF DeskInv, Types, Guard, Id
<1>2. CASE t.op = "create"
  <2>1. /\ head'.next = head.next + 1 /\ head'.m = [head.m EXCEPT ![head.next] = Fresh(t.n)]
        /\ head' = [next |-> head'.next, m |-> head'.m]
    BY <1>1, <1>2 DEF After, Guard
  <2>2. /\ Fresh(t.n) \in Mandate /\ Fresh(t.n).active /\ Fresh(t.n).born = t.n
        /\ Fresh(t.n).version = 1
    <3>1. Fresh(t.n) = [active |-> TRUE, born |-> t.n, version |-> 1, word |-> 0,
                        policy |-> [cap |-> 0, fills |-> 0], rules |-> <<>>]
      <4>1. PICK p : p = [cap |-> 0, fills |-> 0]
        OBVIOUS
      <4>2. NoMandate = [active |-> FALSE, born |-> 0, version |-> 0, word |-> 0, policy |-> p,
                         rules |-> <<>>]
        BY <4>1 DEF NoMandate
      <4>3. Fresh(t.n) = [active |-> TRUE, born |-> t.n, version |-> 1, word |-> 0, policy |-> p,
                          rules |-> <<>>]
        <5>1. PICK m : m = NoMandate
          OBVIOUS
        <5>2. PICK n : n = [m EXCEPT !.active = TRUE, !.born = t.n, !.version = 1]
          OBVIOUS
        <5>3. n = [active |-> TRUE, born |-> t.n, version |-> 1, word |-> 0, policy |-> p,
                   rules |-> <<>>]
          BY <4>2, <5>1, <5>2
        <5>4. QED
          BY <5>1, <5>2, <5>3 DEF Fresh
      <4>4. QED
        BY <4>1, <4>3
    <3>2. t.n \in Nat /\ <<>> \in Seq(Rules) /\ [cap |-> 0, fills |-> 0] \in Policy
      BY EmptySeq DEF Tx, Policy
    <3>3. QED
      BY <3>1, <3>2 DEF Mandate
  <2>3. head'.m \in [Id -> Mandate]
    BY <1>1, <2>1, <2>2
  <2>4. head' \in Guard
    BY <1>1, <2>1, <2>3 DEF Guard
  <2>5. \A id \in Id : head'.m[id] = IF id = head.next THEN Fresh(t.n) ELSE head.m[id]
    BY <1>1, <2>1
  <2>6. \A id \in Id : head.m[id] \in Mandate
    BY <1>1
  <2>7. QED
    BY <1>1, <1>2, <2>1, <2>2, <2>4, <2>5, <2>6 DEF Grown, GivenInOrder, Mandate
<1>3. CASE t.op # "create"
  <2>1. t.id \in Id /\ t.id < head.next
    BY <1>3 DEF Sound
  <2>2. /\ head'.next = head.next /\ head'.m = [head.m EXCEPT ![t.id] = Apply(head.m[t.id], t)]
        /\ head' = [next |-> head'.next, m |-> head'.m]
    BY <1>1, <1>3, <2>1 DEF After, Guard
  <2>3. PICK m \in Mandate : m = head.m[t.id]
    BY <1>1, <2>1
  <2>4. PICK n : n = Apply(m, t)
    OBVIOUS
  <2>5. /\ n \in Mandate /\ n.born = m.born /\ n.version >= m.version
        /\ n.active => m.active
        /\ n.version = m.version => n.rules = m.rules /\ n.policy = m.policy
    <3>0. /\ m.active \in BOOLEAN /\ m.born \in Nat /\ m.version \in Nat /\ m.word \in Int
          /\ m.policy \in Policy /\ m.rules \in Seq(Rules)
          /\ m = [active |-> m.active, born |-> m.born, version |-> m.version, word |-> m.word,
                  policy |-> m.policy, rules |-> m.rules]
      BY <2>3 DEF Mandate
    <3>1. CASE t.op = "policy"
      <4>1. n = [active |-> m.active, born |-> m.born, version |-> m.version + 1, word |-> m.word,
                 policy |-> t.arg, rules |-> m.rules]
        BY <2>4, <3>0, <3>1 DEF Apply
      <4>2. t.arg \in Policy
        BY <3>1 DEF Sound
      <4>3. QED
        BY <3>0, <4>1, <4>2 DEF Mandate
    <3>2. CASE t.op = "rules"
      <4>1. n = [active |-> m.active, born |-> m.born, version |-> m.version + 1, word |-> m.word,
                 policy |-> m.policy, rules |-> t.arg]
        BY <2>4, <3>0, <3>2 DEF Apply
      <4>2. t.arg \in Seq(Rules)
        BY <3>2 DEF Sound
      <4>3. QED
        BY <3>0, <4>1, <4>2 DEF Mandate
    <3>3. CASE t.op = "word"
      <4>1. n = [active |-> m.active, born |-> m.born, version |-> m.version, word |-> t.arg,
                 policy |-> m.policy, rules |-> m.rules]
        BY <2>4, <3>0, <3>3 DEF Apply
      <4>2. t.arg \in Int
        BY <3>3 DEF Sound
      <4>3. QED
        BY <3>0, <4>1, <4>2 DEF Mandate
    <3>4. CASE t.op = "close"
      <4>1. n = [active |-> FALSE, born |-> m.born, version |-> m.version, word |-> m.word,
                 policy |-> m.policy, rules |-> m.rules]
        BY <2>4, <3>0, <3>4 DEF Apply
      <4>2. QED
        BY <3>0, <4>1 DEF Mandate
    <3>5. QED
      BY <1>3, <3>1, <3>2, <3>3, <3>4 DEF Tx
  <2>6. head' \in Guard
    BY <1>1, <2>2, <2>3, <2>4, <2>5 DEF Guard
  <2>7. \A id \in Id : head'.m[id] = IF id = t.id THEN n ELSE head.m[id]
    BY <1>1, <2>2, <2>3, <2>4
  <2>8. \A id \in Id : head.m[id] \in Mandate
    BY <1>1
  <2>9. \A id \in Id : head.m[id].active => id < head.next
    BY <1>1 DEF GivenInOrder
  <2>10. \A id \in Id : head.m[id].version \in Nat
    BY <2>8 DEF Mandate
  <2>11. \A id \in Id : head'.m[id].active => head.m[id].active
    BY <2>3, <2>5, <2>7
  <2>12. GivenInOrder(head)'
    BY <1>1, <2>1, <2>2, <2>7, <2>11 DEF GivenInOrder
  <2>13. \A id \in Id :
           /\ id < head.next => head'.m[id].born = head.m[id].born
           /\ head.m[id].version <= head'.m[id].version
           /\ head.m[id].version = head'.m[id].version
                => head'.m[id].rules = head.m[id].rules /\ head'.m[id].policy = head.m[id].policy
    BY <2>3, <2>5, <2>7, <2>10
  <2>14. QED
    BY <1>1, <2>2, <2>6, <2>9, <2>11, <2>12, <2>13 DEF Grown
<1>4. QED
  BY <1>2, <1>3

\* A transaction is mined, and may revert.
LEMMA MineInv == ASSUME DeskInv, Mine PROVE DeskInv'
<1>1. PICK t : t = Head(mempool)
  OBVIOUS
<1>2. mempool \in Seq(Tx) /\ mempool # <<>> /\ mempool' = Tail(mempool)
  BY DEF Mine, DeskInv, Types
<1>3. t \in Tx /\ t = mempool[1] /\ 1 \in DOMAIN mempool /\ mempool' \in Seq(Tx)
  BY <1>1, <1>2, HeadTailProperties
<1>4. \A i \in DOMAIN mempool' : i + 1 \in DOMAIN mempool /\ mempool'[i] = mempool[i + 1]
  BY <1>2, HeadTailProperties
<1>5. Sound(t)
  BY <1>3 DEF DeskInv, AllSound
<1>6. UNCHANGED <<behind, sent, page, install, shown>>
  BY DEF Mine, Land
<1>7. CASE Land(After(t))
  <2>1. head' = After(t)
    BY <1>7 DEF Land
  <2>2. page.alone => \A id \in Id : head'.m[id].active => head'.m[id].born >= page.tx
    BY <1>3, <1>5, <2>1, LandsGrown DEF DeskInv, NoneOlder, Served, Grown
  <2>3. QED
    BY <1>3, <1>4, <1>5, <1>6, <2>1, <2>2, LandsGrown, GrownInv
<1>8. CASE UNCHANGED <<head, behind>>
  <2>1. Grown
    BY <1>8 DEF Grown, DeskInv, Types, GivenInOrder, Guard, Mandate
  <2>2. QED
    BY <1>3, <1>4, <1>6, <1>8, <2>1, GrownInv DEF DeskInv, NoneOlder, Served
<1>9. QED
  BY <1>1, <1>7, <1>8 DEF Mine

---------------------------------------------------------------------------
\* A transaction is signed: it waits with the others.
LEMMA SendInv ==
  ASSUME DeskInv, NEW op, NEW id, NEW arg, NEW base, Send(op, id, arg, base),
         UNCHANGED <<head, behind>>,
         [n |-> sent + 1, op |-> op, id |-> id, arg |-> arg, base |-> base] \in Tx,
         op = "rules" => arg \in Seq(Rules), op = "policy" => arg \in Policy,
         op = "word" => arg \in Int,
         op # "create" => id \in Id /\ id < head.next /\ base <= head.m[id].version,
         op # "create" /\ base # 0 /\ base = head.m[id].version
           => /\ op = "rules" /\ arg # <<>> => head.m[id].rules = Front(arg)
              /\ op = "policy" => \E f \in {"cap", "fills"} : \A g \in {"cap", "fills"} :
                                  g # f => head.m[id].policy[g] = arg[g]
  PROVE  /\ mempool' \in Seq(Tx) /\ sent' = sent + 1 /\ sent' \in Nat
         /\ AllSound'
         /\ \A i \in DOMAIN mempool' : mempool'[i].n > sent \/ \E j \in DOMAIN mempool : mempool'[i] = mempool[j]
<1>1. PICK t \in Tx : t = [n |-> sent + 1, op |-> op, id |-> id, arg |-> arg, base |-> base]
  OBVIOUS
<1>2. /\ mempool \in Seq(Tx) /\ sent \in Nat /\ mempool' = Append(mempool, t) /\ sent' = sent + 1
  BY <1>1 DEF Send, DeskInv, Types
<1>3. /\ mempool' \in Seq(Tx) /\ DOMAIN mempool = 1 .. Len(mempool)
      /\ DOMAIN mempool' = 1 .. Len(mempool) + 1 /\ Len(mempool) \in Nat
      /\ \A i \in 1 .. Len(mempool) : mempool'[i] = mempool[i]
      /\ mempool'[Len(mempool) + 1] = t
  BY <1>2, AppendProperties
<1>4. t.n = sent + 1 /\ t.op = op /\ t.id = id /\ t.arg = arg /\ t.base = base
  BY <1>1
<1>5. Sound(t)'
  BY <1>2, <1>4 DEF Sound, OneThing
<1>6. ASSUME NEW i \in 1 .. Len(mempool) PROVE Sound(mempool[i])'
  <2>1. PICK u : u = mempool[i]
    OBVIOUS
  <2>2. u \in Tx /\ Sound(u)
    BY <1>2, <1>3, <2>1 DEF DeskInv, AllSound
  <2>3. Sound(u)'
    BY <1>2, <2>2 DEF Sound, OneThing, Tx
  <2>4. u = mempool'[i]
    BY <2>1, <1>3
  <2>5. QED
    BY <2>3, <2>4 DEF Sound, OneThing
<1>7. AllSound'
  <2> SUFFICES ASSUME NEW i \in DOMAIN mempool' PROVE Sound(mempool[i])'
    BY DEF AllSound
  <2>1. CASE i \in 1 .. Len(mempool)
    BY <2>1, <1>6
  <2>2. CASE i = Len(mempool) + 1
    <3>1. t = mempool'[i]
      BY <2>2, <1>3
    <3>2. QED
      BY <3>1, <1>5 DEF Sound, OneThing
  <2>3. QED
    BY <2>1, <2>2, <1>3
<1>8. QED
  BY <1>2, <1>3, <1>4, <1>7

\* Where the chain is not touched and the panel shows what it showed.
LEMMA SentInv ==
  ASSUME DeskInv, UNCHANGED <<head, behind, shown>>,
         mempool' \in Seq(Tx), sent' \in Nat, sent' = sent \/ sent' = sent + 1,
         AllSound',
         \A i \in DOMAIN mempool' : mempool'[i].n > sent \/ \E j \in DOMAIN mempool : mempool'[i] = mempool[j],
         page' = page \/ ~page'.alone \/ (page'.alone = page.alone /\ page'.tx = page.tx),
         PageIs', InstallIs'
  PROVE  DeskInv'
<1>1. NoneOlder'
  <2>1. CASE page'.alone = page.alone /\ page'.tx = page.tx
    <3>1. page.tx \in 0 .. sent /\ sent \in Nat
      BY DEF DeskInv, PageIs, Types
    <3>2. \A i \in DOMAIN mempool' : mempool'[i] \in Tx
      OBVIOUS
    <3>3. \A i \in DOMAIN mempool' : mempool'[i].n \in Nat
      BY <3>2 DEF Tx
    <3>4. NoneOlder
      BY DEF DeskInv
    <3>5. QED
      BY <2>1, <3>1, <3>3, <3>4 DEF NoneOlder, Served
  <2>2. QED
    BY <2>1 DEF NoneOlder
<1>2. Types' /\ SlowIsPast' /\ ShownIsPast'
  BY DEF DeskInv, Types, SlowIsPast, ShownIsPast
<1>3. GivenInOrder(head)' /\ GivenInOrder(behind)'
  BY DEF DeskInv, GivenInOrder
<1>4. QED
  BY <1>1, <1>2, <1>3 DEF DeskInv

\* Nothing is signed.
LEMMA QuietInv ==
  ASSUME DeskInv, UNCHANGED <<head, behind, shown, mempool, sent>>,
         page' = page \/ ~page'.alone \/ (page'.alone = page.alone /\ page'.tx = page.tx),
         PageIs', InstallIs'
  PROVE  DeskInv'
<1>1. AllSound'
  <2> SUFFICES ASSUME NEW i \in DOMAIN mempool PROVE Sound(mempool[i])'
    BY DEF AllSound
  <2>1. PICK u : u = mempool[i]
    OBVIOUS
  <2>2. Sound(u)
    BY <2>1 DEF DeskInv, AllSound
  <2>3. Sound(u)'
    BY <2>2 DEF Sound, OneThing
  <2>4. u = mempool'[i]
    BY <2>1
  <2>5. QED
    BY <2>3, <2>4 DEF Sound, OneThing
<1>2. Types
  BY DEF DeskInv
<1>3. QED
  BY <1>1, <1>2, SentInv DEF Types

\* The slow node catches up.
LEMMA CatchUpInv == ASSUME DeskInv, CatchUp PROVE DeskInv'
<1>1. behind' = head /\ UNCHANGED <<head, mempool, sent, page, install, shown>>
  BY DEF CatchUp, Sync
<1>2. /\ Types' /\ SlowIsPast' /\ GivenInOrder(head)' /\ GivenInOrder(behind)'
  BY <1>1 DEF DeskInv, Types, SlowIsPast, GivenInOrder, Guard, Mandate
<1>3. NoneOlder'
  BY <1>1 DEF DeskInv, NoneOlder, Served
<1>4. AllSound'
  BY <1>1 DEF DeskInv, AllSound, Sound, OneThing
<1>5. ShownIsPast' /\ InstallIs' /\ PageIs'
  BY <1>1 DEF DeskInv, ShownIsPast, InstallIs, PageIs
<1>6. QED
  BY <1>2, <1>3, <1>4, <1>5 DEF DeskInv

\* The page that creates: it starts, waits and gives up without touching anything else.
LEMMA CreateInv == ASSUME DeskInv, CreateClick \/ CreateSigned \/ CreateMined PROVE DeskInv'
<1>0. /\ sent \in Nat /\ PageIs /\ InstallIs /\ \A id \in Id : id \in Int
      /\ UNCHANGED <<head, behind, install, shown>>
  BY DeskAssumption DEF DeskInv, Types, CreateClick, CreateSigned, CreateMined, Id
<1>1. InstallIs'
  BY <1>0 DEF InstallIs
<1>2. CASE CreateClick
  <2>1. PICK want \in Encoded : page' = [Blank("signing") EXCEPT !.want = want]
    BY <1>2 DEF CreateClick
  <2>2. want \in Seq(Rules)
    <3>1. want = <<>> \/ \E r \in Rules : want = <<r>>
      BY <2>1, Zenon DEF Encoded
    <3>2. \A r \in Rules : <<r>> \in Seq(Rules)
      OBVIOUS
    <3>3. QED
      BY <3>1, <3>2, EmptySeq
  <2>3. page' = [pc |-> "signing", tx |-> 0, id |-> 0, want |-> want, rules |-> "none", alone |-> FALSE]
    BY <2>1 DEF Blank
  <2>4. PageIs'
    <3>1. UNCHANGED <<sent, head>>
      BY <1>2 DEF CreateClick, Quiet
    <3>2. QED
      BY <1>0, <2>2, <2>3, <3>1 DEF PageIs
  <2>5. QED
    BY <1>0, <1>1, <1>2, <2>3, <2>4, QuietInv DEF CreateClick, Quiet
<1>3. ASSUME NEW pc, pc # "done", page' = Blank(pc), Quiet PROVE DeskInv'
  <2>1. page' = [pc |-> pc, tx |-> 0, id |-> 0, want |-> <<>>, rules |-> "none", alone |-> FALSE]
    BY <1>3 DEF Blank
  <2>2. PageIs'
    BY <1>0, <1>3, <2>1, EmptySeq DEF PageIs, Quiet
  <2>3. QED
    BY <1>0, <1>1, <1>3, <2>1, <2>2, QuietInv DEF Quiet
<1>4. CASE /\ Room /\ Send("create", 0, <<>>, 0) /\ page.pc = "signing"
           /\ page' = [page EXCEPT !.pc = "mining", !.tx = sent + 1,
                 !.alone = OpenIn(head) = {} /\ OpenIn(behind) = {} /\ Creations = 0]
  <2>1. PICK alone : alone = (OpenIn(head) = {} /\ OpenIn(behind) = {} /\ Creations = 0)
    OBVIOUS
  <2>2. alone \in BOOLEAN
    BY <2>1
  <2>3. page' = [pc |-> "mining", tx |-> sent + 1, id |-> page.id, want |-> page.want,
                 rules |-> page.rules, alone |-> alone]
    BY <1>0, <1>4, <2>1 DEF PageIs
  <2>4. [n |-> sent + 1, op |-> "create", id |-> 0, arg |-> <<>>, base |-> 0] \in Tx
    BY <1>0, EmptySeq DEF Tx
  <2>5. /\ mempool' \in Seq(Tx) /\ sent' = sent + 1 /\ sent' \in Nat /\ AllSound'
        /\ \A i \in DOMAIN mempool' : mempool'[i].n > sent \/ \E j \in DOMAIN mempool : mempool'[i] = mempool[j]
    BY <1>0, <1>4, <2>4, SendInv
  <2>6. PageIs'
    BY <1>0, <2>2, <2>3, <2>5 DEF PageIs
  <2>7. NoneOlder'
    <3> SUFFICES ASSUME alone
                 PROVE  /\ \A s \in Served, id \in Id : ~s.m[id].active
                        /\ \A i \in DOMAIN mempool' : mempool'[i].op = "create" => mempool'[i].n >= sent + 1
      BY <1>0, <2>3 DEF NoneOlder, Served
    <3>1. \A s \in Served, id \in Id : ~s.m[id].active
      BY <2>1 DEF Served, OpenIn
    <3>2. \A j \in DOMAIN mempool : mempool[j].op # "create"
      <4>1. mempool \in Seq(Tx) /\ {i \in DOMAIN mempool : mempool[i].op = "create"} \subseteq 1 .. Len(mempool)
        BY DEF DeskInv, Types
      <4>2. Len(mempool) \in Nat
        BY <4>1
      <4>3. IsFiniteSet({i \in DOMAIN mempool : mempool[i].op = "create"})
        BY <4>1, <4>2, FS_Interval, FS_Subset
      <4>4. {i \in DOMAIN mempool : mempool[i].op = "create"} = {}
        BY <2>1, <4>3, FS_EmptySet DEF Creations
      <4>5. QED
        BY <4>4
    <3>3. \A i \in DOMAIN mempool' : mempool'[i].n \in Nat
      <4>1. \A i \in DOMAIN mempool' : mempool'[i] \in Tx
        BY <2>5
      <4>2. QED
        BY <4>1 DEF Tx
    <3>4. QED
      BY <1>0, <2>5, <3>1, <3>2, <3>3
  <2>8. Types' /\ SlowIsPast' /\ ShownIsPast' /\ GivenInOrder(head)' /\ GivenInOrder(behind)'
    BY <1>0, <2>5 DEF DeskInv, Types, SlowIsPast, ShownIsPast, GivenInOrder
  <2>9. QED
    BY <1>1, <2>5, <2>6, <2>7, <2>8 DEF DeskInv
<1>5. CASE page.pc = "mining" /\ page' = [page EXCEPT !.pc = "confirming"] /\ Quiet
  <2>1. page' = [pc |-> "confirming", tx |-> page.tx, id |-> page.id, want |-> page.want,
                 rules |-> page.rules, alone |-> page.alone]
    BY <1>0, <1>5 DEF PageIs
  <2>2. PageIs'
    BY <1>0, <1>5, <2>1 DEF PageIs, Quiet
  <2>3. QED
    BY <1>0, <1>1, <1>5, <2>1, <2>2, QuietInv DEF Quiet
<1>6. QED
  BY <1>2, <1>3, <1>4, <1>5 DEF CreateSigned, CreateMined

\* The page is done with the newest mandate that is served as active.
LEMMA ConfirmedInv == ASSUME DeskInv, CreateConfirmed PROVE DeskInv'
<1>0. /\ sent \in Nat /\ PageIs /\ InstallIs /\ head \in Guard /\ UNCHANGED <<head, behind, shown, mempool, sent>>
  BY DEF DeskInv, Types, CreateConfirmed, Quiet
<1>1. ASSUME NEW id \in FindMandate,
             page' = [page EXCEPT !.pc = "done", !.id = id,
                        !.rules = IF page.want = <<>> THEN "none" ELSE "installing"],
             install' = IF page.want = <<>> THEN install
                        ELSE [pc |-> "signing", id |-> id, want |-> page.want, tx |-> 0]
      PROVE  DeskInv'
  <2>1. PICK s \in Served : id \in Id /\ s.m[id].active
    BY DEF FindMandate
  <2>2. id < head.next /\ head.m[id].born = s.m[id].born
    BY <2>1, ServedIsPast
  <2>3. page.alone => head.m[id].born >= page.tx
    BY <2>1, <2>2 DEF DeskInv, NoneOlder
  <2>4. PICK rules : rules = IF page.want = <<>> THEN "none" ELSE "installing"
    OBVIOUS
  <2>5. page' = [pc |-> "done", tx |-> page.tx, id |-> id, want |-> page.want,
                 rules |-> rules, alone |-> page.alone]
    BY <1>0, <1>1, <2>4 DEF PageIs
  <2>6. PageIs'
    BY <1>0, <2>1, <2>2, <2>3, <2>5 DEF PageIs
  <2>7. InstallIs'
    <3>1. CASE install' = install
      BY <1>0, <3>1 DEF InstallIs
    <3>2. CASE install' = [pc |-> "signing", id |-> id, want |-> page.want, tx |-> 0]
      BY <1>0, <2>1, <2>2, <3>2 DEF InstallIs, PageIs
    <3>3. QED
      BY <1>1, <3>1, <3>2
  <2>8. QED
    BY <1>0, <2>5, <2>6, <2>7, QuietInv
<1>2. CASE page' = Blank("failed") /\ UNCHANGED install
  <2>1. page' = [pc |-> "failed", tx |-> 0, id |-> 0, want |-> <<>>, rules |-> "none", alone |-> FALSE]
    BY <1>2 DEF Blank
  <2>2. PageIs'
    BY <1>0, <2>1, EmptySeq DEF PageIs
  <2>3. InstallIs'
    BY <1>0, <1>2 DEF InstallIs
  <2>4. QED
    BY <1>0, <2>1, <2>2, <2>3, QuietInv
<1>3. QED
  BY <1>1, <1>2 DEF CreateConfirmed

\* The installation reports to the page and changes nothing of what the page is about.
LEMMA InstallInv == ASSUME DeskInv, InstallRules PROVE DeskInv'
<1>0. /\ sent \in Nat /\ PageIs /\ InstallIs /\ UNCHANGED <<head, behind, shown>>
  BY DEF DeskInv, Types, InstallRules
<1>1. ASSUME NEW what, Report(what)
      PROVE  /\ page' = page \/ (page'.alone = page.alone /\ page'.tx = page.tx)
             /\ sent' = sent => PageIs'
  <2>1. CASE page.pc = "done"
    <3>1. page' = [pc |-> page.pc, tx |-> page.tx, id |-> page.id, want |-> page.want,
                   rules |-> what, alone |-> page.alone]
      BY <1>0, <1>1, <2>1 DEF Report, PageIs
    <3>2. QED
      BY <1>0, <3>1 DEF PageIs
  <2>2. CASE page.pc # "done"
    BY <1>0, <1>1, <2>2 DEF Report, PageIs
  <2>3. QED
    BY <2>1, <2>2
<1>2. ASSUME install'.pc # "signing", Quiet, UNCHANGED page \/ \E what : Report(what) PROVE DeskInv'
  <2>1. InstallIs'
    BY <1>2 DEF InstallIs
  <2>2. PageIs'
    BY <1>0, <1>1, <1>2 DEF PageIs, Quiet
  <2>3. QED
    BY <1>0, <1>1, <1>2, <2>1, <2>2, QuietInv DEF Quiet
<1>3. CASE /\ install.pc = "signing" /\ Send("rules", install.id, install.want, 0)
           /\ install' = [install EXCEPT !.pc = "mining", !.tx = sent + 1] /\ UNCHANGED page
  <2>1. /\ install.id \in Id /\ install.id < head.next /\ install.want \in Seq(Rules) /\ install.id \in Nat
    BY <1>0, <1>3, DeskAssumption DEF InstallIs, Id
  <2>2. [n |-> sent + 1, op |-> "rules", id |-> install.id, arg |-> install.want, base |-> 0] \in Tx
    BY <1>0, <2>1 DEF Tx
  <2>3. head.m[install.id].version \in Nat
    BY <2>1 DEF DeskInv, Types, Guard, Mandate
  <2>4. /\ mempool' \in Seq(Tx) /\ sent' = sent + 1 /\ sent' \in Nat /\ AllSound'
        /\ \A i \in DOMAIN mempool' : mempool'[i].n > sent \/ \E j \in DOMAIN mempool : mempool'[i] = mempool[j]
    BY <1>0, <1>3, <2>1, <2>2, <2>3, SendInv
  <2>5. InstallIs'
    <3>1. install'.pc # "signing"
      BY <1>3
    <3>2. QED
      BY <3>1 DEF InstallIs
  <2>6. PageIs'
    BY <1>0, <1>3, <2>4 DEF PageIs
  <2>7. QED
    BY <1>0, <1>3, <2>4, <2>5, <2>6, SentInv
<1>4. ASSUME install' = NoInstall PROVE install'.pc # "signing"
  BY <1>4 DEF NoInstall
<1>5. CASE install.pc = "mining" /\ install' = [install EXCEPT !.pc = "confirming"] /\ UNCHANGED page /\ Quiet
  <2>1. install'.pc # "signing"
    BY <1>5
  <2>2. QED
    BY <1>2, <1>5, <2>1
<1>6. QED
  BY <1>2, <1>3, <1>4, <1>5 DEF InstallRules

\* What the panel loads is the past of the chain.
LEMMA LoadedInv ==
  ASSUME DeskInv, Loaded, UNCHANGED <<head, behind, mempool, sent, page, install>>
  PROVE  DeskInv'
<1>1. PICK s, r \in Served : shown' = [id \in Id |-> Sighted(s.m[id], r.m[id])]
  BY DEF Loaded
<1>2. s \in Guard /\ r \in Guard /\ head \in Guard
  BY <1>1 DEF Served, DeskInv, Types
<1>3. ASSUME NEW id \in Id
      PROVE  /\ shown'[id] \in Row
             /\ shown'[id].active = s.m[id].active /\ shown'[id].version = s.m[id].version
             /\ shown'[id].policy = s.m[id].policy /\ shown'[id].rules = r.m[id].rules
             /\ shown'[id].rulesVersion = r.m[id].version
  <2>1. s.m[id] \in Mandate /\ r.m[id] \in Mandate
    BY <1>2 DEF Guard
  <2>2. shown'[id] = Sighted(s.m[id], r.m[id])
    BY <1>1
  <2>3. QED
    BY <2>1, <2>2 DEF Sighted, Row, Mandate
<1>4. shown' \in [Id -> Row]
  BY <1>1, <1>3
<1>5. ShownIsPast'
  <2> SUFFICES ASSUME NEW id \in Id
               PROVE  /\ s.m[id].active => id < head.next
                      /\ s.m[id].version <= head.m[id].version
                      /\ s.m[id].version = head.m[id].version => s.m[id].policy = head.m[id].policy
                      /\ r.m[id].version <= head.m[id].version
                      /\ r.m[id].version = head.m[id].version => r.m[id].rules = head.m[id].rules
    BY <1>3 DEF ShownIsPast
  <2>1. QED
    BY <1>1, ServedIsPast
<1>6. AllSound'
  BY DEF DeskInv, AllSound, Sound, OneThing
<1>7. /\ Types' /\ SlowIsPast' /\ GivenInOrder(head)' /\ GivenInOrder(behind)'
      /\ NoneOlder' /\ InstallIs' /\ PageIs'
  BY <1>4 DEF DeskInv, Types, SlowIsPast, GivenInOrder, NoneOlder, Served, InstallIs, PageIs
<1>8. QED
  BY <1>5, <1>6, <1>7 DEF DeskInv

\* A command changes nothing but itself.
LEMMA IdleInv ==
  ASSUME DeskInv, UNCHANGED <<head, behind, mempool, sent, page, install, shown>>
  PROVE  DeskInv'
<1>1. PageIs' /\ InstallIs'
  BY DEF DeskInv, PageIs, InstallIs
<1>2. QED
  BY <1>1, QuietInv

\* An edit is signed.
LEMMA EditInv ==
  ASSUME DeskInv, NEW op \in {"policy", "rules", "word", "close"}, NEW id \in Id, NEW arg,
         NEW base \in Nat, Send(op, id, arg, base),
         UNCHANGED <<head, behind, shown, page, install>>,
         id < head.next, base <= head.m[id].version,
         arg \in Seq(Rules) \cup Policy \cup Int,
         op = "rules" => arg \in Seq(Rules), op = "policy" => arg \in Policy,
         op = "word" => arg \in Int,
         base # 0 /\ base = head.m[id].version
           => /\ op = "rules" /\ arg # <<>> => head.m[id].rules = Front(arg)
              /\ op = "policy" => \E f \in {"cap", "fills"} : \A g \in {"cap", "fills"} :
                                  g # f => head.m[id].policy[g] = arg[g]
  PROVE  DeskInv'
<1>1. sent \in Nat /\ id \in Nat
  BY DeskAssumption DEF DeskInv, Types, Id
<1>2. [n |-> sent + 1, op |-> op, id |-> id, arg |-> arg, base |-> base] \in Tx
  BY <1>1 DEF Tx
<1>3. op # "create"
  OBVIOUS
<1>4. /\ mempool' \in Seq(Tx) /\ sent' = sent + 1 /\ sent' \in Nat /\ AllSound'
      /\ \A i \in DOMAIN mempool' : mempool'[i].n > sent \/ \E j \in DOMAIN mempool : mempool'[i] = mempool[j]
  BY <1>2, <1>3, SendInv
<1>5. PageIs' /\ InstallIs'
  BY <1>1, <1>4 DEF DeskInv, PageIs, InstallIs
<1>6. QED
  BY <1>4, <1>5, SentInv

\* A rule added to a list is the list's last.
LEMMA AddedIsLast ==
  ASSUME NEW m, m.rules \in Seq(Rules), NEW r \in Rules
  PROVE  AddedRule(m, r) \in Seq(Rules) /\ Front(AddedRule(m, r)) = m.rules
<1>1. PICK s \in Seq(Rules) : s = m.rules
  OBVIOUS
<1>2. PICK a : a = Append(s, r)
  OBVIOUS
<1>3. /\ a \in Seq(Rules) /\ Len(a) = Len(s) + 1 /\ Len(s) \in Nat
      /\ \A i \in 1 .. Len(s) : a[i] = s[i]
  BY <1>2, AppendProperties
<1>4. /\ SubSeq(a, 1, Len(s)) \in Seq(Rules) /\ Len(SubSeq(a, 1, Len(s))) = Len(s)
      /\ \A i \in 1 .. Len(s) : SubSeq(a, 1, Len(s))[i] = a[i]
  BY <1>3
<1>5. SubSeq(a, 1, Len(s)) = s
  BY <1>3, <1>4, SeqEqual
<1>6. QED
  BY <1>1, <1>2, <1>3, <1>5 DEF AddedRule, Front

\* A policy with one field changed is the same in the others.
LEMMA EditedIsOneField ==
  ASSUME NEW m, m.policy \in Policy, NEW f \in {"cap", "fills"}
  PROVE  /\ EditedPolicy(m, f, 1) \in Policy
         /\ \A g \in {"cap", "fills"} : g # f => m.policy[g] = EditedPolicy(m, f, 1)[g]
<1>1. PICK p \in Policy : p = m.policy
  OBVIOUS
<1>2. PICK q : q = [p EXCEPT ![f] = 1]
  OBVIOUS
<1>3. q \in Policy /\ \A g \in {"cap", "fills"} : g # f => p[g] = q[g]
  BY <1>2 DEF Policy
<1>4. QED
  BY <1>1, <1>2, <1>3 DEF EditedPolicy

\* The panel sends what it shows with one thing changed.
LEMMA PanelInv == ASSUME DeskInv, PanelActs PROVE DeskInv'
<1>1. PICK id \in Offered :
         \/ \E r \in Rules : PanelAddsRule(id, r)
         \/ \E f \in {"cap", "fills"} : PanelEditsPolicy(id, f)
         \/ PanelSetsWord(id)
         \/ PanelCloses(id)
  BY DEF PanelActs
<1>2. id \in Id /\ shown[id].active /\ ShownIsPast /\ shown[id] \in Row
  BY <1>1 DEF Offered, DeskInv, Types
<1>3. /\ id < head.next
      /\ shown[id].version \in Nat /\ shown[id].version <= head.m[id].version
      /\ shown[id].version = head.m[id].version => shown[id].policy = head.m[id].policy
      /\ shown[id].rulesVersion \in Nat /\ shown[id].rulesVersion <= head.m[id].version
      /\ shown[id].rulesVersion = head.m[id].version => shown[id].rules = head.m[id].rules
      /\ shown[id].word \in Int /\ shown[id].policy \in Policy /\ shown[id].rules \in Seq(Rules)
  BY <1>2 DEF ShownIsPast, Row
<1>4. ASSUME NEW r \in Rules, PanelAddsRule(id, r) PROVE DeskInv'
  <2>1. PICK arg : arg = AddedRule(shown[id], r)
    OBVIOUS
  <2>2. arg \in Seq(Rules) /\ Front(arg) = shown[id].rules
    BY <1>3, <2>1, AddedIsLast
  <2>3. /\ Send("rules", id, arg, shown[id].rulesVersion)
        /\ UNCHANGED <<head, behind, shown, page, install>>
    BY <1>4, <2>1 DEF PanelAddsRule, PanelWrites
  <2>4. QED
    BY <1>2, <1>3, <2>2, <2>3, EditInv
<1>5. ASSUME NEW f \in {"cap", "fills"}, PanelEditsPolicy(id, f) PROVE DeskInv'
  <2>1. PICK arg : arg = EditedPolicy(shown[id], f, 1)
    OBVIOUS
  <2>2. arg \in Policy /\ \A g \in {"cap", "fills"} : g # f => shown[id].policy[g] = arg[g]
    BY <1>3, <2>1, EditedIsOneField
  <2>3. /\ Send("policy", id, arg, shown[id].version)
        /\ UNCHANGED <<head, behind, shown, page, install>>
    BY <1>5, <2>1 DEF PanelEditsPolicy, PanelWrites
  <2>4. QED
    BY <1>2, <1>3, <2>2, <2>3, EditInv
<1>6. ASSUME PanelSetsWord(id) PROVE DeskInv'
  <2>1. /\ Send("word", id, 1 - shown[id].word, shown[id].version)
        /\ UNCHANGED <<head, behind, shown, page, install>>
    BY <1>6 DEF PanelSetsWord, PanelWrites
  <2>2. 1 - shown[id].word \in Int
    BY <1>3
  <2>3. QED
    BY <1>2, <1>3, <2>1, <2>2, EditInv
<1>7. ASSUME PanelCloses(id) PROVE DeskInv'
  <2>1. /\ Send("close", id, 0, shown[id].version)
        /\ UNCHANGED <<head, behind, shown, page, install>>
    BY <1>7 DEF PanelCloses, PanelWrites
  <2>2. QED
    BY <1>2, <1>3, <2>1, EditInv
<1>8. QED
  BY <1>1, <1>4, <1>5, <1>6, <1>7

\* The command sends what a node served it with one thing changed.
LEMMA CliInv == ASSUME DeskInv, CliActs PROVE DeskInv'
<1>1. ASSUME NEW s \in Served, NEW id \in Id
      PROVE  /\ s.m[id].active \/ s.m[id].born # 0 => id < head.next
             /\ s.m[id].version \in Nat /\ s.m[id].version <= head.m[id].version
             /\ s.m[id].version = head.m[id].version
                  => s.m[id].rules = head.m[id].rules /\ s.m[id].policy = head.m[id].policy
             /\ s.m[id].policy \in Policy /\ s.m[id].rules \in Seq(Rules)
  <2>1. s.m[id] \in Mandate
    BY ServedIsPast DEF Guard
  <2>2. QED
    BY <2>1, ServedIsPast DEF Mandate
<1>2. ASSUME NEW op, NEW id, NEW arg, NEW base, CliSends(op, id, arg, base)
      PROVE  Send(op, id, arg, base) /\ UNCHANGED <<head, behind, shown, page, install>>
  BY <1>2 DEF CliSends
<1>3. CASE CliCreates
  <2>1. Send("create", 0, <<>>, 0) /\ UNCHANGED <<head, behind, shown, page, install>>
    BY <1>2, <1>3 DEF CliCreates
  <2>2. sent \in Nat /\ [n |-> sent + 1, op |-> "create", id |-> 0, arg |-> <<>>, base |-> 0] \in Tx
    BY EmptySeq DEF DeskInv, Types, Tx
  <2>3. /\ mempool' \in Seq(Tx) /\ sent' = sent + 1 /\ sent' \in Nat /\ AllSound'
        /\ \A i \in DOMAIN mempool' : mempool'[i].n > sent \/ \E j \in DOMAIN mempool : mempool'[i] = mempool[j]
    BY <2>1, <2>2, SendInv
  <2>4. PageIs' /\ InstallIs'
    BY <2>1, <2>2, <2>3 DEF DeskInv, PageIs, InstallIs
  <2>5. QED
    BY <2>1, <2>3, <2>4, SentInv
<1>4. ASSUME NEW id \in Id, CliCloses(id) PROVE DeskInv'
  <2>1. PICK s \in Served : s.m[id].born # 0 /\ CliSends("close", id, 0, s.m[id].version)
    BY <1>4 DEF CliCloses
  <2>2. id < head.next
    BY <1>1, <2>1
  <2>3. Send("close", id, 0, s.m[id].version) /\ UNCHANGED <<head, behind, shown, page, install>>
    BY <1>2, <2>1
  <2>4. QED
    BY <1>1, <2>2, <2>3, EditInv
<1>5. ASSUME NEW id \in Id, CliSetsWord(id) PROVE DeskInv'
  <2>1. PICK s \in Served : s.m[id].active /\ CliSends("word", id, 1, s.m[id].version)
    BY <1>5 DEF CliSetsWord
  <2>2. QED
    BY <1>1, <1>2, <2>1, EditInv
<1>6. ASSUME NEW id \in Id, NEW f \in {"cap", "fills"}, CliEditsPolicy(id, f) PROVE DeskInv'
  <2>1. PICK s \in Served : s.m[id].active /\ CliSends("policy", id, EditedPolicy(s.m[id], f, 1), s.m[id].version)
    BY <1>6 DEF CliEditsPolicy
  <2>2. PICK arg : arg = EditedPolicy(s.m[id], f, 1)
    OBVIOUS
  <2>3. arg \in Policy /\ \A g \in {"cap", "fills"} : g # f => s.m[id].policy[g] = arg[g]
    BY <1>1, <2>1, <2>2, EditedIsOneField
  <2>4. Send("policy", id, arg, s.m[id].version) /\ UNCHANGED <<head, behind, shown, page, install>>
    BY <1>2, <2>1, <2>2
  <2>5. QED
    BY <1>1, <2>1, <2>3, <2>4, EditInv
<1>7. ASSUME NEW id \in Id, CliEditsRules(id) PROVE DeskInv'
  <2>1. PICK s, r \in Served :
          /\ s.m[id].active
          /\ \/ CliSends("rules", id, <<>>, r.m[id].version)
             \/ \E x \in Rules : CliSends("rules", id, AddedRule(r.m[id], x), r.m[id].version)
    BY <1>7 DEF CliEditsRules
  <2>2. CASE CliSends("rules", id, <<>>, r.m[id].version)
    <3>1. PICK arg : arg = <<>>
      OBVIOUS
    <3>2. arg \in Seq(Rules)
      BY <3>1, EmptySeq
    <3>3. Send("rules", id, arg, r.m[id].version) /\ UNCHANGED <<head, behind, shown, page, install>>
      BY <1>2, <2>2, <3>1
    <3>4. QED
      BY <1>1, <2>1, <3>1, <3>2, <3>3, EditInv
  <2>3. ASSUME NEW x \in Rules, CliSends("rules", id, AddedRule(r.m[id], x), r.m[id].version)
        PROVE  DeskInv'
    <3>1. PICK arg : arg = AddedRule(r.m[id], x)
      OBVIOUS
    <3>2. arg \in Seq(Rules) /\ Front(arg) = r.m[id].rules
      BY <1>1, <2>1, <3>1, AddedIsLast
    <3>3. Send("rules", id, arg, r.m[id].version) /\ UNCHANGED <<head, behind, shown, page, install>>
      BY <1>2, <2>3, <3>1
    <3>4. QED
      BY <1>1, <2>1, <3>2, <3>3, EditInv
  <2>4. QED
    BY <2>1, <2>2, <2>3
<1>8. QED
  BY <1>3, <1>4, <1>5, <1>6, <1>7 DEF CliActs

\* Every step of the panel, the nodes and the chain keeps the invariant.
LEMMA DeskNextInv == ASSUME DeskInv, [DeskNext]_deskVars PROVE DeskInv'
<1>1. CASE PanelLoads
  BY <1>1, LoadedInv DEF PanelLoads, Quiet
<1>2. CASE PanelSettles
  BY <1>2, LoadedInv, IdleInv DEF PanelSettles, Quiet
<1>3. CASE CliWaits
  BY <1>3, IdleInv DEF CliWaits, Quiet
<1>4. CASE UNCHANGED deskVars
  BY <1>4, IdleInv DEF deskVars
<1>5. QED
  BY <1>1, <1>2, <1>3, <1>4, MineInv, CatchUpInv, CreateInv, ConfirmedInv, InstallInv, PanelInv,
     CliInv DEF DeskNext, PageWaits

\* A version of a mandate is one mandate wherever it is read.
THEOREM OneVersionOneMandate == DeskSpec => []DeskInv
<1>1. DeskInit => DeskInv
  <2> SUFFICES ASSUME DeskInit PROVE DeskInv
    OBVIOUS
  <2>1. [cap |-> 0, fills |-> 0] \in Policy /\ <<>> \in Seq(Rules) /\ <<>> \in Seq(Tx)
    BY EmptySeq DEF Policy
  <2>2. /\ NoMandate \in Mandate /\ ~NoMandate.active /\ NoMandate.version = 0 /\ NoMandate.born = 0
    BY <2>1 DEF NoMandate, Mandate
  <2>3. /\ Sighted(NoMandate, NoMandate) \in Row /\ ~Sighted(NoMandate, NoMandate).active
        /\ Sighted(NoMandate, NoMandate).version = 0 /\ Sighted(NoMandate, NoMandate).rulesVersion = 0
        /\ Sighted(NoMandate, NoMandate).policy = NoMandate.policy
        /\ Sighted(NoMandate, NoMandate).rules = NoMandate.rules
    BY <2>2 DEF Sighted, Row, Mandate
  <2>4. /\ head = [next |-> 1, m |-> [id \in Id |-> NoMandate]] /\ behind = head /\ mempool = <<>>
        /\ sent = 0 /\ page = Blank("idle") /\ install = NoInstall
        /\ shown = [id \in Id |-> Sighted(NoMandate, NoMandate)]
    BY DEF DeskInit, ReadsInit
  <2>5. Types
    BY <2>1, <2>2, <2>3, <2>4 DEF Types, Guard
  <2>6. GivenInOrder(head) /\ GivenInOrder(behind) /\ SlowIsPast /\ ShownIsPast
    BY <2>2, <2>3, <2>4 DEF GivenInOrder, SlowIsPast, ShownIsPast
  <2>7. AllSound /\ InstallIs
    BY <2>4 DEF AllSound, InstallIs, NoInstall
  <2>8. page = [pc |-> "idle", tx |-> 0, id |-> 0, want |-> <<>>, rules |-> "none", alone |-> FALSE]
    BY <2>4 DEF Blank
  <2>9. PageIs
    <3>1. sent = 0
      BY <2>4
    <3>2. QED
      BY <2>1, <2>8, <3>1 DEF PageIs
  <2>10. NoneOlder
    BY <2>8 DEF NoneOlder
  <2>11. QED
    BY <2>5, <2>6, <2>7, <2>9, <2>10 DEF DeskInv
<1>2. DeskInv /\ [DeskNext]_deskVars => DeskInv'
  BY DeskNextInv
<1>3. QED
  BY <1>1, <1>2, PTL DEF DeskSpec

\* The mandate shown to an owner who had none is not older than the page's transaction.
THEOREM AFirstMandateIsNeverAnOlderOneHolds == DeskSpec => []AFirstMandateIsNeverAnOlderOne
<1>1. DeskInv => AFirstMandateIsNeverAnOlderOne
  BY DEF DeskInv, PageIs, AFirstMandateIsNeverAnOlderOne
<1>2. QED
  BY <1>1, OneVersionOneMandate, PTL

\* An edit nobody raced keeps every rule and field it did not touch.
THEOREM UnracedEditsKeepTheRestHolds == DeskSpec => UnracedEditsKeepTheRest
<1> DEFINE t == Head(mempool)
<1>1. ASSUME DeskInv, [DeskNext]_deskVars, Lands, Edits(t), t.base = head.m[t.id].version
      PROVE  KeepsTheRest(t)
  <2>1. Mine
    BY <1>1 DEF Lands, DeskNext, deskVars, CatchUp, Sync, CreateClick, PageWaits, CreateSigned, CreateMined,
       CreateConfirmed, InstallRules, PanelLoads, PanelActs, PanelAddsRule, PanelEditsPolicy, PanelSetsWord,
       PanelCloses, PanelWrites, PanelSettles, CliActs, CliCreates, CliCloses, CliSetsWord, CliEditsPolicy,
       CliEditsRules, CliSends, CliWaits
  <2>2. mempool \in Seq(Tx) /\ mempool # <<>>
    BY <1>1, <2>1 DEF Mine, DeskInv, Types
  <2>3. t \in Tx /\ t = mempool[1] /\ 1 \in DOMAIN mempool
    BY <2>2, HeadTailProperties
  <2>4. Sound(t)
    BY <1>1, <2>3 DEF DeskInv, AllSound
  <2>5. OneThing(t, head.m[t.id])
    BY <1>1, <2>4 DEF Sound, Edits
  <2>6. ASSUME t.op = "policy"
        PROVE  Cardinality({f \in {"cap", "fills"} : head.m[t.id].policy[f] # t.arg[f]}) <= 1
    <3>1. PICK f \in {"cap", "fills"} : {g \in {"cap", "fills"} : head.m[t.id].policy[g] # t.arg[g]} \subseteq {f}
      BY <2>5, <2>6 DEF OneThing
    <3>2. IsFiniteSet({f}) /\ Cardinality({f}) = 1
      BY FS_Singleton
    <3>3. QED
      BY <3>1, <3>2, FS_Subset
  <2>7. QED
    BY <2>5, <2>6 DEF OneThing, KeepsTheRest
<1>2. QED
  BY <1>1, OneVersionOneMandate, PTL DEF DeskSpec, UnracedEditsKeepTheRest

-----------------------------------------------------------------------------
(* From a thesis to the rules on chain, for any conditions, allocation,      *)
(* allowlist and scale: every observation within the domains fires the rules *)
(* exactly when it meets a condition.                                        *)

\* Truncation is exact for even numbers, of either sign.
LEMMA HalvesAreExact ==
  ASSUME NEW h \in Int, h % 2 = 0
  PROVE  TruncatedDiv(h, 2) \in Int /\ 2 * TruncatedDiv(h, 2) = h
<1>1. CASE h >= 0
  BY <1>1, SMT DEF TruncatedDiv
<1>2. CASE h < 0
  <2>1. (-h) \div 2 \in Int /\ 2 * ((-h) \div 2) = -h
    BY <1>2, SMT
  <2> QED  BY <2>1, <1>2, SMT DEF TruncatedDiv
<1> QED  BY <1>1, <1>2, SMT

\* Cash is scaled to raw units, of which there are an even number to one.
LEMMA CashIsExact ==
  ASSUME NEW h \in Int, UNIT \in Nat, UNIT % 2 = 0
  PROVE  (h * UNIT) \div 2 \in Int /\ 2 * ((h * UNIT) \div 2) = h * UNIT
<1> DEFINE k == UNIT \div 2
<1>1. k \in Nat /\ UNIT = 2 * k
  BY SMT
<1> HIDE DEF k
<1> DEFINE n == h * k
<1>2. n \in Int /\ h * UNIT = 2 * n
  BY <1>1, SMT
<1>3. ASSUME NEW m \in Int PROVE (2 * m) \div 2 = m
  BY SMT
<1> HIDE DEF n
<1>4. (2 * n) \div 2 = n
  BY <1>2, <1>3
<1> QED  BY ONLY <1>2, <1>4, SMT

\* What is stated, in halves, is what the trigger holds.
LEMMA ScalingIsExact ==
  ASSUME RulesAssumption, NEW c, c.halves \in Int, Whole(c)
  PROVE  LET scaled == ScaleThreshold(c.metric, c.halves)
         IN /\ scaled \in Int
            /\ 2 * scaled = c.halves * (IF c.metric \in CashDenominated THEN UNIT ELSE 1)
<1>1. CASE c.metric \in CashDenominated
  BY <1>1, CashIsExact DEF RulesAssumption, ScaleThreshold
<1>2. CASE c.metric \notin CashDenominated
  <2>1. c.halves % 2 = 0
    BY <1>2 DEF Whole
  <2>2. TruncatedDiv(c.halves, 2) \in Int /\ 2 * TruncatedDiv(c.halves, 2) = c.halves
    BY <2>1, HalvesAreExact
  <2>3. c.halves * 1 = c.halves
    BY SMT
  <2>4. ScaleThreshold(c.metric, c.halves) = TruncatedDiv(c.halves, 2)
    BY <1>2 DEF ScaleThreshold
  <2> QED  BY <1>2, <2>2, <2>3, <2>4
<1> QED  BY <1>1, <1>2

\* A fall is measured in whole basis points of what was paid, and is no more than all.
LEMMA FallsAreMeasured ==
  ASSUME NEW c \in Nat \ {0}, NEW v \in Nat
  PROVE  LET fall == TruncatedDiv((c - v) * 10000, c)
         IN fall \in Int /\ fall <= 10000 /\ (v <= c => fall >= 0)
<1> DEFINE n == (c - v) * 10000
<1>1. n \in Int /\ n <= 10000 * c /\ (v <= c => n >= 0)
  BY SMT
<1>2. ASSUME NEW m \in Nat, m <= 10000 * c PROVE m \div c \in Nat /\ m \div c <= 10000
  BY <1>2, SMT
<1>3. ASSUME NEW m \in Nat PROVE m \div c \in Nat
  BY SMT
<1> HIDE DEF n
<1>4. CASE n >= 0
  BY <1>1, <1>2, <1>4 DEF TruncatedDiv, n
<1>5. CASE n < 0
  <2>1. (-n) \div c \in Nat
    BY <1>1, <1>3, <1>5
  <2>2. TruncatedDiv(n, c) = -((-n) \div c)
    BY <1>1, <1>5 DEF TruncatedDiv
  <2>3. TruncatedDiv(n, c) \in Int /\ TruncatedDiv(n, c) <= 10000
    BY <2>1, <2>2
  <2> QED  BY <1>1, <1>5, <2>3 DEF n
<1> QED  BY <1>1, <1>4, <1>5

\* What is seen has the types and bounds it is assumed to have.
LEMMA SeenIsMeasured ==
  ASSUME RulesAssumption, NEW s \in Seen
  PROVE  /\ s.p.units \in Nat /\ s.p.costBasisE8 \in Nat /\ s.p.entryFairValueE8 \in Nat
         /\ s.t \in Nat /\ s.o.fairValueE8 \in Nat /\ s.o.capacityUsdg \in Nat
         /\ s.o.anchorAt \in Nat /\ s.o.basisBps \in Int /\ HOUR \in Nat \ {0}
         /\ s.o.gapRisk \in Nat /\ s.o.gapRisk <= 100
         /\ s.o.confidenceBps \in Nat /\ s.o.confidenceBps <= 10000
         /\ (s.t > s.o.anchorAt => (s.t - s.o.anchorAt) \div HOUR <= 8760)
<1>1. Measurable(s) /\ HOUR \in Nat \ {0}
  BY DEF RulesAssumption
<1>2. s.p \in Position
  BY <1>1 DEF Measurable
<1>3. s.p.units \in Nat /\ s.p.costBasisE8 \in Nat /\ s.p.entryFairValueE8 \in Nat
  BY <1>2 DEF Position
<1> QED  BY <1>1, <1>3 DEF Measurable

\* A metric that is available has a value, and the value is in the metric's domain unless
\* the position is at a gain.
LEMMA ValuesAreInTheDomain ==
  ASSUME RulesAssumption, NEW s \in Seen, NEW m \in Metric, ~AtAGain(s)
  PROVE  LET v == Evaluate(m, s.o, s.p, s.t)
         IN /\ v \in Int
            /\ m \in DOMAIN Lowest => v >= Lowest[m]
            /\ m \in DOMAIN Highest => v <= Highest[m]
<1> DEFINE v == Evaluate(m, s.o, s.p, s.t)
<1> SUFFICES /\ v \in Int
             /\ m \in DOMAIN Lowest => v >= Lowest[m]
             /\ m \in DOMAIN Highest => v <= Highest[m]
  OBVIOUS
<1>0. /\ m = "gapRisk" => v = s.o.gapRisk
      /\ m = "basisBps" => v = s.o.basisBps
      /\ m = "confidenceBps" => v = s.o.confidenceBps
      /\ m = "capacityUsdg" => v = s.o.capacityUsdg
      /\ m = "stalenessHours" =>
           v = IF s.t > s.o.anchorAt THEN (s.t - s.o.anchorAt) \div HOUR ELSE 0
      /\ m = "drawdownBpsFromEntry" =>
           v = IF s.p.units = 0 \/ s.p.costBasisE8 = 0 THEN 0
               ELSE TruncatedDiv((s.p.costBasisE8 - s.o.fairValueE8) * 10000, s.p.costBasisE8)
      /\ m = "priceVsThesisEntryBps" =>
           v = IF s.p.entryFairValueE8 = 0 THEN 0
               ELSE TruncatedDiv((s.o.fairValueE8 - s.p.entryFairValueE8) * 10000,
                                 s.p.entryFairValueE8)
  BY DEF Evaluate
<1> HIDE DEF v
<1>a. /\ m \in DOMAIN Lowest => Lowest[m] = 0
      /\ m \in {"basisBps", "priceVsThesisEntryBps"} => m \notin DOMAIN Lowest
  BY DEF Lowest
<1>b. /\ m \in {"gapRisk", "confidenceBps", "stalenessHours", "drawdownBpsFromEntry"}
           <=> m \in DOMAIN Highest
      /\ m = "gapRisk" => Highest[m] = 100
      /\ m = "confidenceBps" => Highest[m] = 10000
      /\ m = "stalenessHours" => Highest[m] = 8760
      /\ m = "drawdownBpsFromEntry" => Highest[m] = 10000
  BY DEF Highest
<1>1. CASE m = "gapRisk"
  <2>1. v \in Nat /\ v <= 100
    BY <1>0, <1>1, SeenIsMeasured
  <2> QED  BY <1>a, <1>b, <1>1, <2>1
<1>2. CASE m = "basisBps"
  <2>1. v \in Int
    BY <1>0, <1>2, SeenIsMeasured
  <2> QED  BY <1>a, <1>b, <1>2, <2>1
<1>3. CASE m = "confidenceBps"
  <2>1. v \in Nat /\ v <= 10000
    BY <1>0, <1>3, SeenIsMeasured
  <2> QED  BY <1>a, <1>b, <1>3, <2>1
<1>4. CASE m = "capacityUsdg"
  <2>1. v \in Nat
    BY <1>0, <1>4, SeenIsMeasured
  <2> QED  BY <1>a, <1>b, <1>4, <2>1
<1>5. CASE m = "stalenessHours"
  <2>1. ASSUME NEW h \in Nat \ {0}, NEW n \in Nat PROVE n \div h \in Nat
    BY SMT
  <2>2. s.t > s.o.anchorAt =>
          (s.t - s.o.anchorAt) \div HOUR \in Nat /\ (s.t - s.o.anchorAt) \div HOUR <= 8760
    <3>1. HOUR \in Nat \ {0} /\ (s.t > s.o.anchorAt => s.t - s.o.anchorAt \in Nat)
      BY SeenIsMeasured
    <3>2. s.t > s.o.anchorAt => (s.t - s.o.anchorAt) \div HOUR <= 8760
      BY SeenIsMeasured
    <3> QED  BY <2>1, <3>1, <3>2
  <2>3. v \in Nat /\ v <= 8760
    BY <1>0, <1>5, <2>2
  <2> QED  BY <1>a, <1>b, <1>5, <2>3
<1>6. CASE m = "drawdownBpsFromEntry"
  <2>1. CASE s.p.units = 0 \/ s.p.costBasisE8 = 0
    BY <1>0, <1>a, <1>b, <1>6, <2>1
  <2>2. CASE ~(s.p.units = 0 \/ s.p.costBasisE8 = 0)
    <3> DEFINE cost == s.p.costBasisE8
               worth == s.o.fairValueE8
    <3>1. s.p.units > 0 /\ cost \in Nat \ {0} /\ worth \in Nat
      BY <2>2, SeenIsMeasured
    <3>2. worth <= cost
      BY <3>1 DEF AtAGain
    <3>3. v = TruncatedDiv((cost - worth) * 10000, cost)
      BY <1>0, <1>6, <2>2
    <3> HIDE DEF cost, worth
    <3>4. v \in Int /\ v <= 10000 /\ v >= 0
      BY <3>1, <3>2, <3>3, FallsAreMeasured
    <3> QED  BY <1>a, <1>b, <1>6, <3>4
  <2> QED  BY <2>1, <2>2
<1>7. CASE m = "priceVsThesisEntryBps"
  <2>1. ASSUME NEW n \in Int, NEW d \in Nat \ {0} PROVE TruncatedDiv(n, d) \in Int
    <3>1. ASSUME NEW k \in Nat PROVE k \div d \in Int
      BY SMT
    <3> QED  BY <3>1 DEF TruncatedDiv
  <2>2. /\ (s.o.fairValueE8 - s.p.entryFairValueE8) * 10000 \in Int
        /\ s.p.entryFairValueE8 \in Nat
    BY SeenIsMeasured
  <2>3. v \in Int
    BY <1>0, <1>7, <2>1, <2>2
  <2> QED  BY <1>a, <1>b, <1>7, <2>3
<1> QED  BY <1>1, <1>2, <1>3, <1>4, <1>5, <1>6, <1>7 DEF Metric

\* A condition that is met is not one that reads "never".
LEMMA TheDroppedNeverHold ==
  ASSUME RulesAssumption, NEW s \in Seen, ~AtAGain(s),
         NEW m \in Metric, NEW comparator \in Comparator, NEW scaled \in Int,
         Reachability(m, comparator, scaled) = "never"
  PROVE  IF comparator = "gt" THEN ~(Evaluate(m, s.o, s.p, s.t) > scaled)
         ELSE ~(Evaluate(m, s.o, s.p, s.t) < scaled)
<1> DEFINE v == Evaluate(m, s.o, s.p, s.t)
<1>1. /\ v \in Int
      /\ m \in DOMAIN Lowest => v >= Lowest[m]
      /\ m \in DOMAIN Highest => v <= Highest[m]
  BY ValuesAreInTheDomain
<1>2. /\ m \in DOMAIN Lowest => Lowest[m] \in Int
      /\ m \in DOMAIN Highest => Highest[m] \in Int
  BY DEF Lowest, Highest, Metric
<1> HIDE DEF v
<1>3. CASE comparator = "gt"
  <2>1. m \in DOMAIN Highest /\ scaled >= Highest[m]
    BY <1>3 DEF Reachability
  <2> QED  BY <1>1, <1>2, <1>3, <2>1 DEF v
<1>4. CASE comparator = "lt"
  <2>1. m \in DOMAIN Lowest /\ scaled <= Lowest[m]
    BY <1>4 DEF Reachability
  <2> QED  BY <1>1, <1>2, <1>4, <2>1 DEF v
<1> QED  BY <1>3, <1>4 DEF Comparator

\* A whole condition is met exactly when its trigger fires.
LEMMA FiringIsHolding ==
  ASSUME RulesAssumption, NEW s \in Seen, ~AtAGain(s),
         NEW c, c.metric \in Metric, c.halves \in Int, c.comparator \in Comparator, Whole(c)
  PROVE  Holds(c, s) <=> Fired(TriggerOf(c), s.o, s.p, s.t)
<1> DEFINE v == Evaluate(c.metric, s.o, s.p, s.t)
           bound == c.halves * (IF c.metric \in CashDenominated THEN UNIT ELSE 1)
           scaled == ScaleThreshold(c.metric, c.halves)
<1>1. v \in Int
  BY ValuesAreInTheDomain
<1>2. scaled \in Int /\ 2 * scaled = bound
  BY ScalingIsExact
<1>3. Fired(TriggerOf(c), s.o, s.p, s.t)
        = IF c.comparator = "gt" THEN v > scaled ELSE v < scaled
  BY DEF Fired, TriggerOf
<1>4. Holds(c, s) = IF c.comparator = "gt" THEN v * 2 > bound ELSE v * 2 < bound
  BY DEF Holds
<1> HIDE DEF v, bound, scaled
<1>5. (v * 2 > bound <=> v > scaled) /\ (v * 2 < bound <=> v < scaled)
  BY ONLY <1>1, <1>2, SMT
<1> QED  BY <1>3, <1>4, <1>5

\* The state is a thesis as it was stated, and its allocation.
RulesInv ==
  /\ conditions = <<>> \/ conditions \in Theses
  /\ expresses = {} \/ expresses \in Expressing

\* One direction: a condition that is about the asset and met has a trigger that fires.
LEMMA NothingIsLost ==
  ASSUME RulesAssumption, RulesInv, NEW asset \in picked, NEW s \in Seen, ~AtAGain(s),
         NEW i \in DOMAIN conditions, Whole(conditions[i]), Observable(conditions[i]),
         Meant(conditions[i], asset), Available(conditions[i].metric, s.o, s.p),
         Holds(conditions[i], s)
  PROVE  \E tr \in Triggers :
           Covers(tr, asset) /\ Available(tr.metric, s.o, s.p) /\ Fired(tr, s.o, s.p, s.t)
<1> DEFINE c == conditions[i]
           tr == TriggerOf(c)
<1>1. c.comparator \in Comparator /\ c.halves \in Int /\ c.metric \in Metric
  <2>1. conditions \in Theses
    BY DEF RulesInv
  <2>2. StatedInHalves(conditions)
    BY <2>1 DEF RulesAssumption
  <2> QED  BY <2>2 DEF StatedInHalves, Observable
<1>2. Whole(c) /\ Meant(c, asset) /\ Holds(c, s) /\ Observable(c)
      /\ Available(c.metric, s.o, s.p) /\ c \in {conditions[j] : j \in DOMAIN conditions}
  OBVIOUS
<1>3. tr.metric = c.metric /\ tr.assets = Resolved(c) \cap picked
  BY DEF TriggerOf
<1> HIDE DEF c
<1>4. Fired(tr, s.o, s.p, s.t)
  BY <1>1, <1>2, FiringIsHolding
<1>5. Covers(tr, asset) /\ (c.appliesTo = {} \/ tr.assets # {})
  <2>1. CASE c.appliesTo = {}
    <3>1. Resolved(c) = {}
      BY <2>1 DEF Resolved
    <3> QED  BY <1>3, <2>1, <3>1 DEF Covers
  <2>2. CASE c.appliesTo # {}
    <3>1. PICK e \in c.appliesTo : <<asset, e>> \in expresses
      BY <1>2, <2>2 DEF Meant
    <3>2. <<asset, e>>[1] = asset /\ <<asset, e>>[2] = e
      OBVIOUS
    <3>3. asset \in Resolved(c)
      BY <3>1, <3>2 DEF Resolved
    <3> QED  BY <1>3, <3>3 DEF Covers
  <2> QED  BY <2>1, <2>2
<1>6. Reachability(c.metric, c.comparator, ScaleThreshold(c.metric, c.halves)) # "never"
  <2>1. ScaleThreshold(c.metric, c.halves) \in Int
    BY <1>1, <1>2, ScalingIsExact
  <2>2. IF c.comparator = "gt"
        THEN Evaluate(c.metric, s.o, s.p, s.t) > ScaleThreshold(c.metric, c.halves)
        ELSE Evaluate(c.metric, s.o, s.p, s.t) < ScaleThreshold(c.metric, c.halves)
    BY <1>4 DEF Fired, TriggerOf
  <2> QED  BY <1>1, <2>1, <2>2, TheDroppedNeverHold
<1>7. Installs(c)
  BY <1>2, <1>5, <1>6 DEF Installs
<1>8. tr \in Triggers
  BY <1>2, <1>7 DEF Triggers
<1> QED  BY <1>2, <1>3, <1>4, <1>5, <1>8

\* The other: a trigger that fires for the asset is of a condition about it that is met.
LEMMA NothingIsInvented ==
  ASSUME RulesAssumption, RulesInv, NEW asset \in picked, NEW s \in Seen, ~AtAGain(s),
         \A i \in DOMAIN conditions : Whole(conditions[i]),
         NEW tr \in Triggers,
         Covers(tr, asset), Available(tr.metric, s.o, s.p), Fired(tr, s.o, s.p, s.t)
  PROVE  \E i \in DOMAIN conditions :
           /\ Observable(conditions[i]) /\ Meant(conditions[i], asset)
           /\ Available(conditions[i].metric, s.o, s.p) /\ Holds(conditions[i], s)
<1>1. PICK i \in DOMAIN conditions : Installs(conditions[i]) /\ tr = TriggerOf(conditions[i])
  BY DEF Triggers
<1> DEFINE c == conditions[i]
<1>2. c.comparator \in Comparator /\ c.halves \in Int /\ Observable(c) /\ c.metric \in Metric
  <2>1. conditions \in Theses
    BY DEF RulesInv
  <2>2. StatedInHalves(conditions)
    BY <2>1 DEF RulesAssumption
  <2>3. Observable(conditions[i])
    BY <1>1 DEF Installs
  <2> QED  BY <2>2, <2>3 DEF StatedInHalves, Observable
<1>3. Whole(c) /\ Installs(c) /\ tr = TriggerOf(c)
  BY <1>1
<1> HIDE DEF c
<1>4. tr.metric = c.metric /\ tr.assets = Resolved(c) \cap picked
  BY <1>3 DEF TriggerOf
<1>5. Holds(c, s)
  BY <1>2, <1>3, FiringIsHolding
<1>6. Meant(c, asset)
  <2>1. CASE c.appliesTo = {}
    BY <2>1 DEF Meant
  <2>2. CASE c.appliesTo # {}
    <3>1. tr.assets # {}
      BY <1>3, <1>4, <2>2 DEF Installs, TriggerOf
    <3>2. asset \in Resolved(c)
      BY <1>4, <3>1 DEF Covers
    <3>3. PICK p \in expresses : p[2] \in c.appliesTo /\ p[1] = asset
      BY <3>2 DEF Resolved
    <3>4. p = <<p[1], p[2]>>
      BY <3>3 DEF RulesAssumption, RulesInv, OfPairs
    <3> QED  BY <3>3, <3>4 DEF Meant
  <2> QED  BY <2>1, <2>2
<1> QED  BY <1>2, <1>4, <1>5, <1>6 DEF c

\* The form only ever holds what was compiled.
LEMMA WhatIsCompiled == RulesSpec => []RulesInv
<1>1. RulesInit => RulesInv
  BY DEF RulesInit, RulesInv
<1>2. RulesInv /\ [RulesNext]_ruleVars => RulesInv'
  BY DEF RulesInv, RulesNext, Compile, Pick, ruleVars
<1> QED  BY <1>1, <1>2, PTL DEF RulesSpec

\* For every thesis, allocation and allowlist, and every observation within the domains
\* triggers.ts states, the triggers installed fire for an asset exactly when a condition
\* about it is met (triggers.ts 113-163, thesis.ts compileMandate).
THEOREM TheRulesSayWhatTheThesisSaysHolds ==
  ASSUME RulesAssumption PROVE RulesSpec => []TheRulesSayWhatTheThesisSays
<1>1. RulesInv => TheRulesSayWhatTheThesisSays
  <2> SUFFICES ASSUME RulesInv, NEW asset \in picked, NEW s \in Seen,
                      \A i \in DOMAIN conditions : Whole(conditions[i]), ~AtAGain(s)
               PROVE  SaysTheSame(asset, s)
    BY DEF TheRulesSayWhatTheThesisSays
  <2>1. ASSUME NEW i \in DOMAIN conditions, Observable(conditions[i]),
               Meant(conditions[i], asset), Available(conditions[i].metric, s.o, s.p),
               Holds(conditions[i], s)
        PROVE  \E tr \in Triggers : Covers(tr, asset) /\ Available(tr.metric, s.o, s.p)
                                      /\ Fired(tr, s.o, s.p, s.t)
    BY <2>1, NothingIsLost
  <2>2. ASSUME NEW tr \in Triggers, Covers(tr, asset), Available(tr.metric, s.o, s.p),
               Fired(tr, s.o, s.p, s.t)
        PROVE  \E i \in DOMAIN conditions :
                 /\ Observable(conditions[i]) /\ Meant(conditions[i], asset)
                 /\ Available(conditions[i].metric, s.o, s.p) /\ Holds(conditions[i], s)
    BY <2>2, NothingIsInvented
  <2> QED  BY <2>1, <2>2 DEF SaysTheSame
<1> QED  BY <1>1, WhatIsCompiled, PTL
=============================================================================
