-------------------------- MODULE SubscriptionsLemmas --------------------------
(* The inductive invariant of module Subscriptions and the facts its proof, in  *)
(* SubscriptionsProofs, rests on: which steps of the main loop change what a    *)
(* status query reads (app.rs, index.rs, mempool.rs, query.rs), what a queue    *)
(* holds last, and what a step of a connection (rpc.rs) leaves to show.         *)
EXTENDS Subscriptions, TLAPS

\* A transaction of a history with the height it is listed at.
Entry == Tx \X Int

\* What the chain tip can be.
Blocks == Block \cup {Genesis}

\* The notifications of a new tip, and all notifications.
Tips == [kind : {"tip"}, arg : Blocks]

Notice == [kind : {"script"}, arg : ScriptHash] \cup Tips

\* What a connection finds in its queue.
Message == Requests \cup Notice

\* A status query under way, a subscription, and a connection with both.
WorkType ==
  [at : {None, "funding", "spending", "mempool"},
   kind : {None, "subscribe", "subscribe_address", "script"}, arg : ScriptHash \cup {None},
   funding : SUBSET Entry, spending : SUBSET Entry]

SubType == [on : BOOLEAN, st : SUBSET Entry, alias : BOOLEAN]

ConnType ==
  [st : {"open", "closed"}, queue : Seq(Message), requests : Nat, work : WorkType,
   subs : [ScriptHash -> SubType], last : Blocks \cup {None}]

\* What a full queue has cost a connection: the scripthashes and the tips.
LostType == SUBSET (ScriptHash \cup Blocks)

-------------------------------------------------------------------------------
(* Queues: what is in one, and what comes last.                                 *)

\* Whether a sequence has an element of P, and whether the last one it has, if any, is x.
Has(s, P) == \E i \in 1 .. Len(s) : s[i] \in P

LastIs(s, P, x) ==
  Has(s, P) => /\ x \in P
               /\ \E i \in 1 .. Len(s) : s[i] = x /\ \A j \in 1 .. Len(s) : j > i => s[j] \notin P

-------------------------------------------------------------------------------
(* The inductive invariant.                                                     *)

\* Where the main loop is, and what it holds there: nothing while it waits, the
\* blocks aimed at while it indexes them, then what it will notify.
LoopInv ==
  /\ rows \in [Tx -> Int] /\ items \in SUBSET Tx /\ mem \in SUBSET Tx
  /\ active \in Seq(Block) /\ served \in Seq(Block) /\ target \in Seq(Block)
  /\ pc \in {"wait", "index", "mempool", "notify"} /\ written \in Nat
  /\ headers \in SUBSET Block /\ txs \in SUBSET Tx /\ tip \in {None, TipOf(served)}
  /\ pc # "index" => target = <<>>
  /\ pc = "index" => \A i \in 1 .. Len(target) : i > written => i \in NewBlocks
  /\ pc \in {"wait", "index"} => headers = {} /\ tip = None
  /\ pc # "notify" => txs = {}

\* A tip is in s.
HasTip(s) == Has(s, Tips)

\* The last tip in s, if there is one, is b.
TipEndsWith(s, b) == LastIs(s, Tips, [kind |-> "tip", arg |-> b])

\* The next tip for the clients is in the main loop, or the last one on its way is
\* the one served.
TipInv == tip = None => TipEndsWith(notifications, TipOf(served))

\* A status query: for a subscription that is not there yet, or
\* for a notification of one that is there.
WorkInv(k) ==
  k.work # NoWork =>
    /\ k.work.at # None /\ k.work.arg \in ScriptHash
    /\ \/ k.work.kind = "script" /\ k.subs[k.work.arg].on
       \/ /\ k.work.kind \in {"subscribe", "subscribe_address"}
          /\ k.subs[k.work.arg] = NotSubscribed

\* A notification for sh is on its way to the connection k, or lost to it (L).
Pending(k, L, sh) ==
  \/ BeingIndexed(sh)
  \/ Carries(notifications, "script", sh)
  \/ Carries(k.queue, "script", sh)
  \/ sh \in L

\* What a status query has read so far is current, or it will be made again.
ReadInv(k, L) ==
  LET w == k.work IN
  /\ w.at \in {"spending", "mempool"} => w.funding = confirmed_funding(w.arg) \/ Pending(k, L, w.arg)
  /\ w.at = "mempool" => w.spending = confirmed_spending(w.arg, w.funding) \/ Pending(k, L, w.arg)

\* A stored status is current up to the sign of a mempool height that the parents outside
\* the script decide, or is being computed, or will be.
StoredInv(k, L) ==
  \A sh \in Subscribed(k.subs) :
    \/ Coarse(k.subs[sh].st, sh) = Coarse(Status(sh), sh)
    \/ k.work.arg = sh
    \/ Pending(k, L, sh)

\* The last tip on its way to k is the one served; with none on its way k knows that one.
LastTipInv(k, L) ==
  \/ tip # None \/ HasTip(notifications) \/ TipOf(served) \in L
  \/ /\ TipEndsWith(k.queue, TipOf(served))
     /\ HasTip(k.queue) \/ k.last \in {None, TipOf(served)}

\* All of the above for the connection c, with the state k and the losses L.
ConnInv(c, k, L) ==
  /\ k \in ConnType /\ L \in LostType
  /\ k.st = "open" => c \in senders
  /\ k.st = "closed" => k.queue = <<>> /\ k.work = NoWork /\ k.last = None /\ Subscribed(k.subs) = {}
  /\ WorkInv(k)
  /\ ReadInv(k, L) /\ StoredInv(k, L) /\ LastTipInv(k, L)

\* The inductive invariant: the main loop, the tip it will send, and every connection.
Inv ==
  /\ LoopInv /\ TipInv
  /\ notifications \in Seq(Notice) /\ senders \in SUBSET Conn
  /\ conn \in [Conn -> ConnType] /\ lost \in [Conn -> LostType]
  /\ \A c \in Conn : ConnInv(c, conn[c], lost[c])

-------------------------------------------------------------------------------
(* The main loop.                                                               *)

\* The tip of a chain of blocks is a block, the first one if there is no other.
LEMMA TipType ==
  ASSUME NEW s \in Seq(Block)
  PROVE  TipOf(s) \in Blocks /\ TipOf(s) # None /\ TipOf(s) \notin ScriptHash
<1>1. TipOf(s) \in Blocks
  <2>1. CASE s = <<>>
    BY <2>1 DEF TipOf, Blocks
  <2>2. CASE s # <<>>
    <3>1. Len(s) \in 1 .. Len(s)
      BY <2>2
    <3>2. s[Len(s)] \in Block
      BY <3>1
    <3> QED BY <2>2, <3>2 DEF TipOf, Blocks
  <2> QED BY <2>1, <2>2
<1> QED BY <1>1, SubscriptionConstants DEF Blocks

\* The server starts with the index of the daemon's chain and its mempool.
LEMMA LoopInitInv ==
  LoopInit => LoopInv
<1> SUFFICES ASSUME LoopInit PROVE LoopInv
  OBVIOUS
<1>1. rows \in [Tx -> Nat \cup {NoHeight}]
  BY MainLoopConstants DEF LoopInit
<1>2. rows \in [Tx -> Int]
  BY <1>1 DEF NoHeight
<1> QED BY <1>2, MainLoopConstants DEF LoopInit, LoopInv

\* The transactions of a block.
LEMMA TxsOfType ==
  ASSUME NEW b \in Block
  PROVE  TxsOf(b) \in SUBSET Tx
<1>1. Txids[b] \in Seq(Tx)
  BY MainLoopConstants
<1> QED BY <1>1 DEF TxsOf, Range

\* The daemon changes nothing of the server.
LEMMA DaemonLoop ==
  LoopInv /\ (ChainChange \/ MempoolChange) => LoopInv'
<1> SUFFICES ASSUME LoopInv, ChainChange \/ MempoolChange PROVE LoopInv'
  OBVIOUS
<1>1. UNCHANGED <<serverVars, mainVars>>
  BY DEF ChainChange, MempoolChange
<1>2. active' \in Seq(Block)
  <2>1. CASE ChainChange
    <3>1. PICK k \in 0 .. Len(active), n \in 0 .. 2 : \E ext \in [1 .. n -> Block] :
            active' = SubSeq(active, 1, k) \o ext
      BY ZenonT(30), <2>1 DEF ChainChange
    <3>2. PICK ext \in [1 .. n -> Block] : active' = SubSeq(active, 1, k) \o ext
      BY <3>1
    <3>3. ext \in Seq(Block) /\ SubSeq(active, 1, k) \in Seq(Block)
      BY DEF LoopInv
    <3> QED BY SMTT(30), <3>2, <3>3
  <2>2. CASE MempoolChange
    BY <2>2 DEF MempoolChange, LoopInv
  <2> QED BY <2>1, <2>2
<1>3. mem' \in SUBSET Tx
  <2>1. CASE ChainChange
    <3>1. Confirmed(active) \subseteq Tx
      <4>1. \A i \in 1 .. Len(active) : TxsOf(active[i]) \in SUBSET Tx
        BY TxsOfType DEF LoopInv
      <4> QED BY <4>1 DEF Confirmed
    <3> QED BY ZenonT(60), <2>1, <3>1 DEF ChainChange, LoopInv
  <2>2. CASE MempoolChange
    BY <2>2 DEF MempoolChange, LoopInv
  <2> QED BY ZenonT(60), <2>1, <2>2
<1>4. NewBlocks' = NewBlocks /\ TipOf(served)' = TipOf(served)
  BY <1>1 DEF NewBlocks, TipOf, serverVars, mainVars
<1> QED BY <1>1, <1>2, <1>3, <1>4 DEF LoopInv, serverVars, mainVars

\* The steps of the main loop before it notifies: a block arrives in the index, the last
\* row is written, the mempool is read.
LEMMA IndexingLoop ==
  LoopInv /\ Indexing => LoopInv'
<1> SUFFICES ASSUME LoopInv, Indexing PROVE LoopInv'
  OBVIOUS
<1>1. CASE AppUpdate
  <2>1. UNCHANGED <<daemonVars, serverVars, txs>> /\ headers' = {} /\ tip' = None /\ pc = "wait"
    BY <1>1 DEF AppUpdate
  <2>2. target' \in Seq(Block) /\ written' \in Nat /\ pc' \in {"index", "mempool"}
    <3>1. CASE TipOf(served) # TipOf(active)
      BY <1>1, <3>1 DEF AppUpdate, LoopInv
    <3>2. CASE TipOf(served) = TipOf(active)
      BY <1>1, <3>2 DEF AppUpdate, LoopInv
    <3> QED BY <3>1, <3>2
  <2>3. pc' # "index" => target' = <<>>
    BY <1>1 DEF AppUpdate, LoopInv
  <2>4. ASSUME pc' = "index", NEW i \in 1 .. Len(target'), i > written' PROVE i \in NewBlocks'
    BY <1>1, <2>1, <2>4 DEF AppUpdate, LoopInv, NewBlocks, daemonVars, serverVars
  <2> QED BY <2>1, <2>2, <2>3, <2>4 DEF LoopInv, daemonVars, serverVars
<1>2. CASE WriteBlock
  <2>1. rows' \in [Tx -> Int]
    BY <1>2 DEF WriteBlock, LoopInv
  <2>2. NewBlocks' = NewBlocks /\ TipOf(served)' = TipOf(served) /\ written' = written + 1
    BY <1>2 DEF WriteBlock, NewBlocks, TipOf
  <2> QED BY <1>2, <2>1, <2>2 DEF WriteBlock, LoopInv, daemonVars
<1>3. CASE PublishHeaders
  <2>1. headers' \in SUBSET Block
    BY <1>3 DEF PublishHeaders, LoopInv, NewBlocks
  <2>2. tip' = TipOf(served)'
    BY <1>3 DEF PublishHeaders, TipOf
  <2> QED BY <1>3, <2>1, <2>2 DEF PublishHeaders, LoopInv, daemonVars
<1>4. CASE UpdateMempool
  <2>1. TipOf(served)' = TipOf(served)
    BY <1>4 DEF UpdateMempool, TipOf
  <2> QED BY <1>4, <2>1 DEF UpdateMempool, LoopInv, daemonVars
<1> QED BY <1>1, <1>2, <1>3, <1>4 DEF Indexing

\* Once it has notified, the main loop waits with nothing held.
LEMMA NotifiedLoop ==
  LoopInv /\ Notified => LoopInv'
BY DEF LoopInv, Notified, daemonVars, serverVars, TipOf

-------------------------------------------------------------------------------
(* When a status changes.                                                       *)

\* The transactions the main loop has changed something for and not yet notified.
Told ==
  (UNION {TxsOf(b) : b \in headers}) \cup txs
    \cup (UNION {TxsOf(target[i]) : i \in {j \in NewBlocks : j <= written}})

\* The scripthashes to notify are those of some transaction to be told.
LEMMA ToldEffects ==
  ASSUME NEW sh, NEW S
  PROVE  sh \in Effected(S) <=> \E t \in S : sh \in get_scripthashes_effected_by_tx(t)
BY DEF Effected

\* So is BeingIndexed, before and after a step.
LEMMA ToldIs ==
  ASSUME NEW sh
  PROVE  /\ BeingIndexed(sh) <=> \E t \in Told : sh \in get_scripthashes_effected_by_tx(t)
         /\ BeingIndexed(sh)' <=> \E t \in Told' : sh \in get_scripthashes_effected_by_tx(t)
BY ZenonT(60), ToldEffects DEF BeingIndexed, Told

\* What a query reads depends on the rows, the transactions stored and the tracker alone.
LEMMA StatusFrame ==
  ASSUME UNCHANGED <<rows, items>>, NEW sh
  PROVE  /\ confirmed_funding(sh)' = confirmed_funding(sh)
         /\ \A F : confirmed_spending(sh, F)' = confirmed_spending(sh, F)
         /\ \A F, S : StatusWith(sh, F, S)' = StatusWith(sh, F, S)
         /\ Status(sh)' = Status(sh)
BY DEF confirmed_funding, confirmed_spending, StatusWith, Status, history, unconfirmed_funding,
       unconfirmed_spending, MempoolHeight

\* The three reads of a status query return entries of transactions.
LEMMA StatusType ==
  ASSUME LoopInv, NEW sh
  PROVE  /\ confirmed_funding(sh) \in SUBSET Entry
         /\ \A F : confirmed_spending(sh, F) \in SUBSET Entry
         /\ unconfirmed_funding(sh) \in SUBSET Entry
         /\ \A F : unconfirmed_spending(sh, F) \in SUBSET Entry
         /\ \A F, S \in SUBSET Entry : StatusWith(sh, F, S) \in SUBSET Entry
<1>1. confirmed_funding(sh) \in SUBSET Entry
  BY DEF LoopInv, confirmed_funding, Entry
<1>2. ASSUME NEW F PROVE confirmed_spending(sh, F) \in SUBSET Entry
  <2> DEFINE Spender(u) == SpendsOneOf(u, {f[1] : f \in F}, sh)
  <2>1. confirmed_spending(sh, F) = {<<t, rows[t]>> : t \in {u \in Tx : rows[u] # NoHeight /\ Spender(u)}}
    BY DEF confirmed_spending
  <2> HIDE DEF Spender
  <2> QED BY <2>1 DEF LoopInv, Entry
<1>3. \A t : MempoolHeight(t) \in Int
  BY DEF MempoolHeight
<1>4. unconfirmed_funding(sh) \in SUBSET Entry
  BY <1>3 DEF LoopInv, unconfirmed_funding, Entry
<1>5. ASSUME NEW F PROVE unconfirmed_spending(sh, F) \in SUBSET Entry
  <2> DEFINE Spender(u) == SpendsOneOf(u, {f[1] : f \in F}, sh)
  <2>1. unconfirmed_spending(sh, F) = {<<t, MempoolHeight(t)>> : t \in {u \in items : Spender(u)}}
    BY DEF unconfirmed_spending
  <2> HIDE DEF Spender
  <2> QED BY <1>3, <2>1 DEF LoopInv, Entry
<1>6. ASSUME NEW F \in SUBSET Entry, NEW S \in SUBSET Entry PROVE StatusWith(sh, F, S) \in SUBSET Entry
  <2>1. \A A, B \in SUBSET Entry : Insert(A, B) \in SUBSET Entry
    BY DEF Insert
  <2> QED BY <1>4, <1>5, <2>1 DEF StatusWith, history
<1> QED BY <1>1, <1>2, <1>4, <1>5, <1>6

\* The transactions of a new block whose rows are written are told to the clients; the
\* rows of the others are as they were.
LEMMA WriteBlockStatus ==
  ASSUME LoopInv, WriteBlock, NEW sh \in ScriptHash, ~ BeingIndexed(sh)'
  PROVE  /\ confirmed_funding(sh)' = confirmed_funding(sh)
         /\ \A F : confirmed_spending(sh, F)' = confirmed_spending(sh, F)
<1> DEFINE T == TxsOf(target[written + 1])
<1>1. written + 1 \in NewBlocks' /\ written + 1 <= written'
  BY DEF LoopInv, WriteBlock, NewBlocks
<1>2. \A t \in T : sh \notin Funds[t] /\ \A o \in Spends[t] : o[2] # sh
  <2>1. ASSUME NEW t \in T PROVE sh \notin get_scripthashes_effected_by_tx(t)
    <3>1. t \in UNION {TxsOf(target[i]) : i \in {j \in NewBlocks' : j <= written'}}
      BY <1>1
    <3>2. target' = target
      BY DEF WriteBlock
    <3> HIDE DEF T
    <3>3. t \in Told'
      BY <3>1, <3>2 DEF Told
    <3> QED BY <3>3, ToldIs
  <2> QED BY <2>1 DEF get_scripthashes_effected_by_tx
<1>3. \A t \in Tx \ T : rows'[t] = rows[t]
  BY ZenonT(60) DEF WriteBlock
<1> HIDE DEF T
<1>4. confirmed_funding(sh)' = confirmed_funding(sh)
  <2>1. {u \in Tx : rows'[u] # NoHeight /\ sh \in Funds[u]} = {u \in Tx : rows[u] # NoHeight /\ sh \in Funds[u]}
    BY <1>2, <1>3
  <2>2. \A u \in {v \in Tx : rows[v] # NoHeight /\ sh \in Funds[v]} : rows'[u] = rows[u]
    BY <1>2, <1>3
  <2> QED BY ZenonT(60), <2>1, <2>2 DEF confirmed_funding
<1>5. ASSUME NEW F PROVE confirmed_spending(sh, F)' = confirmed_spending(sh, F)
  <2> DEFINE O == {f[1] : f \in F}
             Spender(u) == SpendsOneOf(u, O, sh)
  <2>1. \A t \in T : ~ Spender(t)
    BY ZenonT(30), <1>2 DEF SpendsOneOf
  <2> HIDE DEF Spender
  <2>2. {u \in Tx : rows'[u] # NoHeight /\ Spender(u)} = {u \in Tx : rows[u] # NoHeight /\ Spender(u)}
    BY <1>3, <2>1
  <2>3. \A u \in {v \in Tx : rows[v] # NoHeight /\ Spender(v)} : rows'[u] = rows[u]
    BY ZenonT(30), <1>3, <2>1
  <2>4. {<<t, rows'[t]>> : t \in {u \in Tx : rows'[u] # NoHeight /\ Spender(u)}}
          = {<<t, rows[t]>> : t \in {u \in Tx : rows[u] # NoHeight /\ Spender(u)}}
    BY <2>2, <2>3
  <2> QED BY ZenonT(30), <2>4 DEF confirmed_spending, Spender
<1> QED BY ZenonT(60), <1>4, <1>5

\* A later entry replaces an earlier one of the same transaction, however heights are told
\* apart.
LEMMA CoarseInsert ==
  ASSUME NEW A \in SUBSET Entry, NEW B \in SUBSET Entry, NEW sh
  PROVE  Coarse(Insert(A, B), sh) = Insert(Coarse(A, sh), Coarse(B, sh))
<1> DEFINE h(e) == <<e[1], IF e[2] < 0 /\ ~ ParentsTouch(e[1], sh) THEN 0 ELSE e[2]>>
<1>1. \A e : h(e)[1] = e[1]
  OBVIOUS
<1>2. \A X : Coarse(X, sh) = {h(e) : e \in X}
  BY ZenonT(30) DEF Coarse
<1> HIDE DEF h
<1>3. ASSUME NEW x, x \in {h(e) : e \in Insert(A, B)}
      PROVE  x \in Insert({h(e) : e \in A}, {h(e) : e \in B})
  <2>1. PICK e \in Insert(A, B) : x = h(e)
    BY <1>3
  <2>2. CASE e \in B
    BY ZenonT(30), <2>1, <2>2 DEF Insert
  <2>3. CASE e \in A /\ \A m \in B : m[1] # e[1]
    BY <1>1, <2>1, <2>3 DEF Insert
  <2> QED BY <2>2, <2>3 DEF Insert
<1>4. ASSUME NEW x, x \in Insert({h(e) : e \in A}, {h(e) : e \in B})
      PROVE  x \in {h(e) : e \in Insert(A, B)}
  <2>1. CASE x \in {h(e) : e \in B}
    BY <2>1 DEF Insert
  <2>2. CASE x \in {h(e) : e \in A} /\ \A m \in {h(e) : e \in B} : m[1] # x[1]
    <3>1. PICK e \in A : x = h(e)
      BY <2>2
    <3>2. \A m \in B : m[1] # e[1]
      BY ZenonT(30), <1>1, <2>2, <3>1
    <3> QED BY <3>1, <3>2 DEF Insert
  <2> QED BY <1>4, <2>1, <2>2 DEF Insert
<1>5. {h(e) : e \in Insert(A, B)} = Insert({h(e) : e \in A}, {h(e) : e \in B})
  BY <1>3, <1>4
<1> QED BY ZenonT(30), <1>2, <1>5

\* An entry as Coarse() has it.
CoarseEntry(t, x, sh) == <<t, IF x < 0 /\ ~ ParentsTouch(t, sh) THEN 0 ELSE x>>

\* Coarse() works entry by entry.
LEMMA CoarsePairs ==
  ASSUME NEW U, NEW m \in [U -> Int], NEW A, \A e : e \in A <=> \E t \in U : e = <<t, m[t]>>, NEW sh
  PROVE  /\ \A x : x \in Coarse(A, sh) <=> \E t \in U : x = CoarseEntry(t, m[t], sh)
         /\ \A x : x \in U <=> \E f \in A : f[1] = x
<1>1. \A t \in U : <<t, m[t]>> \in A /\ <<t, m[t]>>[1] = t /\ <<t, m[t]>>[2] = m[t]
  OBVIOUS
<1>2. \A e \in A : \E t \in U : e = <<t, m[t]>> /\ e[1] = t /\ e[2] = m[t]
  OBVIOUS
<1>3. \A x : x \in Coarse(A, sh) <=> \E e \in A : x = CoarseEntry(e[1], e[2], sh)
  BY DEF Coarse, CoarseEntry
<1>4. ASSUME NEW x, x \in Coarse(A, sh) PROVE \E t \in U : x = CoarseEntry(t, m[t], sh)
  <2>1. PICK e \in A : x = CoarseEntry(e[1], e[2], sh)
    BY <1>3, <1>4
  <2>2. PICK t \in U : e[1] = t /\ e[2] = m[t]
    BY <1>2
  <2> QED BY <2>1, <2>2
<1>5. ASSUME NEW t \in U PROVE CoarseEntry(t, m[t], sh) \in Coarse(A, sh)
  <2>1. PICK e \in A : e[1] = t /\ e[2] = m[t]
    BY ZenonT(30), <1>1
  <2> QED BY <1>3, <2>1
<1>6. \A x : x \in U <=> \E f \in A : f[1] = x
  BY ZenonT(60), <1>1, <1>2
<1> QED BY <1>4, <1>5, <1>6

\* Every transaction that enters or leaves the tracker is told to the clients; the height
\* of another one changes only with its parents.
LEMMA UpdateMempoolStatus ==
  ASSUME LoopInv, UpdateMempool, NEW sh \in ScriptHash, ~ BeingIndexed(sh)',
         NEW F \in SUBSET Entry, NEW S \in SUBSET Entry
  PROVE  Coarse(StatusWith(sh, F, S)', sh) = Coarse(StatusWith(sh, F, S), sh)
<1> DEFINE D == (items \ mem) \cup (mem \ items)
           h(t, x) == CoarseEntry(t, x, sh)
<1>1. items' = mem /\ txs' = D /\ items \in SUBSET Tx /\ mem \in SUBSET Tx
  BY DEF UpdateMempool, LoopInv
<1>2. \A t \in D : sh \notin get_scripthashes_effected_by_tx(t)
  <2>1. D \subseteq Told'
    BY ZenonT(30), <1>1 DEF Told
  <2> HIDE DEF D
  <2> QED BY <2>1, ToldIs
<1>3. \A t \in D : sh \notin Funds[t] /\ \A o \in Spends[t] : o[2] # sh
  BY ZenonT(30), <1>2 DEF get_scripthashes_effected_by_tx
<1>4. \A t : MempoolHeight(t) \in Int /\ MempoolHeight(t)' \in Int
  BY DEF MempoolHeight
<1>5. ASSUME NEW t PROVE h(t, MempoolHeight(t)') = h(t, MempoolHeight(t))
  <2>1. CASE ParentsTouch(t, sh)
    <3>1. \A o \in Spends[t] : o[1] \notin D
      BY ZenonT(30), <1>2, <2>1 DEF ParentsTouch
    <3>2. \A o \in Spends[t] : o[1] \in items <=> o[1] \in items'
      BY ZenonT(60), <1>1, <3>1
    <3> QED BY ZenonT(60), <3>2 DEF MempoolHeight
  <2>2. CASE ~ ParentsTouch(t, sh)
    <3>1. MempoolHeight(t) \in {-1, 0} /\ MempoolHeight(t)' \in {-1, 0}
      BY ZenonT(30) DEF MempoolHeight
    <3>2. -1 < 0 /\ ~ (0 < 0)
      OBVIOUS
    <3> QED BY ZenonT(30), <2>2, <3>1, <3>2 DEF CoarseEntry
  <2> QED BY ZenonT(60), <2>1, <2>2
<1> DEFINE a == [t \in Tx |-> MempoolHeight(t)]
           b == [t \in Tx |-> MempoolHeight(t)']
<1>6. a \in [Tx -> Int] /\ b \in [Tx -> Int] /\ \A t \in Tx : h(t, a[t]) = h(t, b[t])
  BY <1>4, <1>5
<1>7. ASSUME NEW U \in SUBSET Tx
       PROVE  /\ {<<t, MempoolHeight(t)>> : t \in U} = {<<t, a[t]>> : t \in U}
              /\ {<<t, MempoolHeight(t)'>> : t \in U} = {<<t, b[t]>> : t \in U}
  BY ZenonT(60)
<1> HIDE DEF a, b
<1> DEFINE Pairs(m, U) == {<<t, m[t]>> : t \in U}
<1>8. ASSUME NEW U \in SUBSET Tx, NEW m \in [Tx -> Int]
       PROVE  /\ Pairs(m, U) \in SUBSET Entry
              /\ \A x : x \in Coarse(Pairs(m, U), sh) <=> \E t \in U : x = h(t, m[t])
              /\ \A x : x \in U <=> \E f \in Pairs(m, U) : f[1] = x
  <2> DEFINE A == Pairs(m, U)
             n == [t \in U |-> m[t]]
  <2>1. n \in [U -> Int] /\ \A t \in U : n[t] = m[t]
    OBVIOUS
  <2>2. A \in SUBSET Entry
    BY DEF Entry
  <2>3. \A e : e \in A <=> \E t \in U : e = <<t, n[t]>>
    OBVIOUS
  <2> HIDE DEF n, A
  <2>4. /\ \A x : x \in Coarse(A, sh) <=> \E t \in U : x = h(t, n[t])
        /\ \A x : x \in U <=> \E f \in A : f[1] = x
    BY <2>1, <2>3, CoarsePairs
  <2>5. \A x : x \in Coarse(A, sh) <=> \E t \in U : x = h(t, m[t])
    BY ZenonT(60), <2>1, <2>4
  <2> QED BY <2>2, <2>4, <2>5 DEF A
<1>9. ASSUME NEW U \in SUBSET Tx PROVE Coarse(Pairs(b, U), sh) = Coarse(Pairs(a, U), sh)
  <2> HIDE DEF h, Pairs
  <2>1. \A x : x \in Coarse(Pairs(a, U), sh) <=> \E t \in U : x = h(t, a[t])
    BY ZenonT(30), <1>6, <1>8
  <2>2. \A x : x \in Coarse(Pairs(b, U), sh) <=> \E t \in U : x = h(t, b[t])
    BY ZenonT(30), <1>6, <1>8
  <2>3. \A x : x \in Coarse(Pairs(b, U), sh) <=> x \in Coarse(Pairs(a, U), sh)
    BY ZenonT(60), <1>6, <2>1, <2>2
  <2> QED BY <2>3 DEF Coarse
<1> DEFINE MF == unconfirmed_funding(sh)
           MS == unconfirmed_spending(sh, F \cup MF)
           U == {u \in items : sh \in Funds[u]}
<1>10. /\ Coarse(MF', sh) = Coarse(MF, sh) /\ MF \in SUBSET Entry /\ MF' \in SUBSET Entry
      /\ \A x : (\E f \in F \cup MF : f[1] = x) <=> (\E f \in F \cup MF' : f[1] = x)
  <2>1. {u \in items' : sh \in Funds[u]} = U
    BY ZenonT(30), <1>1, <1>3
  <2>2. U \in SUBSET Tx
    BY ZenonT(30), <1>1
  <2>3. MF = Pairs(a, U) /\ MF' = Pairs(b, U)
    <3>1. MF = {<<t, MempoolHeight(t)>> : t \in U} /\ MF' = {<<t, MempoolHeight(t)'>> : t \in U}
      BY ZenonT(30), <2>1 DEF unconfirmed_funding
    <3> HIDE DEF U, MF
    <3> QED BY ZenonT(30), <1>7, <2>2, <3>1
  <2> HIDE DEF MF, U, Pairs, h
  <2>4. /\ \A x : x \in U <=> \E f \in MF : f[1] = x
        /\ \A x : x \in U <=> \E f \in MF' : f[1] = x
    BY ZenonT(30), <1>6, <1>8, <2>3, <2>2
  <2>5. Coarse(MF', sh) = Coarse(MF, sh) /\ MF \in SUBSET Entry /\ MF' \in SUBSET Entry
    BY ZenonT(60), <1>6, <1>8, <1>9, <2>3, <2>2
  <2> QED BY ZenonT(30), <2>4, <2>5
<1>11. Coarse(MS', sh) = Coarse(MS, sh) /\ MS \in SUBSET Entry /\ MS' \in SUBSET Entry
  <2> DEFINE W == {u \in items : SpendsOneOf(u, {f[1] : f \in F \cup MF}, sh)}
  <2>1. \A u : SpendsOneOf(u, {f[1] : f \in F \cup MF'}, sh) <=> SpendsOneOf(u, {f[1] : f \in F \cup MF}, sh)
    <3> HIDE DEF MF
    <3>1. \A X, u : SpendsOneOf(u, {f[1] : f \in X}, sh) <=> \E p : <<p, sh>> \in Spends[u] /\ \E f \in X : f[1] = p
      BY ZenonT(30) DEF SpendsOneOf
    <3> QED BY ZenonT(60), <1>10, <3>1
  <2>2. {u \in items' : SpendsOneOf(u, {f[1] : f \in F \cup MF}, sh)} = W
    BY ZenonT(30), <1>1, <1>3 DEF SpendsOneOf
  <2>3. MS = {<<t, MempoolHeight(t)>> : t \in W}
    BY ZenonT(30) DEF unconfirmed_spending
  <2>4. MS' = {<<t, MempoolHeight(t)'>> : t \in {u \in items' : SpendsOneOf(u, {f[1] : f \in F \cup MF'}, sh)}}
    BY ZenonT(30) DEF unconfirmed_spending
  <2>5. {u \in items' : SpendsOneOf(u, {f[1] : f \in F \cup MF'}, sh)} = W
    BY ZenonT(30), <2>1, <2>2
  <2>6. W \in SUBSET Tx
    BY SMTT(30), <1>1
  <2> HIDE DEF W, MS
  <2>7. MS = Pairs(a, W) /\ MS' = Pairs(b, W)
    BY ZenonT(30), <1>7, <2>3, <2>4, <2>5, <2>6
  <2> HIDE DEF Pairs, h
  <2> QED BY <1>6, <1>8, <1>9, <2>6, <2>7
<1>12. /\ StatusWith(sh, F, S) = Insert(Insert(Insert(F, MF), S), MS)
      /\ StatusWith(sh, F, S)' = Insert(Insert(Insert(F, MF'), S), MS')
  BY DEF StatusWith, history
<1> HIDE DEF MF, MS
<1>13. \A A, B \in SUBSET Entry : Insert(A, B) \in SUBSET Entry
  BY ZenonT(30) DEF Insert
<1>14. ASSUME NEW A \in SUBSET Entry, NEW B \in SUBSET Entry
       PROVE  Coarse(Insert(Insert(Insert(F, A), S), B), sh)
                = Insert(Insert(Insert(Coarse(F, sh), Coarse(A, sh)), Coarse(S, sh)), Coarse(B, sh))
  BY <1>13, CoarseInsert
<1> QED BY <1>10, <1>11, <1>12, <1>14

\* One step of the main loop before it notifies: what a query would read changes only for
\* the scripthashes that the loop will notify.
LEMMA IndexingStatus ==
  ASSUME LoopInv, Indexing, NEW sh \in ScriptHash
  PROVE  /\ BeingIndexed(sh) => BeingIndexed(sh)'
         /\ ~ BeingIndexed(sh)' =>
              /\ confirmed_funding(sh)' = confirmed_funding(sh)
              /\ \A F : confirmed_spending(sh, F)' = confirmed_spending(sh, F)
              /\ Coarse(Status(sh)', sh) = Coarse(Status(sh), sh)
<1>1. CASE AppUpdate
  <2>1. Told = {}
    BY <1>1 DEF AppUpdate, LoopInv, Told, NewBlocks
  <2>2. UNCHANGED <<rows, items>>
    BY ZenonT(30), <1>1 DEF AppUpdate, serverVars
  <2> QED BY ZenonT(60), <2>1, <2>2, ToldIs, StatusFrame
<1>2. CASE WriteBlock
  <2>1. Told \subseteq Told'
    <3>1. /\ NewBlocks' = NewBlocks /\ written' = written + 1 /\ target' = target /\ headers' = headers
          /\ txs' = txs /\ NewBlocks \subseteq Int
      BY <1>2 DEF WriteBlock, NewBlocks
    <3>2. {j \in NewBlocks : j <= written} \subseteq {j \in NewBlocks' : j <= written'}
      <4>1. \A j \in NewBlocks : j <= written => j <= written'
        BY <3>1 DEF LoopInv
      <4> QED BY <3>1, <4>1, Zenon
    <3> QED BY ZenonT(60), <3>1, <3>2 DEF Told
  <2>2. ASSUME ~ BeingIndexed(sh)' PROVE Coarse(Status(sh)', sh) = Coarse(Status(sh), sh)
    <3>1. \A F, S : StatusWith(sh, F, S)' = StatusWith(sh, F, S)
      BY ZenonT(60), <1>2 DEF WriteBlock, StatusWith, history, unconfirmed_funding,
         unconfirmed_spending, MempoolHeight
    <3>2. Status(sh)' = Status(sh)
      BY <1>2, <2>2, <3>1, WriteBlockStatus DEF Status
    <3> QED BY SMTT(30), <3>2
  <2> QED BY ZenonT(30), <1>2, <2>1, <2>2, ToldIs, WriteBlockStatus
<1>3. CASE PublishHeaders
  <2>1. Told \subseteq Told'
    BY <1>3 DEF PublishHeaders, LoopInv, Told, NewBlocks
  <2>2. UNCHANGED <<rows, items>>
    BY ZenonT(30), <1>3 DEF PublishHeaders
  <2> QED BY ZenonT(30), <2>1, <2>2, ToldIs, StatusFrame
<1>4. CASE UpdateMempool
  <2>1. Told \subseteq Told'
    BY SMTT(30), <1>4 DEF UpdateMempool, LoopInv, Told, NewBlocks
  <2>2. /\ confirmed_funding(sh)' = confirmed_funding(sh)
        /\ \A F : confirmed_spending(sh, F)' = confirmed_spending(sh, F)
    BY ZenonT(30), <1>4 DEF UpdateMempool, confirmed_funding, confirmed_spending
  <2>3. ASSUME ~ BeingIndexed(sh)' PROVE Coarse(Status(sh)', sh) = Coarse(Status(sh), sh)
    <3> DEFINE F == confirmed_funding(sh)
               S == confirmed_spending(sh, F)
    <3>1. F \in SUBSET Entry /\ S \in SUBSET Entry
      BY StatusType
    <3>2. Status(sh) = StatusWith(sh, F, S)
      BY DEF Status
    <3>3. Status(sh)' = StatusWith(sh, F, S)'
      BY DEF Status
    <3>4. F' = F /\ S' = S
      BY ZenonT(30), <2>2
    <3> HIDE DEF F, S
    <3>5. ASSUME NEW A \in SUBSET Entry, NEW B \in SUBSET Entry
          PROVE  Coarse(StatusWith(sh, A, B)', sh) = Coarse(StatusWith(sh, A, B), sh)
      BY ZenonT(30), <1>4, <2>3, UpdateMempoolStatus
    <3> QED BY ZenonT(60), <3>1, <3>2, <3>3, <3>4, <3>5
  <2> QED BY ZenonT(60), <2>1, <2>2, <2>3, ToldIs
<1> QED BY ZenonT(30), <1>1, <1>2, <1>3, <1>4 DEF Indexing

-------------------------------------------------------------------------------
(* Queues.                                                                      *)

\* With one more element,
LEMMA LastAppend ==
  ASSUME NEW M, NEW s \in Seq(M), NEW m \in M
  PROVE  /\ Append(s, m) \in Seq(M) /\ Append(s, m) # <<>>
         /\ \A P : /\ Has(Append(s, m), P) <=> Has(s, P) \/ m \in P
                   /\ m \notin P => \A x : LastIs(s, P, x) => LastIs(Append(s, m), P, x)
                   /\ m \in P => LastIs(Append(s, m), P, m)
<1> DEFINE t == Append(s, m)
<1>1. /\ t \in Seq(M) /\ Len(t) = Len(s) + 1 /\ Len(s) \in Nat /\ t # <<>>
      /\ t[Len(t)] = m /\ \A i \in 1 .. Len(s) : t[i] = s[i]
  OBVIOUS
<1>2. Len(t) \in 1 .. Len(t) /\ \A i : i \in 1 .. Len(t) <=> i \in 1 .. Len(s) \/ i = Len(t)
  BY <1>1
<1> HIDE DEF t
<1>3. ASSUME NEW P PROVE Has(t, P) <=> Has(s, P) \/ m \in P
  BY <1>1, <1>2, Zenon DEF Has
<1>4. ASSUME NEW P, m \notin P, NEW x, LastIs(s, P, x) PROVE LastIs(t, P, x)
  <2> SUFFICES ASSUME Has(t, P)
               PROVE  x \in P /\ \E i \in 1 .. Len(t) : t[i] = x /\ \A j \in 1 .. Len(t) : j > i => t[j] \notin P
    BY DEF LastIs
  <2>1. x \in P /\ \E i \in 1 .. Len(s) : s[i] = x /\ \A j \in 1 .. Len(s) : j > i => s[j] \notin P
    BY <1>3, <1>4 DEF LastIs
  <2> QED BY ZenonT(30), <1>1, <1>2, <1>4, <2>1
<1>5. ASSUME NEW P, m \in P PROVE LastIs(t, P, m)
  <2>1. \A j \in 1 .. Len(t) : ~ (j > Len(t))
    BY <1>1
  <2> QED BY <1>1, <1>2, <1>5, <2>1 DEF LastIs
<1> QED BY ZenonT(30), <1>1, <1>3, <1>4, <1>5 DEF t

\* without the first,
LEMMA LastTail ==
  ASSUME NEW M, NEW s \in Seq(M), s # <<>>
  PROVE  /\ Head(s) \in M /\ Tail(s) \in Seq(M)
         /\ \A P : /\ Has(s, P) => Has(Tail(s), P) \/ Head(s) \in P
                   /\ \A x : LastIs(s, P, x) => LastIs(Tail(s), P, x)
                   /\ \A x : LastIs(s, P, x) /\ Head(s) \in P /\ ~ Has(Tail(s), P) => Head(s) = x
<1> DEFINE t == Tail(s)
<1>1. /\ t \in Seq(M) /\ Len(t) = Len(s) - 1 /\ Len(s) \in Nat \ {0} /\ Head(s) = s[1] /\ Head(s) \in M
      /\ \A i \in 1 .. Len(t) : t[i] = s[i + 1]
  OBVIOUS
<1> HIDE DEF t
<1>2. \A i \in 1 .. Len(s) : i = 1 \/ (i - 1 \in 1 .. Len(t) /\ t[i - 1] = s[i])
  BY <1>1
<1>3. ASSUME NEW P, Has(s, P) PROVE Has(t, P) \/ Head(s) \in P
  BY ZenonT(30), <1>1, <1>2, <1>3 DEF Has
<1>4. ASSUME NEW P, NEW x, LastIs(s, P, x)
      PROVE  /\ LastIs(t, P, x)
             /\ Head(s) \in P /\ ~ Has(t, P) => Head(s) = x
  <2>1. CASE ~ Has(s, P)
    <3>1. ~ Has(t, P) /\ Head(s) \notin P
      BY <1>1, <2>1 DEF Has
    <3> QED BY <3>1 DEF LastIs
  <2>2. CASE Has(s, P)
    <3>1. PICK i \in 1 .. Len(s) : x \in P /\ s[i] = x /\ \A j \in 1 .. Len(s) : j > i => s[j] \notin P
      BY <1>4, <2>2 DEF LastIs
    <3>2. CASE i = 1
      <4>1. \A j \in 1 .. Len(t) : j + 1 \in 1 .. Len(s) /\ j + 1 > i
        BY <1>1, <3>2
      <4>2. ~ Has(t, P)
        BY ZenonT(30), <1>1, <3>1, <4>1 DEF Has
      <4> QED BY <1>1, <3>1, <3>2, <4>2 DEF LastIs
    <3>3. CASE i # 1
      <4>1. i - 1 \in 1 .. Len(t) /\ t[i - 1] = x
        BY <1>2, <3>1, <3>3
      <4>2. \A j \in 1 .. Len(t) : j > i - 1 => j + 1 \in 1 .. Len(s) /\ j + 1 > i
        BY <1>1
      <4>3. \A j \in 1 .. Len(t) : j > i - 1 => t[j] \notin P
        BY ZenonT(30), <1>1, <3>1, <4>2
      <4> QED BY ZenonT(30), <3>1, <4>1, <4>3 DEF LastIs, Has
    <3> QED BY <3>2, <3>3
  <2> QED BY <2>1, <2>2
<1> QED BY <1>1, <1>3, <1>4 DEF t

\* and with another sequence behind it.
LEMMA LastConcat ==
  ASSUME NEW M, NEW s \in Seq(M), NEW t \in Seq(M)
  PROVE  /\ s \o t \in Seq(M)
         /\ \A P : /\ Has(s \o t, P) <=> Has(s, P) \/ Has(t, P)
                   /\ ~ Has(t, P) => \A x : LastIs(s, P, x) => LastIs(s \o t, P, x)
<1> DEFINE u == s \o t
<1>1. /\ u \in Seq(M) /\ Len(u) = Len(s) + Len(t) /\ Len(s) \in Nat /\ Len(t) \in Nat
      /\ \A i \in 1 .. Len(s) : u[i] = s[i]
      /\ \A i \in 1 .. Len(u) : i > Len(s) => u[i] = t[i - Len(s)]
  OBVIOUS
<1> HIDE DEF u
<1>2. \A i \in 1 .. Len(t) : u[Len(s) + i] = t[i] /\ Len(s) + i \in 1 .. Len(u)
  <2>1. \A i \in 1 .. Len(t) : /\ Len(s) + i \in 1 .. Len(u) /\ Len(s) + i > Len(s)
                               /\ (Len(s) + i) - Len(s) = i
    BY <1>1
  <2> QED BY <1>1, <2>1
<1>3. \A i \in 1 .. Len(u) : i \in 1 .. Len(s) \/ (i > Len(s) /\ i - Len(s) \in 1 .. Len(t))
  BY <1>1
<1>4. \A i \in 1 .. Len(s) : i \in 1 .. Len(u)
  BY <1>1
<1>5. ASSUME NEW P PROVE Has(u, P) <=> Has(s, P) \/ Has(t, P)
  <2>1. ASSUME Has(u, P) PROVE Has(s, P) \/ Has(t, P)
    BY ZenonT(30), <1>1, <1>3, <2>1 DEF Has
  <2>2. ASSUME Has(s, P) PROVE Has(u, P)
    BY ZenonT(30), <1>1, <1>4, <2>2 DEF Has
  <2>3. ASSUME Has(t, P) PROVE Has(u, P)
    BY ZenonT(30), <1>2, <2>3 DEF Has
  <2> QED BY <2>1, <2>2, <2>3
<1>6. ASSUME NEW P, ~ Has(t, P), NEW x, LastIs(s, P, x) PROVE LastIs(u, P, x)
  <2> SUFFICES ASSUME Has(u, P)
               PROVE  x \in P /\ \E i \in 1 .. Len(u) : u[i] = x /\ \A j \in 1 .. Len(u) : j > i => u[j] \notin P
    BY ZenonT(30) DEF LastIs
  <2>1. \A i \in 1 .. Len(u) : u[i] \in P => i \in 1 .. Len(s) /\ s[i] \in P
    BY ZenonT(60), <1>1, <1>3, <1>6 DEF Has
  <2>2. x \in P /\ \E i \in 1 .. Len(s) : s[i] = x /\ \A j \in 1 .. Len(s) : j > i => s[j] \notin P
    BY <1>5, <1>6 DEF LastIs
  <2> QED BY <1>1, <1>4, <2>1, <2>2
<1> QED BY ZenonT(30), <1>1, <1>5, <1>6 DEF u

-------------------------------------------------------------------------------
(* A connection.                                                                *)

\* A connection before its first request.
LEMMA NewConnType ==
  /\ NoWork \in WorkType /\ NotSubscribed \in SubType
  /\ NewConn \in ConnType /\ [NewConn EXCEPT !.st = "closed"] \in ConnType
<1>1. NoWork \in WorkType
  BY ZenonT(30) DEF NoWork, WorkType
<1>2. NotSubscribed \in SubType
  BY DEF NotSubscribed, SubType
<1>3. [s \in ScriptHash |-> NotSubscribed] \in [ScriptHash -> SubType]
  BY ZenonT(60), <1>2
<1>4. ASSUME NEW st \in {"open", "closed"}
      PROVE  [st |-> st, queue |-> <<>>, requests |-> 0, work |-> NoWork,
              subs |-> [s \in ScriptHash |-> NotSubscribed], last |-> None] \in ConnType
  BY SMTT(30), <1>1, <1>3 DEF ConnType
<1>5. NewConn \in ConnType
  BY <1>4 DEF NewConn
<1>6. [NewConn EXCEPT !.st = "closed"] \in ConnType
  BY ZenonT(60), <1>5 DEF ConnType
<1> QED BY ZenonT(30), <1>1, <1>2, <1>5, <1>6

\* A connection without a query has read nothing.
LEMMA NoWorkIs ==
  /\ NoWork.at = None /\ NoWork.arg = None /\ None \notin ScriptHash
  /\ None \notin {"funding", "spending", "mempool"}
BY SubscriptionConstants DEF NoWork, None

\* An empty queue holds no tip, and so no wrong one.
LEMMA EmptyQueue ==
  ASSUME NEW b
  PROVE  ~ HasTip(<<>>) /\ TipEndsWith(<<>>, b)
BY DEF HasTip, TipEndsWith, LastIs, Has

\* The invariant holds when the server starts.
LEMMA InitInv ==
  Init => Inv
<1> SUFFICES ASSUME Init PROVE Inv
  OBVIOUS
<1>1. LoopInv /\ TipInv
  BY LoopInitInv DEF Init, TipInv, TipEndsWith, LastIs, Has
<1>2. conn \in [Conn -> ConnType] /\ lost \in [Conn -> LostType]
  BY ZenonT(60), NewConnType DEF Init, LostType
<1>3. Subscribed(NewConn.subs) = {}
  BY DEF NewConn, NotSubscribed, Subscribed
<1>4. ASSUME NEW c \in Conn PROVE ConnInv(c, conn[c], lost[c])
  <2>1. conn[c] = NewConn /\ c \in senders /\ lost[c] = {} /\ {} \in LostType
    BY ZenonT(30) DEF Init, LostType
  <2>2. WorkInv(NewConn)
    BY ZenonT(30) DEF WorkInv, NewConn
  <2>3. NewConn.work = NoWork /\ NewConn.queue = <<>> /\ NewConn.last = None
    BY SMTT(30) DEF NewConn
  <2>4. ReadInv(NewConn, {}) /\ StoredInv(NewConn, {})
    BY ZenonT(60), <1>3, <2>3, NoWorkIs DEF ReadInv, StoredInv
  <2>5. LastTipInv(NewConn, {})
    BY SMTT(30), <2>3, EmptyQueue DEF LastTipInv
  <2> QED BY <2>1, <2>2, <2>4, <2>5, NewConnType DEF ConnInv, NewConn
<1> QED BY <1>1, <1>2, <1>4 DEF Init, Inv

\* What holds of a connection and of what it lost depends on nothing else but the main loop,
\* the notification channel and the senders.
LEMMA ConnFrame ==
  ASSUME UNCHANGED <<serverVars, mainVars, notifications, senders>>, NEW c, NEW k, NEW L, ConnInv(c, k, L)
  PROVE  ConnInv(c, k, L)'
<1>1. \A sh : BeingIndexed(sh)' <=> BeingIndexed(sh)
  BY DEF serverVars, mainVars, BeingIndexed, NewBlocks
<1>2. \A sh : Pending(k, L, sh)' <=> Pending(k, L, sh)
  BY <1>1 DEF Pending
<1>3. UNCHANGED <<rows, items>> /\ tip' = tip /\ notifications' = notifications /\ TipOf(served)' = TipOf(served)
  BY DEF serverVars, mainVars, TipOf
<1>4. \A sh : /\ confirmed_funding(sh)' = confirmed_funding(sh) /\ Status(sh)' = Status(sh)
              /\ \A F : confirmed_spending(sh, F)' = confirmed_spending(sh, F)
  BY SMTT(30), <1>3, StatusFrame
<1>5. ReadInv(k, L) => ReadInv(k, L)'
  BY ZenonT(30), <1>2, <1>4 DEF ReadInv
<1>6. StoredInv(k, L) => StoredInv(k, L)'
  BY ZenonT(30), <1>2, <1>4 DEF StoredInv
<1>7. LastTipInv(k, L) => LastTipInv(k, L)'
  BY ZenonT(30), <1>3 DEF LastTipInv
<1> QED BY ZenonT(60), <1>5, <1>6, <1>7 DEF ConnInv

\* A step of one connection.
LEMMA SetConn ==
  ASSUME Inv, NEW c \in Conn, NEW k, NEW L, ConnInv(c, k, L),
         UNCHANGED <<loopVars, notifications, senders>>,
         conn' = [conn EXCEPT ![c] = k], lost' = [lost EXCEPT ![c] = L]
  PROVE  Inv'
<1>1. LoopInv' /\ TipInv'
  BY SMTT(30) DEF Inv, LoopInv, TipInv, loopVars, daemonVars, serverVars, mainVars, TipOf, NewBlocks
<1>2. conn \in [Conn -> ConnType] /\ lost \in [Conn -> LostType] /\ k \in ConnType /\ L \in LostType
  BY ZenonT(30) DEF Inv, ConnInv
<1>3. conn' \in [Conn -> ConnType] /\ lost' \in [Conn -> LostType]
  BY ZenonT(30), <1>2
<1>4. ASSUME NEW d \in Conn PROVE ConnInv(d, conn[d], lost[d])'
  <2> UNCHANGED <<serverVars, mainVars, notifications, senders>>
    BY DEF loopVars
  <2>1. CASE d = c
    <3>1. conn'[d] = k /\ lost'[d] = L
      BY ZenonT(30), <1>2, <2>1
    <3> QED BY ZenonT(30), <2>1, <3>1, ConnFrame
  <2>2. CASE d # c
    <3>1. conn'[d] = conn[d] /\ lost'[d] = lost[d] /\ ConnInv(d, conn[d], lost[d])
      BY SMTT(30), <1>2, <2>2 DEF Inv
    <3> QED BY ZenonT(60), <3>1, ConnFrame
  <2> QED BY <2>1, <2>2
<1> QED BY ZenonT(60), <1>1, <1>3, <1>4 DEF Inv

\* A step that leaves the subscriptions and the query as they are.
LEMMA ConnKept ==
  ASSUME NEW c, NEW k, NEW L, ConnInv(c, k, L), NEW r \in ConnType, NEW M \in LostType,
         r.st = "open", k.st = "open", r.work = k.work, r.subs = k.subs, LastTipInv(r, M),
         \A sh \in ScriptHash : Pending(k, L, sh) =>
           Pending(r, M, sh) \/ (~ k.subs[sh].on /\ k.work.arg # sh)
  PROVE  ConnInv(c, r, M)
<1>1. WorkInv(r)
  BY ZenonT(30) DEF ConnInv, WorkInv
<1>2. ReadInv(r, M)
  <2>1. CASE k.work = NoWork
    BY ZenonT(30), <2>1, NoWorkIs DEF ReadInv
  <2>2. CASE k.work # NoWork
    BY ZenonT(30), <2>2 DEF ReadInv, ConnInv, WorkInv
  <2> QED BY ZenonT(30), <2>1, <2>2
<1>3. StoredInv(r, M)
  <2>1. StoredInv(k, L)
    BY ZenonT(30) DEF ConnInv
  <2>2. ASSUME NEW sh \in Subscribed(r.subs)
        PROVE  \/ Coarse(r.subs[sh].st, sh) = Coarse(Status(sh), sh)
               \/ r.work.arg = sh \/ Pending(r, M, sh)
    <3>1. sh \in Subscribed(k.subs) /\ sh \in ScriptHash /\ k.subs[sh].on
      BY ZenonT(30), <2>2 DEF Subscribed
    <3>2. \/ Coarse(k.subs[sh].st, sh) = Coarse(Status(sh), sh)
          \/ k.work.arg = sh \/ Pending(k, L, sh)
      BY ZenonT(60), <2>1, <3>1 DEF StoredInv
    <3> QED BY ZenonT(30), <3>1, <3>2
  <2> QED BY ZenonT(30), <2>2 DEF StoredInv
<1> QED BY ZenonT(30), <1>1, <1>2, <1>3 DEF ConnInv

\* The kind of a message says what it carries.
LEMMA MessageKinds ==
  ASSUME NEW m \in Message
  PROVE  /\ m = [kind |-> m.kind, arg |-> m.arg]
         /\ m.kind \in {"subscribe", "subscribe_address", "unsubscribe", "subscribe_headers", "header",
                        "done", "tip", "script"}
         /\ m.kind \in {"subscribe", "subscribe_address", "unsubscribe", "script"} => m.arg \in ScriptHash
         /\ m.kind = "tip" => m.arg \in Blocks
         /\ m \in Tips <=> m.kind = "tip"
<1>1. \/ m \in [kind : {"subscribe", "subscribe_address", "unsubscribe"}, arg : ScriptHash]
      \/ m \in [kind : {"subscribe_headers", "header", "done"}, arg : {None}]
      \/ m \in [kind : {"script"}, arg : ScriptHash]
      \/ m \in Tips
  BY ZenonT(60), SubscriptionConstants DEF Message, Notice
<1> QED BY <1>1 DEF Tips

\* Without a subscription.
LEMMA SubscriptionRemoved ==
  ASSUME NEW k \in ConnType, NEW sh \in ScriptHash, NEW r, r = remove_subscription(k, sh)
  PROVE  /\ r \in ConnType /\ r.subs[sh] = NotSubscribed
         /\ r.queue = k.queue /\ r.last = k.last /\ r.st = k.st /\ r.work = k.work
         /\ \A s \in ScriptHash : s # sh => r.subs[s] = k.subs[s]
         /\ Subscribed(r.subs) = Subscribed(k.subs) \ {sh}
<1>1. /\ r \in ConnType /\ r.subs = [k.subs EXCEPT ![sh] = NotSubscribed]
      /\ r.queue = k.queue /\ r.last = k.last /\ r.st = k.st /\ r.work = k.work
  <2>1. [k.subs EXCEPT ![sh] = NotSubscribed] \in [ScriptHash -> SubType]
    BY NewConnType DEF ConnType
  <2> QED BY ZenonT(30), <2>1 DEF remove_subscription, ConnType
<1>2. r.subs[sh] = NotSubscribed /\ \A s \in ScriptHash : s # sh => r.subs[s] = k.subs[s]
  BY ZenonT(60), <1>1 DEF ConnType
<1>3. Subscribed(r.subs) = Subscribed(k.subs) \ {sh}
  BY <1>2 DEF Subscribed, NotSubscribed
<1> QED BY <1>1, <1>2, <1>3

\* The subscription of sh with the status st is stored.
LEMMA SubscriptionStored ==
  ASSUME NEW c, NEW k, NEW L, ConnInv(c, k, L), k.work # NoWork, k.work.at = "mempool",
         NEW alias \in BOOLEAN, NEW r,
         LET sh == k.work.arg IN
           r = [k EXCEPT !.work = NoWork,
                         !.subs = [k.subs EXCEPT ![sh] =
                           [on |-> TRUE, st |-> StatusWith(sh, k.work.funding, k.work.spending),
                            alias |-> alias]]],
         LoopInv
  PROVE  ConnInv(c, r, L)
<1> DEFINE sh == k.work.arg
           st == StatusWith(sh, k.work.funding, k.work.spending)
           sub == [on |-> TRUE, st |-> st, alias |-> alias]
<1>1. /\ k \in ConnType /\ k.work \in WorkType /\ sh \in ScriptHash /\ k.st = "open"
      /\ k.work.funding \in SUBSET Entry /\ k.work.spending \in SUBSET Entry
  BY DEF ConnInv, WorkInv, ConnType, WorkType
<1>2. st \in SUBSET Entry
  BY ZenonT(30), <1>1, StatusType
<1>3. sub \in SubType
  <2> HIDE DEF st
  <2> QED BY <1>2 DEF SubType
<1>4. r = [k EXCEPT !.work = NoWork, !.subs = [k.subs EXCEPT ![sh] = sub]]
  OBVIOUS
<1>5. Pending(k, L, sh) \/ st = Status(sh)
  BY DEF ConnInv, ReadInv, Status
<1> HIDE DEF st
<1>6. sub.on /\ sub.st = st
  OBVIOUS
<1> HIDE DEF sub, sh
<1>7. [k.subs EXCEPT ![sh] = sub] \in [ScriptHash -> SubType] /\ NoWork \in WorkType
  BY <1>1, <1>3, NewConnType DEF ConnType
<1>8. r \in ConnType
  BY ZenonT(30), <1>1, <1>4, <1>7 DEF ConnType
<1>9. /\ r.work = NoWork /\ r.queue = k.queue /\ r.st = "open" /\ r.last = k.last
      /\ r.subs[sh] = sub /\ \A s \in ScriptHash : s # sh => r.subs[s] = k.subs[s]
  BY ZenonT(60), <1>1, <1>4 DEF ConnType
<1>10. WorkInv(r) /\ ReadInv(r, L) /\ LastTipInv(r, L)
  BY <1>9, NoWorkIs DEF WorkInv, ReadInv, LastTipInv, ConnInv
<1>11. \A s : Pending(r, L, s) <=> Pending(k, L, s)
  BY <1>9 DEF Pending
<1>12. StoredInv(r, L)
  <2>1. ASSUME NEW s \in Subscribed(r.subs), s # sh
        PROVE  Coarse(r.subs[s].st, s) = Coarse(Status(s), s) \/ Pending(r, L, s)
    <3>1. r.subs[s] = k.subs[s] /\ s \in Subscribed(k.subs)
      BY ZenonT(30), <1>9, <2>1 DEF Subscribed
    <3> QED BY <1>11, <2>1, <3>1 DEF ConnInv, StoredInv, sh
  <2>2. Coarse(r.subs[sh].st, sh) = Coarse(Status(sh), sh) \/ Pending(r, L, sh)
    BY ZenonT(30), <1>5, <1>6, <1>9, <1>11
  <2> QED BY <2>1, <2>2 DEF StoredInv
<1> QED BY <1>8, <1>9, <1>10, <1>12 DEF ConnInv

\* A queue that carries a message has it somewhere.
LEMMA CarriesHas ==
  ASSUME NEW s, NEW kind, NEW arg
  PROVE  Carries(s, kind, arg) <=> Has(s, {[kind |-> kind, arg |-> arg]})
BY DEF Carries, Has

\* A notification for sh is on its way after a step, or was not before and the status of
\* sh stays what it is.
Kept(k, L, r, M) ==
  \A sh \in ScriptHash :
    \/ Pending(r, M, sh)'
    \/ /\ ~ Pending(k, L, sh) /\ confirmed_funding(sh)' = confirmed_funding(sh)
       /\ \A F : confirmed_spending(sh, F)' = confirmed_spending(sh, F)
       /\ Coarse(Status(sh)', sh) = Coarse(Status(sh), sh)

\* An open connection after a step of the main loop or of the notifier.
LEMMA ConnNext ==
  ASSUME NEW c, NEW k, NEW L, ConnInv(c, k, L), NEW r \in ConnType, NEW M \in LostType,
         r.st = "open", k.st = "open", c \in senders', r.work = k.work, r.subs = k.subs, LastTipInv(r, M)',
         Kept(k, L, r, M)
  PROVE  ConnInv(c, r, M)'
<1>1. WorkInv(r)'
  BY ZenonT(30) DEF ConnInv, WorkInv
<1>2. ReadInv(r, M)'
  <2>1. CASE k.work = NoWork
    BY ZenonT(30), <2>1, NoWorkIs DEF ReadInv
  <2>2. CASE k.work # NoWork
    <3>1. k.work.arg \in ScriptHash
      BY ZenonT(30), <2>2 DEF ConnInv, WorkInv
    <3> QED BY ZenonT(30), <3>1 DEF ReadInv, ConnInv, Kept
  <2> QED BY ZenonT(30), <2>1, <2>2
<1>3. StoredInv(r, M)'
  <2>1. ASSUME NEW sh \in Subscribed(r.subs)
        PROVE  \/ Coarse(r.subs[sh].st, sh) = Coarse(Status(sh)', sh)
               \/ r.work.arg = sh \/ Pending(r, M, sh)'
    <3>1. sh \in ScriptHash /\ sh \in Subscribed(k.subs)
      BY ZenonT(30), <2>1 DEF Subscribed
    <3>2. \/ Coarse(k.subs[sh].st, sh) = Coarse(Status(sh), sh)
          \/ k.work.arg = sh \/ Pending(k, L, sh)
      BY ZenonT(30), <3>1 DEF ConnInv, StoredInv
    <3> QED BY ZenonT(30), <3>1, <3>2 DEF Kept
  <2> QED BY ZenonT(30), <2>1 DEF StoredInv
<1> QED BY ZenonT(30), <1>1, <1>2, <1>3 DEF ConnInv

\* A closed one stays as it is.
LEMMA ConnClosed ==
  ASSUME NEW c, NEW k, NEW L, ConnInv(c, k, L), k.st # "open", NEW M \in LostType
  PROVE  ConnInv(c, k, M)'
<1>1. /\ k \in ConnType /\ k.st = "closed" /\ k.queue = <<>> /\ k.work = NoWork /\ k.last = None
      /\ Subscribed(k.subs) = {} /\ WorkInv(k)
  BY ZenonT(30) DEF ConnInv, ConnType
<1>2. ReadInv(k, M)' /\ StoredInv(k, M)' /\ LastTipInv(k, M)'
  <2>1. ReadInv(k, M)' /\ StoredInv(k, M)'
    BY ZenonT(30), <1>1, NoWorkIs DEF ReadInv, StoredInv
  <2>2. LastTipInv(k, M)'
    BY ZenonT(30), <1>1, EmptyQueue DEF LastTipInv
  <2> QED BY SMTT(30), <2>1, <2>2
<1> QED BY ZenonT(30), <1>1, <1>2 DEF ConnInv, WorkInv

\* The end of a connection: nothing is left of it.
LEMMA CloseInv ==
  ASSUME Inv, NEW c \in Conn, Closed(c), UNCHANGED <<loopVars, notifications, senders>>
  PROVE  Inv'
<1> DEFINE k == [NewConn EXCEPT !.st = "closed", !.requests = conn[c].requests]
<1>1. conn' = [conn EXCEPT ![c] = k] /\ lost' = [lost EXCEPT ![c] = {}]
  BY ZenonT(30) DEF Closed, Set
<1>2. conn[c] \in ConnType /\ conn[c].requests \in Nat
  BY ZenonT(30) DEF Inv, ConnType
<1>3. k \in ConnType
  BY ZenonT(30), <1>2, NewConnType DEF ConnType
<1>4. /\ k.st = "closed" /\ k.queue = <<>> /\ k.work = NoWork /\ k.last = None
      /\ Subscribed(k.subs) = {}
  BY DEF NewConn, NotSubscribed, Subscribed
<1> HIDE DEF k
<1>5. WorkInv(k) /\ ReadInv(k, {}) /\ StoredInv(k, {}) /\ LastTipInv(k, {})
  <2>1. WorkInv(k) /\ ReadInv(k, {}) /\ StoredInv(k, {})
    BY ZenonT(60), <1>4, NoWorkIs DEF WorkInv, ReadInv, StoredInv
  <2>2. LastTipInv(k, {})
    BY SMTT(30), <1>4, EmptyQueue DEF LastTipInv
  <2> QED BY <2>1, <2>2
<1>6. ConnInv(c, k, {})
  BY ZenonT(30), <1>3, <1>4, <1>5 DEF ConnInv, LostType
<1> QED BY ZenonT(30), <1>1, <1>6, SetConn

\* A request of the client goes behind everything in its queue.
LEMMA RequestInv ==
  ASSUME Inv, NEW c \in Conn, Request(c)
  PROVE  Inv'
<1> DEFINE k == conn[c]
<1>1. PICK m \in Requests :
        conn' = [conn EXCEPT ![c] = [conn[c] EXCEPT !.queue = Append(@, m),
                   !.requests = IF m.kind = "done" THEN MaxRequests ELSE @ + 1]]
  BY ZenonT(30) DEF Request, Set
<1> DEFINE r == [k EXCEPT !.queue = Append(@, m), !.requests = IF m.kind = "done" THEN MaxRequests ELSE @ + 1]
<1>2. k \in ConnType /\ k.st = "open" /\ ConnInv(c, k, lost[c]) /\ lost \in [Conn -> LostType] /\ lost[c] \in LostType
  BY ZenonT(30) DEF Inv, Request, Accepts
<1>3. m \in Message /\ m.kind \notin {"tip", "script"} /\ m \notin Tips /\ m = [kind |-> m.kind, arg |-> m.arg]
  <2>1. m \in Message
    BY ZenonT(30) DEF Message
  <2>2. m.kind \in {"subscribe", "subscribe_address", "unsubscribe", "subscribe_headers", "header", "done"}
    BY ZenonT(60), SubscriptionConstants
  <2> QED BY <2>1, <2>2, MessageKinds
<1> HIDE DEF k
<1>4. /\ Append(k.queue, m) \in Seq(Message)
      /\ \A P : Has(Append(k.queue, m), P) <=> Has(k.queue, P) \/ m \in P
      /\ \A b : TipEndsWith(k.queue, b) => TipEndsWith(Append(k.queue, m), b)
  BY <1>2, <1>3, LastAppend DEF ConnType, TipEndsWith
<1>5. /\ r \in ConnType /\ r.queue = Append(k.queue, m) /\ r.st = "open" /\ r.work = k.work
      /\ r.subs = k.subs /\ r.last = k.last
  <2>1. k.requests \in Nat /\ MaxRequests \in Nat
    BY ZenonT(30), <1>2, SubscriptionConstants DEF ConnType
  <2> DEFINE n == IF m.kind = "done" THEN MaxRequests ELSE k.requests + 1
             q == Append(k.queue, m)
  <2>2. n \in Nat
    BY <2>1
  <2>3. r = [k EXCEPT !.queue = q, !.requests = n] /\ q \in Seq(Message)
    BY <1>4
  <2> HIDE DEF r, n, q
  <2>4. /\ r \in ConnType /\ r.queue = q /\ r.st = k.st /\ r.work = k.work
        /\ r.subs = k.subs /\ r.last = k.last
    BY ZenonT(30), <1>2, <2>2, <2>3 DEF ConnType
  <2> QED BY ZenonT(30), <1>2, <2>4 DEF q
<1> HIDE DEF r
<1>6. LastTipInv(r, lost[c])
  BY ZenonT(30), <1>2, <1>3, <1>4, <1>5 DEF ConnInv, LastTipInv, HasTip
<1>7. \A sh : Pending(k, lost[c], sh) => Pending(r, lost[c], sh)
  BY ZenonT(30), <1>4, <1>5, CarriesHas DEF Pending
<1>8. ConnInv(c, r, lost[c])
  BY ZenonT(30), <1>2, <1>5, <1>6, <1>7, ConnKept
<1>9. lost' = [lost EXCEPT ![c] = lost[c]]
  BY <1>2 DEF Request
<1>10. UNCHANGED <<loopVars, notifications, senders>> /\ conn' = [conn EXCEPT ![c] = r]
  BY <1>1 DEF Request, r, k
<1> QED BY ZenonT(30), <1>8, <1>9, <1>10, SetConn

\* The peer thread takes a message out of its queue.
LEMMA MessageTaken ==
  ASSUME Inv, NEW c \in Conn, conn[c].st = "open", conn[c].queue # <<>>
  PROVE  LET k == [conn[c] EXCEPT !.queue = Tail(@)]
             msg == Head(conn[c].queue)
         IN  /\ msg \in Message /\ k \in ConnType
             /\ k.st = "open" /\ k.work = conn[c].work /\ k.subs = conn[c].subs
             /\ \A sh : Pending(conn[c], lost[c], sh) =>
                  Pending(k, lost[c], sh) \/ (msg.kind = "script" /\ msg.arg = sh)
             /\ msg.kind # "tip" => LastTipInv(k, lost[c])
             /\ \A r : /\ msg.kind = "tip" /\ r.queue = k.queue
                       /\ r.last = IF k.last # None THEN msg.arg ELSE k.last
                       => LastTipInv(r, lost[c])
<1> DEFINE q == conn[c].queue
           k == [conn[c] EXCEPT !.queue = Tail(@)]
           msg == Head(q)
<1>1. conn[c] \in ConnType /\ q \in Seq(Message) /\ LastTipInv(conn[c], lost[c])
  BY ZenonT(30) DEF Inv, ConnInv, ConnType
<1>2. /\ msg \in Message /\ Tail(q) \in Seq(Message)
      /\ \A P : Has(q, P) => Has(Tail(q), P) \/ msg \in P
      /\ \A x : LastIs(q, Tips, x) => LastIs(Tail(q), Tips, x)
      /\ \A x : LastIs(q, Tips, x) /\ msg \in Tips /\ ~ Has(Tail(q), Tips) => msg = x
  BY ZenonT(30), <1>1, LastTail
<1>3. /\ \A b : TipEndsWith(q, b) => TipEndsWith(Tail(q), b)
      /\ \A b : TipEndsWith(q, b) /\ msg \in Tips /\ ~ HasTip(Tail(q)) => msg = [kind |-> "tip", arg |-> b]
  BY ZenonT(60), <1>2 DEF TipEndsWith, HasTip
<1>4. msg \in Tips <=> msg.kind = "tip"
  BY <1>2, MessageKinds
<1>5. /\ k \in ConnType /\ k.queue = Tail(q) /\ k.st = "open" /\ k.work = conn[c].work /\ k.subs = conn[c].subs
      /\ k.last = conn[c].last /\ k.last \in Blocks \cup {None}
  BY ZenonT(30), <1>1, <1>2 DEF ConnType
<1> HIDE DEF k, q, msg
<1>6. ASSUME NEW sh, Pending(conn[c], lost[c], sh)
      PROVE  Pending(k, lost[c], sh) \/ (msg.kind = "script" /\ msg.arg = sh)
  <2>1. CASE Carries(q, "script", sh)
    <3>1. Has(q, {[kind |-> "script", arg |-> sh]})
      BY ZenonT(30), <2>1, CarriesHas
    <3>2. Has(Tail(q), {[kind |-> "script", arg |-> sh]}) \/ msg = [kind |-> "script", arg |-> sh]
      BY ZenonT(30), <1>2, <3>1
    <3>3. Has(Tail(q), {[kind |-> "script", arg |-> sh]}) => Pending(k, lost[c], sh)
      BY ZenonT(60), <1>5, CarriesHas DEF Pending
    <3>4. msg = [kind |-> "script", arg |-> sh] => msg.kind = "script" /\ msg.arg = sh
      OBVIOUS
    <3> QED BY Zenon, <3>2, <3>3, <3>4
  <2>2. CASE ~ Carries(q, "script", sh)
    BY Zenon, <1>5, <1>6, <2>2 DEF Pending, q
  <2> QED BY ZenonT(30), <2>1, <2>2
<1>7. ASSUME msg.kind # "tip" PROVE LastTipInv(k, lost[c])
  BY ZenonT(30), <1>1, <1>2, <1>3, <1>4, <1>5, <1>7 DEF LastTipInv, HasTip, q
<1>8. ASSUME NEW r, r.queue = k.queue, msg.kind = "tip",
             r.last = IF k.last # None THEN msg.arg ELSE k.last
      PROVE  LastTipInv(r, lost[c])
  <2>1. CASE ~ HasTip(Tail(q)) /\ TipEndsWith(q, TipOf(served))
    <3>1. msg = [kind |-> "tip", arg |-> TipOf(served)]
      BY ZenonT(30), <1>3, <1>4, <1>8, <2>1
    <3> QED BY ZenonT(30), <1>3, <1>5, <1>8, <2>1, <3>1 DEF LastTipInv
  <2>2. CASE HasTip(Tail(q)) \/ ~ TipEndsWith(q, TipOf(served))
    BY ZenonT(30), <1>1, <1>3, <1>5, <1>8, <2>2 DEF LastTipInv, q
  <2> QED BY ZenonT(30), <2>1, <2>2
<1> QED BY <1>2, <1>5, <1>6, <1>7, <1>8, ZenonT(30) DEF k, msg, q

===============================================================================
