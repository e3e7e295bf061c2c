------------------------- MODULE SubscriptionsProofs --------------------------
(* Every step of the server and of its clients keeps the invariant of           *)
(* SubscriptionsLemmas, and what follows: no client is left with a status or a  *)
(* tip that is out of date and that nothing will correct. This holds for every  *)
(* chain and mempool, any number of connections, scripthashes and requests, any *)
(* capacity of the queues, and every interleaving of the main loop, the         *)
(* notifier and the peer threads (app.rs, rpc.rs).                              *)
EXTENDS SubscriptionsLemmas

-------------------------------------------------------------------------------
(* The steps.                                                                   *)

\* The peer thread handles the message at the head of its queue: a request is answered or
\* starts a status query, a notification is passed on or starts one.
LEMMA ReceiveInv ==
  ASSUME Inv, NEW c \in Conn, Receive(c)
  PROVE  Inv'
<1> DEFINE msg == Head(conn[c].queue)
           k == [conn[c] EXCEPT !.queue = Tail(@)]
           L == lost[c]
<1>1. /\ conn[c].st = "open" /\ conn[c].work = NoWork /\ conn[c].queue # <<>>
      /\ UNCHANGED <<loopVars, notifications, senders>>
  BY ZenonT(30) DEF Receive
<1>2. /\ ConnInv(c, conn[c], L) /\ conn[c] \in ConnType /\ L \in LostType /\ c \in senders
      /\ lost \in [Conn -> LostType] /\ LoopInv
  BY <1>1 DEF Inv, ConnInv
<1>3. /\ msg \in Message /\ k \in ConnType /\ k.st = "open" /\ k.work = NoWork /\ k.subs = conn[c].subs
      /\ \A sh : Pending(conn[c], L, sh) => Pending(k, L, sh) \/ (msg.kind = "script" /\ msg.arg = sh)
      /\ msg.kind # "tip" => LastTipInv(k, L)
      /\ \A r : /\ msg.kind = "tip" /\ r.queue = k.queue
                /\ r.last = IF k.last # None THEN msg.arg ELSE k.last
                => LastTipInv(r, L)
  BY ZenonT(30), <1>1, MessageTaken
<1>4. \/ msg.kind \in {"subscribe", "subscribe_address"} /\ Subscribe(c, k, msg)
      \/ /\ msg.kind = "unsubscribe" /\ Set(c, remove_subscription(k, msg.arg)) /\ UNCHANGED lost
      \/ msg.kind = "subscribe_headers" /\ Set(c, [k EXCEPT !.last = TipOf(served)]) /\ UNCHANGED lost
      \/ /\ msg.kind = "tip" /\ Set(c, [k EXCEPT !.last = IF @ = None THEN None ELSE msg.arg])
         /\ UNCHANGED lost
      \/ /\ msg.kind = "script"
         /\ Set(c, IF ~ k.subs[msg.arg].on THEN k
                   ELSE [k EXCEPT !.work = [NoWork EXCEPT !.at = "funding", !.kind = "script", !.arg = msg.arg]])
         /\ UNCHANGED lost
      \/ msg.kind = "header" /\ Set(c, k) /\ UNCHANGED lost
      \/ msg.kind = "done" /\ Close(c)
  BY ZenonT(30) DEF Receive
<1> HIDE DEF msg, k
<1>5. UNCHANGED lost => lost' = [lost EXCEPT ![c] = L]
  BY <1>2
<1>6. TipOf(served) \in Blocks /\ TipOf(served) # None /\ TipOf(served) \notin ScriptHash /\ None \notin ScriptHash
  BY <1>2, TipType, SubscriptionConstants DEF LoopInv
<1>7. NoWork.arg = None /\ NoWork.at = None
  BY ZenonT(30) DEF NoWork
<1>8. ASSUME NEW sh \in ScriptHash, msg.kind \notin {"tip", "script"},
             NEW r, r = remove_subscription(k, sh), NEW M \in LostType, L \ {sh} \subseteq M,
             NEW x \in ConnType, x.subs = r.subs, x.queue = k.queue, x.last = k.last, x.st = "open",
             WorkInv(x), x.work.at \in {None, "funding"}
      PROVE  ConnInv(c, x, M)
  <2>1. /\ \A s \in ScriptHash : s # sh => r.subs[s] = k.subs[s]
        /\ Subscribed(r.subs) = Subscribed(k.subs) \ {sh}
    <3>1. k \in ConnType
      BY <1>3
    <3>2. r = remove_subscription(k, sh)
      BY <1>8
    <3>3. ASSUME NEW s \in ScriptHash, s # sh PROVE r.subs[s] = k.subs[s]
      BY <3>1, <3>2, <3>3, SubscriptionRemoved
    <3>4. Subscribed(r.subs) = Subscribed(k.subs) \ {sh}
      BY ZenonT(60), <3>1, <3>2, SubscriptionRemoved
    <3> QED BY <3>3, <3>4
  <2>2. ReadInv(x, M)
    BY <1>8, NoWorkIs DEF ReadInv
  <2>3. LastTipInv(x, M)
    BY <1>3, <1>6, <1>8 DEF LastTipInv
  <2>4. ASSUME NEW s \in Subscribed(x.subs)
        PROVE  Coarse(x.subs[s].st, s) = Coarse(Status(s), s) \/ Pending(x, M, s)
    <3>1. s \in Subscribed(conn[c].subs) /\ s # sh /\ s \in ScriptHash /\ x.subs[s] = conn[c].subs[s]
      BY <1>3, <1>8, <2>1, <2>4 DEF Subscribed
    <3>2. Coarse(conn[c].subs[s].st, s) = Coarse(Status(s), s) \/ Pending(conn[c], L, s)
      BY ZenonT(30), <1>1, <1>2, <1>6, <1>7, <3>1 DEF ConnInv, StoredInv
    <3>3. Pending(k, L, s) => Pending(x, M, s)
      BY <1>8, <3>1 DEF Pending
    <3> QED BY <1>3, <1>8, <3>1, <3>2, <3>3
  <2> QED BY ZenonT(60), <1>2, <1>8, <2>2, <2>3, <2>4 DEF ConnInv, StoredInv
<1>9. ASSUME msg.kind \in {"subscribe", "subscribe_address"}, Subscribe(c, k, msg) PROVE Inv'
  <2> DEFINE r == remove_subscription(k, msg.arg)
             w == [NoWork EXCEPT !.at = "funding", !.kind = msg.kind, !.arg = msg.arg]
             x == [r EXCEPT !.work = w]
  <2>1. msg.arg \in ScriptHash
    BY ZenonT(60), <1>3, <1>9, MessageKinds
  <2>2. r \in ConnType /\ r.subs[msg.arg] = NotSubscribed
    BY <1>3, <2>1, SubscriptionRemoved
  <2>3. r.queue = k.queue /\ r.last = k.last /\ r.st = "open" /\ r.work = NoWork
    BY <1>3, <2>1, SubscriptionRemoved
  <2>4. CASE /\ Cardinality(Subscribed(r.subs)) + 1 <= MaxSubscriptions
             /\ msg.kind = "subscribe_address" => Cardinality(Aliased(r.subs)) + 1 <= MaxAliases
    <3>1. conn' = [conn EXCEPT ![c] = x] /\ lost' = [lost EXCEPT ![c] = L \ {msg.arg}]
      BY <1>2, <1>9, <2>4 DEF Subscribe, Set
    <3>2. w \in WorkType /\ w.at = "funding" /\ w.kind = msg.kind /\ w.arg = msg.arg
      BY ZenonT(30), <1>9, <2>1 DEF WorkType, NoWork
    <3> HIDE DEF w, r
    <3>3. /\ x \in ConnType /\ x.work = w /\ x.subs = r.subs /\ x.queue = r.queue /\ x.last = r.last
          /\ x.st = r.st
      BY ZenonT(30), <2>2, <3>2 DEF ConnType
    <3> HIDE DEF x
    <3>4. WorkInv(x)
      BY <1>9, <2>1, <2>2, <3>2, <3>3 DEF WorkInv, None
    <3>5. L \ {msg.arg} \in LostType
      BY ZenonT(30), <1>2 DEF LostType
    <3>6. ConnInv(c, x, L \ {msg.arg})
      <4>1. r = remove_subscription(k, msg.arg)
        BY DEF r
      <4> QED BY ZenonT(60), <1>8, <1>9, <2>1, <2>3, <3>2, <3>3, <3>4, <3>5, <4>1
    <3> QED BY ZenonT(60), <1>1, <3>1, <3>6, SetConn
  <2>5. CASE ~ (/\ Cardinality(Subscribed(r.subs)) + 1 <= MaxSubscriptions
                /\ msg.kind = "subscribe_address" => Cardinality(Aliased(r.subs)) + 1 <= MaxAliases)
    <3>1. conn' = [conn EXCEPT ![c] = r] /\ lost' = [lost EXCEPT ![c] = L]
      BY ZenonT(30), <1>5, <1>9, <2>5 DEF Subscribe, Set
    <3>2. ConnInv(c, r, L)
      <4>1. WorkInv(r)
        BY <2>3 DEF WorkInv
      <4> QED BY ZenonT(60), <1>2, <1>7, <1>8, <1>9, <2>1, <2>2, <2>3, <4>1
    <3> HIDE DEF r
    <3> QED BY ZenonT(30), <1>1, <3>1, <3>2, SetConn
  <2> QED BY ZenonT(30), <2>4, <2>5
<1>10. ASSUME msg.kind = "unsubscribe", Set(c, remove_subscription(k, msg.arg)), UNCHANGED lost
       PROVE  Inv'
  <2> DEFINE r == remove_subscription(k, msg.arg)
  <2>1. msg.arg \in ScriptHash
    BY ZenonT(30), <1>3, <1>10, MessageKinds
  <2>2. r \in ConnType
    BY ZenonT(60), <1>3, <2>1, SubscriptionRemoved
  <2>3. r.queue = k.queue /\ r.last = k.last /\ r.st = "open" /\ r.work = NoWork
    BY <1>3, <2>1, SubscriptionRemoved
  <2>4. WorkInv(r)
    BY <2>3 DEF WorkInv
  <2>5. ConnInv(c, r, L)
    BY ZenonT(60), <1>2, <1>7, <1>8, <1>10, <2>1, <2>2, <2>3, <2>4
  <2>6. conn' = [conn EXCEPT ![c] = r]
    BY <1>10 DEF Set
  <2> HIDE DEF r
  <2> QED BY ZenonT(60), <1>1, <1>5, <1>10, <2>5, <2>6, SetConn
<1>11. ASSUME NEW r \in ConnType, r.st = "open", r.work = NoWork, r.subs = k.subs, LastTipInv(r, L),
              \A sh \in ScriptHash : Pending(conn[c], L, sh) => Pending(r, L, sh) \/ ~ k.subs[sh].on,
              conn' = [conn EXCEPT ![c] = r], UNCHANGED lost
       PROVE  Inv'
  <2>1. \A sh \in ScriptHash : conn[c].work.arg # sh
    BY ZenonT(60), <1>1, <1>6, <1>7
  <2>2. ConnInv(c, r, L)
    BY ZenonT(60), <1>1, <1>2, <1>3, <1>11, <2>1, ConnKept
  <2> QED BY ZenonT(60), <1>1, <1>5, <1>11, <2>2, SetConn
<1>12. ASSUME msg.kind = "subscribe_headers", Set(c, [k EXCEPT !.last = TipOf(served)]), UNCHANGED lost
       PROVE  Inv'
  <2> DEFINE r == [k EXCEPT !.last = TipOf(served)]
  <2>1. /\ r \in ConnType /\ r.st = "open" /\ r.work = NoWork /\ r.subs = k.subs /\ r.queue = k.queue
        /\ r.last = TipOf(served)
    BY ZenonT(30), <1>3, <1>6 DEF ConnType
  <2>2. conn' = [conn EXCEPT ![c] = r]
    BY <1>12 DEF Set
  <2> HIDE DEF r
  <2>3. LastTipInv(r, L) /\ \A sh : Pending(k, L, sh) => Pending(r, L, sh)
    BY ZenonT(30), <1>3, <1>12, <2>1 DEF LastTipInv, Pending
  <2> QED BY ZenonT(60), <1>3, <1>11, <1>12, <2>1, <2>2, <2>3
<1>13. ASSUME msg.kind = "tip", Set(c, [k EXCEPT !.last = IF @ = None THEN None ELSE msg.arg]),
              UNCHANGED lost
       PROVE  Inv'
  <2> DEFINE b == IF k.last = None THEN None ELSE msg.arg
             r == [k EXCEPT !.last = b]
  <2>1. b \in Blocks \cup {None} /\ b = IF k.last # None THEN msg.arg ELSE k.last
    BY <1>3, <1>13, MessageKinds
  <2>2. conn' = [conn EXCEPT ![c] = r]
    BY <1>13 DEF Set
  <2> HIDE DEF b
  <2>3. /\ r \in ConnType /\ r.st = "open" /\ r.work = NoWork /\ r.subs = k.subs /\ r.queue = k.queue
        /\ r.last = b
    BY <1>3, <2>1 DEF ConnType
  <2> HIDE DEF r
  <2>4. LastTipInv(r, L)
    BY ZenonT(60), <1>3, <1>13, <2>1, <2>3
  <2>5. \A sh : Pending(k, L, sh) => Pending(r, L, sh)
    BY <2>3 DEF Pending
  <2> QED BY ZenonT(60), <1>3, <1>11, <1>13, <2>2, <2>3, <2>4, <2>5
<1>14. ASSUME msg.kind = "script", UNCHANGED lost,
              Set(c, IF ~ k.subs[msg.arg].on THEN k
                     ELSE [k EXCEPT !.work = [NoWork EXCEPT !.at = "funding", !.kind = "script", !.arg = msg.arg]])
       PROVE  Inv'
  <2>1. msg.arg \in ScriptHash
    BY <1>3, <1>14, MessageKinds
  <2>2. CASE ~ k.subs[msg.arg].on
    <3>1. conn' = [conn EXCEPT ![c] = k] /\ LastTipInv(k, L)
      BY <1>3, <1>14, <2>2 DEF Set
    <3> QED BY ZenonT(60), <1>3, <1>11, <1>14, <2>2, <3>1
  <2>3. CASE k.subs[msg.arg].on
    <3> DEFINE w == [NoWork EXCEPT !.at = "funding", !.kind = "script", !.arg = msg.arg]
               r == [k EXCEPT !.work = w]
    <3>1. conn' = [conn EXCEPT ![c] = r]
      BY <1>14, <2>3 DEF Set
    <3>2. w \in WorkType /\ w.at = "funding" /\ w.kind = "script" /\ w.arg = msg.arg
      BY ZenonT(30), <2>1 DEF WorkType, NoWork
    <3> HIDE DEF w
    <3>3. /\ r \in ConnType /\ r.st = "open" /\ r.work = w /\ r.subs = k.subs /\ r.queue = k.queue /\ r.last = k.last
      BY ZenonT(30), <1>3, <3>2 DEF ConnType
    <3> HIDE DEF r
    <3>4. WorkInv(r) /\ ReadInv(r, L)
      BY ZenonT(30), <2>1, <2>3, <3>2, <3>3 DEF WorkInv, ReadInv, None
    <3>5. LastTipInv(r, L) /\ \A sh : Pending(k, L, sh) => Pending(r, L, sh)
      BY ZenonT(30), <1>3, <1>14, <3>3 DEF LastTipInv, Pending
    <3>6. ASSUME NEW s \in Subscribed(r.subs), s # msg.arg
          PROVE  Coarse(r.subs[s].st, s) = Coarse(Status(s), s) \/ Pending(r, L, s)
      <4>1. s \in Subscribed(conn[c].subs) /\ s \in ScriptHash
        BY ZenonT(30), <1>3, <3>3, <3>6 DEF Subscribed
      <4>2. Coarse(conn[c].subs[s].st, s) = Coarse(Status(s), s) \/ Pending(conn[c], L, s)
        BY ZenonT(60), <1>1, <1>2, <1>6, <1>7, <4>1 DEF ConnInv, StoredInv
      <4> QED BY ZenonT(30), <1>3, <3>3, <3>5, <3>6, <4>2
    <3>7. StoredInv(r, L)
      BY ZenonT(30), <3>2, <3>3, <3>6 DEF StoredInv
    <3>8. ConnInv(c, r, L)
      BY ZenonT(60), <1>2, <3>3, <3>4, <3>5, <3>7 DEF ConnInv
    <3> QED BY ZenonT(60), <1>1, <1>5, <1>14, <3>1, <3>8, SetConn
  <2> QED BY ZenonT(30), <2>2, <2>3
<1>15. ASSUME Close(c) PROVE Inv'
  BY <1>1, <1>15, CloseInv DEF Close
<1>16. ASSUME msg.kind = "header", Set(c, k), UNCHANGED lost PROVE Inv'
  <2>1. conn' = [conn EXCEPT ![c] = k]
    BY <1>16 DEF Set
  <2> QED BY ZenonT(60), <1>3, <1>11, <1>16, <2>1
<1> QED BY ZenonT(60), <1>4, <1>9, <1>10, <1>12, <1>13, <1>14, <1>15, <1>16

\* The peer thread of a connection panics.
LEMMA PanicInv ==
  ASSUME Inv, NEW c \in Conn, Panic(c)
  PROVE  Inv'
BY ZenonT(30), CloseInv DEF Panic

\* The steps of a status query.
LEMMA QueryInv ==
  ASSUME Inv, NEW c \in Conn, QueryFunding(c) \/ QuerySpending(c) \/ QueryMempool(c) \/ QueryFails(c)
  PROVE  Inv'
<1> DEFINE k == conn[c]
           L == lost[c]
           w == k.work
<1>1. UNCHANGED <<loopVars, notifications, senders>>
  BY SMTT(30) DEF QueryFunding, QuerySpending, QueryMempool, QueryFails
<1>2. /\ ConnInv(c, k, L) /\ k \in ConnType /\ w \in WorkType /\ L \in LostType
      /\ lost \in [Conn -> LostType] /\ LoopInv
  BY ZenonT(30) DEF Inv, ConnInv, ConnType
<1>3. w # NoWork
  <2>1. w.at \in {"funding", "spending", "mempool"} \/ w # NoWork
    BY ZenonT(30) DEF QueryFunding, QuerySpending, QueryMempool, QueryFails
  <2>2. NoWork.at \notin {"funding", "spending", "mempool"}
    BY DEF NoWork, None
  <2> QED BY Zenon, <2>1, <2>2
<1>4. k.st = "open" /\ w.arg \in ScriptHash
  BY ZenonT(60), <1>2, <1>3 DEF ConnInv, WorkInv, ConnType
<1>5. UNCHANGED lost => lost' = [lost EXCEPT ![c] = L]
  BY <1>2
<1> HIDE DEF k, w, L
<1>6. ASSUME NEW v \in WorkType, v.at # None, v.kind = w.kind, v.arg = w.arg,
             conn' = [conn EXCEPT ![c] = [k EXCEPT !.work = v]], UNCHANGED lost,
             v.at \in {"spending", "mempool"} => v.funding = confirmed_funding(v.arg) \/ Pending(k, L, v.arg),
             v.at = "mempool" => v.spending = confirmed_spending(v.arg, v.funding) \/ Pending(k, L, v.arg)
      PROVE  Inv'
  <2> DEFINE r == [k EXCEPT !.work = v]
  <2>1. /\ r \in ConnType /\ r.work = v /\ r.subs = k.subs /\ r.queue = k.queue /\ r.last = k.last /\ r.st = "open"
    BY ZenonT(30), <1>2, <1>4, <1>6 DEF ConnType
  <2> HIDE DEF r
  <2>2. \A s : Pending(r, L, s) <=> Pending(k, L, s)
    BY ZenonT(30), <2>1 DEF Pending
  <2>3. WorkInv(r)
    BY ZenonT(60), <1>2, <1>3, <1>6, <2>1 DEF ConnInv, WorkInv, w
  <2>4. ReadInv(r, L) /\ StoredInv(r, L) /\ LastTipInv(r, L)
    BY ZenonT(60), <1>2, <1>6, <2>1, <2>2 DEF ConnInv, ReadInv, StoredInv, LastTipInv, w
  <2>5. ConnInv(c, r, L)
    BY ZenonT(60), <1>2, <1>4, <2>1, <2>3, <2>4 DEF ConnInv
  <2>6. conn' = [conn EXCEPT ![c] = r] /\ lost' = [lost EXCEPT ![c] = L]
    BY <1>5, <1>6 DEF r
  <2> QED BY ZenonT(30), <1>1, <2>5, <2>6, SetConn
<1>7. CASE QueryFunding(c)
  <2> DEFINE v == [w EXCEPT !.at = "spending", !.funding = confirmed_funding(w.arg)]
  <2>1. v \in WorkType /\ v.at = "spending" /\ v.kind = w.kind /\ v.arg = w.arg /\ v.funding = confirmed_funding(w.arg)
    BY ZenonT(30), <1>2, StatusType DEF WorkType
  <2>2. conn' = [conn EXCEPT ![c] = [k EXCEPT !.work = v]] /\ UNCHANGED lost
    BY ZenonT(30), <1>2, <1>7 DEF QueryFunding, Set, k, w, ConnType
  <2> HIDE DEF v
  <2> QED BY ZenonT(30), <1>6, <2>1, <2>2 DEF None
<1>8. CASE QuerySpending(c)
  <2> DEFINE v == [w EXCEPT !.at = "mempool", !.spending = confirmed_spending(w.arg, w.funding)]
  <2>1. /\ v \in WorkType /\ v.at = "mempool" /\ v.kind = w.kind /\ v.arg = w.arg
        /\ v.funding = w.funding /\ v.spending = confirmed_spending(w.arg, w.funding)
    BY ZenonT(30), <1>2, StatusType DEF WorkType
  <2>2. conn' = [conn EXCEPT ![c] = [k EXCEPT !.work = v]] /\ UNCHANGED lost
    BY ZenonT(60), <1>2, <1>8 DEF QuerySpending, Set, k, w, ConnType
  <2>3. w.funding = confirmed_funding(w.arg) \/ Pending(k, L, w.arg)
    BY <1>2, <1>8 DEF QuerySpending, ConnInv, ReadInv, k, w
  <2> HIDE DEF v
  <2> QED BY ZenonT(30), <1>6, <2>1, <2>2, <2>3 DEF None
<1>9. ASSUME QueryMempool(c), NEW alias \in BOOLEAN, NEW r,
              r = [k EXCEPT !.work = NoWork,
                            !.subs = [k.subs EXCEPT ![w.arg] = [on |-> TRUE, st |-> StatusWith(w.arg, w.funding, w.spending),
                                                                alias |-> alias]]],
              conn' = [conn EXCEPT ![c] = r], UNCHANGED lost
       PROVE  Inv'
  <2>1. k.work.at = "mempool" /\ k.work # NoWork
    BY <1>3, <1>9 DEF QueryMempool, k, w
  <2>2. ConnInv(c, r, L)
    BY ZenonT(30), <1>2, <1>9, <2>1, SubscriptionStored DEF w
  <2> QED BY ZenonT(60), <1>1, <1>5, <1>9, <2>2, SetConn
<1> DEFINE st == StatusWith(w.arg, w.funding, w.spending)
           sub(alias) == [on |-> TRUE, st |-> st, alias |-> alias]
           r(alias) == [k EXCEPT !.work = NoWork, !.subs = [k.subs EXCEPT ![w.arg] = sub(alias)]]
<1>10. CASE QueryMempool(c) /\ w.kind = "script"
  <2> DEFINE alias == k.subs[w.arg].alias
  <2>1. /\ UNCHANGED lost
        /\ conn' = [conn EXCEPT ![c] = [k EXCEPT !.work = NoWork, !.subs[w.arg].st = st]]
    BY ZenonT(30), <1>10 DEF QueryMempool, Set, k, w
  <2>2. k.subs[w.arg] \in SubType /\ k.subs[w.arg].on = TRUE /\ alias \in BOOLEAN
    BY ZenonT(30), <1>2, <1>3, <1>4, <1>10 DEF ConnInv, WorkInv, ConnType, SubType, w
  <2>3. [k.subs[w.arg] EXCEPT !.st = st] = sub(alias)
    <3> DEFINE f == k.subs[w.arg]
    <3>1. f \in [on : BOOLEAN, st : SUBSET Entry, alias : BOOLEAN] /\ f.on = TRUE
      BY <2>2 DEF SubType
    <3> HIDE DEF st, f
    <3>2. [f EXCEPT !.st = st] = [on |-> TRUE, st |-> st, alias |-> f.alias]
      <4>1. f = [on |-> f.on, st |-> f.st, alias |-> f.alias]
        BY <3>1
      <4>2. ASSUME NEW g, NEW o, NEW t, NEW u, NEW a, g = [on |-> o, st |-> t, alias |-> a]
            PROVE  [g EXCEPT !.st = u] = [on |-> o, st |-> u, alias |-> a]
        BY <4>2
      <4>3. [f EXCEPT !.st = st] = [on |-> f.on, st |-> st, alias |-> f.alias]
        BY <4>1, <4>2
      <4> QED BY <3>1, <4>3, Zenon
    <3> QED BY ZenonT(30), <3>2 DEF f
  <2>4. [k EXCEPT !.work = NoWork, !.subs[w.arg].st = st] = r(alias)
    <3>1. [k EXCEPT !.work = NoWork, !.subs[w.arg].st = st]
            = [k EXCEPT !.work = NoWork, !.subs = [k.subs EXCEPT ![w.arg] = [k.subs[w.arg] EXCEPT !.st = st]]]
      <4> HIDE DEF st
      <4> QED BY <1>2 DEF ConnType
    <3> HIDE DEF sub
    <3> QED BY ZenonT(30), <2>3, <3>1
  <2> HIDE DEF alias
  <2> QED BY ZenonT(30), <1>9, <1>10, <2>1, <2>2, <2>4
<1>11. CASE QueryMempool(c) /\ w.kind # "script"
  <2> DEFINE alias == w.kind = "subscribe_address"
  <2>1. /\ UNCHANGED lost /\ alias \in BOOLEAN
        /\ conn' = [conn EXCEPT ![c] = r(alias)]
    BY <1>2, <1>11 DEF QueryMempool, Set, k, w, ConnType
  <2> HIDE DEF alias
  <2> QED BY ZenonT(60), <1>9, <1>11, <2>1
<1>12. CASE QueryFails(c) /\ w.kind = "script"
  BY <1>1, <1>12, CloseInv DEF QueryFails, Close, k, w
<1>13. CASE QueryFails(c) /\ w.kind # "script"
  <2> DEFINE x == [k EXCEPT !.work = NoWork]
  <2>1. conn' = [conn EXCEPT ![c] = x] /\ UNCHANGED lost
    BY <1>13 DEF QueryFails, Set, k, w
  <2>2. x \in ConnType /\ x.work = NoWork /\ x.st = "open" /\ x.queue = k.queue /\ x.subs = k.subs /\ x.last = k.last
    BY ZenonT(30), <1>2, <1>4, NewConnType DEF ConnType
  <2> HIDE DEF x
  <2>3. WorkInv(x) /\ ReadInv(x, L) /\ LastTipInv(x, L)
    <3>1. LastTipInv(k, L)
      BY <1>2 DEF ConnInv
    <3> QED BY ZenonT(60), <2>2, <3>1, NoWorkIs DEF WorkInv, ReadInv, LastTipInv
  <2>4. \A s : Pending(x, L, s) <=> Pending(k, L, s)
    BY <2>2 DEF Pending
  <2>5. w.arg \notin Subscribed(k.subs)
    <3>1. k.subs[w.arg] = NotSubscribed
      BY ZenonT(30), <1>2, <1>3, <1>13 DEF ConnInv, WorkInv, w
    <3>2. NotSubscribed.on = FALSE
      BY ZenonT(30) DEF NotSubscribed
    <3> QED BY ZenonT(30), <3>1, <3>2 DEF Subscribed
  <2>6. StoredInv(x, L)
    BY ZenonT(60), <1>2, <2>2, <2>4, <2>5 DEF StoredInv, ConnInv, w
  <2>7. ConnInv(c, x, L)
    BY ZenonT(60), <1>2, <1>4, <2>2, <2>3, <2>6 DEF ConnInv
  <2> QED BY ZenonT(60), <1>1, <1>5, <2>1, <2>7, SetConn
<1> QED BY ZenonT(60), <1>7, <1>8, <1>10, <1>11, <1>12, <1>13

\* The notifier hands a message to every connection that is open.
LEMMA NotifierInv ==
  ASSUME Inv, Notifier
  PROVE  Inv'
<1> DEFINE msg == Head(notifications)
           tl == Tail(notifications)
<1>1. /\ notifications # <<>> /\ notifications' = tl /\ UNCHANGED <<loopVars, faults>>
      /\ senders' = {c \in senders : conn[c].st = "open"}
  BY DEF Notifier
<1>2. /\ LoopInv /\ TipInv /\ notifications \in Seq(Notice) /\ senders \in SUBSET Conn
      /\ conn \in [Conn -> ConnType] /\ lost \in [Conn -> LostType]
      /\ \A c \in Conn : ConnInv(c, conn[c], lost[c])
  BY ZenonT(30) DEF Inv
<1>3. /\ msg \in Notice /\ tl \in Seq(Notice)
      /\ \A P : Has(notifications, P) => Has(tl, P) \/ msg \in P
      /\ \A b : TipEndsWith(notifications, b) => TipEndsWith(tl, b)
      /\ \A b : TipEndsWith(notifications, b) /\ msg \in Tips /\ ~ HasTip(tl) => msg = [kind |-> "tip", arg |-> b]
  BY <1>1, <1>2, LastTail DEF TipEndsWith, HasTip
<1>4. /\ msg \in Message /\ msg = [kind |-> msg.kind, arg |-> msg.arg]
      /\ msg \in Tips => msg.arg \in Blocks
      /\ msg \notin Tips => msg.kind = "script" /\ msg.arg \in ScriptHash
  <2>1. msg \in Message
    BY <1>3 DEF Message
  <2>2. msg \notin Tips => msg.kind = "script"
    BY <1>3 DEF Notice
  <2> QED BY ZenonT(30), <2>1, <2>2, MessageKinds
<1>5. \A c \in Conn :
        /\ conn'[c] = IF c \in senders /\ Accepts(c) THEN [conn[c] EXCEPT !.queue = Append(@, msg)] ELSE conn[c]
        /\ lost'[c] = CASE c \in senders /\ Accepts(c) -> lost[c] \ {msg.arg}
                        [] c \in senders /\ conn[c].st = "open" /\ ~ Accepts(c) -> lost[c] \cup {msg.arg}
                        [] OTHER -> lost[c]
  BY ZenonT(30) DEF Notifier
<1>6. /\ UNCHANGED <<rows, items, tip, served, headers, txs, target, written>>
      /\ \A sh : BeingIndexed(sh)' <=> BeingIndexed(sh)
  BY ZenonT(60), <1>1 DEF loopVars, serverVars, mainVars, BeingIndexed, NewBlocks
<1>7. TipOf(served) \in Blocks /\ TipOf(served) \notin ScriptHash /\ Blocks \cap ScriptHash = {}
      /\ TipOf(served)' = TipOf(served)
  BY ZenonT(30), <1>2, <1>6, TipType, SubscriptionConstants DEF LoopInv, Blocks, TipOf
<1> HIDE DEF msg, tl
<1>8. ASSUME NEW c \in Conn
      PROVE  /\ ConnInv(c, conn[c], lost[c])'
             /\ conn'[c] \in ConnType /\ lost'[c] \in LostType /\ conn'[c].subs = conn[c].subs
  <2> SUFFICES ASSUME NEW k, NEW L, NEW r, NEW M, k = conn[c], L = lost[c], r = conn'[c], M = lost'[c]
               PROVE  ConnInv(c, r, M)' /\ r \in ConnType /\ M \in LostType /\ r.subs = k.subs
    BY ZenonT(30)
  <2>1. ConnInv(c, k, L) /\ k \in ConnType /\ L \in LostType /\ k.queue \in Seq(Message)
    BY <1>2 DEF ConnType
  <2>2. CASE k.st # "open"
    <3>1. r = k /\ M = L
      BY ZenonT(30), <1>5, <2>2 DEF Accepts
    <3>2. ConnInv(c, r, M)'
      BY ZenonT(60), <2>1, <2>2, <3>1, ConnClosed
    <3> QED BY <2>1, <3>1, <3>2
  <2>3. CASE k.st = "open" /\ Accepts(c)
    <3>1. /\ c \in senders /\ c \in senders' /\ M \in LostType
          /\ r = [k EXCEPT !.queue = Append(@, msg)] /\ M = L \ {msg.arg}
      BY ZenonT(60), <1>1, <1>5, <2>1, <2>3 DEF ConnInv, LostType
    <3>2. /\ Append(k.queue, msg) \in Seq(Message)
          /\ \A P : Has(Append(k.queue, msg), P) <=> Has(k.queue, P) \/ msg \in P
          /\ msg \notin Tips => \A b : TipEndsWith(k.queue, b) => TipEndsWith(Append(k.queue, msg), b)
          /\ \A b : msg = [kind |-> "tip", arg |-> b] /\ msg \in Tips => TipEndsWith(Append(k.queue, msg), b)
      BY <1>4, <2>1, LastAppend DEF TipEndsWith
    <3>3. /\ r \in ConnType /\ r.queue = Append(k.queue, msg) /\ r.st = "open" /\ r.work = k.work
          /\ r.subs = k.subs /\ r.last = k.last
      BY ZenonT(30), <2>1, <2>3, <3>1, <3>2 DEF ConnType
    <3>4. ASSUME NEW sh \in ScriptHash, Pending(k, L, sh) PROVE Pending(r, M, sh)'
      <4> DEFINE m == [kind |-> "script", arg |-> sh]
      <4>1. msg.arg = sh => msg = m
        BY SMTT(30), <1>4, <1>7
      <4>2. Carries(r.queue, "script", sh) <=> Carries(k.queue, "script", sh) \/ msg = m
        BY ZenonT(30), <3>2, <3>3, CarriesHas
      <4>3. Carries(notifications, "script", sh) => Carries(tl, "script", sh) \/ msg = m
        BY ZenonT(30), <1>3, CarriesHas
      <4> QED BY ZenonT(60), <1>1, <1>6, <3>1, <3>4, <4>1, <4>2, <4>3 DEF Pending
    <3>5. LastTipInv(r, M)'
      <4>1. CASE msg \in Tips
        <5>1. tip = None /\ ~ HasTip(tl) => msg = [kind |-> "tip", arg |-> TipOf(served)]
          BY ZenonT(60), <1>2, <1>3, <4>1 DEF TipInv
        <5>2. tip = None /\ ~ HasTip(tl) => TipEndsWith(r.queue, TipOf(served)) /\ HasTip(r.queue)
          BY SMTT(30), <3>2, <3>3, <4>1, <5>1 DEF HasTip
        <5> QED BY ZenonT(30), <1>1, <1>6, <1>7, <5>2 DEF LastTipInv
      <4>2. CASE msg \notin Tips
        <5>1. TipOf(served) \in L => TipOf(served) \in M
          BY ZenonT(30), <1>4, <1>7, <3>1, <4>2
        <5>2. HasTip(notifications) => HasTip(tl)
          BY ZenonT(30), <1>3, <4>2 DEF HasTip
        <5>3. LastTipInv(k, L)
          BY ZenonT(60), <2>1 DEF ConnInv
        <5>4. (HasTip(k.queue) => HasTip(r.queue)) /\ \A b : TipEndsWith(k.queue, b) => TipEndsWith(r.queue, b)
          BY <3>2, <3>3, <4>2 DEF HasTip
        <5> QED BY ZenonT(60), <1>1, <1>6, <1>7, <3>3, <5>1, <5>2, <5>3, <5>4 DEF LastTipInv
      <4> QED BY ZenonT(30), <4>1, <4>2
    <3>6. ConnInv(c, r, M)'
      <4>1. \A sh : /\ confirmed_funding(sh)' = confirmed_funding(sh) /\ Status(sh)' = Status(sh)
                    /\ \A F : confirmed_spending(sh, F)' = confirmed_spending(sh, F)
        BY ZenonT(30), <1>6, StatusFrame
      <4>2. Kept(k, L, r, M)
        BY ZenonT(60), <3>4, <4>1 DEF Kept
      <4> QED BY ZenonT(60), <2>1, <2>3, <3>1, <3>3, <3>5, <4>2, ConnNext
    <3> QED BY <3>1, <3>3, <3>6
  <2>4. CASE k.st = "open" /\ ~ Accepts(c)
    <3>1. c \in senders /\ c \in senders' /\ r = k /\ M = L \cup {msg.arg}
      BY ZenonT(60), <1>1, <1>5, <2>1, <2>4 DEF ConnInv
    <3>2. M \in LostType
      BY <1>4, <2>1, <3>1 DEF LostType
    <3>3. ASSUME NEW sh \in ScriptHash, Pending(k, L, sh) PROVE Pending(k, M, sh)'
      <4> DEFINE m == [kind |-> "script", arg |-> sh]
      <4>1. msg = m => msg.arg = sh
        BY SMTT(30)
      <4>2. Carries(notifications, "script", sh) => Carries(tl, "script", sh) \/ msg = m
        BY ZenonT(30), <1>3, CarriesHas
      <4> QED BY ZenonT(60), <1>1, <1>6, <3>1, <3>3, <4>1, <4>2 DEF Pending
    <3>4. LastTipInv(k, M)'
      <4>1. CASE msg \in Tips
        <5>1. tip = None /\ ~ HasTip(tl) => msg = [kind |-> "tip", arg |-> TipOf(served)]
          BY ZenonT(60), <1>2, <1>3, <4>1 DEF TipInv
        <5>2. tip = None /\ ~ HasTip(tl) => TipOf(served) \in M
          BY SMTT(30), <3>1, <5>1
        <5> QED BY ZenonT(60), <1>1, <1>6, <1>7, <5>2 DEF LastTipInv
      <4>2. CASE msg \notin Tips
        <5>1. HasTip(notifications) => HasTip(tl)
          BY ZenonT(60), <1>3, <4>2 DEF HasTip
        <5>2. LastTipInv(k, L)
          BY <2>1 DEF ConnInv
        <5> QED BY ZenonT(60), <1>1, <1>6, <1>7, <3>1, <5>1, <5>2 DEF LastTipInv
      <4> QED BY ZenonT(30), <4>1, <4>2
    <3>5. ConnInv(c, k, M)'
      <4>1. \A sh : /\ confirmed_funding(sh)' = confirmed_funding(sh) /\ Status(sh)' = Status(sh)
                    /\ \A F : confirmed_spending(sh, F)' = confirmed_spending(sh, F)
        BY <1>6, StatusFrame
      <4>2. Kept(k, L, k, M)
        BY ZenonT(30), <3>3, <4>1 DEF Kept
      <4> QED BY ZenonT(60), <2>1, <2>4, <3>1, <3>2, <3>4, <4>2, ConnNext
    <3> QED BY <2>1, <3>1, <3>2, <3>5
  <2> QED BY ZenonT(30), <2>2, <2>3, <2>4
<1>9. conn' \in [Conn -> ConnType] /\ lost' \in [Conn -> LostType]
  <2>1. DOMAIN conn' = Conn /\ DOMAIN lost' = Conn /\ conn' = [c \in Conn |-> conn'[c]] /\ lost' = [c \in Conn |-> lost'[c]]
    BY ZenonT(60) DEF Notifier
  <2> QED BY <1>8, <2>1
<1>10. LoopInv' /\ TipInv'
  BY <1>1, <1>2, <1>3 DEF LoopInv, TipInv, loopVars, daemonVars, serverVars, mainVars, TipOf, NewBlocks
<1> QED BY ZenonT(60), <1>1, <1>2, <1>3, <1>8, <1>9, <1>10 DEF Inv

\* A transaction affects the scripthashes of its outputs and of those it spends.
LEMMA EffectedType ==
  ASSUME NEW S \in SUBSET Tx
  PROVE  Effected(S) \in SUBSET ScriptHash
<1>1. ASSUME NEW t \in S PROVE get_scripthashes_effected_by_tx(t) \in SUBSET ScriptHash
  BY SMTT(30), MainLoopConstants DEF get_scripthashes_effected_by_tx
<1> QED BY <1>1 DEF Effected

\* The notifications of the main loop: one for every scripthash, in any order, then the tip.
LEMMA NotifyInv ==
  ASSUME Inv, Notify
  PROVE  Inv'
<1> DEFINE all == (UNION {TxsOf(b) : b \in headers}) \cup txs
           Read(U) == (UNION {TxsOf(b) : b \in headers \ U}) \cup txs
<1>0. PICK unread \in SUBSET headers : \E failed \in SUBSET Read(unread) :
        LET skipped == (all \ Read(unread)) \cup failed
            told == Effected(all \ skipped)
        IN  /\ lost' = [c \in Conn |-> lost[c] \cup Effected(skipped)]
            /\ \E n \in 0 .. Cardinality(ScriptHash) : \E order \in Bijection(1 .. n, told) :
                 notifications' = notifications
                   \o [i \in 1 .. n |-> [kind |-> "script", arg |-> order[i]]]
                   \o (IF tip = None THEN <<>> ELSE <<[kind |-> "tip", arg |-> tip]>>)
  BY ZenonT(30) DEF Notify
<1>1. PICK failed \in SUBSET Read(unread) :
        LET skipped == (all \ Read(unread)) \cup failed
            told == Effected(all \ skipped)
        IN  /\ lost' = [c \in Conn |-> lost[c] \cup Effected(skipped)]
            /\ \E n \in 0 .. Cardinality(ScriptHash) : \E order \in Bijection(1 .. n, told) :
                 notifications' = notifications
                   \o [i \in 1 .. n |-> [kind |-> "script", arg |-> order[i]]]
                   \o (IF tip = None THEN <<>> ELSE <<[kind |-> "tip", arg |-> tip]>>)
  BY ZenonT(30), <1>0
<1> DEFINE skipped == (all \ Read(unread)) \cup failed
           told == Effected(all \ skipped)
           E == Effected(skipped)
           end == IF tip = None THEN <<>> ELSE <<[kind |-> "tip", arg |-> tip]>>
<1>2. PICK n \in 0 .. Cardinality(ScriptHash) : \E order \in Bijection(1 .. n, told) :
        notifications' = notifications \o [i \in 1 .. n |-> [kind |-> "script", arg |-> order[i]]] \o end
  BY ZenonT(30), <1>1
<1>3. PICK order \in Bijection(1 .. n, told) :
        notifications' = notifications \o [i \in 1 .. n |-> [kind |-> "script", arg |-> order[i]]] \o end
  BY ZenonT(30), <1>2
<1> DEFINE msgs == [i \in 1 .. n |-> [kind |-> "script", arg |-> order[i]]]
<1>4. /\ LoopInv /\ LoopInv' /\ TipInv /\ notifications \in Seq(Notice) /\ senders \in SUBSET Conn
      /\ conn \in [Conn -> ConnType] /\ lost \in [Conn -> LostType]
      /\ \A c \in Conn : ConnInv(c, conn[c], lost[c])
  BY ZenonT(30), NotifiedLoop DEF Inv, Notify
<1>5. /\ pc = "notify" /\ target = <<>> /\ headers' = {} /\ txs' = {} /\ tip' = None
      /\ UNCHANGED <<rows, items, served, target, written, senders, conn>>
      /\ TipOf(served)' = TipOf(served)
  BY ZenonT(60), <1>4 DEF Notify, Notified, LoopInv, serverVars, TipOf
<1>6. all \in SUBSET Tx
  <2>1. \A b \in headers : TxsOf(b) \subseteq Tx
    BY ZenonT(30), <1>4, TxsOfType DEF LoopInv
  <2> QED BY SMTT(30), <1>4, <2>1 DEF LoopInv
<1>7. told \in SUBSET ScriptHash /\ E \in SUBSET ScriptHash
  <2>1. Read(unread) \subseteq all
    OBVIOUS
  <2>2. skipped \subseteq all
    BY <2>1
  <2>3. all \ skipped \in SUBSET Tx /\ skipped \in SUBSET Tx
    BY ZenonT(60), <1>6, <2>2
  <2> QED BY ZenonT(30), <2>3, EffectedType
<1>8. n \in Nat
  BY SMTT(30)
<1>9. lost' = [c \in Conn |-> lost[c] \cup E]
  BY ZenonT(30), <1>1
<1>10. ASSUME NEW sh \in ScriptHash, BeingIndexed(sh) PROVE sh \in told \/ sh \in E
  <2>1. PICK t \in Told : sh \in get_scripthashes_effected_by_tx(t)
    BY ZenonT(60), <1>10, ToldIs
  <2>2. t \in all
    BY SMTT(30), <1>5, <2>1 DEF Told, NewBlocks
  <2>3. t \in all \ skipped \/ t \in skipped
    BY ZenonT(30), <2>2
  <2> HIDE DEF all, skipped
  <2> QED BY SMTT(30), <2>1, <2>3, ToldEffects
<1> HIDE DEF all, Read, skipped, told, E
<1>11. order \in [1 .. n -> told] /\ \A sh \in told : \E i \in 1 .. n : order[i] = sh
  BY DEF Bijection, Injection, Surjection
<1>12. /\ msgs \in Seq(Notice) /\ Len(msgs) = n
       /\ \A i \in 1 .. n : msgs[i] = [kind |-> "script", arg |-> order[i]]
  <2>1. \A i \in 1 .. n : [kind |-> "script", arg |-> order[i]] \in Notice
    BY ZenonT(60), <1>7, <1>11 DEF Notice
  <2> QED BY <1>8, <2>1
<1> HIDE DEF msgs
<1>13. ~ Has(msgs, Tips)
  BY <1>12 DEF Has, Tips
<1>14. ASSUME NEW sh \in told PROVE Carries(msgs, "script", sh)
  BY SMTT(30), <1>11, <1>12 DEF Carries
<1> DEFINE s == notifications \o msgs
<1>15. /\ s \in Seq(Notice) /\ \A P : Has(s, P) <=> Has(notifications, P) \/ Has(msgs, P)
       /\ \A b : TipEndsWith(notifications, b) => TipEndsWith(s, b)
  BY ZenonT(60), <1>4, <1>12, <1>13, LastConcat DEF TipEndsWith
<1>16. notifications' = s \o end
  BY <1>3 DEF msgs
<1> HIDE DEF s
<1>17. /\ notifications' \in Seq(Notice) /\ \A P : Has(s, P) => Has(notifications', P)
       /\ TipEndsWith(notifications', TipOf(served))
       /\ tip # None => HasTip(notifications')
  <2>1. CASE tip = None
    <3>1. notifications' = s
      BY SMTT(30), <1>15, <1>16, <2>1
    <3> QED BY <1>4, <1>15, <2>1, <3>1 DEF TipInv
  <2>2. CASE tip # None
    <3> DEFINE m == [kind |-> "tip", arg |-> TipOf(served)]
    <3>1. tip = TipOf(served) /\ m \in Notice /\ m \in Tips
      BY ZenonT(60), <1>4, <2>2, TipType DEF LoopInv, Notice, Tips
    <3>2. notifications' = Append(s, m)
      BY SMTT(30), <1>15, <1>16, <2>2, <3>1
    <3> HIDE DEF m
    <3>3. /\ Append(s, m) \in Seq(Notice) /\ \A P : Has(Append(s, m), P) <=> Has(s, P) \/ m \in P
          /\ LastIs(Append(s, m), Tips, m)
      BY <1>15, <3>1, LastAppend
    <3> QED BY ZenonT(30), <3>1, <3>2, <3>3 DEF TipEndsWith, HasTip, m
  <2> QED BY <2>1, <2>2
<1>18. ASSUME NEW kind, NEW arg, Carries(notifications, kind, arg) \/ Carries(msgs, kind, arg)
       PROVE  Carries(notifications', kind, arg)
  BY ZenonT(30), <1>15, <1>17, <1>18, CarriesHas
<1>19. ASSUME NEW c \in Conn PROVE ConnInv(c, conn[c], lost[c])'
  <2> SUFFICES ASSUME NEW k, NEW L, NEW M, k = conn[c], L = lost[c], M = lost'[c]
               PROVE  ConnInv(c, k, M)'
    BY <1>5
  <2>1. ConnInv(c, k, L) /\ k \in ConnType /\ L \in LostType /\ M = L \cup E
    BY SMTT(30), <1>4, <1>9
  <2>2. M \in LostType
    BY ZenonT(30), <1>7, <2>1 DEF LostType
  <2>3. CASE k.st # "open"
    BY ZenonT(30), <2>1, <2>2, <2>3, ConnClosed
  <2>4. CASE k.st = "open"
    <3>1. ASSUME NEW sh \in ScriptHash, Pending(k, L, sh) PROVE Pending(k, M, sh)'
      BY ZenonT(60), <1>10, <1>14, <1>18, <2>1, <3>1 DEF Pending
    <3>2. \A sh : /\ confirmed_funding(sh)' = confirmed_funding(sh) /\ Status(sh)' = Status(sh)
                  /\ \A F : confirmed_spending(sh, F)' = confirmed_spending(sh, F)
      BY ZenonT(30), <1>5, StatusFrame
    <3>3. Kept(k, L, k, M)
      BY ZenonT(30), <3>1, <3>2 DEF Kept
    <3>4. LastTipInv(k, M)'
      <4>1. LastTipInv(k, L)
        BY ZenonT(60), <2>1 DEF ConnInv
      <4>2. HasTip(notifications) => HasTip(notifications')
        BY SMTT(30), <1>15, <1>17 DEF HasTip
      <4> QED BY ZenonT(60), <1>5, <1>17, <2>1, <4>1, <4>2 DEF LastTipInv
    <3>5. c \in senders'
      BY ZenonT(60), <1>5, <2>1, <2>4 DEF ConnInv
    <3> QED BY ZenonT(60), <2>1, <2>2, <2>4, <3>3, <3>4, <3>5, ConnNext
  <2> QED BY ZenonT(60), <2>3, <2>4
<1>20. lost' \in [Conn -> LostType] /\ conn' \in [Conn -> ConnType]
  <2>1. \A c \in Conn : lost[c] \cup E \in LostType
    BY <1>4, <1>7 DEF LostType
  <2> QED BY ZenonT(60), <1>4, <1>5, <1>9, <2>1
<1>21. TipInv'
  BY <1>5, <1>17 DEF TipInv
<1> QED BY ZenonT(60), <1>4, <1>5, <1>17, <1>19, <1>20, <1>21 DEF Inv

\* A step of the main loop that changes what queries read.
LEMMA IndexingInv ==
  ASSUME Inv, Indexing, Quiet
  PROVE  Inv'
<1>1. /\ LoopInv /\ LoopInv' /\ TipInv /\ notifications \in Seq(Notice) /\ senders \in SUBSET Conn
      /\ conn \in [Conn -> ConnType] /\ lost \in [Conn -> LostType]
      /\ \A c \in Conn : ConnInv(c, conn[c], lost[c])
  BY IndexingLoop DEF Inv
<1>2. UNCHANGED <<notifications, senders, conn, lost>>
  BY DEF Quiet, rpcVars
<1>3. tip' # None \/ (tip' = tip /\ TipOf(served)' = TipOf(served))
  <2>1. CASE AppUpdate
    BY ZenonT(30), <1>1, <2>1 DEF AppUpdate, LoopInv, serverVars, TipOf
  <2>2. CASE WriteBlock
    BY <2>2 DEF WriteBlock, TipOf
  <2>3. CASE PublishHeaders
    <3>1. tip' = TipOf(target) /\ target \in Seq(Block)
      BY <1>1, <2>3 DEF PublishHeaders, LoopInv
    <3> QED BY ZenonT(30), <3>1, TipType
  <2>4. CASE UpdateMempool
    BY <2>4 DEF UpdateMempool, TipOf
  <2> QED BY ZenonT(30), <2>1, <2>2, <2>3, <2>4 DEF Indexing
<1>4. TipInv'
  BY ZenonT(30), <1>1, <1>2, <1>3 DEF TipInv
<1>5. ASSUME NEW c \in Conn PROVE ConnInv(c, conn[c], lost[c])'
  <2> SUFFICES ASSUME NEW k, NEW L, k = conn[c], L = lost[c]
               PROVE  ConnInv(c, k, L)'
    BY <1>2
  <2>1. ConnInv(c, k, L) /\ k \in ConnType /\ L \in LostType
    BY ZenonT(30), <1>1
  <2>2. CASE k.st # "open"
    BY SMTT(30), <2>1, <2>2, ConnClosed
  <2>3. CASE k.st = "open"
    <3>1. Kept(k, L, k, L)
      <4>1. ASSUME NEW sh \in ScriptHash, ~ Pending(k, L, sh)'
            PROVE  /\ ~ Pending(k, L, sh) /\ confirmed_funding(sh)' = confirmed_funding(sh)
                   /\ \A F : confirmed_spending(sh, F)' = confirmed_spending(sh, F)
                   /\ Coarse(Status(sh)', sh) = Coarse(Status(sh), sh)
        <5>1. ~ BeingIndexed(sh)' /\ (BeingIndexed(sh) => BeingIndexed(sh)')
          BY ZenonT(30), <1>1, <4>1, IndexingStatus DEF Pending
        <5>2. ~ Pending(k, L, sh)
          BY ZenonT(30), <1>2, <4>1, <5>1 DEF Pending
        <5> QED BY ZenonT(30), <1>1, <5>1, <5>2, IndexingStatus
      <4> QED BY ZenonT(30), <4>1 DEF Kept
    <3>2. LastTipInv(k, L)'
      <4>1. LastTipInv(k, L)
        BY ZenonT(30), <2>1 DEF ConnInv
      <4> QED BY SMTT(30), <1>2, <1>3, <4>1 DEF LastTipInv
    <3>3. c \in senders'
      BY ZenonT(30), <1>2, <2>1, <2>3 DEF ConnInv
    <3> QED BY ZenonT(30), <2>1, <2>3, <3>1, <3>2, <3>3, ConnNext
  <2> QED BY ZenonT(30), <2>2, <2>3
<1> QED BY <1>1, <1>2, <1>4, <1>5 DEF Inv

\* A change of the daemon, or no change at all.
LEMMA DaemonInv ==
  ASSUME Inv, LoopInv', UNCHANGED <<serverVars, mainVars, rpcVars>>
  PROVE  Inv'
<1>1. UNCHANGED <<notifications, senders, conn, lost>>
  BY DEF rpcVars
<1>2. TipInv'
  BY ZenonT(30), <1>1 DEF Inv, TipInv, serverVars, mainVars, TipOf
<1>3. ASSUME NEW c \in Conn PROVE ConnInv(c, conn[c], lost[c])'
  <2> SUFFICES ASSUME NEW k, NEW L, k = conn[c], L = lost[c]
               PROVE  ConnInv(c, k, L)'
    BY <1>1
  <2> QED BY ZenonT(30), <1>1, ConnFrame DEF Inv
<1> QED BY <1>1, <1>2, <1>3 DEF Inv

\* The invariant holds in every state the server and its clients can reach.
THEOREM Invariant ==
  Spec => []Inv
<1>1. Inv /\ [Next]_vars => Inv'
  <2> SUFFICES ASSUME Inv, [Next]_vars PROVE Inv'
    OBVIOUS
  <2>1. CASE (ChainChange \/ MempoolChange) /\ Quiet
    <3>1. LoopInv' /\ UNCHANGED <<serverVars, mainVars, rpcVars>>
      BY ZenonT(30), <2>1, DaemonLoop DEF Inv, ChainChange, MempoolChange, Quiet
    <3> QED BY SMTT(30), <3>1, DaemonInv
  <2>2. CASE Main
    BY <2>2, IndexingInv, NotifyInv DEF Main
  <2>3. CASE Notifier
    BY <2>3, NotifierInv
  <2>4. ASSUME NEW c \in Conn, Request(c) \/ Peer(c) PROVE Inv'
    BY <2>4, RequestInv, ReceiveInv, PanicInv, QueryInv DEF Peer
  <2>5. CASE UNCHANGED vars
    <3>1. LoopInv'
      BY <2>5 DEF Inv, LoopInv, vars, loopVars, daemonVars, serverVars, mainVars, TipOf, NewBlocks
    <3>2. UNCHANGED <<serverVars, mainVars, rpcVars>>
      BY <2>5 DEF vars, loopVars
    <3> QED BY ZenonT(30), <3>1, <3>2, DaemonInv
  <2> QED BY <2>1, <2>2, <2>3, <2>4, <2>5 DEF Next
<1> QED BY <1>1, InitInv, PTL DEF Spec

\* A stored status that differs from the current one is on its way to be computed again,
\* or a notification was lost, however often the main loop runs between the three
\* reads of a status query.
THEOREM StaleStatusIsPending ==
  Spec => []StaleIsPending
<1>1. Inv => StaleIsPending
  <2> SUFFICES ASSUME Inv, NEW c \in Conn, NEW sh \in Subscribed(conn[c].subs)
               PROVE  \/ Coarse(conn[c].subs[sh].st, sh) = Coarse(Status(sh), sh)
                      \/ conn[c].work.arg = sh \/ Pending(conn[c], lost[c], sh)
    BY ZenonT(30) DEF StaleIsPending, Pending
  <2> QED BY ZenonT(30) DEF Inv, ConnInv, StoredInv
<1> QED BY <1>1, Invariant, PTL

\* The same for the chain tip a client knows: the queues keep the tips in order, so the
\* last one on its way is the tip served.
THEOREM StaleTipsArePending ==
  Spec => []StaleTipIsPending
<1>1. Inv => StaleTipIsPending
  <2> SUFFICES ASSUME Inv, NEW c \in Conn, conn[c].last # None
               PROVE  \/ conn[c].last = TipOf(served)
                      \/ tip = TipOf(served)
                      \/ Carries(notifications, "tip", TipOf(served))
                      \/ Carries(conn[c].queue, "tip", TipOf(served))
                      \/ TipOf(served) \in lost[c]
    BY SMTT(30) DEF StaleTipIsPending
  <2>1. /\ LastTipInv(conn[c], lost[c]) /\ TipInv /\ tip \in {None, TipOf(served)}
    BY ZenonT(30) DEF Inv, ConnInv, LoopInv
  <2>2. ASSUME NEW s, HasTip(s), TipEndsWith(s, TipOf(served)) PROVE Carries(s, "tip", TipOf(served))
    BY ZenonT(30), <2>2 DEF HasTip, TipEndsWith, LastIs, Carries
  <2> QED BY ZenonT(30), <2>1, <2>2 DEF LastTipInv, TipInv
<1> QED BY <1>1, Invariant, PTL

===============================================================================
