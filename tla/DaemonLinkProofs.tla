---------------------------- MODULE DaemonLinkProofs ----------------------------
(***************************************************************************)
(* Theorems about module DaemonLink, for any number of threads, calls,     *)
(* lost connections and signals.                                           *)
(***************************************************************************)
EXTENDS DaemonLink, SequenceTheorems, TLAPS

Reply == [id : Nat, result : {"ok", "error", "warmup", "cut"}]

TypeOK ==
  /\ daemon \in {"up", "down"} /\ warm \in Nat /\ losses \in Nat
  /\ conn \in [state : {"open", "ended", "reset"}, requests : Seq(Nat), replies : Seq(Reply)]
  /\ mutex \in Thread \cup {"free"}
  /\ message_id \in Nat
  /\ pc \in [Thread -> {"idle", "stopped", "lock", "send", "recv", "retry", "relock", "connect"}]
  /\ id \in [Thread -> Nat] /\ executed \in [Thread -> Nat]
  /\ kind \in [Thread -> {"none", "update", "entry", "query"}]

\* The thread that holds the mutex is the one that uses the connection.
MutexHeld == \A t \in Thread : pc[t] \in {"send", "recv", "connect"} <=> mutex = t

\* No two calls have the same id.
IdsDiffer ==
  \A t \in Thread :
    /\ id[t] <= message_id
    /\ pc[t] \notin {"idle", "stopped"} => id[t] # 0
    /\ \A u \in Thread : id[t] = id[u] /\ id[t] # 0 => t = u

\* The request or the reply of t is the only one on the connection.
Requested(t) == conn.requests = <<id[t]>> /\ conn.replies = <<>>
Replied(t) == conn.requests = <<>> /\ Len(conn.replies) = 1 /\ conn.replies[1].id = id[t]

\* Only a thread that waits has anything on the connection.
OneOnTheWay ==
  /\ \A t \in Thread : pc[t] = "recv" =>
       \/ Requested(t) \/ Replied(t)
       \/ conn.requests = <<>> /\ conn.replies = <<>> /\ conn.state # "open"
  /\ (\A t \in Thread : pc[t] # "recv") => conn.requests = <<>> /\ conn.replies = <<>>
  /\ conn.state # "open" => conn.requests = <<>>

\* The executions that cost a connection, and the one whose reply is about to be read.
Accounted ==
  \A t \in Thread :
    /\ executed[t] <= 1 + losses
    /\ executed[t] <= losses \/ (pc[t] = "recv" /\ Replied(t) /\ conn.replies[1].result = "ok")
    /\ pc[t] = "recv" /\ Replied(t) /\ conn.replies[1].result = "ok" => executed[t] >= 1

LinkInv == TypeOK /\ MutexHeld /\ IdsDiffer /\ OneOnTheWay /\ Accounted

-------------------------------------------------------------------------------
(* Bookkeeping.                                                            *)

\* A sequence of one element.
LEMMA Single == ASSUME NEW S, NEW x \in S
                PROVE  /\ <<x>> \in Seq(S) /\ Len(<<x>>) = 1 /\ <<x>>[1] = x
                       /\ Head(<<x>>) = x /\ Tail(<<x>>) = <<>> /\ <<x>> # <<>>
                       /\ <<>> \in Seq(S) /\ Append(<<>>, x) = <<x>>
OBVIOUS

\* A sequence of length one is its head.
LEMMA OfLengthOne == ASSUME NEW S, NEW s \in Seq(S), Len(s) = 1
                     PROVE  /\ s # <<>> /\ s[1] \in S /\ Head(s) = s[1] /\ Tail(s) = <<>>
                            /\ DOMAIN s = 1 .. 1
<1>1. s # <<>> /\ s[1] \in S /\ Head(s) = s[1] /\ DOMAIN s = 1 .. 1
  OBVIOUS
<1>2. Tail(s) \in Seq(S) /\ Len(Tail(s)) = 0
  BY <1>1
<1>3. Tail(s) = <<>>
  BY ZenonT(30), <1>2, EmptySeq
<1> QED BY <1>1, <1>3

\* A thread that waits is alone with the connection.
LEMMA Alone ==
  ASSUME MutexHeld, NEW t \in Thread, pc[t] \in {"send", "recv", "connect"},
         NEW u \in Thread, pc[u] \in {"send", "recv", "connect"}
  PROVE  t = u
BY DEF MutexHeld

\* The connection is new and nobody uses it.
LEMMA InitLink == Init => LinkInv
<1> SUFFICES ASSUME Init PROVE LinkInv
  OBVIOUS
<1>1. <<>> \in Seq(Nat) /\ <<>> \in Seq(Reply)
  OBVIOUS
<1>2. TypeOK
  BY <1>1 DEF Init, TypeOK, NewConnection
<1>3. MutexHeld
  BY LinkConstants DEF Init, MutexHeld, Thread, Main
<1>4. IdsDiffer /\ OneOnTheWay /\ Accounted
  BY DEF Init, IdsDiffer, OneOnTheWay, Accounted, NewConnection
<1> QED BY <1>2, <1>3, <1>4 DEF LinkInv

-------------------------------------------------------------------------------
(* The steps of bitcoind.                                                  *)

\* bitcoind takes the request on the connection and answers it.
LEMMA ServesLink == LinkInv /\ DaemonServes => LinkInv'
<1> SUFFICES ASSUME LinkInv, DaemonServes PROVE LinkInv'
  OBVIOUS
<1>1. PICK t \in Thread : pc[t] = "recv"
  BY DEF LinkInv, OneOnTheWay, DaemonServes
<1>2. Requested(t)
  BY <1>1 DEF LinkInv, OneOnTheWay, DaemonServes, Replied
<1>3. \A u \in Thread : pc[u] = "recv" => u = t
  BY <1>1, Alone DEF LinkInv
<1>4. PICK result \in {"warmup", "ok", "error"} :
        /\ conn' = [conn EXCEPT !.requests = <<>>, !.replies = <<[id |-> id[t], result |-> result]>>]
        /\ executed' = [u \in Thread |-> IF result = "ok" /\ id[u] = id[t]
                                         THEN executed[u] + 1 ELSE executed[u]]
  <2>1. PICK result \in {"warmup", "ok", "error"} :
          /\ conn' = [conn EXCEPT !.requests = Tail(@),
                       !.replies = Append(@, [id |-> Head(conn.requests), result |-> result])]
          /\ executed' = [u \in Thread |-> IF result = "ok" /\ id[u] = Head(conn.requests)
                                           THEN executed[u] + 1 ELSE executed[u]]
    BY ZenonT(30) DEF DaemonServes
  <2>2. Head(conn.requests) = id[t] /\ Tail(conn.requests) = <<>> /\ conn.replies = <<>>
    BY <1>2, Single DEF Requested, LinkInv, TypeOK
  <2>3. Append(conn.replies, [id |-> id[t], result |-> result])
          = <<[id |-> id[t], result |-> result]>>
    BY <2>2
  <2> QED BY ZenonT(30), <2>1, <2>2, <2>3
<1>5. UNCHANGED <<daemon, losses, mutex, message_id, pc, id, kind>> /\ warm' \in Nat
  BY DEF DaemonServes, LinkInv, TypeOK
<1>6. id[t] # 0 /\ \A u \in Thread : id[u] = id[t] => u = t
  BY ZenonT(30), <1>1 DEF LinkInv, IdsDiffer, TypeOK
<1> DEFINE r == [id |-> id[t], result |-> result]
<1>7. r \in Reply /\ <<r>> \in Seq(Reply) /\ Len(<<r>>) = 1 /\ <<r>>[1] = r
  BY Single DEF Reply, LinkInv, TypeOK
<1>8. conn'.requests = <<>> /\ conn'.replies = <<r>> /\ conn'.state = conn.state
  BY <1>4 DEF LinkInv, TypeOK
<1>9. TypeOK'
  <2>1. conn' \in [state : {"open", "ended", "reset"}, requests : Seq(Nat), replies : Seq(Reply)]
    BY ZenonT(30), <1>4, <1>7, EmptySeq DEF LinkInv, TypeOK
  <2>2. executed' \in [Thread -> Nat]
    <3>1. executed \in [Thread -> Nat]
      BY Zenon DEF LinkInv, TypeOK
    <3> QED BY <1>4, <3>1
  <2> QED BY ZenonT(30), <1>5, <2>1, <2>2 DEF LinkInv, TypeOK
<1>10. MutexHeld' /\ IdsDiffer'
  BY <1>5 DEF LinkInv, MutexHeld, IdsDiffer
<1>11. Replied(t)'
  BY <1>5, <1>7, <1>8 DEF Replied
<1>12. OneOnTheWay'
  BY ZenonT(30), <1>1, <1>3, <1>5, <1>8, <1>11 DEF OneOnTheWay
<1>13. Accounted'
  <2> SUFFICES ASSUME NEW u \in Thread
               PROVE  /\ executed'[u] <= 1 + losses'
                      /\ \/ executed'[u] <= losses'
                         \/ pc'[u] = "recv" /\ Replied(u)' /\ conn'.replies[1].result = "ok"
                      /\ pc'[u] = "recv" /\ Replied(u)' /\ conn'.replies[1].result = "ok"
                           => executed'[u] >= 1
    BY DEF Accounted
  <2>1. executed[u] \in Nat /\ losses \in Nat /\ executed[u] <= losses
    BY <1>2, <1>3 DEF LinkInv, TypeOK, Accounted, Requested, Replied
  <2>2. conn'.replies[1].result = result
    BY <1>7, <1>8
  <2>3. CASE u = t
    BY <2>1, <2>2, <2>3, <1>1, <1>4, <1>5, <1>11
  <2>4. CASE u # t
    BY <2>1, <2>4, <1>3, <1>4, <1>5, <1>6
  <2> QED BY <2>3, <2>4
<1> QED BY <1>9, <1>10, <1>12, <1>13 DEF LinkInv

\* A reply that is cut short keeps its place.
LEMMA CutShort ==
  ASSUME NEW s \in Seq(Reply)
  PROVE  LET c == [i \in DOMAIN s |-> [s[i] EXCEPT !.result = "cut"]]
         IN  /\ c \in Seq(Reply) /\ Len(c) = Len(s)
             /\ \A i \in 1 .. Len(s) : c[i].id = s[i].id /\ c[i].result = "cut"
             /\ s = <<>> => c = <<>>
<1> DEFINE c == [i \in DOMAIN s |-> [s[i] EXCEPT !.result = "cut"]]
<1>1. DOMAIN s = 1 .. Len(s) /\ Len(s) \in Nat /\ \A i \in 1 .. Len(s) : s[i] \in Reply
  OBVIOUS
<1>2. \A i \in 1 .. Len(s) : c[i] \in Reply /\ c[i].id = s[i].id /\ c[i].result = "cut"
  BY <1>1 DEF Reply
<1>3. c \in [1 .. Len(s) -> Reply]
  BY <1>1, <1>2
<1>4. c \in Seq(Reply) /\ Len(c) = Len(s)
  BY <1>1, <1>3
<1>5. s = <<>> => c = <<>>
  BY <1>4, EmptySeq
<1> QED BY <1>2, <1>4, <1>5

\* The connection is lost, with bitcoind or without it, and what was on it.
LEMMA LossLink == LinkInv /\ (DaemonStops \/ ConnectionDrops) => LinkInv'
<1> SUFFICES ASSUME LinkInv, DaemonStops \/ ConnectionDrops PROVE LinkInv'
  OBVIOUS
<1>1. /\ UNCHANGED <<mutex, message_id, pc, id, kind, executed>>
      /\ losses' = losses + 1 /\ daemon' \in {"up", "down"} /\ warm' \in Nat
  BY DEF DaemonStops, ConnectionDrops, threadVars, localVars, LinkInv, TypeOK
<1>2. MutexHeld' /\ IdsDiffer'
  BY <1>1 DEF LinkInv, MutexHeld, IdsDiffer
<1>3. CASE conn.state # "open"
  <2>1. UNCHANGED conn
    BY <1>3 DEF DaemonStops, ConnectionDrops
  <2>2. TypeOK'
    BY <1>1, <2>1 DEF LinkInv, TypeOK
  <2>3. OneOnTheWay'
    BY <1>1, <2>1 DEF LinkInv, OneOnTheWay, Requested, Replied
  <2>4. Accounted'
    BY <1>1, <2>1 DEF LinkInv, TypeOK, Accounted, Replied
  <2> QED BY <1>2, <2>2, <2>3, <2>4 DEF LinkInv
<1>4. CASE conn.state = "open"
  <2> DEFINE cut == [i \in DOMAIN conn.replies |-> [conn.replies[i] EXCEPT !.result = "cut"]]
  <2>1. PICK state \in {"ended", "reset"}, replies \in {conn.replies, <<>>, cut} :
          conn' = [state |-> state, requests |-> <<>>, replies |-> replies]
    BY <1>4 DEF DaemonStops, ConnectionDrops, Disconnect
  <2>2. conn'.state = state /\ conn'.requests = <<>> /\ conn'.replies = replies
    BY <2>1
  <2>3. conn.replies \in Seq(Reply)
    BY DEF LinkInv, TypeOK
  <2>4. /\ cut \in Seq(Reply) /\ Len(cut) = Len(conn.replies)
        /\ \A i \in 1 .. Len(conn.replies) : cut[i].id = conn.replies[i].id /\ cut[i].result = "cut"
        /\ conn.replies = <<>> => cut = <<>>
    BY ZenonT(30), <2>3, CutShort
  <2> HIDE DEF cut
  <2>5. replies \in Seq(Reply)
    BY ZenonT(30), <2>3, <2>4, EmptySeq
  <2>6. TypeOK'
    <3>1. conn' \in [state : {"open", "ended", "reset"}, requests : Seq(Nat), replies : Seq(Reply)]
      BY <2>1, <2>5, EmptySeq
    <3> QED BY <1>1, <3>1 DEF LinkInv, TypeOK
  <2>7. OneOnTheWay'
    <3>1. ASSUME NEW t \in Thread, pc'[t] = "recv", replies # <<>> PROVE Replied(t)'
      <4>1. Replied(t)
        BY <1>1, <1>4, <2>4, <3>1 DEF LinkInv, OneOnTheWay, Requested
      <4> QED BY <1>1, <2>2, <2>4, <3>1, <4>1 DEF Replied
    <3>2. (\A t \in Thread : pc'[t] # "recv") => replies = <<>>
      BY <1>1, <2>4 DEF LinkInv, OneOnTheWay
    <3> QED BY <2>2, <3>1, <3>2 DEF OneOnTheWay
  <2>8. Accounted'
    <3> SUFFICES ASSUME NEW t \in Thread
                 PROVE  /\ executed'[t] <= losses'
                        /\ pc'[t] = "recv" /\ Replied(t)' /\ conn'.replies[1].result = "ok"
                             => executed'[t] >= 1
      BY <1>1 DEF Accounted, LinkInv, TypeOK
    <3>1. executed'[t] <= losses'
      BY <1>1 DEF LinkInv, TypeOK, Accounted
    <3>2. ASSUME pc'[t] = "recv", Replied(t)', conn'.replies[1].result = "ok"
          PROVE  executed'[t] >= 1
      <4>1. Len(replies) = 1 /\ replies[1].result = "ok"
        BY <2>2, <3>2 DEF Replied
      <4>2. replies = conn.replies
        <5>1. replies # <<>>
          BY <4>1
        <5>2. ASSUME replies = cut PROVE FALSE
          <6>0. Len(conn.replies) = 1
            BY Zenon, <2>4, <4>1, <5>2
          <6>1. 1 \in 1 .. Len(conn.replies)
            BY <6>0
          <6>2. cut[1].result = "cut"
            BY Zenon, <2>4, <6>1
          <6>3. replies[1].result = "cut"
            BY Zenon, <5>2, <6>2
          <6> QED BY <4>1, <6>3
        <5> QED BY <5>1, <5>2
      <4>3. Replied(t)
        BY <1>1, <1>4, <3>2, <4>1, <4>2, EmptySeq DEF LinkInv, OneOnTheWay, Requested
      <4> QED BY <1>1, <3>2, <4>1, <4>2, <4>3 DEF LinkInv, Accounted
    <3> QED BY <3>1, <3>2
  <2> QED BY <1>2, <2>6, <2>7, <2>8 DEF LinkInv
<1> QED BY <1>3, <1>4

\* Steps that leave the threads and the connection alone.
LEMMA ApartLink ==
  ASSUME LinkInv, UNCHANGED <<conn, mutex, message_id, pc, id, kind, executed, losses>>,
         daemon' \in {"up", "down"}, warm' \in Nat
  PROVE  LinkInv'
<1>1. TypeOK'
  BY DEF LinkInv, TypeOK
<1>2. MutexHeld' /\ IdsDiffer'
  BY ZenonT(30) DEF LinkInv, MutexHeld, IdsDiffer
<1>3. OneOnTheWay' /\ Accounted'
  BY DEF LinkInv, OneOnTheWay, Accounted, Requested, Replied
<1> QED BY <1>1, <1>2, <1>3 DEF LinkInv

-------------------------------------------------------------------------------
(* The steps of the threads.                                               *)

Uses == {"send", "recv", "connect"}
Resting == {"idle", "stopped"}

\* A step of t leaves the other threads where they are.
OnlyOf(t) ==
  \A u \in Thread : u # t => pc'[u] = pc[u] /\ id'[u] = id[u] /\ executed'[u] = executed[u]

\* A free mutex is held by no thread.
LEMMA FreeIsNoThread == "free" \notin Thread
BY LinkConstants DEF Thread, Main

\* A step of one thread that keeps, takes or releases the mutex.
LEMMA MutexLink ==
  ASSUME LinkInv, NEW t \in Thread, OnlyOf(t),
         \/ mutex' = mutex /\ (pc[t] \in Uses <=> pc'[t] \in Uses)
         \/ mutex = "free" /\ mutex' = t /\ pc'[t] \in Uses
         \/ pc[t] \in Uses /\ mutex' = "free" /\ pc'[t] \notin Uses
  PROVE  MutexHeld'
<1> SUFFICES ASSUME NEW u \in Thread PROVE pc'[u] \in Uses <=> mutex' = u
  BY DEF MutexHeld, Uses
<1>1. \A v \in Thread : pc[v] \in Uses <=> mutex = v
  BY DEF LinkInv, MutexHeld, Uses
<1>2. CASE u = t
  BY <1>1, <1>2, FreeIsNoThread
<1>3. CASE u # t
  <2>1. pc'[u] = pc[u]
    BY <1>3 DEF OnlyOf
  <2> QED BY <1>1, <1>3, <2>1, FreeIsNoThread
<1> QED BY <1>2, <1>3

\* A step of one thread that keeps its id, drops it or gets the next one.
LEMMA IdsLink ==
  ASSUME LinkInv, NEW t \in Thread, OnlyOf(t),
         \/ /\ UNCHANGED message_id /\ id'[t] = id[t]
            /\ pc[t] \in Resting => pc'[t] \in Resting
         \/ UNCHANGED message_id /\ id'[t] = 0 /\ pc'[t] \in Resting
         \/ message_id' = message_id + 1 /\ id'[t] = message_id + 1
  PROVE  IdsDiffer'
<1>1. /\ message_id \in Nat /\ \A u \in Thread : id[u] \in Nat
      /\ \A u \in Thread : id[u] <= message_id /\ (pc[u] \notin Resting => id[u] # 0)
      /\ \A u, v \in Thread : id[u] = id[v] /\ id[u] # 0 => u = v
  BY ZenonT(30) DEF LinkInv, TypeOK, IdsDiffer, Resting
<1>2. \A u \in Thread : u # t => pc'[u] = pc[u] /\ id'[u] = id[u]
  BY DEF OnlyOf
<1>3. \A u \in Thread : id'[u] <= message_id' /\ (pc'[u] \notin Resting => id'[u] # 0)
  BY <1>1, <1>2
<1>4. \A u, v \in Thread : id'[u] = id'[v] /\ id'[u] # 0 => u = v
  BY <1>1, <1>2
<1> QED BY <1>3, <1>4 DEF IdsDiffer, Resting

\* A step of a thread that does not touch the connection.
LEMMA LocalLink ==
  ASSUME LinkInv, NEW t \in Thread, OnlyOf(t), UNCHANGED <<conn, losses>>,
         pc[t] # "recv", pc'[t] # "recv", executed'[t] \in {executed[t], 0}
  PROVE  OneOnTheWay' /\ Accounted'
<1>1. \A u \in Thread : u # t => pc'[u] = pc[u] /\ id'[u] = id[u] /\ executed'[u] = executed[u]
  BY DEF OnlyOf
<1>2. \A u \in Thread : u # t => (Requested(u)' <=> Requested(u)) /\ (Replied(u)' <=> Replied(u))
  BY <1>1 DEF Requested, Replied
<1>3. OneOnTheWay'
  BY <1>1, <1>2 DEF LinkInv, OneOnTheWay
<1>4. ASSUME NEW u \in Thread
      PROVE  /\ executed'[u] <= 1 + losses'
             /\ \/ executed'[u] <= losses'
                \/ pc'[u] = "recv" /\ Replied(u)' /\ conn'.replies[1].result = "ok"
             /\ pc'[u] = "recv" /\ Replied(u)' /\ conn'.replies[1].result = "ok"
                  => executed'[u] >= 1
  <2>1. CASE u = t
    <3>1. executed[t] <= losses /\ executed[t] \in Nat /\ losses \in Nat
      BY DEF LinkInv, TypeOK, Accounted
    <3> QED BY <2>1, <3>1
  <2>2. CASE u # t
    BY <1>1, <1>2, <2>2 DEF LinkInv, Accounted
  <2> QED BY <2>1, <2>2
<1>5. Accounted'
  BY <1>4 DEF Accounted
<1> QED BY <1>3, <1>5

\* A step of a thread that uses the connection: nobody else is waiting.
LEMMA HolderLink ==
  ASSUME LinkInv, NEW t \in Thread, OnlyOf(t), UNCHANGED losses, pc[t] \in Uses,
         \/ pc'[t] # "recv" /\ conn'.requests = <<>> /\ conn'.replies = <<>>
         \/ pc'[t] = "recv" /\ conn'.replies = <<>>
            /\ \/ conn'.requests = <<id'[t]>> /\ conn'.state = "open"
               \/ conn'.requests = <<>> /\ conn'.state # "open",
         executed'[t] \in Nat, executed'[t] <= losses
  PROVE  OneOnTheWay' /\ Accounted'
<1>1. \A u \in Thread : u # t => pc'[u] # "recv" /\ executed'[u] = executed[u] /\ pc[u] # "recv"
  BY DEF OnlyOf, LinkInv, MutexHeld, Uses
<1>2. OneOnTheWay'
  BY <1>1 DEF OneOnTheWay, Requested
<1>3. \A u \in Thread : executed'[u] \in Nat /\ executed'[u] <= losses /\ ~ Replied(u)'
  <2>1. \A u \in Thread : ~ Replied(u)'
    BY EmptySeq DEF Replied
  <2> QED BY ZenonT(30), <1>1, <2>1 DEF LinkInv, TypeOK, Accounted
<1>4. Accounted'
  <2>1. losses \in Nat /\ losses' = losses
    BY Zenon DEF LinkInv, TypeOK
  <2>2. \A u \in Thread : executed'[u] <= 1 + losses
    BY <1>3, <2>1
  <2> QED BY ZenonT(30), <1>3, <2>1, <2>2 DEF Accounted
<1> QED BY <1>2, <1>4

LocalTypeOK ==
  /\ pc \in [Thread -> {"idle", "stopped", "lock", "send", "recv", "retry", "relock", "connect"}]
  /\ id \in [Thread -> Nat] /\ executed \in [Thread -> Nat]
  /\ kind \in [Thread -> {"none", "update", "entry", "query"}]

\* Where a call is over, and where it is tried again.
LEMMA ReturnLocal ==
  ASSUME LinkInv, NEW t \in Thread, NEW how, Return(t, how)
  PROVE  /\ OnlyOf(t) /\ LocalTypeOK'
         /\ pc'[t] \in Resting /\ id'[t] = 0 /\ executed'[t] = 0
BY DEF LinkInv, TypeOK, LocalTypeOK, OnlyOf, Return, Resting

\* A step that only moves the thread on.
LEMMA MoveLocal ==
  ASSUME LinkInv, NEW t \in Thread, UNCHANGED localVars,
         NEW place \in {"stopped", "send", "recv", "retry", "relock", "connect"},
         pc' = [pc EXCEPT ![t] = place]
  PROVE  /\ OnlyOf(t) /\ LocalTypeOK'
         /\ pc'[t] = place /\ id'[t] = id[t] /\ executed'[t] = executed[t]
BY DEF LinkInv, TypeOK, LocalTypeOK, OnlyOf, localVars

\* A call begins with an id of its own.
LEMMA CallLink == ASSUME LinkInv, NEW t \in Thread, Call(t) PROVE LinkInv'
<1>1. UNCHANGED <<executed, conn, mutex, daemon, warm, losses>> /\ pc[t] = "idle"
  BY DEF Call, daemonVars
<1>2. /\ OnlyOf(t) /\ LocalTypeOK' /\ pc'[t] = "lock" /\ executed'[t] = executed[t]
      /\ message_id' = message_id + 1 /\ id'[t] = message_id + 1
  BY DEF Call, StartBatch, OnlyOf, LocalTypeOK, LinkInv, TypeOK
<1>3. TypeOK'
  BY <1>1, <1>2 DEF LinkInv, TypeOK, LocalTypeOK
<1>4. MutexHeld'
  BY <1>1, <1>2, MutexLink DEF Uses
<1>5. IdsDiffer'
  BY <1>2, IdsLink
<1>6. OneOnTheWay' /\ Accounted'
  BY <1>1, <1>2, LocalLink
<1> QED BY <1>3, <1>4, <1>5, <1>6 DEF LinkInv

\* The thread takes the mutex.
LEMMA LockLink == ASSUME LinkInv, NEW t \in Thread, Lock(t) \/ Relock(t) PROVE LinkInv'
<1>1. /\ UNCHANGED <<conn, daemon, warm, losses, message_id>> /\ UNCHANGED localVars
      /\ pc[t] \in {"lock", "relock"} /\ mutex = "free" /\ mutex' = t
  BY DEF Lock, Relock, daemonVars
<1>2. PICK place \in {"send", "connect"} : pc' = [pc EXCEPT ![t] = place]
  BY DEF Lock, Relock
<1>3. /\ OnlyOf(t) /\ LocalTypeOK'
      /\ pc'[t] = place /\ id'[t] = id[t] /\ executed'[t] = executed[t]
  BY ZenonT(60), <1>1, <1>2, MoveLocal
<1>4. TypeOK'
  BY <1>1, <1>3 DEF LinkInv, TypeOK, LocalTypeOK
<1>5. MutexHeld'
  BY <1>1, <1>3, MutexLink DEF Uses
<1>6. IdsDiffer'
  BY ZenonT(60), <1>1, <1>3, IdsLink DEF Resting
<1>7. OneOnTheWay' /\ Accounted'
  BY <1>1, <1>3, LocalLink
<1> QED BY <1>4, <1>5, <1>6, <1>7 DEF LinkInv

\* The request is written to the connection, or fails.
LEMMA SendLink == ASSUME LinkInv, NEW t \in Thread, Send(t) PROVE LinkInv'
<1>1. UNCHANGED <<daemon, warm, losses, message_id>> /\ pc[t] = "send"
  BY DEF Send, daemonVars
<1>2. conn.requests = <<>> /\ conn.replies = <<>>
  <2>1. \A u \in Thread : pc[u] # "recv"
    BY <1>1, Alone DEF LinkInv
  <2> QED BY <2>1 DEF LinkInv, OneOnTheWay
<1>3. executed[t] \in Nat /\ executed[t] <= losses
  BY <1>1 DEF LinkInv, TypeOK, Accounted
<1>4. CASE /\ conn' = IF conn.state = "open"
                      THEN [conn EXCEPT !.requests = Append(@, id[t])] ELSE conn
           /\ pc' = [pc EXCEPT ![t] = "recv"]
           /\ UNCHANGED <<localVars, mutex>>
  <2>1. /\ OnlyOf(t) /\ LocalTypeOK'
        /\ pc'[t] = "recv" /\ id'[t] = id[t] /\ executed'[t] = executed[t]
    BY ZenonT(30), <1>4, MoveLocal
  <2>2. /\ Append(conn.requests, id[t]) = <<id[t]>> /\ <<id[t]>> \in Seq(Nat)
    BY <1>2, Single DEF LinkInv, TypeOK
  <2>3. /\ conn' \in [state : {"open", "ended", "reset"}, requests : Seq(Nat), replies : Seq(Reply)]
        /\ conn'.replies = <<>>
        /\ \/ conn'.requests = <<id[t]>> /\ conn'.state = "open"
           \/ conn'.requests = <<>> /\ conn'.state # "open"
    BY ZenonT(30), <1>2, <1>4, <2>2 DEF LinkInv, TypeOK
  <2>4. TypeOK'
    BY ZenonT(30), <1>1, <1>4, <2>1, <2>3 DEF LinkInv, TypeOK, LocalTypeOK
  <2>5. MutexHeld'
    BY <1>1, <1>4, <2>1, MutexLink DEF Uses
  <2>6. IdsDiffer'
    BY <1>1, <2>1, IdsLink DEF Resting
  <2>7. OneOnTheWay' /\ Accounted'
    BY SMTT(30), <1>1, <1>3, <2>1, <2>3, HolderLink DEF Uses
  <2> QED BY <2>4, <2>5, <2>6, <2>7 DEF LinkInv
<1>5. CASE Retry(t) /\ mutex' = "free" /\ UNCHANGED conn
  <2>1. /\ OnlyOf(t) /\ LocalTypeOK'
        /\ pc'[t] = "retry" /\ id'[t] = id[t] /\ executed'[t] = executed[t]
    BY ZenonT(30), <1>5, MoveLocal DEF Retry
  <2>2. TypeOK'
    BY ZenonT(30), <1>1, <1>5, <2>1 DEF LinkInv, TypeOK, LocalTypeOK
  <2>3. MutexHeld'
    BY ZenonT(60), <1>1, <1>5, <2>1, MutexLink DEF Uses
  <2>4. IdsDiffer'
    BY <1>1, <2>1, IdsLink DEF Resting
  <2>5. OneOnTheWay' /\ Accounted'
    BY <1>1, <1>5, <2>1, LocalLink
  <2> QED BY <2>2, <2>3, <2>4, <2>5 DEF LinkInv
<1> QED BY <1>4, <1>5 DEF Send

\* The reply is read, or the connection is found to be gone.
LEMMA RecvLink == ASSUME LinkInv, NEW t \in Thread, Recv(t) PROVE LinkInv'
<1>1. UNCHANGED <<daemon, warm, losses, message_id>> /\ pc[t] = "recv" /\ mutex' = "free"
  BY DEF Recv, daemonVars
<1>2. conn.replies \in Seq(Reply) /\ executed[t] \in Nat /\ losses \in Nat
  BY DEF LinkInv, TypeOK
\* Nothing is left behind, and what is tried again has not been carried out
\* without a lost connection to show for it.
<1>3. /\ conn' \in [state : {"open", "ended", "reset"}, requests : Seq(Nat), replies : Seq(Reply)]
      /\ conn'.requests = <<>> /\ conn'.replies = <<>>
      /\ \/ Retry(t) /\ executed[t] <= losses
         \/ \E how : Return(t, how)
  <2>1. CASE /\ conn.replies # <<>>
             /\ conn' = [conn EXCEPT !.replies = Tail(@)]
             /\ IF Head(conn.replies).result = "cut"
                THEN Retry(t)
                ELSE parse_jsonrpc_reply(t, Head(conn.replies))
    <3>1. Replied(t)
      BY <1>1, <2>1 DEF LinkInv, OneOnTheWay, Requested
    <3>2. Head(conn.replies) = conn.replies[1] /\ Tail(conn.replies) = <<>>
      BY <1>2, <3>1, OfLengthOne DEF Replied
    <3>3. /\ conn' \in [state : {"open", "ended", "reset"}, requests : Seq(Nat), replies : Seq(Reply)]
          /\ conn'.requests = <<>> /\ conn'.replies = <<>>
      BY ZenonT(60), <2>1, <3>1, <3>2, EmptySeq DEF LinkInv, TypeOK, Replied
    <3>4. conn.replies[1].result # "ok" => executed[t] <= losses
      BY DEF LinkInv, Accounted
    <3>5. CASE Head(conn.replies).result \in {"cut", "warmup"}
      BY ZenonT(30), <2>1, <3>2, <3>3, <3>4, <3>5 DEF parse_jsonrpc_reply
    <3>6. CASE Head(conn.replies).result \notin {"cut", "warmup"}
      BY ZenonT(30), <2>1, <3>3, <3>6 DEF parse_jsonrpc_reply
    <3> QED BY <3>5, <3>6
  <2>2. CASE conn.replies = <<>> /\ conn.state # "open" /\ UNCHANGED conn
    <3>1. conn.requests = <<>>
      BY ZenonT(30), <2>2 DEF LinkInv, OneOnTheWay
    <3>2. executed[t] <= losses
      BY <2>2, EmptySeq DEF LinkInv, Accounted, Replied
    <3>3. Retry(t) \/ Return(t, "disconnected")
      BY ZenonT(60), <2>2 DEF Recv
    <3> QED BY <2>2, <3>1, <3>2, <3>3 DEF LinkInv, TypeOK
  <2> QED BY ZenonT(60), <2>1, <2>2 DEF Recv
<1>4. /\ OnlyOf(t) /\ LocalTypeOK' /\ executed'[t] \in Nat /\ executed'[t] <= losses
      /\ \/ pc'[t] = "retry" /\ id'[t] = id[t]
         \/ pc'[t] \in Resting /\ id'[t] = 0
  <2>1. CASE Retry(t) /\ executed[t] <= losses
    BY ZenonT(60), <1>2, <2>1, MoveLocal DEF Retry
  <2>2. CASE \E how : Return(t, how)
    <3>1. PICK how : Return(t, how)
      BY <2>2
    <3>2. /\ OnlyOf(t) /\ LocalTypeOK'
          /\ pc'[t] \in Resting /\ id'[t] = 0 /\ executed'[t] = 0
      BY ZenonT(30), <3>1, ReturnLocal
    <3> QED BY <1>2, <3>2
  <2> QED BY <1>3, <2>1, <2>2
<1>5. TypeOK'
  BY ZenonT(30), <1>1, <1>3, <1>4 DEF LinkInv, TypeOK, LocalTypeOK
<1>6. MutexHeld'
  BY <1>1, <1>4, MutexLink DEF Uses, Resting
<1>7. IdsDiffer'
  BY ZenonT(60), <1>1, <1>4, IdsLink DEF Resting
<1>8. OneOnTheWay' /\ Accounted'
  BY <1>1, <1>3, <1>4, HolderLink DEF Uses, Resting
<1> QED BY <1>5, <1>6, <1>7, <1>8 DEF LinkInv

\* The wait before a request is made again, which a signal ends.
LEMMA WaitLink == ASSUME LinkInv, NEW t \in Thread, RetryWait(t) PROVE LinkInv'
<1>1. UNCHANGED <<conn, daemon, warm, losses, mutex, message_id>> /\ pc[t] = "retry"
  BY ZenonT(60) DEF RetryWait, daemonVars
<1>2. /\ OnlyOf(t) /\ LocalTypeOK' /\ executed'[t] \in {executed[t], 0}
      /\ \/ pc'[t] = "relock" /\ id'[t] = id[t]
         \/ pc'[t] \in Resting /\ id'[t] = 0
  <2>1. CASE pc' = [pc EXCEPT ![t] = "relock"] /\ UNCHANGED localVars
    BY ZenonT(30), <2>1, MoveLocal
  <2>2. CASE Return(t, "interrupted")
    BY ZenonT(30), <2>2, ReturnLocal
  <2> QED BY <2>1, <2>2 DEF RetryWait, Interrupt
<1>3. TypeOK'
  BY ZenonT(30), <1>1, <1>2 DEF LinkInv, TypeOK, LocalTypeOK
<1>4. MutexHeld'
  BY <1>1, <1>2, MutexLink DEF Uses, Resting
<1>5. IdsDiffer'
  BY ZenonT(30), <1>1, <1>2, IdsLink DEF Resting
<1>6. OneOnTheWay' /\ Accounted'
  BY ZenonT(60), <1>1, <1>2, LocalLink DEF Resting
<1> QED BY <1>3, <1>4, <1>5, <1>6 DEF LinkInv

\* A new connection takes the place of the one that was lost.
LEMMA ReconnectLink == ASSUME LinkInv, NEW t \in Thread, Reconnect(t) PROVE LinkInv'
<1>1. /\ UNCHANGED <<daemon, warm, losses, executed>> /\ pc[t] = "connect" /\ mutex' = "free"
      /\ executed[t] \in Nat /\ executed[t] <= losses
  BY DEF Reconnect, daemonVars, LinkInv, TypeOK, Accounted
<1>2. /\ OnlyOf(t) /\ LocalTypeOK' /\ pc'[t] = "lock" /\ executed'[t] = executed[t]
      /\ message_id' = message_id + 1 /\ id'[t] = message_id + 1
  BY DEF Reconnect, StartBatch, OnlyOf, LocalTypeOK, LinkInv, TypeOK
<1>3. /\ conn' \in [state : {"open", "ended", "reset"}, requests : Seq(Nat), replies : Seq(Reply)]
      /\ conn'.requests = <<>> /\ conn'.replies = <<>>
  BY ZenonT(30), EmptySeq DEF Reconnect, NewConnection
<1>4. TypeOK'
  BY SMTT(30), ZenonT(60), SMTT(40), <1>1, <1>2, <1>3 DEF LinkInv, TypeOK, LocalTypeOK
<1>5. MutexHeld'
  BY ZenonT(60), <1>1, <1>2, MutexLink DEF Uses
<1>6. IdsDiffer'
  BY <1>2, IdsLink
<1>7. OneOnTheWay' /\ Accounted'
  BY <1>1, <1>2, <1>3, HolderLink DEF Uses
<1> QED BY <1>4, <1>5, <1>6, <1>7 DEF LinkInv

\* The wait of tcp_connect for a bitcoind that is not there.
LEMMA ConnectWaitLink == ASSUME LinkInv, NEW t \in Thread, ConnectWait(t) PROVE LinkInv'
<1>1. UNCHANGED <<conn, daemon, warm, losses, message_id>> /\ pc[t] = "connect"
  BY ZenonT(30) DEF ConnectWait, daemonVars
<1>2. CASE UNCHANGED <<pc, localVars, mutex>>
  BY ZenonT(30), <1>1, <1>2, ApartLink DEF LinkInv, TypeOK, localVars
<1>3. CASE Return(t, "interrupted") /\ mutex' = "free"
  <2>1. /\ OnlyOf(t) /\ LocalTypeOK' /\ pc'[t] \in Resting /\ id'[t] = 0 /\ executed'[t] = 0
    BY ZenonT(30), <1>3, ReturnLocal
  <2>2. TypeOK'
    BY ZenonT(30), <1>1, <1>3, <2>1 DEF LinkInv, TypeOK, LocalTypeOK
  <2>3. MutexHeld'
    BY ZenonT(60), <1>1, <1>3, <2>1, MutexLink DEF Uses, Resting
  <2>4. IdsDiffer'
    BY <1>1, <2>1, IdsLink
  <2>5. OneOnTheWay' /\ Accounted'
    BY <1>1, <2>1, LocalLink DEF Resting
  <2> QED BY <2>2, <2>3, <2>4, <2>5 DEF LinkInv
<1> QED BY <1>2, <1>3 DEF ConnectWait, Interrupt

\* The wait of the main loop.
LEMMA MainWaitLink == ASSUME LinkInv, MainWait PROVE LinkInv'
<1>1. /\ UNCHANGED <<conn, daemon, warm, losses, mutex, message_id>> /\ UNCHANGED localVars
      /\ pc[Main] = "idle" /\ Main \in Thread
  BY ZenonT(30) DEF MainWait, daemonVars, Thread
<1>2. CASE UNCHANGED pc
  BY ZenonT(30), <1>1, <1>2, ApartLink DEF LinkInv, TypeOK, localVars
<1>3. CASE pc' = [pc EXCEPT ![Main] = "stopped"]
  <2>1. /\ OnlyOf(Main) /\ LocalTypeOK'
        /\ pc'[Main] = "stopped" /\ id'[Main] = id[Main] /\ executed'[Main] = executed[Main]
    BY ZenonT(30), <1>1, <1>3, MoveLocal
  <2>2. TypeOK'
    BY ZenonT(30), <1>1, <2>1 DEF LinkInv, TypeOK, LocalTypeOK
  <2>3. MutexHeld'
    BY <1>1, <2>1, MutexLink DEF Uses
  <2>4. IdsDiffer'
    BY ZenonT(60), <1>1, <2>1, IdsLink DEF Resting
  <2>5. OneOnTheWay' /\ Accounted'
    BY <1>1, <2>1, LocalLink
  <2> QED BY SMTT(30), <2>2, <2>3, <2>4, <2>5 DEF LinkInv
<1> QED BY <1>2, <1>3 DEF MainWait

-------------------------------------------------------------------------------
(* The theorems.                                                           *)

\* Every step keeps the invariant.
LEMMA NextLink == LinkInv /\ [Next]_vars => LinkInv'
<1> SUFFICES ASSUME LinkInv, [Next]_vars PROVE LinkInv'
  OBVIOUS
<1>1. CASE DaemonServes
  BY <1>1, ServesLink
<1>2. CASE DaemonStops \/ ConnectionDrops
  BY <1>2, LossLink
<1>3. CASE DaemonStarts
  <2>1. /\ UNCHANGED <<conn, mutex, message_id, pc, id, kind, executed, losses>>
        /\ daemon' \in {"up", "down"} /\ warm' \in Nat
    BY ZenonT(30), <1>3, LinkConstants DEF DaemonStarts, threadVars, localVars
  <2> QED BY <2>1, ApartLink
<1>4. CASE SignalSent \/ notify \/ Quiet \/ UNCHANGED vars
  <2>1. UNCHANGED <<conn, mutex, message_id, pc, id, kind, executed, losses, daemon, warm>>
    BY <1>4 DEF SignalSent, notify, Quiet, vars, daemonVars, threadVars, localVars
  <2> QED BY ZenonT(30), <2>1, ApartLink DEF LinkInv, TypeOK
<1>5. CASE MainWait
  BY <1>5, MainWaitLink
<1>6. ASSUME NEW t \in Thread, Call(t) \/ Step(t) PROVE LinkInv'
  BY <1>6, CallLink, LockLink, SendLink, RecvLink, WaitLink, ReconnectLink, ConnectWaitLink DEF Step
<1> QED BY <1>1, <1>2, <1>3, <1>4, <1>5, <1>6 DEF Next

\* The connection's mutex, the ids of the requests, what is on the wire and what
\* bitcoind has carried out stay in step, whatever bitcoind, the signals and any
\* number of threads do.
THEOREM LinkInvariant == Spec => []LinkInv
BY InitLink, NextLink, PTL DEF Spec

\* A thread in recv() on an open connection has its own request or reply there,
\* and nothing else is: call_jsonrpc() never reads another call's reply.
THEOREM ReplyComes == Spec => []AwaitedReplyComes
<1>1. LinkInv => AwaitedReplyComes
  BY ZenonT(30) DEF LinkInv, OneOnTheWay, AwaitedReplyComes, Requested, Replied
<1> QED BY <1>1, LinkInvariant, PTL

\* retry_request_batch() makes bitcoind carry out a call at most once more than
\* connections were lost; a result means that it was carried out; and an error that
\* it was not, unless a connection was lost.
THEOREM Truthful == Spec => []AnswersAreTruthful
<1>1. LinkInv => AnswersAreTruthful
  <2> SUFFICES ASSUME LinkInv, NEW t \in Thread
               PROVE  /\ executed[t] <= 1 + losses
                      /\ pc[t] = "recv" /\ conn.replies # <<>> =>
                           /\ Head(conn.replies).result = "ok" => executed[t] >= 1
                           /\ Head(conn.replies).result = "error" /\ executed[t] > 0 => losses > 0
    BY DEF AnswersAreTruthful
  <2>1. executed[t] \in Nat /\ losses \in Nat /\ conn.replies \in Seq(Reply)
    BY DEF LinkInv, TypeOK
  <2>2. executed[t] <= 1 + losses
    BY DEF LinkInv, Accounted
  <2>3. ASSUME pc[t] = "recv", conn.replies # <<>>
        PROVE  /\ Head(conn.replies).result = "ok" => executed[t] >= 1
               /\ Head(conn.replies).result = "error" /\ executed[t] > 0 => losses > 0
    <3>1. Replied(t)
      BY <2>3 DEF LinkInv, OneOnTheWay, Requested
    <3>2. Head(conn.replies) = conn.replies[1]
      BY <2>1, <3>1, OfLengthOne DEF Replied
    <3> QED BY <2>1, <2>3, <3>1, <3>2 DEF LinkInv, Accounted
  <2> QED BY <2>2, <2>3
<1> QED BY <1>1, LinkInvariant, PTL
===============================================================================
