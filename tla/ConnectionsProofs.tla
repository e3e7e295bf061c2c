--------------------------- MODULE ConnectionsProofs ---------------------------
(***************************************************************************)
(* Proofs about Connections, for every finite set of connections, every    *)
(* assignment of address prefixes, every configuration and every bound:    *)
(* the counters of the limits are exact (SlotsExact), a connection that    *)
(* still receives is known to the notifier and is told to end              *)
(* (LiveIsListed), and a stopped server has no peer thread left            *)
(* (StoppedMeansDone).                                                     *)
(***************************************************************************)
EXTENDS Connections, FiniteSetTheorems, TLAPS

Message == {"nothing", "request", "change", "done"}

\* The values of the variables.
TypeOK ==
  /\ client \in [Conn -> {"none", "reading", "stalled", "closed", "reset"}]
  /\ peer \in [Conn -> {"none", "rejected", "recv", "write", "join", "panicked", "finished"}]
  /\ reader \in [Conn -> {"none", "read", "send", "ended"}]
  /\ held \in [Conn -> Message] /\ queue \in [Conn -> Seq(Message)]
  /\ acceptor \in Seq(Conn \cup {"exit"}) /\ notifications \in Seq({"change", "exit"})
  /\ senders \in Seq(Conn) /\ closing \in Seq(Conn)
  /\ rpc \in {"accept", "closing", "join", "stopped"}
  /\ threads \in SUBSET Conn /\ garbage \in SUBSET Conn
  /\ config \in [total : Nat, shared : Nat]
  /\ total \in Nat /\ shared \in [AddressPrefixes -> Int]

\* A connection in the acceptor channel is there once, and has no peer thread yet.
Waiting ==
  /\ \A c \in Conn : client[c] = "none" => peer[c] = "none"
  /\ \A i \in 1 .. Len(acceptor) : acceptor[i] \in Conn =>
       /\ client[acceptor[i]] # "none" /\ peer[acceptor[i]] = "none"
       /\ \A j \in 1 .. Len(acceptor) : acceptor[j] = acceptor[i] => j = i

\* A peer thread that has not ended is one the rpc thread still has to join.
Remembered ==
  /\ \A c \in Conn : peer[c] \in {"recv", "write", "join"} => c \in threads
  /\ \A c \in garbage : peer[c] = "finished"
  /\ rpc = "stopped" => threads = {}

\* The inductive invariant.
IInv == TypeOK /\ Waiting /\ SlotsExact /\ LiveIsListed /\ Remembered

-------------------------------------------------------------------------------
(* Facts about data: induction over an interval, stated with a set instead *)
(* of a predicate, functions defined by recursion over one, and what       *)
(* sequences contain.                                                      *)

\* What holds of 0, and of i when it holds of i - 1, holds of every number of 0 .. n.
LEMMA IntervalInduction ==
  ASSUME NEW n \in Nat, NEW G, 0 \in G,
         \A i \in 1 .. n : i - 1 \in G => i \in G
  PROVE  0 .. n \subseteq G
<1> DEFINE Bad == (0 .. n) \ G
<1> SUFFICES ASSUME Bad # {} PROVE FALSE
  OBVIOUS
<1>1. IsWellFoundedOn(OpToRel(<, Nat), Nat)
  BY ZenonT(30), NatLessThanWellFounded
<1>2. \E i \in Bad : \A j \in Bad : ~ (<<j, i>> \in OpToRel(<, Nat))
  <2>1. Bad \subseteq Nat
    OBVIOUS
  <2> HIDE DEF Bad
  <2> QED BY ZenonT(30), <1>1, <2>1, WFMin
<1>3. PICK i \in Bad : \A j \in Bad : ~ (<<j, i>> \in OpToRel(<, Nat))
  BY ZenonT(30), <1>2
<1>4. i \in 0 .. n /\ i \notin G /\ i # 0
  BY ZenonT(30), <1>3
<1>5. i \in 1 .. n /\ i - 1 \in 0 .. n /\ i - 1 < i /\ i - 1 \in Nat /\ i \in Nat
  BY <1>4
<1>6. i - 1 \in Bad
  BY <1>4, <1>5
<1>7. <<i - 1, i>> \in OpToRel(<, Nat)
  BY <1>5 DEF OpToRel
<1> QED BY ZenonT(30), <1>3, <1>6, <1>7

\* f is defined by recursion over 0 .. n: it begins with base, and step[i] leads from
\* f[i - 1] to f[i].
DefinedBy(f, n, base, step) ==
  f[0] = base /\ \A i \in 1 .. n : f[i] = step[i][f[i - 1]]

\* There is such a function.
LEMMA PrimitiveRecursion ==
  ASSUME NEW n \in Nat, NEW S, NEW base \in S, NEW step \in [1 .. n -> [S -> S]]
  PROVE  \E f \in [0 .. n -> S] : DefinedBy(f, n, base, step)
<1> DEFINE Solves(f, m) == f \in [0 .. m -> S] /\ DefinedBy(f, m, base, step)
           G == {m \in 0 .. n : \E f : Solves(f, m)}
<1>1. 0 \in G
  <2>1. Solves([i \in 0 .. 0 |-> base], 0)
    BY DEF DefinedBy
  <2> HIDE DEF Solves
  <2> QED BY <2>1
<1>2. ASSUME NEW i \in 1 .. n, i - 1 \in G PROVE i \in G
  <2>1. PICK f : Solves(f, i - 1)
    BY <1>2
  <2> DEFINE g == [j \in 0 .. i |-> IF j = i THEN step[i][f[i - 1]] ELSE f[j]]
  <2>2. f[i - 1] \in S /\ step[i] \in [S -> S]
    BY <2>1
  <2>3. g \in [0 .. i -> S]
    BY <2>1, <2>2
  <2>4. g[0] = base
    BY <2>1 DEF DefinedBy
  <2>5. ASSUME NEW j \in 1 .. i PROVE g[j] = step[j][g[j - 1]]
    BY <2>1 DEF DefinedBy
  <2>6. Solves(g, i)
    BY ZenonT(30), <2>3, <2>4, <2>5 DEF DefinedBy
  <2> HIDE DEF Solves, g
  <2> QED BY <2>6
<1>3. n \in G
  <2> HIDE DEF G
  <2>1. 0 .. n \subseteq G
    BY ZenonT(30), <1>1, <1>2, IntervalInduction
  <2> QED BY <2>1
<1> QED BY <1>3

\* The empty sequence,
LEMMA EmptySeq == \A S : <<>> \in Seq(S)
OBVIOUS

\* what a sequence contains,
LEMMA RangeOfSeq ==
  ASSUME NEW S, NEW s \in Seq(S)
  PROVE  \A y : y \in Range(s) <=> \E i \in 1 .. Len(s) : s[i] = y
BY DEF Range

\* with one more element,
LEMMA RangeAppend ==
  ASSUME NEW S, NEW s \in Seq(S), NEW x \in S
  PROVE  /\ Append(s, x) \in Seq(S)
         /\ \A y : y \in Range(Append(s, x)) <=> y \in Range(s) \/ y = x
<1> DEFINE t == Append(s, x)
<1>1. /\ t \in Seq(S) /\ Len(t) = Len(s) + 1 /\ Len(s) \in Nat
      /\ t[Len(t)] = x /\ \A i \in 1 .. Len(s) : t[i] = s[i]
  OBVIOUS
<1> HIDE DEF t
<1>2. ASSUME NEW y PROVE (\E i \in 1 .. Len(t) : t[i] = y) <=> (\E i \in 1 .. Len(s) : s[i] = y) \/ y = x
  BY <1>1
<1>3. \A y : y \in Range(t) <=> y \in Range(s) \/ y = x
  BY <1>1, <1>2, RangeOfSeq
<1> QED BY <1>1, <1>3 DEF t

\* and without the first.
LEMMA RangeTail ==
  ASSUME NEW S, NEW s \in Seq(S), s # <<>>
  PROVE  /\ Head(s) \in S /\ Tail(s) \in Seq(S) /\ Len(Tail(s)) = Len(s) - 1
         /\ \A i \in 1 .. Len(Tail(s)) : Tail(s)[i] = s[i + 1]
         /\ \A y : y \in Range(s) => y \in Range(Tail(s)) \/ y = Head(s)
<1>1. Len(s) \in Nat \ {0} /\ Head(s) = s[1]
  OBVIOUS
<1>2. /\ Head(s) \in S /\ Tail(s) \in Seq(S) /\ Len(Tail(s)) = Len(s) - 1
      /\ \A i \in 1 .. Len(Tail(s)) : Tail(s)[i] = s[i + 1]
  OBVIOUS
<1>3. ASSUME NEW y, NEW i \in 1 .. Len(s), s[i] = y, y # Head(s) PROVE y \in Range(Tail(s))
  <2>1. i - 1 \in 1 .. Len(Tail(s))
    BY <1>1, <1>2, <1>3
  <2>2. Tail(s)[i - 1] = y
    BY <1>2, <1>3, <2>1
  <2> QED BY ZenonT(30), <1>2, <2>1, <2>2, RangeOfSeq
<1> QED BY <1>2, <1>3, RangeOfSeq

-------------------------------------------------------------------------------
(* The list of senders.                                                    *)

\* Vec::retain() leaves the kept elements and no other.
LEMMA RetainKeeps ==
  ASSUME NEW S, NEW s \in Seq(S), NEW keep
  PROVE  /\ retain(s, keep) \in Seq(S)
         /\ \A x : x \in Range(retain(s, keep)) <=> x \in Range(s) /\ x \in keep
<1> DEFINE n == Len(s)
           Next1(i, t) == IF s[i] \in keep THEN Append(t, s[i]) ELSE t
           step == [i \in 1 .. n |-> [t \in Seq(S) |-> Next1(i, t)]]
           Def(f) == f = [i \in 0 .. n |-> IF i = 0 THEN <<>> ELSE Next1(i, f[i - 1])]
           left == CHOOSE f : Def(f)
<1>1. n \in Nat /\ \A i \in 1 .. n : s[i] \in S /\ i - 1 \in 0 .. n /\ i \in 0 .. n /\ i # 0
  OBVIOUS
<1>2. retain(s, keep) = left[n]
  BY DEF retain
<1>3. Def(left)
  <2>1. step \in [1 .. n -> [Seq(S) -> Seq(S)]] /\ <<>> \in Seq(S)
    BY <1>1
  <2>2. PICK f \in [0 .. n -> Seq(S)] : f[0] = <<>> /\ \A i \in 1 .. n : f[i] = step[i][f[i - 1]]
    <3> DEFINE e == <<>>
               SS == Seq(S)
    <3>1. n \in Nat /\ e \in SS /\ step \in [1 .. n -> [SS -> SS]]
      BY <1>1, <2>1
    <3> HIDE DEF step, n, e, SS
    <3>2. \E f \in [0 .. n -> SS] : DefinedBy(f, n, e, step)
      BY <3>1, PrimitiveRecursion, Zenon
    <3> QED BY <3>2, Zenon DEF e, SS, DefinedBy
  <2>3. ASSUME NEW i \in 1 .. n PROVE f[i] = Next1(i, f[i - 1])
    <3> HIDE DEF Next1, n
    <3> QED BY <2>2, <1>1, Zenon
  <2>4. \A i \in 0 .. n : f[i] = IF i = 0 THEN <<>> ELSE Next1(i, f[i - 1])
    <3> HIDE DEF Next1
    <3> QED BY <2>2, <2>3, <1>1
  <2>5. Def(f)
    <3> HIDE DEF Next1, n
    <3> QED BY <2>2, <2>4, Zenon
  <2> HIDE DEF Def
  <2> QED BY <2>5
<1> HIDE DEF left
<1>4. left[0] = <<>> /\ \A i \in 1 .. n : left[i] = Next1(i, left[i - 1])
  <2> HIDE DEF Next1
  <2>1. 0 \in 0 .. n
    BY <1>1
  <2> QED BY <1>3, <1>1, <2>1, Zenon
<1> DEFINE G == {i \in 0 .. n : /\ left[i] \in Seq(S)
                                /\ \A x : x \in Range(left[i]) <=> (\E j \in 1 .. i : s[j] = x) /\ x \in keep}
<1>5. 0 \in G
  <2>1. left[0] \in Seq(S) /\ \A x : x \notin Range(left[0])
    BY <1>4 DEF Range
  <2>2. 0 \in 0 .. n /\ \A x : ~ \E j \in 1 .. 0 : s[j] = x
    BY <1>1
  <2> QED BY <2>1, <2>2
<1>6. ASSUME NEW i \in 1 .. n, i - 1 \in G PROVE i \in G
  <2>1. left[i - 1] \in Seq(S)
    BY <1>6
  <2>2. left[i] = Next1(i, left[i - 1])
    BY <1>4
  <2>3. left[i] \in Seq(S)
    BY <1>1, <2>1, <2>2
  <2>4. ASSUME NEW x PROVE x \in Range(left[i]) <=> x \in Range(left[i - 1]) \/ (x = s[i] /\ x \in keep)
    <3>1. CASE s[i] \in keep
      <4> DEFINE t == left[i - 1]
      <4>1. t \in Seq(S) /\ s[i] \in S /\ left[i] = Append(t, s[i])
        BY ZenonT(60), <1>1, <2>1, <2>2, <3>1
      <4> HIDE DEF t
      <4>2. x \in Range(Append(t, s[i])) <=> x \in Range(t) \/ x = s[i]
        BY <4>1, RangeAppend
      <4> QED BY ZenonT(60), <4>1, <4>2, <3>1 DEF t
    <3>2. CASE s[i] \notin keep
      BY <2>2, <3>2
    <3> QED BY <3>1, <3>2
  <2>5. ASSUME NEW x PROVE (\E j \in 1 .. i : s[j] = x) <=> (\E j \in 1 .. i - 1 : s[j] = x) \/ s[i] = x
    BY <1>1
  <2> QED BY <1>1, <1>6, <2>3, <2>4, <2>5
<1>7. n \in G
  <2> HIDE DEF G, n
  <2>1. 0 .. n \subseteq G
    BY <1>1, <1>5, <1>6, IntervalInduction, Zenon
  <2> QED BY <1>1, <2>1
<1> QED BY <1>1, <1>2, <1>7, RangeOfSeq

-------------------------------------------------------------------------------
(* The counters.                                                           *)

HoldingState == {"recv", "write", "join", "panicked"}

\* The counters stay exact while nobody takes or gives back a slot.
LEMMA SlotsKept ==
  ASSUME SlotsExact, UNCHANGED limits,
         \A c \in Conn : peer'[c] \in HoldingState <=> peer[c] \in HoldingState
  PROVE  SlotsExact'
<1>1. ASSUME NEW S \in SUBSET Conn PROVE Holding(S)' = Holding(S)
  BY DEF Holding, HoldingState
<1>2. \A p \in AddressPrefixes : {c \in Conn : PrefixOf[c] = p} \in SUBSET Conn
  OBVIOUS
<1> QED BY <1>1, <1>2 DEF SlotsExact, limits

\* When c takes a slot the sets it belongs to have one holder more.
LEMMA SlotTaken ==
  ASSUME ConnectionConstants, NEW S \in SUBSET Conn, NEW c \in Conn,
         peer[c] \notin HoldingState, peer'[c] \in HoldingState,
         \A d \in Conn \ {c} : peer'[d] = peer[d]
  PROVE  /\ Cardinality(Holding(S)) \in Nat
         /\ Cardinality(Holding(S)') = IF c \in S THEN Cardinality(Holding(S)) + 1 ELSE Cardinality(Holding(S))
<1>1. IsFiniteSet(Holding(S))
  <2>1. Holding(S) \in SUBSET Conn
    BY DEF Holding
  <2> QED BY <2>1, FS_Subset DEF ConnectionConstants
<1>2. Holding(S)' = IF c \in S THEN Holding(S) \cup {c} ELSE Holding(S)
  BY DEF Holding, HoldingState
<1>3. c \notin Holding(S)
  BY DEF Holding, HoldingState
<1> QED BY <1>1, <1>2, <1>3, FS_AddElement, FS_CardinalityType, ZenonT(60)

\* When c gives its slot back the sets it belongs to have one holder less.
LEMMA SlotGiven ==
  ASSUME ConnectionConstants, NEW S \in SUBSET Conn, NEW c \in Conn,
         peer[c] \in HoldingState, peer'[c] \notin HoldingState,
         \A d \in Conn \ {c} : peer'[d] = peer[d]
  PROVE  /\ Cardinality(Holding(S)) \in Nat
         /\ Cardinality(Holding(S)') = IF c \in S THEN Cardinality(Holding(S)) - 1 ELSE Cardinality(Holding(S))
         /\ c \in S => Cardinality(Holding(S)) > 0
<1>1. IsFiniteSet(Holding(S))
  <2>1. Holding(S) \in SUBSET Conn
    BY DEF Holding
  <2> QED BY <2>1, FS_Subset DEF ConnectionConstants
<1>2. Holding(S)' = IF c \in S THEN Holding(S) \ {c} ELSE Holding(S)
  BY DEF Holding, HoldingState
<1>3. c \in S => c \in Holding(S)
  BY DEF Holding, HoldingState
<1>4. c \in S => Cardinality(Holding(S)) # 0
  BY <1>1, <1>3, FS_EmptySet
<1>5. Cardinality(Holding(S)) \in Nat
  BY <1>1, FS_CardinalityType
<1>6. c \in S => Cardinality(Holding(S) \ {c}) = Cardinality(Holding(S)) - 1
  BY <1>1, <1>3, FS_RemoveElement, ZenonT(60)
<1> QED BY <1>2, <1>4, <1>5, <1>6

-------------------------------------------------------------------------------
(* The steps: one lemma for every action.                                  *)

\* No client is connected when the server starts.
LEMMA InitIInv == ASSUME ConnectionConstants, Init PROVE IInv
<1> USE DEF Init
<1>1. TypeOK
  <2>1. config \in [total : Nat, shared : Nat]
    BY DEF ConnectionConstants
  <2>2. shared \in [AddressPrefixes -> Int]
    OBVIOUS
  <2> QED BY <2>1, <2>2 DEF TypeOK, Message
<1>2. Waiting
  BY DEF Waiting
<1>3. SlotsExact
  <2>1. \A S \in SUBSET Conn : Holding(S) = {}
    BY DEF Holding
  <2>2. \A p \in AddressPrefixes : {c \in Conn : PrefixOf[c] = p} \in SUBSET Conn
    OBVIOUS
  <2>3. config.total >= 0 /\ config.shared >= 0
    BY DEF ConnectionConstants
  <2> QED BY <2>1, <2>2, <2>3, FS_EmptySet, ZenonT(60) DEF SlotsExact
<1>4. LiveIsListed
  BY DEF LiveIsListed, Receiving
<1>5. Remembered
  BY DEF Remembered
<1> QED BY ZenonT(60), <1>1, <1>2, <1>3, <1>4, <1>5 DEF IInv

\* A step that changes nothing.
LEMMA Unchanged == ASSUME IInv, UNCHANGED vars PROVE IInv'
<1> USE DEF vars, rpcVars, limits, IInv
<1>1. TypeOK'
  BY DEF TypeOK
<1>2. Waiting'
  BY DEF Waiting
<1>3. SlotsExact'
  BY SlotsKept
<1>4. LiveIsListed'
  BY DEF LiveIsListed, Receiving
<1>5. Remembered'
  BY DEF Remembered
<1> QED BY ZenonT(60), <1>1, <1>2, <1>3, <1>4, <1>5

\* The acceptor hands a new connection to the rpc thread.
LEMMA ConnectStep == ASSUME IInv, NEW c \in Conn, Connect(c) PROVE IInv'
<1> USE DEF IInv, Connect, rpcVars, limits
<1>1. /\ acceptor' \in Seq(Conn \cup {"exit"}) /\ Len(acceptor') = Len(acceptor) + 1
      /\ Len(acceptor) \in Nat
      /\ \A i \in 1 .. Len(acceptor) : acceptor'[i] = acceptor[i]
      /\ acceptor'[Len(acceptor) + 1] = c
  BY DEF TypeOK
<1>2. TypeOK'
  BY ZenonT(30), <1>1 DEF TypeOK
<1>3. Waiting'
  <2>1. \A d \in Conn : client'[d] = "none" => peer'[d] = "none"
    BY ZenonT(30) DEF TypeOK, Waiting
  <2>2. \A i \in 1 .. Len(acceptor) : acceptor[i] # c
    BY ZenonT(60) DEF Waiting
  <2>3. ASSUME NEW i \in 1 .. Len(acceptor'), acceptor'[i] \in Conn
        PROVE  /\ client'[acceptor'[i]] # "none" /\ peer'[acceptor'[i]] = "none"
               /\ \A j \in 1 .. Len(acceptor') : acceptor'[j] = acceptor'[i] => j = i
    <3>1. CASE i = Len(acceptor) + 1
      BY SMTT(30), <1>1, <2>2, <2>3, <3>1 DEF TypeOK, Waiting
    <3>2. CASE i \in 1 .. Len(acceptor)
      <4>1. acceptor'[i] = acceptor[i] /\ acceptor[i] # c /\ acceptor[i] \in Conn
        BY ZenonT(60), <1>1, <2>2, <2>3, <3>2
      <4>2. client'[acceptor'[i]] # "none" /\ peer'[acceptor'[i]] = "none"
        BY ZenonT(60), <3>2, <4>1 DEF TypeOK, Waiting
      <4>3. ASSUME NEW j \in 1 .. Len(acceptor'), acceptor'[j] = acceptor'[i] PROVE j = i
        <5>1. j \in 1 .. Len(acceptor)
          BY <1>1, <4>1, <4>3
        <5> QED BY ZenonT(60), <1>1, <3>2, <4>1, <4>3, <5>1 DEF Waiting
      <4> QED BY ZenonT(30), <4>2, <4>3
    <3>3. i = Len(acceptor) + 1 \/ i \in 1 .. Len(acceptor)
      BY <1>1
    <3> QED BY Zenon, <3>1, <3>2, <3>3
  <2> QED BY ZenonT(30), <2>1, <2>3 DEF Waiting
<1>4. SlotsExact'
  BY SlotsKept
<1>5. LiveIsListed'
  BY DEF LiveIsListed, Receiving
<1>6. Remembered'
  BY DEF Remembered
<1> QED BY ZenonT(60), <1>2, <1>3, <1>4, <1>5, <1>6

\* A client stops reading, closes or resets its connection.
LEMMA ClientActsStep == ASSUME IInv, NEW c \in Conn, ClientActs(c) PROVE IInv'
<1> USE DEF IInv, ClientActs, rpcVars, limits
<1>1. \E s \in {"reading", "stalled", "closed", "reset"} : client' = [client EXCEPT ![c] = s]
  BY ZenonT(30)
<1>2. UNCHANGED <<peer, reader, held, queue, acceptor, notifications, rpcVars, limits>>
  BY ZenonT(60)
<1> HIDE DEF ClientActs
<1>3. TypeOK'
  <2>1. client' \in [Conn -> {"none", "reading", "stalled", "closed", "reset"}]
    BY ZenonT(30), <1>1 DEF TypeOK
  <2> QED BY ZenonT(30), <1>2, <2>1 DEF TypeOK
<1>4. Waiting'
  <2>1. \A d \in Conn : client'[d] = "none" => client[d] = "none"
    BY ZenonT(30), <1>1 DEF TypeOK
  <2>2. UNCHANGED <<peer, acceptor>>
    BY Zenon, <1>2
  <2> QED BY ZenonT(60), <2>1, <2>2 DEF Waiting
<1>5. SlotsExact'
  BY ZenonT(30), <1>2, SlotsKept
<1>6. LiveIsListed'
  BY ZenonT(30), <1>2 DEF LiveIsListed, Receiving
<1>7. Remembered'
  BY ZenonT(30), <1>2 DEF Remembered
<1> QED BY ZenonT(60), <1>3, <1>4, <1>5, <1>6, <1>7

\* A slot is taken, or the connection is refused.
LEMMA AcceptStep == ASSUME ConnectionConstants, IInv, Accept PROVE IInv'
<1> DEFINE c == Head(acceptor)
<1> USE DEF IInv, Accept
<1>1. /\ c \in Conn /\ acceptor[1] = c /\ Len(acceptor) \in Nat \ {0}
      /\ acceptor' \in Seq(Conn \cup {"exit"}) /\ Len(acceptor') = Len(acceptor) - 1
      /\ \A i \in 1 .. Len(acceptor') : acceptor'[i] = acceptor[i + 1]
  <2>1. acceptor \in Seq(Conn \cup {"exit"}) /\ acceptor # <<>> /\ Head(acceptor) # "exit" /\ acceptor' = Tail(acceptor)
    BY ZenonT(30) DEF TypeOK
  <2> QED BY <2>1, RangeTail
<1>2. PrefixOf[c] \in AddressPrefixes
  BY ZenonT(60), <1>1 DEF AddressPrefixes
<1>3. peer[c] = "none" /\ client[c] # "none"
  <2>1. 1 \in 1 .. Len(acceptor)
    BY <1>1
  <2> QED BY ZenonT(60), <1>1, <2>1 DEF Waiting
<1>4. ASSUME NEW i \in 1 .. Len(acceptor') PROVE acceptor'[i] # c
  <2>1. 1 \in 1 .. Len(acceptor) /\ i + 1 \in 1 .. Len(acceptor) /\ i + 1 # 1
    BY <1>1
  <2>2. acceptor'[i] = acceptor[i + 1] /\ acceptor[1] = c /\ c \in Conn
    BY Zenon, <1>1
  <2>3. acceptor[i + 1] = acceptor[1] => i + 1 = 1
    BY ZenonT(60), <2>1, <2>2 DEF Waiting
  <2> QED BY Zenon, <2>1, <2>2, <2>3
<1>5. peer' = [peer EXCEPT ![c] = IF inc_connection_ok(c) THEN "recv" ELSE "rejected"]
  OBVIOUS
<1>6. UNCHANGED <<client, queue, rpc>>
  BY ZenonT(30)
<1>7. Waiting'
  <2>1. \A d \in Conn : client'[d] = "none" => peer'[d] = "none"
    BY ZenonT(30), <1>3, <1>5, <1>6 DEF TypeOK, Waiting
  <2>2. ASSUME NEW i \in 1 .. Len(acceptor'), acceptor'[i] \in Conn
        PROVE  /\ client'[acceptor'[i]] # "none" /\ peer'[acceptor'[i]] = "none"
               /\ \A j \in 1 .. Len(acceptor') : acceptor'[j] = acceptor'[i] => j = i
    <3>1. i + 1 \in 1 .. Len(acceptor) /\ acceptor'[i] = acceptor[i + 1] /\ acceptor'[i] # c
      BY SMTT(30), <1>1, <1>4
    <3>2. client'[acceptor'[i]] # "none" /\ peer'[acceptor'[i]] = "none"
      BY ZenonT(60), <1>5, <1>6, <2>2, <3>1 DEF TypeOK, Waiting
    <3>3. ASSUME NEW j \in 1 .. Len(acceptor'), acceptor'[j] = acceptor'[i] PROVE j = i
      <4>1. j + 1 \in 1 .. Len(acceptor) /\ acceptor[j + 1] = acceptor[i + 1] /\ acceptor[i + 1] \in Conn
        BY SMTT(30), <1>1, <2>2, <3>1, <3>3
      <4>2. j + 1 = i + 1
        BY Zenon, <4>1, <3>1 DEF Waiting
      <4> QED BY <1>1, <4>2
    <3> QED BY ZenonT(60), <3>2, <3>3
  <2> QED BY ZenonT(30), <2>1, <2>2 DEF Waiting
<1>8. CASE inc_connection_ok(c)
  <2>1. /\ shared' = [shared EXCEPT ![PrefixOf[c]] = @ + 1] /\ total' = total + 1 /\ UNCHANGED config
        /\ senders' = Append(senders, c) /\ reader' = [reader EXCEPT ![c] = "read"]
        /\ threads' = (threads \cup {c}) \ garbage /\ garbage' = {}
    BY ZenonT(30), <1>8 DEF inc_connection
  <2>2. TypeOK'
    <3>1. total' \in Nat /\ shared' \in [AddressPrefixes -> Int]
      <4>1. total \in Nat /\ shared \in [AddressPrefixes -> Int]
        BY ZenonT(60) DEF TypeOK
      <4> QED BY <1>2, <2>1, <4>1
    <3>2. senders' \in Seq(Conn)
      BY <1>1, <2>1 DEF TypeOK
    <3> QED BY ZenonT(60), <1>1, <1>5, <2>1, <3>1, <3>2 DEF TypeOK
  <2>3. SlotsExact'
    <3>1. /\ peer[c] \notin HoldingState /\ peer'[c] \in HoldingState
          /\ \A d \in Conn \ {c} : peer'[d] = peer[d]
      BY ZenonT(30), <1>1, <1>3, <1>5, <1>8 DEF TypeOK, HoldingState
    <3>2. Cardinality(Holding(Conn)') = Cardinality(Holding(Conn)) + 1
      BY ZenonT(30), <1>1, <3>1, SlotTaken
    <3>3. ASSUME NEW p \in AddressPrefixes
          PROVE  Cardinality(Holding({d \in Conn : PrefixOf[d] = p})') =
                   IF p = PrefixOf[c] THEN shared[p] + 1 ELSE shared[p]
      <4> DEFINE S == {d \in Conn : PrefixOf[d] = p}
      <4>1. S \in SUBSET Conn /\ (c \in S <=> p = PrefixOf[c])
        BY ZenonT(30), <1>1
      <4> HIDE DEF S
      <4>2. Cardinality(Holding(S)') = IF p = PrefixOf[c] THEN Cardinality(Holding(S)) + 1
                                                         ELSE Cardinality(Holding(S))
        BY ZenonT(60), <1>1, <3>1, <4>1, SlotTaken
      <4>3. shared[p] = Cardinality(Holding(S))
        BY ZenonT(30) DEF SlotsExact, S
      <4> QED BY ZenonT(30), <4>2, <4>3 DEF S
    <3>4. shared[PrefixOf[c]] < config.shared /\ total < config.total
      BY ZenonT(60), <1>8 DEF inc_connection_ok
    <3>5. total' = Cardinality(Holding(Conn)') /\ total' <= config'.total
      <4>1. total = Cardinality(Holding(Conn)) /\ total \in Nat /\ config.total \in Nat
        BY DEF SlotsExact, TypeOK
      <4> QED BY <2>1, <3>2, <3>4, <4>1
    <3>6. ASSUME NEW p \in AddressPrefixes
          PROVE  /\ shared'[p] = Cardinality(Holding({d \in Conn : PrefixOf[d] = p})')
                 /\ shared'[p] <= config'.shared
      <4>1. shared'[p] = IF p = PrefixOf[c] THEN shared[p] + 1 ELSE shared[p]
        BY ZenonT(60), <2>1 DEF TypeOK
      <4>2. shared[p] \in Int /\ config.shared \in Nat
        BY DEF TypeOK
      <4>3. shared[p] <= config.shared
        BY Zenon DEF SlotsExact
      <4>4. shared'[p] = Cardinality(Holding({d \in Conn : PrefixOf[d] = p})')
        BY <3>3, <4>1, ZenonT(60)
      <4>5. shared'[p] <= config.shared
        BY SMTT(30), <3>4, <4>1, <4>2, <4>3
      <4> QED BY ZenonT(30), <2>1, <4>4, <4>5
    <3> QED BY <3>5, <3>6, ZenonT(30) DEF SlotsExact
  <2>4. LiveIsListed'
    <3>1. senders \in Seq(Conn) /\ \A x : x \in Range(senders') <=> x \in Range(senders) \/ x = c
      BY ZenonT(60), <1>1, <2>1, RangeAppend DEF TypeOK
    <3> QED BY ZenonT(30), <1>5, <3>1 DEF LiveIsListed, Receiving, TypeOK
  <2>5. Remembered'
    BY ZenonT(30), <1>1, <1>3, <1>5, <2>1 DEF Remembered, TypeOK
  <2> QED BY ZenonT(60), <1>7, <2>2, <2>3, <2>4, <2>5
<1>9. CASE ~ inc_connection_ok(c)
  <2>1. UNCHANGED <<senders, reader, threads, garbage, config, total, shared>>
    BY ZenonT(30), <1>9 DEF limits
  <2>2. peer' = [peer EXCEPT ![c] = "rejected"]
    BY ZenonT(30), <1>5, <1>9
  <2>3. TypeOK'
    BY ZenonT(30), <1>1, <2>1, <2>2 DEF TypeOK
  <2>4. SlotsExact'
    BY ZenonT(30), <1>3, <2>1, <2>2, SlotsKept DEF HoldingState, TypeOK, limits
  <2>5. LiveIsListed'
    BY ZenonT(30), <2>1, <2>2 DEF LiveIsListed, Receiving, TypeOK
  <2>6. Remembered'
    BY ZenonT(30), <1>3, <2>1, <2>2 DEF Remembered, TypeOK
  <2> QED BY <1>7, <2>3, <2>4, <2>5, <2>6
<1> QED BY ZenonT(60), <1>8, <1>9

\* The rpc thread begins to close the connections.
LEMMA AcceptExitStep == ASSUME IInv, AcceptExit PROVE IInv'
<1> USE DEF IInv, AcceptExit, limits
<1>1. /\ Len(acceptor) \in Nat \ {0}
      /\ acceptor' \in Seq(Conn \cup {"exit"}) /\ Len(acceptor') = Len(acceptor) - 1
      /\ \A i \in 1 .. Len(acceptor') : acceptor'[i] = acceptor[i + 1]
  <2>1. acceptor \in Seq(Conn \cup {"exit"}) /\ acceptor # <<>> /\ acceptor' = Tail(acceptor)
    BY ZenonT(30) DEF TypeOK
  <2> QED BY <2>1, RangeTail
<1>2. TypeOK'
  BY ZenonT(60), <1>1 DEF TypeOK
<1>3. Waiting'
  <2>1. ASSUME NEW i \in 1 .. Len(acceptor'), acceptor'[i] \in Conn
        PROVE  /\ client'[acceptor'[i]] # "none" /\ peer'[acceptor'[i]] = "none"
               /\ \A j \in 1 .. Len(acceptor') : acceptor'[j] = acceptor'[i] => j = i
    <3>1. i + 1 \in 1 .. Len(acceptor) /\ acceptor'[i] = acceptor[i + 1] /\ acceptor[i + 1] \in Conn
      BY SMTT(30), <1>1, <2>1
    <3>2. client'[acceptor'[i]] # "none" /\ peer'[acceptor'[i]] = "none"
      BY ZenonT(60), <3>1 DEF Waiting
    <3>3. ASSUME NEW j \in 1 .. Len(acceptor'), acceptor'[j] = acceptor'[i] PROVE j = i
      <4>1. j + 1 \in 1 .. Len(acceptor) /\ acceptor[j + 1] = acceptor[i + 1]
        BY <1>1, <3>1, <3>3
      <4> QED BY <3>1, <4>1 DEF Waiting
    <3> QED BY ZenonT(30), <3>2, <3>3
  <2> QED BY SMTT(30), <2>1 DEF Waiting
<1>4. SlotsExact'
  BY SlotsKept
<1>5. LiveIsListed'
  BY DEF LiveIsListed, Receiving
<1>6. Remembered'
  BY DEF Remembered
<1> QED BY ZenonT(60), <1>2, <1>3, <1>4, <1>5, <1>6

\* Done goes into the queue of the connection that leaves `closing'.
LEMMA SendDoneStep == ASSUME IInv, SendDone PROVE IInv'
<1> DEFINE c == Head(closing)
<1> USE DEF IInv, SendDone, limits
<1>1. /\ c \in Conn /\ closing' \in Seq(Conn)
      /\ \A x : x \in Range(closing) => x \in Range(closing') \/ x = c
  <2>1. closing \in Seq(Conn) /\ closing # <<>> /\ closing' = Tail(closing)
    BY ZenonT(30) DEF TypeOK
  <2> QED BY ZenonT(30), <2>1, RangeTail
<1>2. "done" \in Message /\ queue[c] \in Seq(Message)
  BY ZenonT(30), <1>1 DEF TypeOK, Message
<1>3. /\ queue' \in [Conn -> Seq(Message)]
      /\ \A d \in Conn \ {c} : queue'[d] = queue[d]
      /\ Receiving(c) => "done" \in Range(queue'[c])
  <2>1. Append(queue[c], "done") \in Seq(Message) /\ "done" \in Range(Append(queue[c], "done"))
    BY SMTT(30), <1>2, RangeAppend
  <2> QED BY ZenonT(60), <1>1, <2>1 DEF TypeOK
<1>4. TypeOK'
  BY ZenonT(60), <1>1, <1>3 DEF TypeOK
<1>5. Waiting'
  BY DEF Waiting
<1>6. SlotsExact'
  BY ZenonT(30), SlotsKept
<1>7. LiveIsListed'
  <2> SUFFICES ASSUME NEW d \in Conn, Receiving(d)
               PROVE  d \in Range(senders) /\ (d \in Range(closing') \/ "done" \in Range(queue'[d]))
    BY SMTT(30) DEF LiveIsListed, Receiving
  <2>1. d \in Range(senders) /\ (d \in Range(closing) \/ "done" \in Range(queue[d]))
    BY ZenonT(30) DEF LiveIsListed
  <2>2. CASE d = c
    BY ZenonT(30), <1>3, <2>1, <2>2
  <2>3. CASE d # c
    BY ZenonT(30), <1>1, <1>3, <2>1, <2>3
  <2> QED BY ZenonT(60), <2>2, <2>3
<1>8. Remembered'
  BY ZenonT(30) DEF Remembered
<1> QED BY ZenonT(30), <1>4, <1>5, <1>6, <1>7, <1>8

\* Every connection has been told to end.
LEMMA SendDoneEndStep == ASSUME IInv, SendDoneEnd PROVE IInv'
<1> USE DEF IInv, SendDoneEnd, limits
<1>1. TypeOK'
  BY ZenonT(30) DEF TypeOK
<1>2. Waiting'
  BY ZenonT(60) DEF Waiting
<1>3. SlotsExact'
  BY ZenonT(30), SlotsKept
<1>4. LiveIsListed'
  BY DEF LiveIsListed, Receiving
<1>5. Remembered'
  BY ZenonT(30) DEF Remembered
<1> QED BY ZenonT(30), <1>1, <1>2, <1>3, <1>4, <1>5

\* The rpc thread joins a peer thread that has finished.
LEMMA JoinThreadStep == ASSUME IInv, JoinThread PROVE IInv'
<1> USE DEF IInv, JoinThread, limits
<1>1. TypeOK'
  BY ZenonT(30) DEF TypeOK
<1>2. Waiting'
  BY ZenonT(60) DEF Waiting
<1>3. SlotsExact'
  BY ZenonT(30), SlotsKept
<1>4. LiveIsListed'
  BY ZenonT(30) DEF LiveIsListed, Receiving
<1>5. Remembered'
  BY DEF Remembered
<1> QED BY ZenonT(30), <1>1, <1>2, <1>3, <1>4, <1>5

\* The main thread notifies, or asks the server to exit.
LEMMA MainStep == ASSUME IInv, MainNotifies \/ MainExits PROVE IInv'
<1> USE DEF IInv, rpcVars, limits
<1>1. /\ notifications' \in Seq({"change", "exit"})
      /\ UNCHANGED <<client, peer, reader, held, queue, acceptor, rpcVars, limits>>
  <2>1. notifications \in Seq({"change", "exit"})
    BY ZenonT(30) DEF TypeOK
  <2>2. \E n \in {"change", "exit"} : notifications' = Append(notifications, n)
    BY DEF MainNotifies, MainExits
  <2>3. notifications' \in Seq({"change", "exit"})
    BY SMTT(30), <2>1, <2>2
  <2> QED BY <2>3 DEF MainNotifies, MainExits
<1>2. TypeOK'
  BY ZenonT(30), <1>1 DEF TypeOK
<1>3. Waiting'
  BY ZenonT(60), <1>1 DEF Waiting
<1>4. SlotsExact'
  BY ZenonT(30), <1>1, SlotsKept
<1>5. LiveIsListed'
  BY ZenonT(30), <1>1 DEF LiveIsListed, Receiving
<1>6. Remembered'
  BY ZenonT(30), <1>1 DEF Remembered
<1> QED BY ZenonT(60), <1>2, <1>3, <1>4, <1>5, <1>6

\* The notifier removes senders that no longer receive, and appends to queues.
LEMMA NotifierStep == ASSUME ConnectionConstants, IInv, Notifier PROVE IInv'
<1> USE DEF IInv, Notifier, limits
<1>1. notifications' \in Seq({"change", "exit"})
  <2>1. notifications \in Seq({"change", "exit"}) /\ notifications # <<>> /\ notifications' = Tail(notifications)
    BY ZenonT(30) DEF TypeOK
  <2> QED BY SMTT(30), <2>1
<1>2. SlotsExact'
  BY ZenonT(30), SlotsKept
<1>3. Remembered'
  BY ZenonT(30) DEF Remembered
<1>4. CASE Head(notifications) = "exit"
  <2>1. acceptor' = Append(acceptor, "exit") /\ UNCHANGED <<queue, senders>>
    BY ZenonT(60), <1>4
  <2>2. /\ acceptor' \in Seq(Conn \cup {"exit"}) /\ Len(acceptor') = Len(acceptor) + 1
        /\ Len(acceptor) \in Nat
        /\ \A i \in 1 .. Len(acceptor) : acceptor'[i] = acceptor[i]
        /\ acceptor'[Len(acceptor) + 1] = "exit"
    <3>1. acceptor \in Seq(Conn \cup {"exit"})
      BY Zenon DEF TypeOK
    <3> QED BY <2>1, <3>1
  <2>3. TypeOK'
    BY ZenonT(30), <1>1, <2>1, <2>2 DEF TypeOK
  <2>4. Waiting'
    <3>1. ASSUME NEW i \in 1 .. Len(acceptor'), acceptor'[i] \in Conn
          PROVE  i \in 1 .. Len(acceptor) /\ acceptor'[i] = acceptor[i]
      <4>1. "exit" \notin Conn
        BY Zenon DEF ConnectionConstants
      <4>2. i = Len(acceptor) + 1 \/ i \in 1 .. Len(acceptor)
        BY <2>2
      <4> QED BY Zenon, <2>2, <3>1, <4>1, <4>2
    <3>2. ASSUME NEW i \in 1 .. Len(acceptor'), acceptor'[i] \in Conn
          PROVE  /\ client'[acceptor'[i]] # "none" /\ peer'[acceptor'[i]] = "none"
                 /\ \A j \in 1 .. Len(acceptor') : acceptor'[j] = acceptor'[i] => j = i
      <4>1. i \in 1 .. Len(acceptor) /\ acceptor'[i] = acceptor[i] /\ acceptor[i] \in Conn
        BY ZenonT(30), <3>1, <3>2
      <4>2. ASSUME NEW j \in 1 .. Len(acceptor'), acceptor'[j] = acceptor'[i] PROVE j = i
        <5>1. j \in 1 .. Len(acceptor) /\ acceptor'[j] = acceptor[j]
          BY ZenonT(60), <3>1, <3>2, <4>2
        <5> QED BY <4>1, <4>2, <5>1, Zenon DEF Waiting
      <4> QED BY ZenonT(30), <4>1, <4>2 DEF Waiting
    <3> QED BY ZenonT(30), <3>2 DEF Waiting
  <2>5. LiveIsListed'
    BY <2>1 DEF LiveIsListed, Receiving
  <2> QED BY ZenonT(60), <1>2, <1>3, <2>3, <2>4, <2>5
<1>5. CASE Head(notifications) # "exit"
  <2> DEFINE Told(d) == d \in Range(senders) /\ Receiving(d) /\ ~ Full(d)
             Live == {d \in Conn : Receiving(d)}
  <2>1. /\ queue' = [d \in Conn |-> IF Told(d) THEN Append(queue[d], "change") ELSE queue[d]]
        /\ senders' = retain(senders, Live) /\ UNCHANGED acceptor
    BY ZenonT(30), <1>5
  <2>2. senders' \in Seq(Conn) /\ \A x : x \in Range(senders') <=> x \in Range(senders) /\ x \in Live
    <3>1. senders \in Seq(Conn)
      BY ZenonT(30) DEF TypeOK
    <3> HIDE DEF Live
    <3> QED BY ZenonT(30), <2>1, <3>1, RetainKeeps
  <2>3. ASSUME NEW d \in Conn
        PROVE  queue'[d] \in Seq(Message) /\ ("done" \in Range(queue[d]) => "done" \in Range(queue'[d]))
    <3> HIDE DEF Told
    <3>1. queue[d] \in Seq(Message) /\ "change" \in Message
      BY ZenonT(30) DEF TypeOK, Message
    <3>2. /\ Append(queue[d], "change") \in Seq(Message)
          /\ "done" \in Range(queue[d]) => "done" \in Range(Append(queue[d], "change"))
      BY ZenonT(30), <3>1, RangeAppend
    <3> QED BY ZenonT(30), <2>1, <3>1, <3>2
  <2>4. TypeOK'
    <3>1. queue' \in [Conn -> Seq(Message)]
      BY ZenonT(30), <2>1, <2>3
    <3> QED BY ZenonT(30), <1>1, <2>1, <2>2, <3>1 DEF TypeOK
  <2>5. Waiting'
    BY ZenonT(60), <2>1 DEF Waiting
  <2>6. LiveIsListed'
    BY ZenonT(30), <2>2, <2>3 DEF LiveIsListed, Receiving
  <2> QED BY <1>2, <1>3, <2>4, <2>5, <2>6
<1> QED BY ZenonT(60), <1>4, <1>5

\* The reader changes nothing that the invariant depends on.
LEMMA ReadStep == ASSUME IInv, NEW c \in Conn, Read(c) PROVE IInv'
<1> USE DEF IInv, rpcVars, limits
<1>1. /\ reader' \in [Conn -> {"none", "read", "send", "ended"}] /\ held' \in [Conn -> Message]
      /\ UNCHANGED <<client, peer, queue, acceptor, notifications, rpcVars, limits>>
  <2>1. UNCHANGED <<client, peer, queue, acceptor, notifications, rpcVars, limits>>
    BY ZenonT(30) DEF Read
  <2>2. \E line \in Message : held' = held \/ held' = [held EXCEPT ![c] = line]
    <3>1. \/ \E line \in {"request", "done"} : held' = [held EXCEPT ![c] = line]
          \/ held' = [held EXCEPT ![c] = "done"] \/ held' = held
      BY Zenon DEF Read
    <3>2. {"request", "done"} \subseteq Message /\ "done" \in Message
      BY Zenon DEF Message
    <3> QED BY Zenon, <3>1, <3>2
  <2>3. \E s \in {"send", "ended"} : reader' = [reader EXCEPT ![c] = s]
    BY ZenonT(30) DEF Read
  <2>4. reader' \in [Conn -> {"none", "read", "send", "ended"}]
    BY <2>3 DEF TypeOK
  <2>5. held' \in [Conn -> Message]
    BY <2>2, ZenonT(60) DEF TypeOK
  <2> QED BY ZenonT(30), <2>1, <2>4, <2>5
<1>2. TypeOK'
  BY SMTT(30), <1>1 DEF TypeOK
<1>3. Waiting'
  BY ZenonT(60), <1>1 DEF Waiting
<1>4. SlotsExact'
  BY <1>1, SlotsKept
<1>5. LiveIsListed'
  BY ZenonT(30), <1>1 DEF LiveIsListed, Receiving
<1>6. Remembered'
  BY ZenonT(60), <1>1 DEF Remembered
<1> QED BY <1>2, <1>3, <1>4, <1>5, <1>6

\* The reader thread puts what it holds into the queue, or ends when nobody receives.
LEMMA ReaderSendsStep == ASSUME IInv, NEW c \in Conn, ReaderSends(c) PROVE IInv'
<1> USE DEF IInv, rpcVars, limits
<1>1. /\ reader' \in [Conn -> {"none", "read", "send", "ended"}] /\ held' \in [Conn -> Message]
      /\ queue' = [queue EXCEPT ![c] = Append(@, held[c])] \/ queue' = queue
      /\ UNCHANGED <<client, peer, acceptor, notifications, rpcVars, limits>>
  BY ZenonT(30) DEF ReaderSends, TypeOK, Message
<1>2. ASSUME NEW d \in Conn
      PROVE  queue'[d] \in Seq(Message) /\ ("done" \in Range(queue[d]) => "done" \in Range(queue'[d]))
  <2>1. queue[d] \in Seq(Message) /\ held[c] \in Message
    BY ZenonT(30) DEF TypeOK
  <2>2. /\ Append(queue[d], held[c]) \in Seq(Message)
        /\ "done" \in Range(queue[d]) => "done" \in Range(Append(queue[d], held[c]))
    BY ZenonT(30), <2>1, RangeAppend
  <2>3. queue'[d] = queue[d] \/ queue'[d] = Append(queue[d], held[c])
    <3>1. queue \in [Conn -> Seq(Message)]
      BY Zenon DEF TypeOK
    <3> QED BY <1>1, <3>1
  <2> QED BY <2>1, <2>2, <2>3, Zenon
<1>3. TypeOK'
  <2>1. queue' \in [Conn -> Seq(Message)]
    BY ZenonT(30), <1>1, <1>2 DEF TypeOK
  <2> QED BY ZenonT(30), <1>1, <2>1 DEF TypeOK
<1>4. Waiting'
  BY ZenonT(60), <1>1 DEF Waiting
<1>5. SlotsExact'
  BY <1>1, SlotsKept
<1>6. LiveIsListed'
  BY ZenonT(30), <1>1, <1>2 DEF LiveIsListed, Receiving
<1>7. Remembered'
  BY <1>1 DEF Remembered
<1> QED BY <1>3, <1>4, <1>5, <1>6, <1>7

\* A peer thread that stays within handle_replies(), or leaves it: it keeps its slot,
\* and Done is not taken from the queue of one that stays.
LEMMA PeerRunsStep == ASSUME IInv, NEW c \in Conn, PeerReceives(c) \/ PeerWrites(c) PROVE IInv'
<1> USE DEF IInv, rpcVars, limits
<1>1. UNCHANGED <<client, reader, held, acceptor, notifications, rpcVars, limits>>
  BY ZenonT(30) DEF PeerReceives, PeerWrites
<1>2. peer[c] \in {"recv", "write"}
  BY ZenonT(30) DEF PeerReceives, PeerWrites
<1>3. PICK s \in {"recv", "write", "join", "panicked"}, q \in Seq(Message) :
        /\ peer' = [peer EXCEPT ![c] = s] /\ queue' = [queue EXCEPT ![c] = q]
        /\ s \in {"recv", "write"} /\ "done" \in Range(queue[c]) => "done" \in Range(q)
  <2>1. queue[c] \in Seq(Message)
    BY DEF TypeOK
  <2>2. CASE PeerWrites(c)
    <3>1. queue = [queue EXCEPT ![c] = queue[c]] /\ <<>> \in Seq(Message)
      BY Zenon, EmptySeq DEF TypeOK
    <3> QED BY <2>1, <2>2, <3>1, Zenon DEF PeerWrites, EndReplies
  <2>3. CASE PeerReceives(c)
    <3>1. /\ Tail(queue[c]) \in Seq(Message)
          /\ "done" \in Range(queue[c]) /\ Head(queue[c]) # "done" => "done" \in Range(Tail(queue[c]))
      <4>1. queue[c] # <<>>
        BY Zenon, <2>3 DEF PeerReceives
      <4> QED BY Zenon, <2>1, <4>1, RangeTail
    <3>2. <<>> \in Seq(Message)
      BY Zenon, EmptySeq
    <3>3. peer = [peer EXCEPT ![c] = "recv"]
      BY ZenonT(30), <2>3 DEF PeerReceives, TypeOK
    <3> QED BY <2>3, <3>1, <3>2, <3>3, ZenonT(30) DEF PeerReceives, EndReplies
  <2> QED BY ZenonT(30), <2>2, <2>3
<1>4. TypeOK'
  BY ZenonT(30), <1>1, <1>3 DEF TypeOK
<1>5. Waiting'
  <2>1. \A d \in Conn : peer[d] = "none" <=> peer'[d] = "none"
    BY Zenon, <1>2, <1>3 DEF TypeOK
  <2> QED BY ZenonT(60), <1>1, <2>1 DEF Waiting
<1>6. SlotsExact'
  BY ZenonT(30), <1>1, <1>2, <1>3, SlotsKept DEF HoldingState, TypeOK
<1>7. LiveIsListed'
  BY ZenonT(30), <1>1, <1>2, <1>3 DEF LiveIsListed, Receiving, TypeOK
<1>8. Remembered'
  BY ZenonT(30), <1>1, <1>2, <1>3 DEF Remembered, TypeOK
<1> QED BY ZenonT(30), <1>4, <1>5, <1>6, <1>7, <1>8

\* A slot is given back.
LEMMA PeerEndsStep == ASSUME ConnectionConstants, IInv, NEW c \in Conn, PeerEnds(c) PROVE IInv'
<1> USE DEF IInv
<1>1. /\ peer[c] = "join" /\ peer' = [peer EXCEPT ![c] = "finished"] /\ garbage' = garbage \cup {c}
      /\ shared' = [shared EXCEPT ![PrefixOf[c]] = @ - 1]
      /\ total' = IF total <= 0 THEN total ELSE total - 1
      /\ UNCHANGED <<client, reader, held, queue, acceptor, notifications, senders, rpc, closing, threads, config>>
  BY ZenonT(30) DEF PeerEnds, dec_connection
<1>2. TypeOK'
  <2>1. PrefixOf[c] \in AddressPrefixes
    BY Zenon DEF AddressPrefixes
  <2>2. shared' \in [AddressPrefixes -> Int] /\ total' \in Nat
    <3>1. shared \in [AddressPrefixes -> Int] /\ total \in Nat
      BY Zenon DEF TypeOK
    <3> QED BY <1>1, <2>1, <3>1
  <2> QED BY ZenonT(30), <1>1, <2>2 DEF TypeOK
<1>3. Waiting'
  <2>1. \A d \in Conn : peer[d] = "none" <=> peer'[d] = "none"
    BY Zenon, <1>1 DEF TypeOK
  <2> QED BY ZenonT(60), <1>1, <2>1 DEF Waiting
<1>4. SlotsExact'
  <2>1. /\ peer[c] \in HoldingState /\ peer'[c] \notin HoldingState
        /\ \A d \in Conn \ {c} : peer'[d] = peer[d]
    BY Zenon, <1>1 DEF TypeOK, HoldingState
  <2>2. Cardinality(Holding(Conn)') = Cardinality(Holding(Conn)) - 1 /\ Cardinality(Holding(Conn)) > 0
    BY ZenonT(30), <2>1, SlotGiven
  <2>3. total' = Cardinality(Holding(Conn)') /\ total' <= config'.total
    <3>1. total = Cardinality(Holding(Conn)) /\ total \in Nat /\ total <= config.total
      BY ZenonT(30) DEF SlotsExact, TypeOK
    <3>2. config.total \in Nat
      BY DEF TypeOK
    <3> QED BY <1>1, <2>2, <3>1, <3>2
  <2>4. ASSUME NEW p \in AddressPrefixes
        PROVE  /\ shared'[p] = Cardinality(Holding({d \in Conn : PrefixOf[d] = p})')
               /\ shared'[p] <= config'.shared
    <3> DEFINE S == {d \in Conn : PrefixOf[d] = p}
    <3>1. S \in SUBSET Conn /\ (c \in S <=> p = PrefixOf[c])
      BY ZenonT(30)
    <3>2. shared[p] = Cardinality(Holding(S)) /\ shared[p] <= config.shared
      BY SMTT(20) DEF SlotsExact
    <3> HIDE DEF S
    <3>3. Cardinality(Holding(S)') = IF p = PrefixOf[c] THEN Cardinality(Holding(S)) - 1
                                                       ELSE Cardinality(Holding(S))
      BY ZenonT(30), <2>1, <3>1, SlotGiven
    <3>4. shared'[p] = IF p = PrefixOf[c] THEN shared[p] - 1 ELSE shared[p]
      BY ZenonT(30), <1>1 DEF TypeOK
    <3>5. shared[p] \in Int /\ config.shared \in Nat /\ config' = config
      BY SMTT(20), <1>1 DEF TypeOK
    <3>6. shared'[p] = Cardinality(Holding(S)') /\ shared'[p] <= config'.shared
      <4>1. shared'[p] = Cardinality(Holding(S)')
        <5>1. CASE p = PrefixOf[c]
          <6>1. shared'[p] = shared[p] - 1 /\ Cardinality(Holding(S)') = Cardinality(Holding(S)) - 1
            BY Zenon, <3>3, <3>4, <5>1
          <6> QED BY Zenon, <3>2, <6>1
        <5>2. CASE p # PrefixOf[c]
          <6>1. shared'[p] = shared[p] /\ Cardinality(Holding(S)') = Cardinality(Holding(S))
            BY ZenonT(60), <3>3, <3>4, <5>2
          <6> QED BY Zenon, <3>2, <6>1
        <5> QED BY Zenon, <5>1, <5>2
      <4>2. shared'[p] <= config.shared
        BY SMTT(20), <3>2, <3>4, <3>5
      <4> QED BY ZenonT(30), <3>5, <4>1, <4>2
    <3> QED BY ZenonT(30), <3>6 DEF S
  <2> QED BY <2>3, <2>4, Zenon DEF SlotsExact
<1>5. LiveIsListed'
  BY ZenonT(30), <1>1 DEF LiveIsListed, Receiving, TypeOK
<1>6. Remembered'
  BY <1>1 DEF Remembered, TypeOK
<1> QED BY ZenonT(30), <1>2, <1>3, <1>4, <1>5, <1>6

-------------------------------------------------------------------------------
(* The theorems.                                                           *)

\* Every step keeps the invariant.
LEMMA NextIInv == ASSUME ConnectionConstants, IInv, [Next]_vars PROVE IInv'
<1>1. CASE Next
  <2>1. CASE Rpc
    BY ZenonT(30), <2>1, AcceptStep, AcceptExitStep, SendDoneStep, SendDoneEndStep, JoinThreadStep DEF Rpc
  <2>2. CASE Notifier \/ MainNotifies \/ MainExits
    BY ZenonT(30), <2>2, NotifierStep, MainStep
  <2>3. CASE \E c \in Conn : Connect(c) \/ ClientActs(c) \/ Reader(c) \/ Peer(c)
    BY ZenonT(30), <2>3, ConnectStep, ClientActsStep, ReadStep, ReaderSendsStep, PeerRunsStep, PeerEndsStep
       DEF Reader, Peer
  <2>4. CASE Terminated
    <3>1. UNCHANGED vars
      BY <2>4 DEF Terminated
    <3> QED BY <3>1, Unchanged
  <2> QED BY ZenonT(30), <1>1, <2>1, <2>2, <2>3, <2>4 DEF Next
<1>2. CASE UNCHANGED vars
  BY <1>2, Unchanged
<1> QED BY ZenonT(30), <1>1, <1>2

\* The inductive invariant holds of every behaviour of the server.
THEOREM Invariant == Spec => []IInv
<1>1. Init => IInv
  BY ZenonT(30), InitIInv, ConnectionConstants
<1>2. IInv /\ [Next]_vars => IInv'
  BY NextIInv, ConnectionConstants
<1> QED BY <1>1, <1>2, PTL DEF Spec

\* inc_connection() and dec_connection() keep exact counters: total_connections and the
\* entry of every prefix are the numbers of connections that hold a slot, and they stay
\* within the limits, however many clients come, go or fail, in whatever order.
THEOREM SlotsAreExact == Spec => []SlotsExact
<1>1. IInv => SlotsExact
  BY DEF IInv
<1> QED BY <1>1, Invariant, PTL

\* The notifier's Vec of senders has every connection whose peer still receives, although
\* dead senders are removed while others are accepted; and at the end every one of them
\* has Done in its queue or is still to be sent it.
THEOREM LiveAreListed == Spec => []LiveIsListed
<1>1. IInv => LiveIsListed
  BY DEF IInv
<1> QED BY <1>1, Invariant, PTL

\* When the rpc thread has joined its threads, no peer thread runs.
THEOREM StoppedServerIsDone == Spec => []StoppedMeansDone
<1>1. IInv => StoppedMeansDone
  BY Zenon DEF IInv, TypeOK, Remembered, StoppedMeansDone
<1> QED BY <1>1, Invariant, PTL
===============================================================================
