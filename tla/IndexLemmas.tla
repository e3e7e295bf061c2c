------------------------------ MODULE IndexLemmas ------------------------------
(***************************************************************************)
(* Lemmas about the operators of Index: what the writes of the store and   *)
(* the operations of the header list preserve.  Then the parts of the      *)
(* inductive invariant, its initial states, and the steps of the daemon,   *)
(* of RocksDB, of stopping and starting, of loading the header list and of *)
(* fetching new headers.                                                   *)
(***************************************************************************)
EXTENDS Index, TLAPS

-------------------------------------------------------------------------------
(* Sequences.                                                              *)

\* Facts about sequences that the provers need by name: the elements of a sequence,
LEMMA ElementOfSeq ==
  ASSUME NEW S, NEW seq \in Seq(S), NEW n \in 1 .. Len(seq)
  PROVE  seq[n] \in S
OBVIOUS

\* the empty one,
LEMMA EmptySeq ==
  ASSUME NEW S
  PROVE  /\ <<>> \in Seq(S) /\ Len(<<>>) = 0
         /\ \A seq \in Seq(S) : seq # <<>> => Len(seq) \in Nat \ {0}
OBVIOUS

\* and has no indices,
LEMMA NoIndices == 1 .. 0 = {} /\ \A h \in Nat : 0 <= h + 1
OBVIOUS

\* sequences as functions,
LEMMA LenProperties ==
  ASSUME NEW S, NEW seq \in Seq(S)
  PROVE  Len(seq) \in Nat /\ seq \in [1 .. Len(seq) -> S] /\ DOMAIN seq = 1 .. Len(seq)
OBVIOUS

\* one sequence after another,
LEMMA ConcatProperties ==
  ASSUME NEW S, NEW s1 \in Seq(S), NEW s2 \in Seq(S)
  PROVE  /\ s1 \o s2 \in Seq(S) /\ Len(s1 \o s2) = Len(s1) + Len(s2)
         /\ \A i \in 1 .. Len(s1) + Len(s2) :
              (s1 \o s2)[i] = IF i <= Len(s1) THEN s1[i] ELSE s2[i - Len(s1)]
OBVIOUS

\* a part of one,
LEMMA SubSeqProperties ==
  ASSUME NEW S, NEW s, NEW m \in Int, NEW n \in Int, \A i \in m .. n : s[i] \in S
  PROVE  /\ SubSeq(s, m, n) \in Seq(S)
         /\ Len(SubSeq(s, m, n)) = IF m <= n THEN n - m + 1 ELSE 0
         /\ \A i \in 1 .. n - m + 1 : SubSeq(s, m, n)[i] = s[m + i - 1]
OBVIOUS

\* and one more element.
LEMMA AppendProperties ==
  ASSUME NEW S, NEW seq \in Seq(S), NEW elt \in S
  PROVE  /\ Append(seq, elt) \in Seq(S) /\ Append(seq, elt) # <<>>
         /\ Len(Append(seq, elt)) = Len(seq) + 1
         /\ \A i \in 1 .. Len(seq) : Append(seq, elt)[i] = seq[i]
         /\ Append(seq, elt)[Len(seq) + 1] = elt
OBVIOUS

\* A database from which a process can start.
GoodDb(db) ==
  /\ db \in Database
  /\ Walkable(db) /\ RowsMatch(db)
  /\ db.F => db.L # NullHash

\* A store all of whose databases are good.
GoodStore(s) ==
  /\ s \in Seq(Database) /\ s # <<>>
  /\ \A i \in 1 .. Len(s) : GoodDb(s[i])

-------------------------------------------------------------------------------
(* The operations of the store.                                            *)

\* The rows of one block (index_block) added to a good database whose
\* predecessor is indexed give a good database.
LEMMA IndexBlockGood ==
  ASSUME NEW db, GoodDb(db), NEW b \in Block, Prev[b] \in db.B \cup {NullHash}
  PROVE  /\ GoodDb(index_block(db, b, Height[b]))
         /\ index_block(db, b, Height[b]).B = db.B \cup {b}
         /\ index_block(db, b, Height[b]).L = db.L
<1> DEFINE n == index_block(db, b, Height[b])
<1>1. /\ n \in Database
      /\ n.B = db.B \cup {b} /\ n.L = db.L /\ n.F = db.F
      /\ n.T = [t \in Tx |-> IF t \in TxsOf[b] THEN Height[b] ELSE db.T[t]]
  BY Zenon, BlockTree, BlockTxs DEF GoodDb, Database, index_block, NoHeight
<1>2. Walkable(n)
  BY <1>1 DEF GoodDb, Walkable
<1>3. RowsMatch(n)
  <2> SUFFICES ASSUME NEW t \in Tx
               PROVE  IF \E c \in n.B : t \in TxsOf[c]
                      THEN \E c \in n.B : t \in TxsOf[c] /\ n.T[t] = Height[c]
                      ELSE n.T[t] = NoHeight
    BY DEF RowsMatch
  <2>1. CASE t \in TxsOf[b]
    BY <1>1, <2>1
  <2>2. CASE t \notin TxsOf[b]
    BY <1>1, <2>2 DEF GoodDb, RowsMatch
  <2> QED BY <2>1, <2>2
<1> QED BY <1>1, <1>2, <1>3 DEF GoodDb

\* The L row (last_indexed_block) of an indexed block keeps a database good.
LEMMA LastIndexedGood ==
  ASSUME NEW db, GoodDb(db), NEW b \in db.B
  PROVE  /\ GoodDb(last_indexed_block(db, b))
         /\ last_indexed_block(db, b).B = db.B
         /\ last_indexed_block(db, b).L = b
<1> DEFINE n == last_indexed_block(db, b)
<1>1. /\ n \in Database
      /\ n.B = db.B /\ n.L = b /\ n.F = db.F /\ n.T = db.T
      /\ b \in Block
  BY DEF GoodDb, Database, last_indexed_block
<1>2. n.L # NullHash
  BY <1>1, BlockTree
<1>3. Walkable(n) /\ RowsMatch(n)
  BY <1>1 DEF GoodDb, Walkable, RowsMatch
<1> QED BY <1>1, <1>2, <1>3 DEF GoodDb

\* A write appends a database.
LEMMA WriteGood ==
  ASSUME NEW s, GoodStore(s), NEW db, GoodDb(db)
  PROVE  GoodStore(write(s, db)) /\ View(write(s, db)) = db
<1>1. /\ Append(s, db) \in Seq(Database) /\ Append(s, db) # <<>>
      /\ Len(Append(s, db)) = Len(s) + 1
      /\ \A i \in 1 .. Len(s) : Append(s, db)[i] = s[i]
      /\ Append(s, db)[Len(s) + 1] = db
  BY AppendProperties DEF GoodStore, GoodDb
<1>2. Len(s) \in Nat
  BY LenProperties DEF GoodStore
<1> QED BY <1>1, <1>2 DEF GoodStore, write, View

\* A memtable flush keeps a suffix, with the same view.
LEMMA FlushedGood ==
  ASSUME NEW s, GoodStore(s), NEW i \in 1 .. Len(s)
  PROVE  GoodStore(Flushed(s, i)) /\ View(Flushed(s, i)) = View(s)
<1>1. Len(s) \in Nat /\ \A j \in i .. Len(s) : s[j] \in Database
  BY LenProperties, ElementOfSeq DEF GoodStore
<1>2. /\ SubSeq(s, i, Len(s)) \in Seq(Database)
      /\ Len(SubSeq(s, i, Len(s))) = Len(s) - i + 1
      /\ \A j \in 1 .. Len(s) - i + 1 : SubSeq(s, i, Len(s))[j] = s[i + j - 1]
  BY <1>1, SubSeqProperties
<1>3. SubSeq(s, i, Len(s)) # <<>>
  <2>1. Len(SubSeq(s, i, Len(s))) # 0
    BY <1>1, <1>2
  <2>2. Len(<<>>) = 0
    BY EmptySeq
  <2> QED BY <2>1, <2>2, Zenon
<1>4. \A j \in 1 .. Len(s) - i + 1 : GoodDb(s[i + j - 1])
  BY <1>1 DEF GoodStore
<1> QED BY <1>1, <1>2, <1>3, <1>4 DEF GoodStore, Flushed, View

\* A store that was closed or crashed holds one good database.
LEMMA OneGood ==
  ASSUME NEW db, GoodDb(db)
  PROVE  GoodStore(<<db>>) /\ View(<<db>>) = db
<1>1. <<db>> \in Seq(Database) /\ Len(<<db>>) = 1 /\ <<db>>[1] = db /\ <<db>> # <<>>
  BY DEF GoodDb
<1> QED BY <1>1 DEF GoodStore, View

\* Closing a good store or losing its memtable leaves a good store.
LEMMA ReopenGood ==
  ASSUME NEW s, GoodStore(s)
  PROVE  /\ GoodDb(View(s)) /\ GoodDb(s[1])
         /\ GoodStore(Closed(s)) /\ View(Closed(s)) = View(s)
         /\ GoodStore(Crashed(s))
<1>1. Len(s) \in Nat /\ Len(s) >= 1
  BY LenProperties, EmptySeq DEF GoodStore
<1>2. GoodDb(View(s)) /\ GoodDb(s[1])
  BY <1>1 DEF GoodStore, View
<1> QED BY <1>2, OneGood DEF Closed, Crashed

-------------------------------------------------------------------------------
(* The header list.                                                        *)

\* header_by_blockhash() finds exactly the entries of a list.
LEMMA FoundIff ==
  ASSUME NEW l \in Lists, ListOk(l), NEW b \in Block
  PROVE  /\ header_by_blockhash(l, b) <=> \E i \in 1 .. Len(l.headers) : l.headers[i].hash = b
         /\ header_by_blockhash(l, b) =>
              /\ l.heights[b] = Height[b]
              /\ Height[b] + 1 \in 1 .. Len(l.headers)
              /\ l.headers[Height[b] + 1].hash = b
              /\ l.headers[Height[b] + 1].height = Height[b]
<1>1. /\ l.headers \in Seq(Entry) /\ l.heights \in [Block -> Nat \cup {NoHeight}]
      /\ Len(l.headers) \in Nat
      /\ l.heights[b] \in Nat \cup {NoHeight}
  BY LenProperties DEF Lists
<1>2. Height[b] \in Nat
  BY BlockTree
<1>3. ASSUME header_by_blockhash(l, b)
      PROVE  /\ l.heights[b] + 1 \in 1 .. Len(l.headers)
             /\ l.headers[l.heights[b] + 1].hash = b
             /\ l.heights[b] = Height[b]
             /\ l.headers[l.heights[b] + 1].height = Height[b]
  <2>1. l.heights[b] \in Nat /\ l.heights[b] + 1 \in 1 .. Len(l.headers)
    BY <1>1, <1>3 DEF header_by_blockhash, NoHeight
  <2>2. l.headers[l.heights[b] + 1].hash = b
    BY <1>3 DEF header_by_blockhash
  <2>. DEFINE j == l.heights[b] + 1
  <2>3. j \in 1 .. Len(l.headers)
    BY <2>1
  <2>4. l.headers[j].height = j - 1 /\ Height[l.headers[j].hash] = j - 1
    <3>. HIDE DEF j
    <3> QED BY <2>3 DEF ListOk
  <2>5. j - 1 = l.heights[b]
    BY <2>1
  <2> QED BY <2>1, <2>2, <2>4, <2>5
<1>4. ASSUME NEW i \in 1 .. Len(l.headers), l.headers[i].hash = b
      PROVE  header_by_blockhash(l, b)
  <2>1. l.heights[b] = i - 1
    BY <1>4 DEF ListOk
  <2> QED BY <1>1, <1>4, <2>1 DEF header_by_blockhash, NoHeight
<1> QED BY <1>1, <1>2, <1>3, <1>4

\* Putting the predecessor in front of a piece of chain.
LEMMA PrependSegment ==
  ASSUME NEW s \in Seq(Block), Segment(s), NEW c \in Block,
         s # <<>> => Prev[s[1]] = c
  PROVE  /\ <<c>> \o s \in Seq(Block) /\ <<c>> \o s # <<>>
         /\ Segment(<<c>> \o s)
         /\ (<<c>> \o s)[1] = c
         /\ Len(<<c>> \o s) = Len(s) + 1
         /\ \A i \in 1 .. Len(s) : (<<c>> \o s)[i + 1] = s[i]
<1> DEFINE n == <<c>> \o s
<1>1. <<c>> \in Seq(Block) /\ Len(<<c>>) = 1 /\ <<c>>[1] = c
  OBVIOUS
<1>2. Len(s) \in Nat /\ \A i \in 1 .. Len(s) : s[i] \in Block
  BY LenProperties, ElementOfSeq
<1>3. n \in Seq(Block) /\ Len(n) = 1 + Len(s)
  BY <1>1, ConcatProperties
<1>4. \A i \in 1 .. 1 + Len(s) : n[i] = IF i <= 1 THEN <<c>>[i] ELSE s[i - 1]
  BY <1>1, ConcatProperties
<1>5. n[1] = c /\ \A i \in 1 .. Len(s) : n[i + 1] = s[i]
  BY <1>1, <1>2, <1>4
<1>6. n # <<>>
  BY <1>2, <1>3, EmptySeq
<1>7. Segment(n)
  <2> SUFFICES ASSUME NEW i \in 1 .. Len(s) + 1
               PROVE  /\ Height[n[i]] = Height[n[1]] + i - 1
                      /\ i > 1 => Prev[n[i]] = n[i - 1]
    BY <1>2, <1>3 DEF Segment
  <2>1. CASE i = 1
    BY <2>1, <1>5, BlockTree
  <2>2. CASE i > 1
    <3>1. i - 1 \in 1 .. Len(s) /\ n[i] = s[i - 1]
      BY <1>2, <1>5, <2>2
    <3>2. s[1] \in Block /\ Prev[s[1]] = c /\ Height[s[1]] = Height[c] + 1
      <4>1. s # <<>> /\ 1 \in 1 .. Len(s)
        BY <1>2, <3>1, EmptySeq
      <4>2. c # NullHash
        BY BlockTree
      <4> QED BY <1>2, <4>1, <4>2, BlockTree
    <3>3. Height[n[i]] = Height[n[1]] + i - 1
      <4>1. Height[s[i - 1]] = Height[s[1]] + (i - 1) - 1
        BY <1>2, <3>1 DEF Segment
      <4>2. Height[c] \in Nat
        BY BlockTree
      <4>3. Height[n[i]] = Height[s[i - 1]]
        BY <3>1
      <4>4. Height[n[1]] = Height[c]
        BY <1>5
      <4>5. i \in Int
        BY <1>2
      <4>6. Height[s[1]] = Height[c] + 1
        BY <3>2
      <4>7. \A x, y \in Int : y = x + 1 => y + (i - 1) - 1 = x + i - 1
        BY <4>5
      <4>8. Height[s[1]] \in Int /\ Height[c] \in Int
        BY <4>2, <4>6
      <4>9. Height[s[1]] + (i - 1) - 1 = Height[c] + i - 1
        BY Zenon, <4>6, <4>7, <4>8
      <4> QED BY <4>1, <4>3, <4>4, <4>9
    <3>4. Prev[n[i]] = n[i - 1]
      <4>1. CASE i = 2
        BY <4>1, <1>5, <3>1, <3>2
      <4>2. CASE i > 2
        <5>1. i - 2 \in 1 .. Len(s) /\ n[i - 1] = s[i - 2]
          BY <1>2, <1>5, <4>2
        <5> QED BY <1>2, <3>1, <4>2, <5>1 DEF Segment
      <4> QED BY <2>2, <4>1, <4>2
    <3> QED BY <3>3, <3>4
  <2> QED BY <2>1, <2>2
<1> QED BY <1>2, <1>3, <1>5, <1>6, <1>7

\* order() of no headers is empty.
LEMMA OrderNothing == \A l : order(l, <<>>) = <<>>
BY DEF order

\* order() gives the new headers the heights at which they continue the list;
\* it does not panic.
LEMMA OrderContinues ==
  ASSUME NEW l \in Lists, ListOk(l), NEW s \in Seq(Block), Segment(s), NEW t \in Block,
         s = <<>> => header_by_blockhash(l, t),
         s # <<>> => /\ s[Len(s)] = t
                     /\ Prev[s[1]] = NullHash \/ header_by_blockhash(l, Prev[s[1]])
  PROVE  /\ order_ok(l, s)
         /\ order(l, s) \in Seq(Entry)
         /\ Continues(l, order(l, s), t)
         /\ \A i \in 1 .. Len(order(l, s)) : \E j \in 1 .. Len(s) : order(l, s)[i].hash = s[j]
<1> DEFINE n == order(l, s)
<1>1. Len(s) \in Nat /\ \A i \in 1 .. Len(s) : s[i] \in Block /\ Height[s[i]] \in Nat
  BY LenProperties, ElementOfSeq, BlockTree
<1>2. order_ok(l, s)
  BY DEF order_ok
<1>3. CASE s = <<>>
  <2>1. n = <<>>
    BY <1>3 DEF order
  <2>2. <<>> \in Seq(Entry) /\ Len(<<>>) = 0
    BY EmptySeq
  <2>3. Continues(l, <<>>, t)
    BY <1>3, <2>2 DEF Continues
  <2> QED BY <1>2, <2>1, <2>2, <2>3
<1>4. CASE s # <<>>
  <2>1. Len(s) >= 1 /\ s[1] \in Block /\ Prev[s[1]] \in Block \cup {NullHash}
    <3>1. Len(s) # 0
      BY <1>4, EmptySeq
    <3> QED BY <1>1, <3>1, BlockTree
  <2> DEFINE base == IF Prev[s[1]] = NullHash THEN 0
                     ELSE l.headers[l.heights[Prev[s[1]]] + 1].height + 1
  <2>2. /\ base = Height[s[1]]
        /\ base <= Len(l.headers)
        /\ Prev[s[1]] = IF base > 0 THEN l.headers[base].hash ELSE NullHash
    <3>1. CASE Prev[s[1]] = NullHash
      <4>1. Height[s[1]] = 0 /\ Len(l.headers) \in Nat
        BY <2>1, <3>1, BlockTree, LenProperties DEF Lists
      <4> QED BY <3>1, <4>1
    <3>2. CASE Prev[s[1]] # NullHash
      <4> DEFINE c == Prev[s[1]]
      <4>1. c \in Block /\ header_by_blockhash(l, c)
        BY ZenonT(30), <1>4, <2>1, <3>2
      <4>2. /\ l.heights[c] = Height[c]
            /\ Height[c] + 1 \in 1 .. Len(l.headers)
            /\ l.headers[Height[c] + 1].hash = c
            /\ l.headers[Height[c] + 1].height = Height[c]
        BY ZenonT(30), <4>1, FoundIff
      <4>3. Height[s[1]] = Height[c] + 1 /\ Height[c] \in Nat
        BY <2>1, <3>2, <4>1, BlockTree
      <4>4. base = Height[c] + 1
        BY ZenonT(60), <3>2, <4>2
      <4>5. base > 0 /\ base <= Len(l.headers) /\ l.headers[base].hash = c
        <5>1. Height[c] + 1 > 0 /\ Height[c] + 1 <= Len(l.headers)
          BY <4>2, <4>3
        <5> QED BY ZenonT(60), <4>2, <4>4, <5>1
      <4> QED BY Zenon, <4>3, <4>4, <4>5
    <3> QED BY Zenon, <3>1, <3>2
  <2>3. n = [i \in 1 .. Len(s) |-> [height |-> base + i - 1, hash |-> s[i]]]
    BY ZenonT(60), <1>4 DEF order
  <2> HIDE DEF n, base
  <2>4. base \in Nat
    <3>1. Height[s[1]] \in Nat
      BY <2>1, BlockTree
    <3> QED BY <2>2, <3>1
  <2>5. /\ n \in Seq(Entry) /\ Len(n) = Len(s)
        /\ \A i \in 1 .. Len(s) : n[i].height = base + i - 1 /\ n[i].hash = s[i]
    BY <1>1, <2>3, <2>4 DEF Entry
  <2>6. n # <<>> /\ n[1].height = base /\ n[1].hash = s[1] /\ n[Len(n)].hash = t
    <3>1. Len(n) # 0
      BY <1>1, <2>1, <2>5
    <3>2. Len(<<>>) = 0
      BY EmptySeq
    <3>3. n # <<>>
      BY <3>1, <3>2, ZenonT(60)
    <3> QED BY <1>1, <1>4, <2>1, <2>4, <2>5, <3>3
  <2>7. ASSUME NEW i \in 1 .. Len(n)
        PROVE  /\ n[i].height = Height[n[i].hash]
               /\ n[i].height = n[1].height + i - 1
               /\ i > 1 => Prev[n[i].hash] = n[i - 1].hash
    <3>1. n[i].height = base + i - 1 /\ n[i].hash = s[i]
      BY <2>5
    <3>2. Height[s[i]] = Height[s[1]] + i - 1
      BY <2>5 DEF Segment
    <3>3. ASSUME i > 1 PROVE Prev[n[i].hash] = n[i - 1].hash
      <4>1. i - 1 \in 1 .. Len(s)
        BY <1>1, <2>5, <3>3
      <4> QED BY ZenonT(30), <2>5, <3>1, <3>3, <4>1 DEF Segment
    <3> QED BY <2>2, <2>6, <3>1, <3>2, <3>3
  <2>8. Continues(l, n, t)
    BY ZenonT(30), <2>2, <2>6, <2>7 DEF Continues
  <2> QED BY <1>2, <2>5, <2>8 DEF n
<1> QED BY <1>3, <1>4

\* apply() does not fail an assertion on headers that continue the list, and
\* gives a list that ends at the tip, of entries of the old list and new ones.
LEMMA ApplyGood ==
  ASSUME NEW l \in Lists, ListOk(l), NEW n \in Seq(Entry), NEW t \in Block,
         Continues(l, n, t)
  PROVE  /\ apply_ok(l, n, t)
         /\ apply(l, n, t) \in Lists
         /\ ListOk(apply(l, n, t))
         /\ apply(l, n, t).headers # <<>>
         /\ tiphash(apply(l, n, t)) = t
         /\ \A i \in 1 .. Len(apply(l, n, t).headers) :
              \/ \E j \in 1 .. Len(l.headers) : apply(l, n, t).headers[i] = l.headers[j]
              \/ \E j \in 1 .. Len(n) : apply(l, n, t).headers[i] = n[j]
         /\ kept(l, n, t) \in 0 .. Len(l.headers)
         /\ Len(apply(l, n, t).headers) = kept(l, n, t) + Len(n)
         /\ \A i \in 1 .. kept(l, n, t) + Len(n) :
              apply(l, n, t).headers[i] = IF i <= kept(l, n, t) THEN l.headers[i]
                                          ELSE n[i - kept(l, n, t)]
<1> DEFINE r == apply(l, n, t)
           k == kept(l, n, t)
           H == Len(l.headers)
           old(b) == ~ \E j \in 1 .. Len(n) : n[j].hash = b
<1>1. /\ l.headers \in Seq(Entry) /\ H \in Nat /\ Len(n) \in Nat
      /\ l.heights \in [Block -> Nat \cup {NoHeight}]
      /\ \A i \in 1 .. H : l.headers[i] \in Entry
      /\ \A i \in 1 .. Len(n) : n[i] \in Entry
  BY LenProperties, ElementOfSeq DEF Lists
<1>2. t # NullHash /\ Len(<<>>) = 0
  BY BlockTree, EmptySeq
<1>3. n # <<>> => Len(n) >= 1
  BY <1>1, EmptySeq
<1>4. apply_ok(l, n, t)
  <2>1. ASSUME NEW i \in 1 .. Len(n) - 1
        PROVE  n[i].height + 1 = n[i + 1].height /\ n[i].hash = Prev[n[i + 1].hash]
    <3>1. i \in 1 .. Len(n) /\ i + 1 \in 1 .. Len(n) /\ i + 1 > 1 /\ (i + 1) - 1 = i
      BY <1>1
    <3>2. n[1].height \in Nat /\ i \in Nat
      <4>1. 1 \in 1 .. Len(n) /\ i \in Nat
        BY <1>1, <3>1
      <4>2. n[1] \in Entry
        BY Zenon, <1>1, <4>1
      <4> QED BY <4>1, <4>2 DEF Entry
    <3>3. n[i].height = n[1].height + i - 1 /\ n[i + 1].height = n[1].height + (i + 1) - 1
      BY <3>1 DEF Continues
    <3>4. Prev[n[i + 1].hash] = n[i].hash
      BY <3>1 DEF Continues
    <3> QED BY <3>2, <3>3, <3>4
  <2>2. CASE n = <<>>
    BY ZenonT(60), <1>2, <2>1, <2>2 DEF apply_ok, Continues, header_by_blockhash
  <2>3. CASE n # <<>>
    BY <1>2, <2>1, <2>3 DEF apply_ok, Continues
  <2> QED BY <2>2, <2>3
<1>5. k \in 0 .. H /\ k + Len(n) >= 1
  <2>1. CASE n = <<>>
    BY SMTT(30), <1>1, <1>2, <2>1, FoundIff, BlockTree DEF Continues, kept
  <2>2. CASE n # <<>>
    BY <1>1, <1>3, <2>2 DEF Continues, kept, Entry
  <2> QED BY ZenonT(60), <2>1, <2>2
<1>6. n # <<>> => n[1].height = k
  BY DEF kept
<1> HIDE DEF k
<1>7. r.headers = SubSeq(l.headers, 1, k) \o n
  BY ZenonT(60), <1>2 DEF apply, k
<1>8. r.heights = [b \in Block |->
                     IF \E i \in 1 .. Len(n) : n[i].hash = b
                     THEN n[CHOOSE i \in 1 .. Len(n) : n[i].hash = b].height
                     ELSE l.heights[b]]
  BY <1>2 DEF apply
<1>9. r = [headers |-> r.headers, heights |-> r.heights]
  BY <1>2 DEF apply
<1> HIDE DEF r
<1>10. /\ SubSeq(l.headers, 1, k) \in Seq(Entry) /\ Len(SubSeq(l.headers, 1, k)) = k
       /\ \A i \in 1 .. k : SubSeq(l.headers, 1, k)[i] = l.headers[i]
  BY <1>1, <1>5, SubSeqProperties
<1>11. r.headers \in Seq(Entry) /\ Len(r.headers) = k + Len(n)
  BY ZenonT(60), <1>7, <1>10, ConcatProperties
<1>12. \A i \in 1 .. k + Len(n) :
         r.headers[i] = IF i <= k THEN l.headers[i] ELSE n[i - k]
  BY <1>1, <1>5, <1>7, <1>10, ConcatProperties
<1>13. \A j \in 1 .. Len(n) : r.heights[n[j].hash] = Height[n[j].hash]
  <2> SUFFICES ASSUME NEW j \in 1 .. Len(n)
               PROVE  r.heights[n[j].hash] = Height[n[j].hash]
    OBVIOUS
  <2> DEFINE b == n[j].hash
             c == CHOOSE i \in 1 .. Len(n) : n[i].hash = b
  <2>1. c \in 1 .. Len(n) /\ n[c].hash = b
    OBVIOUS
  <2>2. b \in Block
    BY <1>1 DEF Entry
  <2>3. r.heights[b] = n[c].height
    BY ZenonT(60), <1>8, <2>2
  <2> QED BY ZenonT(30), <2>1, <2>3 DEF Continues
<1>14. \A b \in Block : old(b) => r.heights[b] = l.heights[b]
  BY <1>8
<1>15. r.heights \in [Block -> Nat \cup {NoHeight}]
  <2> SUFFICES ASSUME NEW b \in Block PROVE r.heights[b] \in Nat \cup {NoHeight}
    BY ZenonT(30), <1>8
  <2>1. CASE old(b)
    BY ZenonT(60), <1>1, <1>14, <2>1
  <2>2. CASE ~ old(b)
    BY <1>13, <2>2, BlockTree
  <2> QED BY <2>1, <2>2
<1>16. r \in Lists
  BY ZenonT(30), <1>9, <1>11, <1>15 DEF Lists
<1>17. ListOk(r)
  <2> SUFFICES ASSUME NEW i \in 1 .. k + Len(n)
               PROVE  /\ r.headers[i].height = i - 1
                      /\ Height[r.headers[i].hash] = i - 1
                      /\ r.heights[r.headers[i].hash] = i - 1
                      /\ Prev[r.headers[i].hash] = IF i = 1 THEN NullHash
                                                    ELSE r.headers[i - 1].hash
    BY ZenonT(30), <1>11 DEF ListOk
  <2>1. CASE i <= k
    <3> DEFINE b == l.headers[i].hash
    <3>1. i \in 1 .. H /\ r.headers[i] = l.headers[i] /\ b \in Block
      <4>1. i \in 1 .. H
        BY <1>1, <1>5, <2>1
      <4>2. r.headers[i] = l.headers[i]
        BY Zenon, <1>12, <2>1
      <4>3. l.headers[i] \in Entry
        BY Zenon, <1>1, <4>1
      <4>4. b \in Block
        BY ZenonT(60), <4>3 DEF Entry
      <4> QED BY Zenon, <4>1, <4>2, <4>4
    <3>2. /\ l.headers[i].height = i - 1 /\ Height[b] = i - 1 /\ l.heights[b] = i - 1
          /\ Prev[b] = IF i = 1 THEN NullHash ELSE l.headers[i - 1].hash
      BY ZenonT(60), <3>1 DEF ListOk
    <3>3. i # 1 => r.headers[i - 1] = l.headers[i - 1]
      <4>1. i # 1 => i - 1 \in 1 .. k + Len(n) /\ i - 1 <= k
        BY <1>1, <1>5, <2>1
      <4> QED BY <1>12, <4>1
    <3>4. r.heights[b] = i - 1
      BY ZenonT(60), <1>13, <1>14, <3>1, <3>2
    <3> QED BY ZenonT(30), <3>1, <3>2, <3>3, <3>4
  <2>2. CASE i > k
    <3> DEFINE j == i - k
    <3>1. j \in 1 .. Len(n) /\ r.headers[i] = n[j] /\ n # <<>> /\ i \in Nat /\ k \in Nat
      BY <1>1, <1>2, <1>5, <1>12, <2>2
    <3>2. n[j].height = k + j - 1 /\ n[j].height = Height[n[j].hash]
      BY ZenonT(30), <1>6, <3>1 DEF Continues
    <3>3. n[j].height = i - 1
      BY <3>1, <3>2
    <3>4. r.heights[n[j].hash] = i - 1
      BY Zenon, <1>13, <3>1, <3>2, <3>3
    <3>5. CASE j > 1
      <4>1. r.headers[i - 1] = n[j - 1] /\ i # 1
        <5>1. i - 1 \in 1 .. k + Len(n) /\ ~ (i - 1 <= k) /\ (i - 1) - k = j - 1 /\ i # 1
          BY <1>1, <1>5, <3>5
        <5> QED BY <1>12, <5>1
      <4>2. Prev[n[j].hash] = n[j - 1].hash
        BY ZenonT(60), <3>1, <3>5 DEF Continues
      <4> QED BY ZenonT(60), <3>1, <3>2, <3>3, <3>4, <4>1, <4>2
    <3>6. CASE j = 1
      <4>1. i = k + 1 /\ n[1].height = k
        BY SMTT(30), <1>6, <3>1, <3>6
      <4>2. Prev[n[1].hash] = IF k > 0 THEN l.headers[k].hash ELSE NullHash
        BY ZenonT(30), <3>1, <4>1 DEF Continues
      <4>3. k > 0 => r.headers[i - 1] = l.headers[k]
        <5>1. k > 0 => k \in 1 .. k + Len(n) /\ k <= k /\ i - 1 = k
          BY <1>1, <1>5, <4>1
        <5> QED BY ZenonT(30), <1>12, <5>1
      <4>4. Prev[n[1].hash] = IF i = 1 THEN NullHash ELSE r.headers[i - 1].hash
        BY <3>1, <4>1, <4>2, <4>3
      <4> QED BY ZenonT(60), <3>1, <3>2, <3>3, <3>4, <3>6, <4>4
    <3> QED BY <3>1, <3>5, <3>6
  <2>3. i <= k \/ i > k
    BY <1>1, <1>5
  <2> QED BY Zenon, <2>1, <2>2, <2>3
<1>18. r.headers # <<>>
  BY <1>1, <1>2, <1>5, <1>11
<1>19. tiphash(r) = t
  <2>1. tiphash(r) = r.headers[k + Len(n)].hash
    BY ZenonT(30), <1>11, <1>18 DEF tiphash
  <2>2. CASE n = <<>>
    <3>1. k = Height[t] + 1 /\ l.headers[Height[t] + 1].hash = t
      BY ZenonT(30), <2>2, FoundIff DEF Continues, kept, k
    <3>2. Len(n) = 0
      BY Zenon, <1>2, <2>2
    <3>3. k \in 1 .. k + Len(n) /\ k + Len(n) = k /\ k <= k
      BY <1>5, <3>2, <3>1, BlockTree
    <3> QED BY Zenon, <1>12, <2>1, <3>1, <3>3
  <2>3. CASE n # <<>>
    BY <1>1, <1>3, <1>5, <1>12, <2>1, <2>3 DEF Continues
  <2> QED BY <2>2, <2>3
<1>20. ASSUME NEW i \in 1 .. Len(r.headers)
       PROVE  \/ \E j \in 1 .. Len(l.headers) : r.headers[i] = l.headers[j]
              \/ \E j \in 1 .. Len(n) : r.headers[i] = n[j]
  <2>1. i \in 1 .. k + Len(n) /\ (i \in 1 .. H \/ i - k \in 1 .. Len(n))
    BY SMTT(30), <1>1, <1>5, <1>11
  <2> QED BY <1>1, <1>5, <1>11, <1>12, <2>1
<1> QED BY ZenonT(60), <1>4, <1>5, <1>11, <1>12, <1>16, <1>17, <1>18, <1>19, <1>20 DEF r, k

-------------------------------------------------------------------------------
(* The inductive step.                                                     *)

\* The conjuncts of the invariant about the store, together.
LEMMA IInvStore == IInv <=> IInv /\ GoodStore(store)
<1> SUFFICES ASSUME IInv PROVE GoodStore(store)
  BY Zenon
<1>1. store \in Seq(Database)
  BY Zenon DEF IInv, TypeOK
<1>2. \A i \in 1 .. Len(store) : store[i] \in Database
  BY Zenon, <1>1, ElementOfSeq
<1> QED BY Zenon, <1>1, <1>2
        DEF IInv, GoodStore, GoodDb, Recoverable, RowsComplete, MarkerAfterImport

\* The list before the first load is a list, and empty.
LEMMA EmptyList == empty \in Lists /\ ListOk(empty) /\ empty.headers = <<>> /\ Len(<<>>) = 0
<1>1. Len(<<>>) = 0 /\ <<>> \in Seq(Entry)
  BY EmptySeq
<1> QED BY <1>1 DEF empty, Lists, ListOk, NoHeight

\* The loops that walk back start with no header collected.
LEMMA NoHashes == Segment(<<>>) /\ Len(<<>>) = 0 /\ <<>> \in Seq(Block)
<1>1. Len(<<>>) = 0 /\ <<>> \in Seq(Block)
  BY ZenonT(30), EmptySeq
<1> QED BY <1>1 DEF Segment

\* The invariant of the next state, from the parts a step can disturb.
LEMMA IInvParts ==
  ASSUME TypeOK', active' # <<>>, IsChain(active'), GoodStore(store'), ListOk(hl'),
         HeadersIndexed', hl'.headers # <<>> => View(store').L # NullHash,
         pc' \in {"down", "load"} => hl' = empty,
         pc' = "load" => LoadInv',
         pc' = "all" => AllInv',
         pc' = "walk" => hl'.headers # <<>> /\ tip' \in Block /\ Walked(tip)',
         pc' \in {"write", "apply"} => WriteInv',
         pc' = "apply" => written' = Len(new') /\ (new' # <<>> => View(store').L # NullHash),
         pc' \in {"compact", "marker"} => hl'.headers # <<>>,
         NoIndexPanic'
  PROVE  IInv'
BY ZenonT(30) DEF IInv, GoodStore, GoodDb, Recoverable, RowsComplete, MarkerAfterImport

\* The end of a process, whatever its reason, leaves a state to start from.
LEMMA EndedInv ==
  ASSUME IInv, Ended, GoodStore(store'), panic' \in {"none", "get_all_headers"}, stops' \in Nat
  PROVE  IInv'
<1>1. hl' = empty /\ pc' = "down" /\ UNCHANGED <<active, tipChanges>>
  BY DEF Ended, daemonVars
<1>2. TypeOK'
  BY Zenon, <1>1, EmptyList, BlockTree, EmptySeq
  DEF Ended, IInv, TypeOK, GoodStore, Panics, Running
<1>3. active' # <<>> /\ IsChain(active')
  BY ZenonT(30), <1>1 DEF IInv
<1>4. HeadersIndexed' /\ ListOk(hl')
  BY <1>1, EmptyList DEF HeadersIndexed
<1>5. NoIndexPanic'
  BY ZenonT(60) DEF NoIndexPanic
<1> QED BY <1>1, <1>2, <1>3, <1>4, <1>5, EmptyList, IInvParts

\* Init satisfies the invariant.
LEMMA InitInv == Init => IInv
<1> SUFFICES ASSUME Init PROVE IInv
  BY ZenonT(60)
<1>1. GoodDb(EmptyDatabase)
  BY DEF GoodDb, EmptyDatabase, Database, Walkable, RowsMatch, NoHeight
<1>2. GoodStore(store)
  BY ZenonT(30), <1>1, OneGood DEF Init
<1>3. TypeOK
  BY <1>2, EmptyList, IndexConstants, EmptySeq DEF Init, TypeOK, GoodStore, Panics, Running
<1>4. active # <<>> /\ IsChain(active)
  BY IndexConstants, BlockTree DEF Init, IsChain
<1>5. HeadersIndexed /\ ListOk(hl) /\ NoIndexPanic
  BY EmptyList DEF Init, HeadersIndexed, NoIndexPanic
<1> QED BY <1>2, <1>3, <1>4, <1>5, EmptyList
        DEF Init, IInv, GoodStore, GoodDb, Recoverable, RowsComplete, MarkerAfterImport

\* The steps of the daemon, of RocksDB and of stopping and starting.
LEMMA EnvironmentInv ==
  ASSUME IInv, ChainChange \/ FlushMemtable \/ Crash \/ Stop \/ Start
  PROVE  IInv'
<1>1. GoodStore(store) /\ TypeOK
  BY IInvStore DEF IInv
<1>2. CASE ChainChange
  <2>1. active' \in Seq(Block) /\ active' # <<>> /\ IsChain(active')
    <3>1. PICK k \in 1 .. Len(active), n \in 0 .. MaxReorg : \E ext \in [1 .. n -> Block] :
            active' = SubSeq(active, 1, k) \o ext
      BY Zenon, <1>2 DEF ChainChange
    <3>2. PICK ext \in [1 .. n -> Block] : active' = SubSeq(active, 1, k) \o ext
      BY ZenonT(30), <3>1
    <3>3. active \in Seq(Block) /\ Len(active) \in Nat
      BY <1>1, LenProperties DEF TypeOK
    <3>4. ext \in Seq(Block) /\ Len(ext) = n
      BY <3>2, IndexConstants
    <3>5. SubSeq(active, 1, k) \in Seq(Block) /\ Len(SubSeq(active, 1, k)) = k
      BY <3>3, SubSeqProperties
    <3>6. active' \in Seq(Block) /\ Len(active') = k + n
      BY Zenon, <3>2, <3>4, <3>5, ConcatProperties
    <3>7. Len(active') # 0 /\ Len(<<>>) = 0
      BY <3>3, <3>6, IndexConstants, EmptySeq
    <3>8. active' # <<>>
      BY <3>7, Zenon
    <3> QED BY Zenon, <1>2, <3>6, <3>8 DEF ChainChange
  <2>2. UNCHANGED <<store, hl, appTip, pc, panic, stops, tip, cursor, hashes, new, written>>
    BY ZenonT(60), <1>2 DEF ChainChange, localVars
  <2>3. TypeOK'
    BY <1>1, <1>2, <2>1, <2>2 DEF TypeOK, ChainChange
  <2> QED BY ZenonT(60), <1>1, <2>1, <2>2, <2>3, IInvParts
          DEF IInv, HeadersIndexed, LoadInv, AllInv, WriteInv, Walked, NoIndexPanic
<1>3. CASE FlushMemtable
  <2>1. PICK i \in 2 .. Len(store) : store' = Flushed(store, i)
    BY <1>3 DEF FlushMemtable
  <2>2. i \in 1 .. Len(store)
    BY <1>1, LenProperties DEF GoodStore
  <2>3. GoodStore(store') /\ View(store') = View(store)
    BY <1>1, <2>1, <2>2, FlushedGood
  <2>4. UNCHANGED <<active, tipChanges, hl, appTip, pc, panic, stops,
                    tip, cursor, hashes, new, written>>
    BY <1>3 DEF FlushMemtable, localVars, daemonVars
  <2>5. TypeOK'
    BY ZenonT(60), <1>1, <2>3, <2>4 DEF TypeOK, GoodStore
  <2> QED BY ZenonT(60), <1>1, <2>3, <2>4, <2>5, IInvParts
          DEF IInv, HeadersIndexed, LoadInv, AllInv, WriteInv, Walked, NoIndexPanic
<1>4. CASE Crash
  <2>1. GoodStore(store')
    BY <1>1, <1>4, ReopenGood DEF Crash
  <2>2. Ended /\ panic' = panic /\ stops' \in Nat
    BY <1>1, <1>4 DEF Crash, TypeOK
  <2> QED BY <2>1, <2>2, EndedInv DEF IInv, NoIndexPanic
<1>5. CASE Stop
  <2>1. GoodStore(store')
    BY <1>1, <1>5, ReopenGood DEF Stop, Fail
  <2>2. Ended /\ panic' = panic /\ stops' \in Nat
    <3>1. Ended /\ panic' = panic /\ stops' = stops + 1 /\ stops \in Nat
      BY Zenon, <1>1, <1>5 DEF Stop, Fail, TypeOK
    <3> QED BY <3>1
  <2> QED BY <2>1, <2>2, EndedInv DEF IInv, NoIndexPanic
<1>6. CASE Start
  <2>1. UNCHANGED <<active, tipChanges, store, hl, appTip, stops, tip, new, written>>
    BY SMTT(30), <1>6 DEF Start, daemonVars
  <2>2. /\ pc' = "load" /\ panic' = "none" /\ hashes' = <<>> /\ cursor' = View(store).L
        /\ hl = empty
    BY ZenonT(60), <1>6 DEF Start, IInv
  <2>3. View(store).L \in Block \cup {NullHash}
    BY <1>1, ReopenGood DEF GoodDb, Database
  <2>4. TypeOK'
    BY ZenonT(60), <1>1, <2>1, <2>2, <2>3, EmptySeq DEF TypeOK, Panics, Running
  <2>5. LoadInv'
    <3>1. Walked(View(store).L)'
      BY <2>1, <2>2, NoHashes, Zenon DEF Walked
    <3>2. Len(hashes') = 0
      BY <2>2, NoHashes, Zenon
    <3>3. \A i \in 1 .. Len(hashes') : hashes'[i] \in View(store').B
      BY <3>2
    <3> QED BY <3>1, <3>3 DEF LoadInv
  <2> QED BY ZenonT(60), <1>1, <2>1, <2>2, <2>4, <2>5, IInvParts DEF IInv, HeadersIndexed, NoIndexPanic
<1> QED BY ZenonT(60), <1>2, <1>3, <1>4, <1>5, <1>6

-------------------------------------------------------------------------------
(* The steps of the process.                                               *)

\* read_indexed_headers(): the walk from the L row never misses a header, and
\* the list built from it is exact.
LEMMA LoadStepInv ==
  ASSUME IInv, LoadHeader \/ LoadDone
  PROVE  IInv'
<1>1. GoodStore(store) /\ TypeOK /\ pc = "load" /\ LoadInv /\ hl = empty
  BY Zenon, IInvStore DEF IInv, LoadHeader, LoadDone
<1>2. GoodDb(View(store))
  BY <1>1, ReopenGood
<1>3. /\ hashes \in Seq(Block) /\ Segment(hashes) /\ Len(hashes) \in Nat
      /\ hashes # <<>> => 1 \in 1 .. Len(hashes) /\ Len(hashes) \in 1 .. Len(hashes)
  <2>1. hashes \in Seq(Block) /\ Segment(hashes)
    BY Zenon, <1>1 DEF TypeOK, LoadInv, Walked
  <2>2. Len(hashes) \in Nat /\ (hashes # <<>> => Len(hashes) \in Nat \ {0})
    BY Zenon, <2>1, LenProperties, EmptySeq
  <2> QED BY <2>1, <2>2
<1>4. CASE LoadHeader
  <2>1. cursor \in View(store).B
    <3>1. cursor \in View(store).B \cup {NullHash}
      BY ZenonT(30), <1>1, <1>2, <1>3 DEF LoadInv, Walked, GoodDb, Walkable
    <3> QED BY Zenon, <1>4, <3>1 DEF LoadHeader
  <2>2. /\ hashes' = <<cursor>> \o hashes /\ cursor' = Prev[cursor]
        /\ UNCHANGED <<active, tipChanges, store, hl, appTip, pc, panic, stops, tip, new, written>>
    BY ZenonT(30), <1>4, <2>1 DEF LoadHeader, daemonVars
  <2>3. cursor \in Block /\ Prev[cursor] \in Block \cup {NullHash}
    BY <1>2, <2>1, BlockTree DEF GoodDb, Database
  <2>4. /\ hashes' \in Seq(Block) /\ hashes' # <<>> /\ Segment(hashes')
        /\ hashes'[1] = cursor /\ Len(hashes') = Len(hashes) + 1
        /\ \A i \in 1 .. Len(hashes) : hashes'[i + 1] = hashes[i]
    BY ZenonT(60), <1>1, <1>3, <2>2, <2>3, PrependSegment DEF LoadInv, Walked
  <2>5. TypeOK'
    BY Zenon, <1>1, <2>2, <2>3, <2>4 DEF TypeOK
  <2>6. LoadInv'
    <3>1. hashes'[Len(hashes')] = View(store).L
      <4>1. hashes = <<>> => cursor = View(store).L
        BY Zenon, <1>1 DEF LoadInv, Walked
      <4>2. hashes # <<>> => hashes[Len(hashes)] = View(store).L
        BY Zenon, <1>1 DEF LoadInv, Walked
      <4>3. hashes = <<>> => Len(hashes') = 1
        <5>1. 0 + 1 = 1
          OBVIOUS
        <5> QED BY Zenon, <2>4, <5>1, EmptySeq
      <4>4. hashes # <<>> => Len(hashes) \in 1 .. Len(hashes)
        BY Zenon, <1>3
      <4> QED BY Zenon, <2>4, <4>1, <4>2, <4>3, <4>4
    <3>2. ASSUME NEW i \in 1 .. Len(hashes') PROVE hashes'[i] \in View(store).B
      <4>1. CASE i = 1
        BY ZenonT(30), <2>1, <2>4, <4>1
      <4>2. CASE i > 1
        <5>1. i - 1 \in 1 .. Len(hashes) /\ (i - 1) + 1 = i
          BY <1>3, <2>4, <4>2
        <5>2. hashes'[i] = hashes[i - 1]
          BY <2>4, <5>1
        <5> QED BY Zenon, <1>1, <5>1, <5>2 DEF LoadInv
      <4>3. i = 1 \/ i > 1
        OBVIOUS
      <4> QED BY Zenon, <4>1, <4>2, <4>3
    <3> QED BY Zenon, <2>2, <2>4, <3>1, <3>2 DEF LoadInv, Walked, Segment
  <2> QED BY ZenonT(30), <1>1, <2>2, <2>5, <2>6, IInvParts DEF IInv, HeadersIndexed, NoIndexPanic
<1>5. CASE LoadDone
  <2> DEFINE n == order(empty, hashes)
             L == View(store).L
             r == apply(empty, n, L)
  <2>1. /\ apply_ok(empty, n, L) /\ r \in Lists /\ ListOk(r)
        /\ \A i \in 1 .. Len(r.headers) : r.headers[i].hash \in View(store).B
        /\ r.headers # <<>> => L # NullHash
    <3>1. CASE hashes = <<>>
      <4>1. L = NullHash
        BY ZenonT(30), <1>1, <1>5, <3>1 DEF LoadInv, Walked, LoadDone
      <4>2. n = <<>>
        BY Zenon, <3>1, OrderNothing
      <4>3. r = empty /\ apply_ok(empty, n, L)
        BY ZenonT(30), <4>1, <4>2 DEF apply, apply_ok
      <4> HIDE DEF r
      <4> QED BY Zenon, <4>3, NoIndices, EmptyList
    <3>2. CASE hashes # <<>>
      <4>1. /\ hashes[Len(hashes)] = L /\ Prev[hashes[1]] = NullHash
            /\ L \in Block
        <5>1. hashes[Len(hashes)] = L /\ Prev[hashes[1]] = cursor
          BY <1>1, <3>2, Zenon DEF LoadInv, Walked
        <5>2. cursor = NullHash
          BY <1>5 DEF LoadDone
        <5>3. Len(hashes) \in 1 .. Len(hashes)
          BY Zenon, <1>3, <3>2
        <5>4. hashes[Len(hashes)] \in Block
          BY ZenonT(30), <1>3, <5>3, ElementOfSeq
        <5> QED BY <5>1, <5>2, <5>4, Zenon
      <4>2. /\ n \in Seq(Entry) /\ Continues(empty, n, L)
            /\ \A i \in 1 .. Len(n) : \E j \in 1 .. Len(hashes) : n[i].hash = hashes[j]
        BY Zenon, <1>3, <3>2, <4>1, EmptyList, OrderContinues
      <4> HIDE DEF n
      <4>3. /\ apply_ok(empty, n, L) /\ r \in Lists /\ ListOk(r)
            /\ \A i \in 1 .. Len(r.headers) :
                 \/ \E j \in 1 .. Len(empty.headers) : r.headers[i] = empty.headers[j]
                 \/ \E j \in 1 .. Len(n) : r.headers[i] = n[j]
        BY ZenonT(60), <4>1, <4>2, EmptyList, ApplyGood
      <4>4. \A i \in 1 .. Len(n) : n[i].hash \in View(store).B
        BY <1>1, <4>2 DEF LoadInv
      <4> HIDE DEF r
      <4>5. \A i \in 1 .. Len(r.headers) : \E j \in 1 .. Len(n) : r.headers[i] = n[j]
        BY <4>3, EmptyList
      <4> QED BY Zenon, <4>1, <4>3, <4>4, <4>5, BlockTree
    <3> QED BY Zenon, <3>1, <3>2
  <2>2. /\ hl' = r /\ pc' \in {"idle", "update"} /\ hashes' = <<>>
        /\ UNCHANGED <<active, tipChanges, store, appTip, panic, stops, tip, cursor, new, written>>
    BY Zenon, <1>5, <2>1 DEF LoadDone, daemonVars
  <2> HIDE DEF r
  <2>3. TypeOK'
    BY Zenon, <1>1, <2>1, <2>2, EmptySeq DEF TypeOK, Running
  <2>4. HeadersIndexed'
    BY Zenon, <2>1, <2>2 DEF HeadersIndexed
  <2> QED BY Zenon, <1>1, <2>1, <2>2, <2>3, <2>4, IInvParts DEF IInv, NoIndexPanic
<1> QED BY <1>4, <1>5

\* The start of an update: the daemon's tip is a block.
LEMMA UpdateStartInv ==
  ASSUME IInv, AppUpdate \/ UpdateStart
  PROVE  IInv'
<1>1. GoodStore(store) /\ TypeOK
  BY ZenonT(60), IInvStore DEF IInv
<1>2. best \in Block /\ Height[best] \in Nat
  <2>1. active \in Seq(Block) /\ Len(active) \in 1 .. Len(active)
    <3>1. active \in Seq(Block) /\ active # <<>>
      BY Zenon, <1>1 DEF IInv, TypeOK
    <3>2. Len(active) \in Nat \ {0}
      BY Zenon, <3>1, EmptySeq
    <3> QED BY <3>1, <3>2
  <2>2. active[Len(active)] \in Block
    BY Zenon, <2>1, ElementOfSeq
  <2> QED BY Zenon, <2>2, BlockTree DEF best
<1>3. CASE AppUpdate
  <2>1. /\ pc' \in {"idle", "update"}
        /\ UNCHANGED <<active, tipChanges, store, hl, appTip, panic, stops,
                       tip, cursor, hashes, new, written>>
    BY ZenonT(30), <1>3 DEF AppUpdate, daemonVars, localVars
  <2>2. TypeOK'
    BY <1>1, <2>1 DEF TypeOK, Running
  <2> QED BY Zenon, <1>1, <2>1, <2>2, IInvParts DEF IInv, HeadersIndexed, NoIndexPanic
<1>4. CASE UpdateStart
  <2>1. /\ tip' = best /\ cursor' = best /\ hashes' = <<>>
        /\ pc' = IF hl.headers = <<>> THEN "all" ELSE "walk"
        /\ UNCHANGED <<active, tipChanges, store, hl, appTip, panic, stops, new, written>>
    BY Zenon, <1>4 DEF UpdateStart, daemonVars
  <2>2. TypeOK'
    BY Zenon, <1>1, <1>2, <2>1, EmptySeq DEF TypeOK, Running
  <2>3. pc' = "all" => AllInv'
    <3>1. pc' = "all" => hl'.headers = <<>> /\ tip' \in Block
      BY ZenonT(30), <1>2, <2>1
    <3>2. Len(hashes') = 0 /\ Height[tip'] \in Nat
      BY ZenonT(60), <1>2, <2>1, NoHashes
    <3> QED BY Zenon, <3>1, <3>2, NoIndices DEF AllInv
  <2>4. Walked(tip)'
    BY ZenonT(60), <2>1, NoHashes DEF Walked
  <2> QED BY Zenon, <1>1, <1>2, <2>1, <2>2, <2>3, <2>4, IInvParts DEF IInv, HeadersIndexed, NoIndexPanic
<1> QED BY <1>3, <1>4

\* order() on the collected headers succeeds, and what it returns continues
\* the list up to the tip.
LEMMA OrderHeadersInv ==
  ASSUME IInv, OrderHeaders, tip \in Block, Segment(hashes),
         hashes = <<>> => header_by_blockhash(hl, tip),
         hashes # <<>> => /\ hashes[Len(hashes)] = tip
                          /\ Prev[hashes[1]] = NullHash \/ header_by_blockhash(hl, Prev[hashes[1]])
  PROVE  IInv'
<1>1. GoodStore(store) /\ TypeOK /\ hl \in Lists /\ ListOk(hl) /\ hashes \in Seq(Block)
  BY Zenon, IInvStore DEF IInv, TypeOK
<1>2. /\ order_ok(hl, hashes) /\ order(hl, hashes) \in Seq(Entry)
      /\ Continues(hl, order(hl, hashes), tip)
  BY ZenonT(30), <1>1, OrderContinues
<1>3. /\ new' = order(hl, hashes) /\ written' = 0 /\ pc' = "write"
      /\ cursor' = NullHash /\ hashes' = <<>>
      /\ UNCHANGED <<active, tipChanges, store, hl, appTip, panic, stops, tip>>
  BY ZenonT(30), <1>2 DEF OrderHeaders, daemonVars
<1>4. TypeOK'
  BY ZenonT(30), <1>1, <1>2, <1>3, EmptySeq DEF TypeOK, Running
<1>5. new' \in Seq(Entry) /\ Continues(hl, new', tip)
  BY <1>2, <1>3
<1>6. Continues(hl, new, tip)'
  BY ZenonT(60), <1>3, <1>5 DEF Continues, header_by_blockhash
<1>7. WriteInv'
  <2>1. Len(new') \in Nat
    BY <1>5, LenProperties
  <2>2. 0 <= Len(new') /\ 1 .. 0 = {}
    BY <2>1
  <2>3. tip' \in Block
    BY Zenon, <1>1, <1>3
  <2> QED BY ZenonT(30), <1>3, <1>6, <2>2, <2>3 DEF WriteInv
<1> QED BY Zenon, <1>1, <1>3, <1>4, <1>7, IInvParts DEF IInv, HeadersIndexed, NoIndexPanic

\* get_all_headers(): a header list that passes its assertions is a chain.
LEMMA AllHeadersInv ==
  ASSUME IInv, AllHeadersChunk \/ AllHeadersDone
  PROVE  IInv'
<1>1. GoodStore(store) /\ TypeOK /\ AllInv /\ pc = "all"
  BY Zenon, IInvStore DEF IInv, AllHeadersChunk, AllHeadersDone
<1>2. /\ active \in Seq(Block) /\ Len(active) \in Nat
      /\ hashes \in Seq(Block) /\ Len(hashes) \in Nat
      /\ tip \in Block /\ Height[tip] \in Nat
  BY ZenonT(30), <1>1, LenProperties, BlockTree DEF TypeOK, AllInv
<1>3. CASE AllHeadersChunk
  <2> DEFINE last == Len(hashes) + ChunkSize
             upto == IF last > Height[tip] + 1 THEN Height[tip] + 1 ELSE last
  <2>1. upto \in Nat /\ upto >= Len(hashes) + 1 /\ upto <= Height[tip] + 1
    <3>1. Len(hashes) <= Height[tip] /\ ChunkSize \in Nat \ {0}
      BY Zenon, <1>3, IndexConstants DEF AllHeadersChunk
    <3> QED BY <1>2, <3>1
  <2>2. CASE upto <= Len(active)
    <3>1. /\ hashes' = hashes \o SubSeq(active, Len(hashes) + 1, upto)
          /\ UNCHANGED <<active, tipChanges, store, hl, appTip, pc, panic, stops,
                         tip, cursor, new, written>>
      BY Zenon, <1>3, <2>2 DEF AllHeadersChunk, daemonVars
    <3> HIDE DEF upto
    <3> DEFINE t == SubSeq(active, Len(hashes) + 1, upto)
               m == upto - Len(hashes)
    <3>2. \A i \in Len(hashes) + 1 .. upto : active[i] \in Block /\ Height[active[i]] = i - 1
      <4> SUFFICES ASSUME NEW i \in Len(hashes) + 1 .. upto
                   PROVE  active[i] \in Block /\ Height[active[i]] = i - 1
        BY Zenon
      <4>1. i \in 1 .. Len(active)
        BY <1>2, <2>1, <2>2
      <4> QED BY Zenon, <1>2, <4>1, ElementOfSeq DEF IInv, IsChain
    <3>3. /\ t \in Seq(Block) /\ Len(t) = m /\ m \in Nat
          /\ \A i \in 1 .. m : t[i] = active[Len(hashes) + i]
      <4> DEFINE a == Len(hashes) + 1
      <4>1. a \in Int /\ upto \in Int /\ \A i \in a .. upto : active[i] \in Block
        <5>1. a \in Int /\ upto \in Int
          BY <1>2, <2>1
        <5> QED BY Zenon, <3>2, <5>1
      <4> HIDE DEF a
      <4>2. /\ SubSeq(active, a, upto) \in Seq(Block)
            /\ Len(SubSeq(active, a, upto)) = IF a <= upto THEN upto - a + 1 ELSE 0
            /\ \A i \in 1 .. upto - a + 1 : SubSeq(active, a, upto)[i] = active[a + i - 1]
        BY <4>1, SubSeqProperties
      <4>3. /\ a <= upto /\ upto - a + 1 = m /\ m \in Nat
            /\ \A i \in 1 .. m : a + i - 1 = Len(hashes) + i
        BY <1>2, <2>1 DEF a
      <4> QED BY Zenon, <4>2, <4>3 DEF a
    <3> HIDE DEF t
    <3>4. /\ hashes' \in Seq(Block) /\ Len(hashes') = upto
          /\ \A i \in 1 .. Len(hashes) + m :
               hashes'[i] = IF i <= Len(hashes) THEN hashes[i] ELSE t[i - Len(hashes)]
      <4>1. hashes' = hashes \o t
        BY Zenon, <3>1 DEF t
      <4>2. Len(hashes) + Len(t) = upto
        BY <1>2, <2>1, <3>3
      <4>3. /\ hashes \o t \in Seq(Block) /\ Len(hashes \o t) = Len(hashes) + Len(t)
            /\ \A i \in 1 .. Len(hashes) + Len(t) :
                 (hashes \o t)[i] = IF i <= Len(hashes) THEN hashes[i] ELSE t[i - Len(hashes)]
        BY ZenonT(60), <1>2, <3>3, ConcatProperties
      <4> QED BY Zenon, <3>3, <4>1, <4>2, <4>3
    <3>5. ASSUME NEW i \in 1 .. Len(hashes') PROVE Height[hashes'[i]] = i - 1
      <4>1. CASE i <= Len(hashes)
        <5>1. i \in 1 .. Len(hashes) /\ i \in 1 .. Len(hashes) + m
          BY <1>2, <2>1, <3>4, <4>1
        <5> QED BY Zenon, <1>1, <3>4, <4>1, <5>1 DEF AllInv
      <4>2. CASE i > Len(hashes)
        <5>1. i - Len(hashes) \in 1 .. m /\ i \in Len(hashes) + 1 .. upto
          BY <1>2, <2>1, <3>4, <4>2
        <5>2. hashes'[i] = t[i - Len(hashes)]
          <6>1. i \in 1 .. Len(hashes) + m /\ ~ (i <= Len(hashes))
            BY <1>2, <2>1, <3>4, <4>2
          <6> QED BY Zenon, <3>4, <6>1
        <5>3. t[i - Len(hashes)] = active[i]
          BY <1>2, <3>3, <5>1
        <5> QED BY <3>2, <5>1, <5>2, <5>3
      <4> QED BY <1>2, <2>1, <3>4, <4>1, <4>2
    <3>6. TypeOK'
      BY ZenonT(30), <1>1, <3>1, <3>4 DEF TypeOK
    <3>7. AllInv'
      BY Zenon, <1>1, <2>1, <3>1, <3>4, <3>5 DEF AllInv
    <3> QED BY Zenon, <1>1, <3>1, <3>6, <3>7, IInvParts DEF IInv, HeadersIndexed, NoIndexPanic
  <2>3. CASE ~ (upto <= Len(active))
    <3>1. Fail /\ stops' = stops
      BY ZenonT(30), <1>3, <2>3 DEF AllHeadersChunk
    <3>2. GoodStore(store')
      BY ZenonT(30), <1>1, <3>1, ReopenGood DEF Fail
    <3> QED BY Zenon, <1>1, <3>1, <3>2, EndedInv DEF Fail, TypeOK, IInv, NoIndexPanic
  <2> QED BY ZenonT(30), <2>2, <2>3
<1>4. CASE AllHeadersDone
  <2>1. CASE Linked(hashes) /\ Prev[hashes[1]] = NullHash /\ LastHash(hashes) = tip
    <3>1. OrderHeaders
      BY ZenonT(30), <1>4, <2>1 DEF AllHeadersDone
    <3>2. hashes # <<>> /\ Len(hashes) >= 1 /\ 1 \in 1 .. Len(hashes)
      BY <1>2, <1>4, EmptySeq DEF AllHeadersDone
    <3>3. hashes[Len(hashes)] = tip
      BY ZenonT(30), <2>1, <3>2 DEF LastHash
    <3>4. ASSUME NEW i \in 1 .. Len(hashes)
          PROVE  /\ Height[hashes[i]] = Height[hashes[1]] + i - 1
                 /\ i > 1 => Prev[hashes[i]] = hashes[i - 1]
      <4>1. Height[hashes[i]] = i - 1 /\ Height[hashes[1]] = 0
        BY <1>1, <3>2 DEF AllInv
      <4>2. i > 1 => i - 1 \in 1 .. Len(hashes) - 1 /\ (i - 1) + 1 = i
        BY <1>2
      <4>3. i > 1 => Prev[hashes[i]] = hashes[i - 1]
        BY <2>1, <4>2 DEF Linked
      <4> QED BY <1>2, <4>1, <4>3
    <3>5. Segment(hashes)
      BY ZenonT(30), <3>4 DEF Segment
    <3> QED BY ZenonT(30), <1>2, <2>1, <3>1, <3>2, <3>3, <3>5, OrderHeadersInv
  <2>2. CASE ~ (Linked(hashes) /\ Prev[hashes[1]] = NullHash /\ LastHash(hashes) = tip)
    <3>1. Panic("get_all_headers")
      BY <1>4, <2>2 DEF AllHeadersDone
    <3>2. GoodStore(store')
      BY <1>1, <3>1, ReopenGood DEF Panic
    <3> QED BY ZenonT(30), <1>1, <3>1, <3>2, EndedInv DEF Panic, TypeOK
  <2> QED BY ZenonT(30), <2>1, <2>2
<1> QED BY <1>3, <1>4
===============================================================================
