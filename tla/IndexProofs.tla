------------------------------ MODULE IndexProofs ------------------------------
(***************************************************************************)
(* The theorems about Index: the databases a crash can leave are           *)
(* recoverable, the header list stays exact and no assertion of the        *)
(* indexer fails, for every block tree, every marker interval and any      *)
(* number of stops.  Index implements ChainService: the initial states map *)
(* to initial ones, and every step to a step or to a stutter.  And the     *)
(* heights that the index has for the transactions of the served chain are *)
(* current, as long as no process was stopped.                             *)
(***************************************************************************)
EXTENDS IndexLemmas, IndexService

-------------------------------------------------------------------------------
(* The steps of indexing.                                                  *)

\* get_new_headers(): the walk back from the tip reaches a known header.
LEMMA WalkInv ==
  ASSUME IInv, WalkHeader \/ WalkDone
  PROVE  IInv'
<1>1. /\ GoodStore(store) /\ TypeOK /\ pc = "walk"
      /\ hl.headers # <<>> /\ tip \in Block /\ Walked(tip)
  BY IInvStore DEF IInv, WalkHeader, WalkDone
<1>2. /\ hashes \in Seq(Block) /\ Segment(hashes) /\ Len(hashes) \in Nat
      /\ hashes # <<>> => Len(hashes) >= 1
  BY <1>1, LenProperties, EmptySeq DEF TypeOK, Walked
<1>3. CASE WalkHeader
  <2>1. /\ hashes' = <<cursor>> \o hashes /\ cursor' = Prev[cursor]
        /\ UNCHANGED <<active, tipChanges, store, hl, appTip, pc, panic, stops, tip, new, written>>
    BY <1>3 DEF WalkHeader, daemonVars
  <2>2. cursor \in Block /\ Prev[cursor] \in Block \cup {NullHash}
    BY <1>1, <1>3, BlockTree DEF WalkHeader, TypeOK
  <2>3. /\ hashes' \in Seq(Block) /\ hashes' # <<>> /\ Segment(hashes')
        /\ hashes'[1] = cursor /\ Len(hashes') = Len(hashes) + 1
        /\ \A i \in 1 .. Len(hashes) : hashes'[i + 1] = hashes[i]
    BY ZenonT(60), <1>1, <1>2, <2>1, <2>2, PrependSegment DEF Walked
  <2>4. TypeOK'
    BY <1>1, <2>1, <2>2, <2>3 DEF TypeOK
  <2>5. hashes'[Len(hashes')] = tip
    BY <1>1, <1>2, <2>3, EmptySeq DEF Walked
  <2>6. Walked(tip)'
    BY <2>1, <2>3, <2>5 DEF Walked, Segment
  <2> QED BY Zenon, <1>1, <2>1, <2>4, <2>6, IInvParts DEF IInv, HeadersIndexed, NoIndexPanic
<1>4. CASE WalkDone
  <2>1. OrderHeaders /\ (cursor = NullHash \/ header_by_blockhash(hl, cursor))
    BY <1>4 DEF WalkDone
  <2>2. hashes = <<>> => header_by_blockhash(hl, tip)
    BY <1>1, <2>1, BlockTree DEF Walked
  <2>3. hashes # <<>> => /\ hashes[Len(hashes)] = tip
                         /\ Prev[hashes[1]] = NullHash \/ header_by_blockhash(hl, Prev[hashes[1]])
    BY ZenonT(60), <1>1, <2>1 DEF Walked
  <2> QED BY <1>1, <1>2, <2>1, <2>2, <2>3, OrderHeadersInv
<1> QED BY <1>3, <1>4

\* Writing the blocks in order: the predecessor of a block is in the database
\* when the block's rows are written.
LEMMA WriteStepInv ==
  ASSUME IInv, WriteBlock \/ WriteLast
  PROVE  IInv'
<1>1. GoodStore(store) /\ TypeOK /\ pc = "write" /\ WriteInv
  BY IInvStore DEF IInv, WriteBlock, WriteLast
<1>2. GoodDb(View(store)) /\ new \in Seq(Entry) /\ Len(new) \in Nat /\ written \in Nat
  BY <1>1, ReopenGood, LenProperties DEF TypeOK
<1>entries. \A i \in 1 .. Len(new) : new[i].height \in Nat /\ new[i].hash \in Block
  <2>1. \A i \in 1 .. Len(new) : new[i] \in Entry
    BY <1>2, ElementOfSeq
  <2> QED BY <2>1 DEF Entry
<1>3. CASE WriteBlock
  <2> DEFINE e == new[written + 1]
             b == e.hash
             V == View(store)
             d == index_block(V, b, Height[b])
             w == IF (written + 1) % MarkEvery = 0 THEN last_indexed_block(d, b) ELSE d
  <2>1. written + 1 \in 1 .. Len(new) /\ 1 \in 1 .. Len(new) /\ new # <<>>
    BY <1>2, <1>3, EmptySeq DEF WriteBlock
  <2>2. b \in Block /\ e.height = Height[b]
    BY ZenonT(30), <1>1, <1>entries, <2>1 DEF WriteInv, Continues
  <2>3. Prev[b] \in V.B \cup {NullHash}
    <3>1. CASE written = 0
      <4>1. b = new[1].hash
        BY <3>1
      <4>2. new[1].height \in Nat /\ new[1].height <= Len(hl.headers)
        BY ZenonT(60), <1>1, <1>entries, <2>1 DEF WriteInv, Continues
      <4>3. Prev[b] = IF new[1].height > 0 THEN hl.headers[new[1].height].hash ELSE NullHash
        BY <1>1, <2>1, <4>1 DEF WriteInv, Continues
      <4>4. Len(hl.headers) \in Nat
        BY <1>1, LenProperties DEF TypeOK, Lists
      <4>5. new[1].height > 0 => new[1].height \in 1 .. Len(hl.headers)
        BY <4>2, <4>4
      <4> QED BY <4>3, <4>5 DEF IInv, HeadersIndexed
    <3>2. CASE written > 0
      <4>1. written + 1 > 1 /\ (written + 1) - 1 = written /\ written \in 1 .. written
        BY <1>2, <3>2
      <4>2. Prev[b] = new[written].hash
        BY ZenonT(60), <1>1, <2>1, <4>1 DEF WriteInv, Continues
      <4> QED BY <1>1, <4>1, <4>2 DEF WriteInv
    <3> QED BY <1>2, <3>1, <3>2
  <2>4. GoodDb(d) /\ d.B = V.B \cup {b} /\ d.L = V.L
    BY <1>2, <2>2, <2>3, IndexBlockGood
  <2> HIDE DEF d
  <2>5. GoodDb(w) /\ w.B = V.B \cup {b} /\ w.L \in {V.L, b}
    BY ZenonT(60), <2>4, LastIndexedGood
  <2>6. /\ store' = write(store, w) /\ written' = written + 1
        /\ UNCHANGED <<active, tipChanges, hl, appTip, pc, panic, stops, tip, cursor, hashes, new>>
    BY Zenon, <1>3, <2>2 DEF WriteBlock, daemonVars, d
  <2> HIDE DEF w
  <2>7. GoodStore(store') /\ View(store') = w
    BY Zenon, <1>1, <2>5, <2>6, WriteGood
  <2>8. TypeOK'
    BY <1>1, <2>6, <2>7 DEF TypeOK, GoodStore
  <2>9. HeadersIndexed'
    BY ZenonT(30), <2>5, <2>6, <2>7 DEF IInv, HeadersIndexed
  <2>10. hl'.headers # <<>> => View(store').L # NullHash
    BY ZenonT(60), <2>2, <2>5, <2>6, <2>7, BlockTree DEF IInv
  <2>11. Continues(hl, new, tip)'
    BY <1>1, <2>6 DEF WriteInv, Continues, header_by_blockhash
  <2>12. ASSUME NEW i \in 1 .. written + 1 PROVE new[i].hash \in w.B
    <3>1. CASE i = written + 1
      BY <2>5, <3>1
    <3>2. CASE i # written + 1
      <4>1. i \in 1 .. written
        BY <1>2, <3>2
      <4> QED BY <1>1, <2>5, <4>1 DEF WriteInv
    <3> QED BY <3>1, <3>2
  <2>13. WriteInv'
    BY <1>1, <2>1, <2>6, <2>7, <2>11, <2>12 DEF WriteInv
  <2> QED BY ZenonT(60), <1>1, <2>6, <2>7, <2>8, <2>9, <2>10, <2>13, IInvParts DEF IInv, NoIndexPanic
<1>4. CASE WriteLast
  <2>1. /\ written = Len(new) /\ pc' = "apply"
        /\ UNCHANGED <<active, tipChanges, hl, appTip, panic, stops,
                       tip, cursor, hashes, new, written>>
    BY <1>4 DEF WriteLast, daemonVars, localVars
  <2>2. /\ GoodStore(store') /\ View(store').B = View(store).B
        /\ View(store').L # NullHash \/ View(store').L = View(store).L
        /\ new # <<>> => View(store').L # NullHash
    <3>1. CASE new = <<>>
      BY ZenonT(30), <1>1, <1>4, <3>1 DEF WriteLast
    <3>2. CASE new # <<>>
      <4> DEFINE b == new[Len(new)].hash
                 w == last_indexed_block(View(store), b)
      <4>1. Len(new) \in 1 .. Len(new)
        BY <1>2, <3>2, EmptySeq
      <4>2. b \in View(store).B /\ b \in Block
        BY Zenon, <1>1, <1>entries, <2>1, <4>1 DEF WriteInv
      <4>3. GoodDb(w) /\ w.B = View(store).B /\ w.L = b
        BY <1>2, <4>2, LastIndexedGood
      <4>4. store' = write(store, w)
        BY <1>4, <3>2 DEF WriteLast
      <4> HIDE DEF w
      <4>5. GoodStore(store') /\ View(store') = w
        BY ZenonT(30), <1>1, <4>3, <4>4, WriteGood
      <4> QED BY <4>2, <4>3, <4>5, BlockTree
    <3> QED BY <3>1, <3>2
  <2>3. TypeOK'
    BY <1>1, <2>1, <2>2 DEF TypeOK, GoodStore, Running
  <2>4. HeadersIndexed'
    BY Zenon, <2>1, <2>2 DEF IInv, HeadersIndexed
  <2>5. WriteInv'
    BY Zenon, <1>1, <2>1, <2>2 DEF WriteInv, Continues, header_by_blockhash
  <2> QED BY ZenonT(60), <1>1, <2>1, <2>2, <2>3, <2>4, <2>5, IInvParts DEF IInv, NoIndexPanic
<1> QED BY <1>3, <1>4

\* Publishing the list after its blocks are in the database, then the marker.
LEMMA PublishInv ==
  ASSUME IInv, ApplyHeaders \/ Compact \/ WriteMarker
  PROVE  IInv'
<1>1. GoodStore(store) /\ TypeOK /\ GoodDb(View(store))
  BY Zenon, IInvStore, ReopenGood DEF IInv
<1>2. CASE ApplyHeaders
  <2> DEFINE r == apply(hl, new, tip)
  <2>1. /\ WriteInv /\ written = Len(new) /\ (new # <<>> => View(store).L # NullHash)
        /\ hl \in Lists /\ ListOk(hl) /\ new \in Seq(Entry)
    BY ZenonT(60), <1>1, <1>2 DEF IInv, ApplyHeaders, TypeOK
  <2>2. /\ apply_ok(hl, new, tip) /\ r \in Lists /\ ListOk(r) /\ r.headers # <<>>
        /\ \A i \in 1 .. Len(r.headers) :
             \/ \E j \in 1 .. Len(hl.headers) : r.headers[i] = hl.headers[j]
             \/ \E j \in 1 .. Len(new) : r.headers[i] = new[j]
    BY ZenonT(60), <2>1, ApplyGood DEF WriteInv
  <2>3. /\ hl' = r /\ pc' \in {"idle", "compact"} /\ appTip' \in {appTip, tip}
        /\ tip' = NullHash /\ new' = <<>> /\ written' = 0
        /\ UNCHANGED <<active, tipChanges, store, panic, stops, cursor, hashes>>
    BY Zenon, <1>2, <2>2 DEF ApplyHeaders, daemonVars
  <2> HIDE DEF r
  <2>4. \A i \in 1 .. Len(r.headers) : r.headers[i].hash \in View(store).B
    BY Zenon, <2>1, <2>2 DEF IInv, HeadersIndexed, WriteInv
  <2>5. View(store).L # NullHash
    <3>1. CASE new = <<>>
      <4>1. Len(hl.headers) # 0
        <5>1. tip \in Block /\ header_by_blockhash(hl, tip)
          BY <2>1, <3>1 DEF WriteInv, Continues
        <5>2. Height[tip] + 1 \in 1 .. Len(hl.headers) /\ Height[tip] \in Nat
          BY <2>1, <5>1, FoundIff, BlockTree
        <5> QED BY SMTT(30), <5>2
      <4>2. Len(<<>>) = 0
        BY EmptySeq
      <4>3. hl.headers # <<>>
        BY <4>1, <4>2, Zenon
      <4> QED BY Zenon, <4>3 DEF IInv
    <3> QED BY <2>1, <3>1
  <2>6. TypeOK'
    BY Zenon, <1>1, <2>2, <2>3, EmptySeq DEF TypeOK, Running
  <2>7. HeadersIndexed'
    BY Zenon, <2>3, <2>4 DEF HeadersIndexed
  <2> QED BY ZenonT(60), <1>1, <2>2, <2>3, <2>5, <2>6, <2>7, IInvParts DEF IInv, NoIndexPanic
<1>3. CASE Compact
  <2>1. /\ pc' = "marker" /\ hl.headers # <<>>
        /\ UNCHANGED <<active, tipChanges, hl, appTip, panic, stops,
                       tip, cursor, hashes, new, written>>
    BY Zenon, <1>3 DEF Compact, daemonVars, localVars, IInv
  <2>2. GoodStore(store') /\ View(store') = View(store)
    BY <1>1, <1>3, ReopenGood DEF Compact
  <2>3. TypeOK'
    BY <1>1, <2>1, <2>2 DEF TypeOK, GoodStore, Running
  <2> QED BY ZenonT(60), <1>1, <2>1, <2>2, <2>3, IInvParts DEF IInv, HeadersIndexed, NoIndexPanic
<1>4. CASE WriteMarker
  <2> DEFINE w == full_compaction_marker(View(store))
  <2>1. /\ pc' = "idle" /\ hl.headers # <<>>
        /\ UNCHANGED <<active, tipChanges, hl, appTip, panic, stops,
                       tip, cursor, hashes, new, written>>
        /\ View(store).L # NullHash
    BY Zenon, <1>4 DEF WriteMarker, daemonVars, localVars, IInv
  <2>2. GoodDb(w) /\ w.B = View(store).B /\ w.L = View(store).L
    <3>1. w \in Database /\ w.B = View(store).B /\ w.L = View(store).L /\ w.T = View(store).T
      BY Zenon, <1>1 DEF full_compaction_marker, GoodDb, Database
    <3> QED BY ZenonT(60), <1>1, <2>1, <3>1 DEF GoodDb, Walkable, RowsMatch
  <2>3. GoodStore(store') /\ View(store') = w
    BY ZenonT(30), <1>4, <2>2, OneGood DEF WriteMarker
  <2> HIDE DEF w
  <2>4. TypeOK'
    BY ZenonT(30), <1>1, <2>1, <2>3 DEF TypeOK, GoodStore, Running
  <2>5. HeadersIndexed'
    BY <2>1, <2>2, <2>3 DEF IInv, HeadersIndexed
  <2> QED BY ZenonT(60), <1>1, <2>1, <2>2, <2>3, <2>4, <2>5, IInvParts DEF IInv, NoIndexPanic
<1> QED BY <1>2, <1>3, <1>4

-------------------------------------------------------------------------------
(* The theorems.                                                           *)

\* IInv holds in every reachable state, for every block tree, chunk size and
\* marker interval, wherever processes are stopped and however the daemon's
\* chain changes.
THEOREM IndexInvariant == Spec => []IInv
<1>1. IInv /\ [Next]_vars => IInv'
  <2> SUFFICES ASSUME IInv, [Next]_vars PROVE IInv'
    OBVIOUS
  <2>1. CASE Next
    BY ZenonT(30), <2>1, EnvironmentInv, LoadStepInv, UpdateStartInv, AllHeadersInv, WalkInv,
       WriteStepInv, PublishInv DEF Next, Step
  <2>2. CASE UNCHANGED vars
    <3>1. TypeOK' /\ active' # <<>> /\ IsChain(active')
      BY ZenonT(30), <2>2 DEF vars, IInv, TypeOK
    <3>2. GoodStore(store') /\ ListOk(hl') /\ HeadersIndexed' /\ NoIndexPanic'
      BY ZenonT(60), <2>2, IInvStore DEF vars, IInv, HeadersIndexed, NoIndexPanic
    <3>3. /\ pc' = "load" => LoadInv'
          /\ pc' = "all" => AllInv'
          /\ pc' = "walk" => hl'.headers # <<>> /\ tip' \in Block /\ Walked(tip)'
      BY ZenonT(60), <2>2 DEF vars, IInv, LoadInv, AllInv, Walked
    <3>4. pc' \in {"write", "apply"} => WriteInv'
      BY ZenonT(60), <2>2 DEF vars, IInv, WriteInv
    <3>5. /\ hl'.headers # <<>> => View(store').L # NullHash
          /\ pc' \in {"down", "load"} => hl' = empty
          /\ pc' = "apply" => written' = Len(new') /\ (new' # <<>> => View(store').L # NullHash)
          /\ pc' \in {"compact", "marker"} => hl'.headers # <<>>
      BY <2>2 DEF vars, IInv
    <3> QED BY ZenonT(60), <3>1, <3>2, <3>3, <3>4, <3>5, IInvParts
  <2> QED BY <2>1, <2>2
<1> QED BY <1>1, InitInv, PTL DEF Spec

\* Every state has the types of the code's structures.
THEOREM IndexTypes == Spec => []TypeOK
<1>1. IInv => TypeOK
  BY ZenonT(30) DEF IInv
<1> QED BY <1>1, IndexInvariant, PTL

\* Crash consistency of Index::update(): in every database a crash can leave,
\* read_indexed_headers() finds each header on its way from the L row.
THEOREM CrashConsistency == Spec => []Recoverable
<1>1. IInv => Recoverable
  BY ZenonT(30) DEF IInv
<1> QED BY <1>1, IndexInvariant, PTL

\* The rows of a block are written together: no crash separates a B row from
\* the T rows of its transactions.
THEOREM RowsAtomic == Spec => []RowsComplete
<1>1. IInv => RowsComplete
  BY DEF IInv
<1> QED BY <1>1, IndexInvariant, PTL

\* The header list answers exactly for the blocks of its chain, in spite of
\* the stale keys of its `heights' map.
THEOREM HeaderListExact == Spec => []HeadersExact
<1>1. IInv => HeadersExact
  <2> SUFFICES ASSUME IInv PROVE HeadersExact
    OBVIOUS
  <2>1. hl \in Lists /\ ListOk(hl)
    BY Zenon DEF IInv, TypeOK
  <2> QED BY ZenonT(60), <2>1, FoundIff DEF HeadersExact, ListOk
<1> QED BY <1>1, IndexInvariant, PTL

\* The blocks of the published chain are in the database that queries read.
THEOREM ServedBlocksIndexed == Spec => []HeadersIndexed
<1>1. IInv => HeadersIndexed
  BY Zenon DEF IInv
<1> QED BY <1>1, IndexInvariant, PTL

\* No assertion of order(), apply() or read_indexed_headers() ever fails.
THEOREM NoAssertionFails == Spec => []NoIndexPanic
<1>1. IInv => NoIndexPanic
  BY ZenonT(30) DEF IInv
<1> QED BY <1>1, IndexInvariant, PTL

\* The full compaction marker is never on disk without an imported chain.
THEOREM MarkerImpliesImport == Spec => []MarkerAfterImport
<1>1. IInv => MarkerAfterImport
  BY DEF IInv
<1> QED BY <1>1, IndexInvariant, PTL

-------------------------------------------------------------------------------
(* The refinement.                                                         *)

\* A step that leaves the list, the tip, the daemon and the B rows alone changes
\* nothing that readers see.
LEMMA Unseen ==
  ASSUME UNCHANGED <<hl, tip>>, View(store').B = View(store).B
  PROVE  Service!DaemonMoves
<1>1. served' = served
  BY DEF served
<1> QED BY <1>1 DEF Service!DaemonMoves

\* The end of the process, with the database it leaves.
LEMMA EndStep ==
  ASSUME Ended, View(store').B \subseteq View(store).B
  PROVE  Service!End
<1>1. served' = <<>>
  <2>1. hl'.headers = <<>>
    BY EmptyList DEF Ended
  <2> QED BY <2>1, EmptyList DEF served
<1> QED BY <1>1 DEF Ended, Service!End, daemonVars

\* A list that is a chain of indexed blocks serves such a chain.
LEMMA ServedChain ==
  ASSUME NEW l \in Lists, ListOk(l), NEW S, \A i \in 1 .. Len(l.headers) : l.headers[i].hash \in S,
         NEW c, c = [i \in 1 .. Len(l.headers) |-> l.headers[i].hash]
  PROVE  /\ Service!IsChainIn(c, S)
         /\ Len(c) = Len(l.headers)
         /\ l.headers # <<>> => c # <<>> /\ c[Len(c)] = tiphash(l)
<1>1. Len(l.headers) \in Nat
  BY ZenonT(30), LenProperties DEF Lists
<1>2. Len(c) = Len(l.headers) /\ \A i \in 1 .. Len(c) : c[i] = l.headers[i].hash
  BY <1>1
<1>3. ASSUME NEW i \in 1 .. Len(c)
      PROVE  c[i] \in S /\ Prev[c[i]] = IF i = 1 THEN NullHash ELSE c[i - 1]
  <2>1. i # 1 => i - 1 \in 1 .. Len(c)
    BY <1>1, <1>2
  <2>2. Prev[l.headers[i].hash] = IF i = 1 THEN NullHash ELSE l.headers[i - 1].hash
    BY ZenonT(30), <1>2 DEF ListOk
  <2> QED BY ZenonT(30), <1>2, <2>1, <2>2
<1>4. ASSUME l.headers # <<>> PROVE c # <<>> /\ c[Len(c)] = tiphash(l)
  <2>1. Len(l.headers) \in 1 .. Len(l.headers)
    BY <1>1, <1>4, EmptySeq DEF Lists
  <2>2. c # <<>>
    BY <1>2, <2>1, EmptySeq
  <2> QED BY ZenonT(30), <1>2, <1>4, <2>1, <2>2 DEF tiphash
<1> QED BY <1>2, <1>3, <1>4, Zenon DEF Service!IsChainIn

\* Another batch on top shows no less.
LEMMA WriteSeen ==
  ASSUME NEW s, GoodStore(s), Seen(s), NEW db, GoodDb(db), View(s).B \subseteq db.B
  PROVE  Seen(write(s, db)) /\ View(write(s, db)) = db
<1>1. /\ Len(Append(s, db)) = Len(s) + 1
      /\ \A i \in 1 .. Len(s) : Append(s, db)[i] = s[i]
      /\ Append(s, db)[Len(s) + 1] = db
  BY AppendProperties DEF GoodStore, GoodDb
<1>2. Len(s) \in Nat
  BY LenProperties DEF GoodStore
<1>3. View(write(s, db)) = db
  BY <1>1 DEF View, write
<1>4. ASSUME NEW i \in 1 .. Len(s) + 1 PROVE Append(s, db)[i].B \subseteq db.B
  <2>1. CASE i \in 1 .. Len(s)
    BY ZenonT(30), <1>1, <2>1 DEF Seen
  <2>2. CASE i = Len(s) + 1
    BY ZenonT(30), <1>1, <2>2
  <2> QED BY <1>2, <2>1, <2>2
<1> QED BY ZenonT(30), <1>1, <1>3, <1>4 DEF Seen, write

\* A memtable flush only forgets older databases.
LEMMA FlushedSeen ==
  ASSUME NEW s, GoodStore(s), Seen(s), NEW i \in 1 .. Len(s)
  PROVE  Seen(Flushed(s, i)) /\ View(Flushed(s, i)) = View(s)
<1>1. Len(s) \in Nat /\ \A j \in i .. Len(s) : s[j] \in Database
  BY LenProperties, ElementOfSeq DEF GoodStore
<1>2. /\ Len(SubSeq(s, i, Len(s))) = Len(s) - i + 1
      /\ \A j \in 1 .. Len(s) - i + 1 : SubSeq(s, i, Len(s))[j] = s[i + j - 1]
  BY <1>1, SubSeqProperties
<1>3. View(Flushed(s, i)) = View(s)
  BY FlushedGood
<1>4. ASSUME NEW j \in 1 .. Len(s) - i + 1 PROVE SubSeq(s, i, Len(s))[j].B \subseteq View(s).B
  <2>1. i + j - 1 \in 1 .. Len(s)
    BY <1>1
  <2> QED BY <1>2, <2>1 DEF Seen
<1> QED BY <1>2, <1>3, <1>4 DEF Seen, Flushed

\* A store of one database, as closing, compacting or crashing leaves it.
LEMMA OneSeen ==
  ASSUME NEW db
  PROVE  Seen(<<db>>) /\ View(<<db>>) = db
<1>1. Len(<<db>>) = 1 /\ <<db>>[1] = db
  OBVIOUS
<1> QED BY <1>1 DEF Seen, View

\* What closing and crashing leave.
LEMMA ReopenSeen ==
  ASSUME NEW s, GoodStore(s), Seen(s)
  PROVE  /\ Seen(Closed(s)) /\ View(Closed(s)) = View(s)
         /\ Seen(Crashed(s)) /\ View(Crashed(s)).B \subseteq View(s).B
<1>1. 1 \in 1 .. Len(s)
  BY LenProperties, EmptySeq DEF GoodStore
<1>2. s[1].B \subseteq View(s).B
  BY <1>1 DEF Seen
<1> QED BY <1>2, OneSeen DEF Closed, Crashed

\* A failure or a panic ends the process and closes or loses the memtable.
LEMMA FailureStep ==
  ASSUME IInv, ReadersInv, Ended, store' \in {Closed(store), Crashed(store)}
  PROVE  ReadersInv' /\ Service!Next
<1>1. GoodStore(store) /\ Seen(store)
  BY ZenonT(30), IInvStore DEF ReadersInv
<1>2. Seen(store') /\ View(store').B \subseteq View(store).B
  BY ZenonT(30), <1>1, ReopenSeen
<1>3. Service!End
  BY <1>2, EndStep
<1> QED BY <1>2, <1>3 DEF ReadersInv, Ended, Service!Next

\* A step of the process that changes neither list nor tip nor B rows.
LEMMA InnerStep ==
  ASSUME ReadersInv, UNCHANGED <<hl, tip>>, Seen(store'), View(store').B = View(store).B,
         pc' \in {"down", "load"} => pc \in {"down", "load"}
  PROVE  ReadersInv' /\ Service!Next
<1>1. Service!DaemonMoves
  BY Unseen
<1> QED BY <1>1 DEF ReadersInv, Service!Next

\* The daemon, RocksDB, crashes, stops and the start.
LEMMA EnvironmentRefines ==
  ASSUME IInv, ReadersInv, ChainChange \/ FlushMemtable \/ Crash \/ Stop \/ Start
  PROVE  ReadersInv' /\ Service!Next
<1>1. GoodStore(store) /\ Seen(store)
  BY ZenonT(30), IInvStore DEF ReadersInv
<1>2. CASE ChainChange \/ Start
  BY ZenonT(30), <1>1, <1>2, InnerStep DEF ChainChange, Start, localVars
<1>3. CASE FlushMemtable
  <2>1. PICK i \in 2 .. Len(store) : store' = Flushed(store, i)
    BY <1>3 DEF FlushMemtable
  <2>2. i \in 1 .. Len(store)
    BY <1>1, LenProperties DEF GoodStore
  <2>3. Seen(store') /\ View(store') = View(store)
    BY ZenonT(30), <1>1, <2>1, <2>2, FlushedSeen
  <2> QED BY <1>3, <2>3, InnerStep DEF FlushMemtable, localVars
<1>4. CASE Crash \/ Stop
  BY <1>4, FailureStep DEF Crash, Stop, Fail
<1> QED BY ZenonT(30), <1>2, <1>3, <1>4

\* Loading: the first chain of a process.
LEMMA LoadRefines ==
  ASSUME IInv, IInv', ReadersInv, LoadHeader \/ LoadDone
  PROVE  ReadersInv' /\ Service!Next
<1>1. GoodStore(store) /\ Seen(store) /\ pc = "load" /\ tip = NullHash /\ hl = empty
  BY IInvStore, Zenon DEF ReadersInv, IInv, LoadHeader, LoadDone
<1>2. CASE Ended /\ store' \in {Closed(store), Crashed(store)}
  BY <1>2, FailureStep
<1>3. CASE UNCHANGED <<hl, tip, store>>
  BY <1>1, <1>3, InnerStep
<1>4. CASE UNCHANGED <<active, tip, store>> /\ pc' \in {"idle", "update"}
  <2>1. hl' \in Lists /\ ListOk(hl') /\ \A i \in 1 .. Len(hl'.headers) : hl'.headers[i].hash \in View(store).B
    BY ZenonT(60), <1>4 DEF IInv, TypeOK, HeadersIndexed
  <2>2. Service!IsChainIn(served', View(store).B)
    BY <2>1, ServedChain DEF served
  <2>3. served = <<>>
    BY <1>1, EmptyList DEF served
  <2>4. Service!Load
    BY ZenonT(30), <1>1, <1>4, <2>2, <2>3 DEF Service!Load
  <2> QED BY ZenonT(30), <1>1, <1>4, <2>4 DEF ReadersInv, Service!Next
<1> QED BY <1>2, <1>3, <1>4, Zenon DEF LoadHeader, LoadDone, Panic, daemonVars

\* Asking the daemon for its best block and for headers.
LEMMA RequestRefines ==
  ASSUME IInv, ReadersInv,
         AppUpdate \/ UpdateStart \/ AllHeadersChunk \/ AllHeadersDone \/ WalkHeader \/ WalkDone
  PROVE  ReadersInv' /\ Service!Next
<1>1. Seen(store)
  BY DEF ReadersInv
<1>2. CASE Ended /\ store' \in {Closed(store), Crashed(store)}
  BY ZenonT(30), <1>2, FailureStep
<1>3. CASE UNCHANGED <<hl, tip, store>> /\ pc' \notin {"down", "load"}
  BY ZenonT(30), <1>1, <1>3, InnerStep
<1>4. CASE UpdateStart
  <2>1. Service!Aim
    BY <1>4 DEF UpdateStart, best, served, daemonVars, Service!Aim
  <2> QED BY ZenonT(60), <1>1, <1>4, <2>1 DEF UpdateStart, ReadersInv, Service!Next
<1>5. OrderHeaders => \/ UNCHANGED <<hl, tip, store>> /\ pc' \notin {"down", "load"}
                      \/ Ended /\ store' \in {Closed(store), Crashed(store)}
  BY ZenonT(30) DEF OrderHeaders, Panic
<1> QED BY ZenonT(30), <1>2, <1>3, <1>4, <1>5
        DEF AppUpdate, AllHeadersChunk, AllHeadersDone, WalkHeader, WalkDone, Panic, Fail, localVars
\* When a block is written, its predecessor is in the database.
LEMMA NextHasPredecessor ==
  ASSUME IInv, WriteInv, written + 1 \in 1 .. Len(new), written \in Nat,
         new # <<>>, new[1].height \in Nat
  PROVE  Prev[new[written + 1].hash] \in View(store).B \cup {NullHash}
<1> DEFINE b == new[written + 1].hash
<1>1. Len(hl.headers) \in Nat
  BY ZenonT(60), LenProperties DEF IInv, TypeOK, Lists
<1>2. CASE written = 0
  <2>1. Prev[b] = IF new[1].height > 0 THEN hl.headers[new[1].height].hash ELSE NullHash
    BY <1>2 DEF WriteInv, Continues
  <2>2. new[1].height > 0 => new[1].height \in 1 .. Len(hl.headers)
    BY <1>1 DEF WriteInv, Continues
  <2> QED BY ZenonT(60), <2>1, <2>2 DEF IInv, HeadersIndexed
<1>3. CASE written > 0
  <2>1. written + 1 > 1 /\ (written + 1) - 1 = written /\ written \in 1 .. written
    BY <1>3
  <2>2. Prev[b] = new[written].hash
    BY Zenon, <2>1 DEF WriteInv, Continues
  <2> QED BY <2>1, <2>2 DEF WriteInv
<1> QED BY <1>2, <1>3

\* Writing: rows of one more block, after those of its predecessor; the L row and the
\* marker are no rows of a block.
LEMMA WriteRefines ==
  ASSUME IInv, ReadersInv, WriteBlock \/ WriteLast \/ Compact \/ WriteMarker
  PROVE  ReadersInv' /\ Service!Next
<1>1. GoodStore(store) /\ Seen(store) /\ TypeOK /\ GoodDb(View(store))
  BY Zenon, IInvStore, ReopenGood DEF IInv, ReadersInv
<1>2. CASE WriteBlock
  <2>1. WriteInv /\ tip \in Block /\ tip # NullHash /\ written < Len(new)
    <3>1. WriteInv /\ written < Len(new)
      BY Zenon, <1>2 DEF WriteBlock, IInv
    <3> QED BY <3>1, BlockTree DEF WriteInv
  <2>2. /\ written + 1 \in 1 .. Len(new) /\ 1 \in 1 .. Len(new) /\ new # <<>>
        /\ written \in Nat
        /\ \A i \in 1 .. Len(new) : new[i].height \in Nat /\ new[i].hash \in Block
    <3>1. new \in Seq(Entry) /\ Len(new) \in Nat /\ written \in Nat
      BY <1>1, LenProperties DEF TypeOK
    <3>2. \A i \in 1 .. Len(new) : new[i] \in Entry
      BY ZenonT(30), <3>1, ElementOfSeq
    <3>3. \A i \in 1 .. Len(new) : new[i].height \in Nat /\ new[i].hash \in Block
      BY <3>2 DEF Entry
    <3> QED BY <2>1, <3>1, <3>3, EmptySeq
  <2>3. \A i \in 1 .. Len(new) : new[i].height = Height[new[i].hash]
    BY Zenon, <2>1 DEF WriteInv, Continues
  <2> DEFINE e == new[written + 1]
             b == e.hash
             V == View(store)
             d == index_block(V, b, Height[b])
             w == IF (written + 1) % MarkEvery = 0 THEN last_indexed_block(d, b) ELSE d
  <2>4. b \in Block /\ e.height = Height[b]
    BY Zenon, <2>2, <2>3
  <2>5. Prev[b] \in V.B \cup {NullHash}
    BY ZenonT(60), <1>1, <2>1, <2>2, NextHasPredecessor
  <2>6. GoodDb(d) /\ d.B = V.B \cup {b}
    BY <1>1, <2>4, <2>5, IndexBlockGood
  <2> HIDE DEF d
  <2>7. GoodDb(w) /\ w.B = V.B \cup {b}
    BY Zenon, <2>6, LastIndexedGood
  <2>8. /\ store' = write(store, w) /\ pc' = pc
        /\ UNCHANGED <<active, hl, tip>>
    BY Zenon, <1>2, <2>4 DEF WriteBlock, daemonVars, d
  <2> HIDE DEF w
  <2>9. Seen(store') /\ View(store').B = V.B \cup {b}
    BY ZenonT(30), <1>1, <2>7, <2>8, WriteSeen
  <2>10. served' = served
    BY ZenonT(30), <2>8 DEF served
  <2>11. Service!IndexBlock
    BY ZenonT(30), <2>1, <2>4, <2>5, <2>8, <2>9, <2>10 DEF Service!IndexBlock
  <2> QED BY ZenonT(30), <2>8, <2>9, <2>11 DEF ReadersInv, Service!Next
<1>3. CASE WriteLast
  <2>1. UNCHANGED <<hl, tip>> /\ pc' = "apply"
    BY <1>3 DEF WriteLast, localVars
  <2>2. Seen(store') /\ View(store').B = View(store).B
    <3>1. CASE new = <<>>
      BY ZenonT(30), <1>1, <1>3, <3>1 DEF WriteLast
    <3>2. CASE new # <<>>
      <4> DEFINE b == new[Len(new)].hash
                 w == last_indexed_block(View(store), b)
      <4>1. WriteInv /\ written = Len(new)
        BY ZenonT(30), <1>3 DEF WriteLast, IInv
      <4>2. Len(new) \in 1 .. Len(new)
        BY <1>1, <3>2, LenProperties, EmptySeq DEF TypeOK
      <4>3. b \in View(store).B
        BY ZenonT(60), <4>1, <4>2 DEF WriteInv
      <4>4. GoodDb(w) /\ w.B = View(store).B
        BY <1>1, <4>3, LastIndexedGood
      <4>5. store' = write(store, w)
        BY ZenonT(30), <1>3, <3>2 DEF WriteLast
      <4> HIDE DEF w
      <4> QED BY ZenonT(30), <1>1, <4>4, <4>5, WriteSeen
    <3> QED BY ZenonT(30), <3>1, <3>2
  <2> QED BY ZenonT(30), <2>1, <2>2, InnerStep
<1>4. CASE Compact
  <2>1. Seen(store') /\ View(store') = View(store)
    BY ZenonT(30), <1>1, <1>4, ReopenSeen DEF Compact
  <2> QED BY ZenonT(30), <1>4, <2>1, InnerStep DEF Compact, localVars
<1>5. CASE WriteMarker
  <2>1. Seen(store') /\ View(store') = full_compaction_marker(View(store))
    BY <1>5, OneSeen DEF WriteMarker
  <2>2. View(store').B = View(store).B
    BY Zenon, <1>1, <2>1 DEF full_compaction_marker, GoodDb, Database
  <2> QED BY <1>5, <2>1, <2>2, InnerStep DEF WriteMarker, localVars
<1> QED BY <1>2, <1>3, <1>4, <1>5

\* Publishing: a whole chain of indexed blocks, up to the block that was aimed at.
LEMMA PublishRefines ==
  ASSUME IInv, IInv', ReadersInv, ApplyHeaders
  PROVE  ReadersInv' /\ Service!Next
<1> DEFINE r == apply(hl, new, tip)
<1>1. /\ WriteInv /\ hl \in Lists /\ ListOk(hl) /\ new \in Seq(Entry) /\ tip \in Block
  BY Zenon DEF IInv, ApplyHeaders, TypeOK, WriteInv
<1>2. apply_ok(hl, new, tip) /\ r.headers # <<>> /\ tiphash(r) = tip
  BY ZenonT(60), <1>1, ApplyGood DEF WriteInv
<1>3. /\ hl' = r /\ pc' \in {"idle", "compact"} /\ tip' = NullHash
      /\ UNCHANGED <<active, store>>
  BY Zenon, <1>2 DEF ApplyHeaders, daemonVars
<1> HIDE DEF r
<1>4. /\ hl' \in Lists /\ ListOk(hl')
      /\ \A i \in 1 .. Len(hl'.headers) : hl'.headers[i].hash \in View(store).B
  BY ZenonT(60), <1>3 DEF IInv, TypeOK, HeadersIndexed
<1>5. /\ Service!IsChainIn(served', View(store).B)
      /\ served' # <<>> /\ served'[Len(served')] = tip
  BY <1>2, <1>3, <1>4, ServedChain, ZenonT(60) DEF served
<1>6. Service!Publish
  BY <1>1, <1>3, <1>5, BlockTree DEF Service!Publish
<1> QED BY <1>3, <1>6 DEF ReadersInv, Service!Next

\* ReadersInv holds initially, every step preserves it, and every step is one that
\* readers may see.
LEMMA ReadersStep ==
  /\ Init => ReadersInv /\ Service!Init
  /\ IInv /\ IInv' /\ ReadersInv /\ [Next]_vars => ReadersInv' /\ [Service!Next]_(Service!vars)
<1>1. Init => ReadersInv /\ Service!Init
  <2> SUFFICES ASSUME Init PROVE ReadersInv /\ Service!Init
    OBVIOUS
  <2>1. Seen(store) /\ View(store) = EmptyDatabase
    BY OneSeen DEF Init
  <2>2. served = <<>>
    BY EmptyList DEF Init, served
  <2>3. View(store).B = {} /\ tip = NullHash
    BY <2>1 DEF Init, EmptyDatabase
  <2> QED BY Zenon, <2>1, <2>2, <2>3 DEF ReadersInv, Service!Init
<1>2. IInv /\ IInv' /\ ReadersInv /\ [Next]_vars => ReadersInv' /\ [Service!Next]_(Service!vars)
  <2> SUFFICES ASSUME IInv, IInv', ReadersInv, [Next]_vars
               PROVE  ReadersInv' /\ [Service!Next]_(Service!vars)
    OBVIOUS
  <2>1. CASE Next
    BY ZenonT(60), <2>1, EnvironmentRefines, LoadRefines, RequestRefines, WriteRefines, PublishRefines
    DEF Next, Step
  <2>2. CASE UNCHANGED vars
    BY <2>2 DEF vars, ReadersInv, Service!vars, served
  <2> QED BY <2>1, <2>2
<1> QED BY <1>1, <1>2

\* What readers see is never less than what a crash would leave them.
LEMMA ReadersInvariant == Spec => []ReadersInv
BY ReadersStep, IndexInvariant, PTL DEF Spec

\* Index implements ChainService: what clients read through the header list and the
\* database is what the abstract service allows, for every block tree, every chunk
\* size and marker interval, and any number of crashes and chain changes.
THEOREM IndexImplements == Spec => ServesChain
BY ReadersStep, IndexInvariant, PTL DEF Spec, ServesChain, Service!Spec

-------------------------------------------------------------------------------
(* The heights of the T rows.                                              *)

\* The T rows of the first n blocks of a list have the heights of the list.
HeightsUpTo(db, l, n) ==
  \A i \in 1 .. Len(l.headers) :
    i <= n => \A t \in TxsOf[l.headers[i].hash] : db.T[t] = l.headers[i].height

\* Without a crash or a stop so far: the rows of the served chain are current, and
\* while an update writes, those of the chain it is about to publish, up to the last
\* block written.  Nothing is indexed as long as no chain is served.
HeightsInv ==
  stops = 0 =>
    IF pc \in {"write", "apply"}
    THEN HeightsUpTo(View(store), apply(hl, new, tip), kept(hl, new, tip) + written)
    ELSE /\ HeightsUpTo(View(store), hl, Len(hl.headers))
         /\ hl.headers = <<>> => View(store).B = {}

\* No two blocks of a list have a transaction in common.
LEMMA ListTxs ==
  ASSUME NEW l \in Lists, ListOk(l), NEW i \in 1 .. Len(l.headers), NEW j \in 1 .. Len(l.headers),
         i # j
  PROVE  TxsOf[l.headers[i].hash] \cap TxsOf[l.headers[j].hash] = {}
<1> DEFINE S == {l.headers[k].hash : k \in 1 .. Len(l.headers)}
<1>1. Len(l.headers) \in Nat /\ \A k \in 1 .. Len(l.headers) : l.headers[k].hash \in Block
  <2>1. Len(l.headers) \in Nat /\ \A k \in 1 .. Len(l.headers) : l.headers[k] \in Entry
    BY ZenonT(30), LenProperties, ElementOfSeq DEF Lists
  <2> QED BY <2>1 DEF Entry
<1>2. S \in SUBSET Block
  BY ZenonT(30), <1>1
<1>3. \A b \in S : Prev[b] \in S \cup {NullHash}
  <2> SUFFICES ASSUME NEW k \in 1 .. Len(l.headers)
               PROVE  Prev[l.headers[k].hash] \in S \cup {NullHash}
    BY Zenon
  <2>1. Prev[l.headers[k].hash] = IF k = 1 THEN NullHash ELSE l.headers[k - 1].hash
    BY Zenon DEF ListOk
  <2>2. k # 1 => k - 1 \in 1 .. Len(l.headers)
    BY <1>1
  <2> QED BY ZenonT(30), <2>1, <2>2
<1>4. ASSUME NEW k \in 1 .. Len(l.headers), NEW m \in 1 .. Len(l.headers),
             Height[l.headers[k].hash] = Height[l.headers[m].hash]
      PROVE  k = m
  <2>1. Height[l.headers[k].hash] = k - 1 /\ Height[l.headers[m].hash] = m - 1
    BY Zenon DEF ListOk
  <2>2. k \in Int /\ m \in Int
    BY <1>1
  <2>3. k - 1 = m - 1
    BY <1>4, <2>1, Zenon
  <2> QED BY <2>2, <2>3
<1>5. \A b, c \in S : Height[b] = Height[c] => b = c
  <2> SUFFICES ASSUME NEW b \in S, NEW c \in S, Height[b] = Height[c] PROVE b = c
    BY Zenon
  <2>1. PICK k \in 1 .. Len(l.headers) : l.headers[k].hash = b
    BY Zenon
  <2>2. PICK m \in 1 .. Len(l.headers) : l.headers[m].hash = c
    BY Zenon
  <2>3. k = m
    BY Zenon, <1>4, <2>1, <2>2
  <2> QED BY Zenon, <2>1, <2>2, <2>3
<1>6. Branch(S)
  BY ZenonT(60), <1>3, <1>5 DEF Branch
<1>7. l.headers[i].hash \in S /\ l.headers[j].hash \in S /\ l.headers[i].hash # l.headers[j].hash
  BY <1>4
<1> HIDE DEF S
<1> QED BY ZenonT(60), <1>2, <1>6, <1>7, TxsOnce

\* A step that touches neither the lists nor the rows of blocks.
LEMMA HeightsKept ==
  ASSUME HeightsInv, UNCHANGED <<hl, stops>>, View(store').B = View(store).B,
         View(store').T = View(store).T,
         \/ pc \notin {"write", "apply"} /\ pc' \notin {"write", "apply"}
         \/ /\ pc \in {"write", "apply"} /\ pc' \in {"write", "apply"}
            /\ UNCHANGED <<new, tip, written>>
  PROVE  HeightsInv'
<1> SUFFICES ASSUME stops' = 0
             PROVE  IF pc' \in {"write", "apply"}
                    THEN HeightsUpTo(View(store'), apply(hl', new', tip'), kept(hl', new', tip') + written')
                    ELSE /\ HeightsUpTo(View(store'), hl', Len(hl'.headers))
                         /\ hl'.headers = <<>> => View(store').B = {}
  BY ZenonT(30) DEF HeightsInv
<1>1. CASE pc \notin {"write", "apply"} /\ pc' \notin {"write", "apply"}
  <2>1. HeightsUpTo(View(store), hl, Len(hl.headers)) /\ (hl.headers = <<>> => View(store).B = {})
    BY <1>1, Zenon DEF HeightsInv
  <2> QED BY <1>1, <2>1, ZenonT(60) DEF HeightsUpTo
<1>2. CASE /\ pc \in {"write", "apply"} /\ pc' \in {"write", "apply"}
           /\ UNCHANGED <<new, tip, written>>
  <2> DEFINE r == apply(hl, new, tip)
             n == kept(hl, new, tip) + written
  <2>1. HeightsUpTo(View(store), r, n)
    BY <1>2, Zenon DEF HeightsInv
  <2>2. apply(hl', new', tip') = r /\ kept(hl', new', tip') + written' = n
    BY <1>2
  <2> HIDE DEF r, n
  <2>3. HeightsUpTo(View(store'), r, n)
    BY <2>1, Zenon DEF HeightsUpTo
  <2> QED BY <1>2, <2>2, <2>3, Zenon
<1> QED BY ZenonT(30), <1>1, <1>2

\* The process ends before it served a chain.
LEMMA HeightsEnded ==
  ASSUME Ended, View(store).B = {}, View(store').B \subseteq View(store).B
  PROVE  HeightsInv'
<1>1. hl' = empty /\ pc' = "down" /\ View(store').B = {}
  BY DEF Ended
<1>2. HeightsUpTo(View(store'), hl', Len(hl'.headers))
  BY <1>1, EmptyList DEF HeightsUpTo
<1> QED BY <1>1, <1>2, Zenon DEF HeightsInv

\* The daemon, RocksDB, crashes, stops and the start.
LEMMA EnvironmentHeights ==
  ASSUME IInv, ReadersInv, HeightsInv, ChainChange \/ FlushMemtable \/ Crash \/ Stop \/ Start
  PROVE  HeightsInv'
<1>1. GoodStore(store) /\ Seen(store) /\ stops \in Nat
  BY ZenonT(30), IInvStore DEF ReadersInv, IInv, TypeOK
<1>2. CASE ChainChange
  BY ZenonT(30), <1>2, HeightsKept DEF ChainChange, localVars
<1>3. CASE FlushMemtable
  <2>1. PICK i \in 2 .. Len(store) : store' = Flushed(store, i)
    BY <1>3 DEF FlushMemtable
  <2>2. i \in 1 .. Len(store)
    BY <1>1, LenProperties DEF GoodStore
  <2>3. View(store') = View(store)
    BY ZenonT(60), <1>1, <2>1, <2>2, FlushedSeen
  <2> QED BY ZenonT(30), <1>3, <2>3, HeightsKept DEF FlushMemtable, localVars
<1>4. CASE Crash \/ Stop
  <2>1. stops' = stops + 1
    BY <1>4 DEF Crash, Stop
  <2>2. stops' # 0
    BY <1>1, <2>1
  <2> QED BY <2>2 DEF HeightsInv
<1>5. CASE Start
  BY <1>5, HeightsKept DEF Start
<1> QED BY ZenonT(30), <1>2, <1>3, <1>4, <1>5

\* Without a stop, a process that loads finds an empty index.
LEMMA LoadHeights ==
  ASSUME IInv, IInv', ReadersInv, HeightsInv, LoadHeader \/ LoadDone
  PROVE  HeightsInv'
<1>1. GoodStore(store) /\ Seen(store) /\ pc = "load" /\ hl = empty
  BY IInvStore, Zenon DEF ReadersInv, IInv, LoadHeader, LoadDone
<1>2. CASE UNCHANGED <<hl, pc, stops, store>>
  BY <1>1, <1>2, HeightsKept
<1> SUFFICES ASSUME stops' = 0, stops' = stops PROVE HeightsInv'
  BY <1>2, Zenon DEF LoadHeader, LoadDone, Panic, HeightsInv
<1>3. View(store).B = {}
  BY <1>1, EmptyList, Zenon DEF HeightsInv
<1>4. CASE Ended /\ store' \in {Closed(store), Crashed(store)}
  BY <1>1, <1>3, <1>4, ReopenSeen, HeightsEnded, Zenon
<1>5. CASE store' = store /\ pc' \in {"idle", "update"}
  <2>1. \A i \in 1 .. Len(hl'.headers) : FALSE
    BY ZenonT(60), <1>3, <1>5 DEF IInv, HeadersIndexed
  <2>2. HeightsUpTo(View(store'), hl', Len(hl'.headers))
    BY <2>1 DEF HeightsUpTo
  <2> QED BY ZenonT(30), <1>3, <1>5, <2>2 DEF HeightsInv
<1> QED BY <1>2, <1>4, <1>5, Zenon DEF LoadHeader, LoadDone, Panic

\* Asking the daemon for headers.  order() starts the writing: of the chain that will
\* be published, the part that is kept is current already.
LEMMA RequestHeights ==
  ASSUME IInv, IInv', ReadersInv, HeightsInv,
         AppUpdate \/ UpdateStart \/ AllHeadersChunk \/ AllHeadersDone \/ WalkHeader \/ WalkDone
  PROVE  HeightsInv'
<1>1. GoodStore(store) /\ Seen(store)
  BY IInvStore DEF ReadersInv
<1>2. pc \in {"idle", "update", "all", "walk"}
  BY Zenon DEF AppUpdate, UpdateStart, AllHeadersChunk, AllHeadersDone, WalkHeader, WalkDone
<1>3. CASE UNCHANGED <<hl, stops, store>> /\ pc' \in {"idle", "update", "all", "walk"}
  BY ZenonT(30), <1>2, <1>3, HeightsKept
<1>4. CASE pc = "all" /\ Ended /\ stops' = stops /\ store' \in {Closed(store), Crashed(store)}
  <2> SUFFICES ASSUME stops = 0 PROVE HeightsInv'
    BY ZenonT(30), <1>4 DEF HeightsInv
  <2>1. View(store).B = {}
    BY <1>4, Zenon DEF HeightsInv, IInv, AllInv
  <2> QED BY ZenonT(30), <1>1, <1>4, <2>1, ReopenSeen, HeightsEnded
<1>5. CASE OrderHeaders
  <2> DEFINE r == apply(hl', new', tip')
             k == kept(hl', new', tip')
  <2>1. pc' = "write" /\ written' = 0 /\ UNCHANGED <<store, hl, stops>>
    BY <1>5, ZenonT(60) DEF OrderHeaders, Panic, IInv, NoIndexPanic
  <2>2. /\ hl' \in Lists /\ ListOk(hl') /\ new' \in Seq(Entry) /\ tip' \in Block
        /\ Continues(hl', new', tip')
    BY <2>1, ZenonT(60) DEF IInv, TypeOK, WriteInv
  <2>3. /\ k \in 0 .. Len(hl'.headers) /\ Len(r.headers) = k + Len(new')
        /\ \A i \in 1 .. k + Len(new') :
             r.headers[i] = IF i <= k THEN hl'.headers[i] ELSE new'[i - k]
    BY ZenonT(30), <2>2, ApplyGood
  <2>4. Len(hl'.headers) \in Nat /\ Len(new') \in Nat
    BY ZenonT(30), <2>2, LenProperties DEF Lists
  <2> HIDE DEF r, k
  <2>5. ASSUME stops' = 0 PROVE HeightsUpTo(View(store'), r, k + written')
    <3>1. HeightsUpTo(View(store), hl, Len(hl.headers))
      BY ZenonT(30), <1>2, <2>1, <2>5 DEF HeightsInv
    <3>2. ASSUME NEW i \in 1 .. Len(r.headers), i <= k + written'
          PROVE  i \in 1 .. Len(hl'.headers) /\ i <= Len(hl'.headers) /\ r.headers[i] = hl'.headers[i]
      <4>1. i <= k /\ i \in 1 .. Len(hl'.headers) /\ i <= Len(hl'.headers) /\ i \in 1 .. k + Len(new')
        BY <2>1, <2>3, <2>4, <3>2
      <4> QED BY Zenon, <2>3, <4>1
    <3> QED BY ZenonT(60), <2>1, <3>1, <3>2 DEF HeightsUpTo
  <2> QED BY <2>1, <2>5, Zenon DEF HeightsInv, r, k
<1>6. CASE AppUpdate \/ UpdateStart \/ WalkHeader
  BY <1>2, <1>3, <1>6 DEF AppUpdate, UpdateStart, WalkHeader
<1>7. CASE AllHeadersChunk
  BY <1>2, <1>3, <1>4, <1>7, Zenon DEF AllHeadersChunk, Fail
<1>8. CASE AllHeadersDone
  BY <1>4, <1>5, <1>8, Zenon DEF AllHeadersDone, Panic
<1>9. CASE WalkDone
  BY ZenonT(30), <1>5, <1>9 DEF WalkDone
<1> QED BY <1>6, <1>7, <1>8, <1>9

\* The rows of the next block leave the heights of the blocks before it alone: no
\* transaction is in two blocks of the chain.
LEMMA WriteHeights ==
  ASSUME IInv, HeightsInv, WriteBlock
  PROVE  HeightsInv'
<1> DEFINE r == apply(hl, new, tip)
           k == kept(hl, new, tip)
           e == new[written + 1]
           V == View(store)
           d == index_block(V, e.hash, e.height)
           w == IF (written + 1) % MarkEvery = 0 THEN last_indexed_block(d, e.hash) ELSE d
<1>1. /\ GoodStore(store) /\ WriteInv /\ hl \in Lists /\ ListOk(hl) /\ new \in Seq(Entry)
      /\ written \in Nat /\ pc = "write" /\ written < Len(new)
  BY IInvStore, ZenonT(60) DEF IInv, TypeOK, WriteBlock
<1>2. /\ k \in 0 .. Len(hl.headers) /\ Len(r.headers) = k + Len(new)
      /\ \A i \in 1 .. k + Len(new) : r.headers[i] = IF i <= k THEN hl.headers[i] ELSE new[i - k]
      /\ r \in Lists /\ ListOk(r)
  BY <1>1, ApplyGood, ZenonT(60) DEF WriteInv
<1>3. /\ store' = Append(store, w) /\ written' = written + 1 /\ pc' = "write"
      /\ UNCHANGED <<hl, new, tip, stops>>
  BY <1>1, Zenon DEF WriteBlock, write
<1>4. V \in Database
  BY <1>1, ReopenGood DEF GoodDb
<1>5. w.T = [t \in Tx |-> IF t \in TxsOf[e.hash] THEN e.height ELSE V.T[t]]
  <2>1. d.T = [t \in Tx |-> IF t \in TxsOf[e.hash] THEN e.height ELSE V.T[t]]
    BY <1>4, Zenon DEF Database, index_block
  <2>2. last_indexed_block(d, e.hash).T = d.T
    BY <1>4, Zenon DEF Database, index_block, last_indexed_block
  <2> QED BY <2>1, <2>2, Zenon
<1> HIDE DEF w, d
<1>6. View(store') = w
  <2>1. Len(store) \in Nat /\ Len(Append(store, w)) = Len(store) + 1 /\ Append(store, w)[Len(store) + 1] = w
    BY <1>1 DEF GoodStore
  <2> QED BY ZenonT(30), <1>3, <2>1 DEF View
<1> HIDE DEF r, k
<1>7. /\ k \in Nat /\ k + written + 1 \in 1 .. Len(r.headers)
      /\ r.headers[k + written + 1] = e
  <2>1. Len(hl.headers) \in Nat /\ Len(new) \in Nat
    BY ZenonT(30), <1>1, LenProperties DEF Lists
  <2>2. /\ k \in Nat /\ k + written + 1 \in 1 .. k + Len(new)
        /\ ~ (k + written + 1 <= k) /\ (k + written + 1) - k = written + 1
    BY <1>1, <1>2, <2>1
  <2>3. r.headers[k + written + 1] = new[(k + written + 1) - k]
    BY <1>2, <2>2
  <2> QED BY ZenonT(30), <1>2, <2>2, <2>3
<1> HIDE DEF e, V
<1> SUFFICES ASSUME stops' = 0 PROVE HeightsUpTo(w, r, k + (written + 1))
  BY <1>3, <1>6, Zenon DEF HeightsInv, r, k
<1>8. HeightsUpTo(V, r, k + written)
  BY <1>1, <1>3, Zenon DEF HeightsInv, r, k, V
<1>9. ASSUME NEW i \in 1 .. Len(r.headers), i <= k + (written + 1),
             NEW t \in TxsOf[r.headers[i].hash]
      PROVE  w.T[t] = r.headers[i].height
  <2>1. t \in Tx
    <3>1. r.headers \in Seq(Entry)
      BY ZenonT(30), <1>2 DEF Lists
    <3>2. r.headers[i] \in Entry
      BY ZenonT(30), <3>1, ElementOfSeq
    <3>3. r.headers[i].hash \in Block
      BY ZenonT(30), <3>2 DEF Entry
    <3> QED BY ZenonT(30), <3>3, BlockTxs
  <2>2. CASE i = k + written + 1
    BY ZenonT(30), <1>5, <1>7, <2>1, <2>2
  <2>3. CASE i # k + written + 1
    <3>1. i <= k + written
      BY <1>1, <1>7, <1>9, <2>3
    <3>2. t \notin TxsOf[e.hash]
      BY <1>2, <1>7, <2>3, ListTxs, Zenon
    <3>3. V.T[t] = r.headers[i].height
      BY ZenonT(30), <1>8, <3>1 DEF HeightsUpTo
    <3> QED BY ZenonT(30), <1>5, <2>1, <3>2, <3>3
  <2> QED BY ZenonT(30), <2>2, <2>3
<1> QED BY ZenonT(30), <1>9 DEF HeightsUpTo

\* The rest of an update.  When the list is published, every block of it was kept or
\* written.
LEMMA PublishHeights ==
  ASSUME IInv, IInv', HeightsInv, WriteLast \/ ApplyHeaders \/ Compact \/ WriteMarker
  PROVE  HeightsInv'
<1>1. GoodStore(store) /\ View(store) \in Database
  BY ZenonT(30), IInvStore, ReopenGood DEF GoodDb
<1>2. CASE WriteLast
  <2>1. View(store').B = View(store).B /\ View(store').T = View(store).T
    <3>1. CASE new = <<>>
      BY <1>2, <3>1 DEF WriteLast
    <3>2. CASE new # <<>>
      <4> DEFINE w == last_indexed_block(View(store), new[Len(new)].hash)
      <4>1. w.B = View(store).B /\ w.T = View(store).T
        BY <1>1, Zenon DEF last_indexed_block, Database
      <4>2. store' = Append(store, w)
        BY ZenonT(30), <1>2, <3>2 DEF WriteLast, write
      <4> HIDE DEF w
      <4>3. Len(store) \in Nat /\ Len(Append(store, w)) = Len(store) + 1 /\ Append(store, w)[Len(store) + 1] = w
        BY <1>1 DEF GoodStore
      <4>4. View(store') = w
        BY <4>2, <4>3 DEF View
      <4> QED BY <4>1, <4>4
    <3> QED BY ZenonT(30), <3>1, <3>2
  <2> QED BY <1>2, <2>1, HeightsKept DEF WriteLast, localVars
<1>3. CASE ApplyHeaders
  <2> DEFINE r == apply(hl, new, tip)
             k == kept(hl, new, tip)
  <2>1. /\ WriteInv /\ hl \in Lists /\ ListOk(hl) /\ new \in Seq(Entry)
        /\ pc = "apply" /\ written = Len(new)
    BY <1>3, ZenonT(30) DEF IInv, TypeOK, ApplyHeaders
  <2>2. apply_ok(hl, new, tip) /\ r.headers # <<>> /\ Len(r.headers) = k + Len(new)
    BY ZenonT(30), <2>1, ApplyGood DEF WriteInv
  <2>3. hl' = r /\ pc' \in {"idle", "compact"} /\ UNCHANGED <<store, stops>>
    BY <1>3, <2>2, Zenon DEF ApplyHeaders
  <2>4. ASSUME stops' = 0 PROVE HeightsUpTo(View(store), r, k + written)
    BY <2>1, <2>3, <2>4, Zenon DEF HeightsInv
  <2> HIDE DEF r, k
  <2> QED BY <2>1, <2>2, <2>3, <2>4, Zenon DEF HeightsInv
<1>4. CASE Compact
  <2>1. View(store') = View(store)
    BY ZenonT(30), <1>1, <1>4, ReopenGood DEF Compact
  <2> QED BY ZenonT(30), <1>4, <2>1, HeightsKept DEF Compact
<1>5. CASE WriteMarker
  <2>1. View(store') = full_compaction_marker(View(store))
    BY <1>5, OneSeen DEF WriteMarker
  <2>2. View(store').B = View(store).B /\ View(store').T = View(store).T
    BY <1>1, <2>1, Zenon DEF full_compaction_marker, Database
  <2> QED BY ZenonT(30), <1>5, <2>2, HeightsKept DEF WriteMarker
<1> QED BY ZenonT(30), <1>2, <1>3, <1>4, <1>5

\* As long as no process was stopped or killed, whatever the daemon's reorganisations,
\* the height in the T row of each transaction of the served chain is that of its
\* block there.
THEOREM HeightsAreCurrent == Spec => []UninterruptedHeights
<1>1. Init => HeightsInv
  <2> SUFFICES ASSUME Init PROVE HeightsInv
    OBVIOUS
  <2>1. View(store) = EmptyDatabase /\ hl = empty /\ pc = "down"
    BY ZenonT(30), OneSeen DEF Init
  <2>2. HeightsUpTo(View(store), hl, Len(hl.headers)) /\ View(store).B = {}
    BY <2>1, EmptyList DEF HeightsUpTo, EmptyDatabase
  <2> QED BY <2>1, <2>2, Zenon DEF HeightsInv
<1>2. IInv /\ IInv' /\ ReadersInv /\ HeightsInv /\ [Next]_vars => HeightsInv'
  <2> SUFFICES ASSUME IInv, IInv', ReadersInv, HeightsInv, [Next]_vars PROVE HeightsInv'
    OBVIOUS
  <2>1. CASE Next
    BY ZenonT(30), <2>1, EnvironmentHeights, LoadHeights, RequestHeights, WriteHeights, PublishHeights
    DEF Next, Step
  <2>2. CASE UNCHANGED vars
    BY ZenonT(30), <2>2, HeightsKept DEF vars
  <2> QED BY <2>1, <2>2
<1>3. IInv /\ HeightsInv => UninterruptedHeights
  <2> SUFFICES ASSUME IInv, HeightsInv, stops = 0, pc = "idle"
               PROVE  \A i \in 1 .. Len(hl.headers) : \A t \in TxsOf[hl.headers[i].hash] :
                        View(store).T[t] = hl.headers[i].height
    BY ZenonT(30) DEF UninterruptedHeights, TxHeightsCurrent
  <2>1. HeightsUpTo(View(store), hl, Len(hl.headers))
    BY ZenonT(30) DEF HeightsInv
  <2>2. Len(hl.headers) \in Nat
    BY ZenonT(30), LenProperties DEF IInv, TypeOK, Lists
  <2> QED BY <2>1, <2>2 DEF HeightsUpTo
<1> QED BY <1>1, <1>2, <1>3, IndexInvariant, ReadersInvariant, PTL DEF Spec
===============================================================================
