---------------------------- MODULE BulkImportProofs ----------------------------
(***************************************************************************)
(* Proofs about BulkImport, for every block tree, every set of block files *)
(* and chains, every number of indexer threads and every bound: no block   *)
(* that an indexer claimed is lost (NothingLost), the full compaction      *)
(* marker comes with a complete import (MarkerMeansComplete), and rows are *)
(* read and written only in a database of the current version              *)
(* (OnlyCurrentVersion).                                                   *)
(***************************************************************************)
EXTENDS BulkImport, TLAPS

IndexerState ==
  [st : {"none", "recv", "index", "send", "done", "failed"}, file : Nat, pos : Nat, rows : SUBSET Block]

\* The values of the variables.
TypeOK ==
  /\ ver \in {"absent", "none", "old", "current"}
  /\ store \in Seq(Database) /\ store # <<>> /\ wal \in Block \cup {NullHash}
  /\ pc \in MainStates
  /\ crashes \in Nat /\ stops \in Nat /\ failures \in Nat
  /\ claimed \in SUBSET Block
  /\ reader \in [st : {"none", "read", "send", "done", "failed"}, pos : Nat]
  /\ indexer \in [Indexers -> IndexerState]

\* A directory that DbStore::open() is about to create, or has just created, is empty;
\* and a database of another version is not used unless it could not be destroyed.
Versions ==
  /\ ver = "absent" => pc \in {"down", "reopen"} /\ store = <<EmptyDatabase>>
  /\ pc \in {"version", "reversion"} => ver = "none" /\ store = <<EmptyDatabase>>
  /\ pc = "reopen" /\ failures = 0 => ver \in {"current", "absent"}
  /\ OnlyCurrentVersion

\* Only the import leaves batches in the memtable and the L row in the log; the F row
\* is missing until it ends, and it ends with an L row from which the headers load.
Phases ==
  /\ pc \notin Importing \cup {"compact"} => Len(store) = 1
  /\ wal # NullHash => pc = "compact"
  /\ pc \in Importing \cup {"headers", "compact", "marker"} => \A k \in 1 .. Len(store) : ~ store[k].F
  /\ pc \in {"compact", "marker"} => View(store).L # NullHash /\ Loadable(View(store))

\* The rows of every database match its blocks.
AllRowsMatch == \A k \in 1 .. Len(store) : RowsMatch(store[k])

\* The threads run during the import only; an indexer has rows between the first block
\* of a file and the end of it.
Threads ==
  /\ pc \in Importing => chain \in Chains
  /\ pc \notin Importing => reader.st = "none" /\ \A i \in Indexers : indexer[i].st = "none"
  /\ pc \in {"join", "last"} => \A i \in Indexers : indexer[i].st \in {"done", "failed"}
  /\ reader.st \in {"read", "send"} => reader.pos >= 1
  /\ reader.st = "send" => reader.pos \in 1 .. Len(Files)
  /\ \A i \in Indexers :
       /\ indexer[i].st \notin {"index", "send"} => indexer[i].rows = {}
       /\ indexer[i].st = "index" => indexer[i].file \in 1 .. Len(Files) /\ indexer[i].pos >= 1
       /\ indexer[i].st = "index" /\ indexer[i].pos = 1 => indexer[i].rows = {}

\* The inductive invariant.
IInv == TypeOK /\ Versions /\ Phases /\ AllRowsMatch /\ MarkerMeansComplete /\ Threads /\ NothingLost

-------------------------------------------------------------------------------
(* The databases of a store.                                               *)

Dbs(s) == {s[k] : k \in 1 .. Len(s)}

\* What AllRowsMatch and MarkerMeansComplete say of one database, for the version v
\* and n crashes so far.
Good(db, v, n) ==
  /\ db \in Database /\ RowsMatch(db)
  /\ v = "current" /\ db.F => db.L # NullHash /\ Loadable(db)
  /\ n = 0 => Loadable(db)

IsStore(s) == s \in Seq(Database) /\ s # <<>>

\* What readers see and what is on disk are databases of the store.
LEMMA StoreParts ==
  ASSUME NEW s, IsStore(s)
  PROVE  /\ Len(s) \in Nat \ {0} /\ Dbs(s) \subseteq Database
         /\ View(s) \in Dbs(s) /\ s[1] \in Dbs(s)
         /\ Len(s) = 1 => Dbs(s) = {s[1]} /\ View(s) = s[1]
<1>1. Len(s) \in Nat \ {0}
  BY DEF IsStore
<1>2. 1 \in 1 .. Len(s) /\ Len(s) \in 1 .. Len(s)
  BY <1>1
<1> QED BY <1>1, <1>2 DEF IsStore, Dbs, View

\* write() adds a database,
LEMMA WriteStore ==
  ASSUME NEW s, IsStore(s), NEW db \in Database
  PROVE  IsStore(write(s, db)) /\ Dbs(write(s, db)) = Dbs(s) \cup {db} /\ View(write(s, db)) = db
<1> DEFINE t == Append(s, db)
<1>1. /\ t \in Seq(Database) /\ Len(t) = Len(s) + 1 /\ Len(s) \in Nat
      /\ t[Len(t)] = db /\ \A i \in 1 .. Len(s) : t[i] = s[i]
  BY DEF IsStore
<1>2. write(s, db) = t
  BY DEF write
<1> HIDE DEF t
<1>3. t # <<>>
  BY <1>1
<1>4. Dbs(t) = Dbs(s) \cup {db}
  BY <1>1 DEF Dbs
<1> QED BY <1>1, <1>2, <1>3, <1>4 DEF IsStore, View

\* a flush of the memtable keeps the last ones,
LEMMA FlushedStore ==
  ASSUME NEW s, IsStore(s), NEW i \in 1 .. Len(s)
  PROVE  IsStore(Flushed(s, i)) /\ Dbs(Flushed(s, i)) \subseteq Dbs(s) /\ View(Flushed(s, i)) = View(s)
<1> DEFINE t == SubSeq(s, i, Len(s))
<1>1. Len(s) \in Nat \ {0} /\ s \in Seq(Database)
  BY StoreParts DEF IsStore
<1>2. /\ t \in Seq(Database) /\ Len(t) = Len(s) - i + 1
      /\ \A j \in 1 .. Len(s) - i + 1 : t[j] = s[i + j - 1]
  BY <1>1
<1>3. Flushed(s, i) = t
  BY DEF Flushed
<1> HIDE DEF t
<1>4. \A j \in 1 .. Len(t) : i + j - 1 \in 1 .. Len(s)
  BY <1>1, <1>2
<1>5. t # <<>> /\ t[Len(t)] = s[Len(s)]
  BY <1>1, <1>2
<1>6. Dbs(t) \subseteq Dbs(s)
  BY <1>2, <1>4, ZenonT(60) DEF Dbs
<1> QED BY <1>2, <1>3, <1>5, <1>6 DEF IsStore, View

\* and the end of a process leaves one.
LEMMA OneDb ==
  ASSUME NEW db \in Database
  PROVE  IsStore(<<db>>) /\ Dbs(<<db>>) = {db} /\ View(<<db>>) = db /\ Len(<<db>>) = 1
<1>1. <<db>> \in Seq(Database) /\ Len(<<db>>) = 1 /\ <<db>>[1] = db /\ <<db>> # <<>>
  OBVIOUS
<1> QED BY <1>1 DEF IsStore, Dbs, View

\* A new database has no rows to be wrong.
LEMMA EmptyGood == ASSUME NEW v, NEW n PROVE Good(EmptyDatabase, v, n) /\ ~ EmptyDatabase.F
BY Zenon DEF Good, EmptyDatabase, Database, RowsMatch, Loadable, NoHeight

\* The rows of a set of blocks.
LEMMA IndexBlocksGood ==
  ASSUME NEW db, NEW v, NEW n, Good(db, v, n), NEW S \in SUBSET Block
  PROVE  /\ Good(index_blocks(db, S), v, n)
         /\ index_blocks(db, S).B = db.B \cup S /\ index_blocks(db, S).F = db.F
<1> DEFINE m == index_blocks(db, S)
           T == [t \in Tx |-> IF \E b \in S : t \in TxsOf[b]
                              THEN Height[CHOOSE b \in S : t \in TxsOf[b]] ELSE db.T[t]]
<1>1. db \in Database
  BY DEF Good
<1>2. ASSUME NEW t \in Tx, \E b \in S : t \in TxsOf[b]
      PROVE  \E b \in S : t \in TxsOf[b] /\ T[t] = Height[b]
  BY <1>2, Zenon
<1>3. T \in [Tx -> Nat \cup {NoHeight}]
  <2>1. \A t \in Tx : T[t] \in Nat \cup {NoHeight}
    BY <1>1, <1>2, BlockTree DEF Database
  <2> QED BY <2>1
<1>4. m = [db EXCEPT !.B = db.B \cup S, !.T = T]
  BY DEF index_blocks
<1>5. \A t \in Tx : (~ \E b \in S : t \in TxsOf[b]) => T[t] = db.T[t]
  OBVIOUS
<1> HIDE DEF T
<1>6. m \in Database /\ m.B = db.B \cup S /\ m.T = T /\ m.L = db.L /\ m.F = db.F
  BY <1>1, <1>3, <1>4, Zenon DEF Database
<1> HIDE DEF m
<1>7. RowsMatch(m)
  <2> SUFFICES ASSUME NEW t \in Tx
               PROVE  IF \E b \in m.B : t \in TxsOf[b]
                      THEN \E b \in m.B : t \in TxsOf[b] /\ m.T[t] = Height[b]
                      ELSE m.T[t] = NoHeight
    BY DEF RowsMatch
  <2>1. CASE \E b \in S : t \in TxsOf[b]
    BY <1>2, <1>6, <2>1
  <2>2. CASE ~ \E b \in S : t \in TxsOf[b]
    BY <1>5, <1>6, <2>2 DEF Good, RowsMatch
  <2> QED BY <2>1, <2>2
<1>8. Loadable(db) => Loadable(m)
  BY <1>6 DEF Loadable
<1> QED BY <1>6, <1>7, <1>8 DEF Good, m

\* The L row of a block from which the headers load.
LEMMA LastGood ==
  ASSUME NEW db \in Database, RowsMatch(db), NEW b \in Block
  PROVE  /\ last_indexed_block(db, b) \in Database /\ RowsMatch(last_indexed_block(db, b))
         /\ last_indexed_block(db, b).B = db.B /\ last_indexed_block(db, b).L = b
         /\ last_indexed_block(db, b).F = db.F
BY DEF Database, RowsMatch, last_indexed_block

\* The F row in a database that has an L row from which the headers load.
LEMMA MarkerGood ==
  ASSUME NEW db, NEW v, NEW n, Good(db, v, n), db.L # NullHash, Loadable(db)
  PROVE  Good(full_compaction_marker(db), v, n)
<1> DEFINE m == full_compaction_marker(db)
<1>1. m \in Database /\ m.B = db.B /\ m.T = db.T /\ m.L = db.L
  BY Zenon DEF Good, Database, full_compaction_marker
<1>2. RowsMatch(m) /\ Loadable(m)
  BY <1>1 DEF Good, RowsMatch, Loadable
<1> QED BY <1>1, <1>2 DEF Good

-------------------------------------------------------------------------------
(* The steps: one lemma for every action.                                  *)

\* The two conjuncts about databases, stated for one database at a time.
LEMMA AllGood ==
  ASSUME NEW s, IsStore(s), NEW v, NEW n
  PROVE  (/\ \A k \in 1 .. Len(s) : RowsMatch(s[k])
          /\ \A k \in 1 .. Len(s) :
               /\ v = "current" /\ s[k].F => s[k].L # NullHash /\ Loadable(s[k]) /\ RowsMatch(s[k])
               /\ n = 0 => Loadable(s[k]))
         <=> \A db \in Dbs(s) : Good(db, v, n)
<1>1. \A k \in 1 .. Len(s) : s[k] \in Database
  BY DEF IsStore
<1> QED BY <1>1 DEF Good, Dbs

\* What every step needs to know of the store.
LEMMA StoreFacts ==
  ASSUME IInv
  PROVE  /\ IsStore(store) /\ Len(store) \in Nat \ {0}
         /\ \A db \in Dbs(store) : Good(db, ver, crashes)
         /\ View(store) \in Dbs(store) /\ View(store) \in Database /\ View(store).B \in SUBSET Block
         /\ store[1] \in Dbs(store) /\ store[1] \in Database
         /\ Len(store) = 1 => Dbs(store) = {store[1]} /\ View(store) = store[1]
<1>1. IsStore(store)
  BY DEF IInv, TypeOK, IsStore
<1>2. \A db \in Dbs(store) : Good(db, ver, crashes)
  BY <1>1, AllGood DEF IInv, AllRowsMatch, MarkerMeansComplete
<1>3. \A db \in Database : db.B \in SUBSET Block
  BY DEF Database
<1> QED BY <1>1, <1>2, <1>3, StoreParts

\* The F row is in none of the databases.
LEMMA Unmarked ==
  \A s : (\A k \in 1 .. Len(s) : ~ s[k].F) <=> (\A db \in Dbs(s) : ~ db.F)
BY DEF Dbs

\* No database has it before the import ends.
LEMMA NoMarker ==
  ASSUME IInv, pc \in Importing \cup {"headers", "compact", "marker"}
  PROVE  (\A db \in Dbs(store) : ~ db.F) /\ ~ View(store).F /\ ~ store[1].F
<1>1. \A db \in Dbs(store) : ~ db.F
  BY Unmarked, Zenon DEF IInv, Phases
<1> QED BY <1>1, StoreFacts, Zenon

\* Before the first start there is no database, or one that an older version left.
LEMMA InitIInv == ASSUME Init PROVE IInv
<1> DEFINE db == [EmptyDatabase EXCEPT !.F = (ver = "old")]
<1>1. /\ db \in Database /\ RowsMatch(db) /\ Loadable(db)
      /\ db.F = (ver = "old") /\ (ver = "absent" => db = EmptyDatabase)
  <2>1. /\ EmptyDatabase \in Database /\ RowsMatch(EmptyDatabase) /\ EmptyDatabase.L = NullHash
        /\ EmptyDatabase.F = FALSE
    BY EmptyGood, Zenon DEF Good, EmptyDatabase
  <2>2. /\ db \in Database /\ db.B = EmptyDatabase.B /\ db.T = EmptyDatabase.T
        /\ db.L = EmptyDatabase.L /\ db.F = (ver = "old")
    BY <2>1, Zenon DEF Database
  <2>3. ver = "absent" => db = EmptyDatabase
    <3> SUFFICES ASSUME ver = "absent" PROVE db = EmptyDatabase
      OBVIOUS
    <3>1. (ver = "old") = FALSE
      OBVIOUS
    <3> QED BY <2>1, <2>2, <3>1 DEF Database
  <2> QED BY <2>1, <2>2, <2>3 DEF RowsMatch, Loadable
<1> HIDE DEF db
<1>2. ver \in {"absent", "old"} /\ store = <<db>>
  BY DEF Init, db
<1>3. Good(db, ver, crashes)
  BY <1>1, <1>2 DEF Good
<1>4. IsStore(store) /\ Dbs(store) = {db} /\ Len(store) = 1
  BY <1>1, <1>2, OneDb
<1>5. TypeOK
  <2>1. indexer \in [Indexers -> IndexerState]
    BY DEF Init, NoIndexer, IndexerState
  <2>2. reader \in [st : {"none", "read", "send", "done", "failed"}, pos : Nat]
    BY DEF Init, NoReader
  <2> QED BY <1>2, <1>4, <2>1, <2>2 DEF Init, TypeOK, IsStore, MainStates
<1>6. Versions
  BY <1>1, <1>2 DEF Init, Versions, OnlyCurrentVersion
<1>7. Phases
  BY <1>4 DEF Init, Phases, Importing
<1>8. AllRowsMatch /\ MarkerMeansComplete
  BY <1>3, <1>4, AllGood DEF AllRowsMatch, MarkerMeansComplete
<1>9. Threads /\ NothingLost
  BY DEF Init, Threads, NothingLost, Importing, NoReader, NoIndexer
<1> QED BY <1>5, <1>6, <1>7, <1>8, <1>9 DEF IInv

\* The end of a process that leaves one good database.
LEMMA EndedInv ==
  ASSUME IInv, Ended, NEW db, store' = <<db>>, Good(db, ver, crashes'),
         ver = "absent" => db = EmptyDatabase,
         crashes' \in Nat, stops' \in Nat, failures' \in Nat
  PROVE  IInv'
<1>1. /\ pc' = "down" /\ wal' = NullHash /\ chain' = <<>> /\ claimed' = {} /\ reader' = NoReader
      /\ indexer' = [i \in Indexers |-> NoIndexer] /\ ver' = ver
  BY DEF Ended
<1>2. IsStore(store') /\ Dbs(store') = {db} /\ Len(store') = 1
  BY OneDb DEF Good
<1>3. TypeOK'
  <2>1. indexer' \in [Indexers -> IndexerState]
    BY <1>1 DEF NoIndexer, IndexerState
  <2>2. reader' \in [st : {"none", "read", "send", "done", "failed"}, pos : Nat]
    BY <1>1 DEF NoReader
  <2> QED BY <1>1, <1>2, <2>1, <2>2 DEF TypeOK, IsStore, MainStates, IInv
<1>4. Versions'
  BY <1>1 DEF Versions, OnlyCurrentVersion, IInv
<1>5. Phases'
  BY <1>1, <1>2 DEF Phases, Importing
<1>6. AllRowsMatch' /\ MarkerMeansComplete'
  BY <1>1, <1>2, AllGood DEF AllRowsMatch, MarkerMeansComplete
<1>7. Threads' /\ NothingLost'
  BY <1>1 DEF Threads, NothingLost, Importing, NoReader, NoIndexer
<1> QED BY <1>3, <1>4, <1>5, <1>6, <1>7 DEF IInv

\* Steps that change neither the store nor the counters of failures and crashes.
LEMMA DatabasesKept ==
  ASSUME IInv, UNCHANGED <<store, crashes>>, ver' = ver \/ store = <<EmptyDatabase>>
  PROVE  AllRowsMatch' /\ MarkerMeansComplete'
<1>1. \A db \in Dbs(store') : Good(db, ver', crashes')
  BY StoreFacts, EmptyGood, OneDb DEF Good
<1> QED BY <1>1, StoreFacts, AllGood DEF AllRowsMatch, MarkerMeansComplete

\* A step outside of the import leaves its threads as they are.
LEMMA ThreadsKept ==
  ASSUME IInv, pc \notin Importing, pc' \notin Importing, UNCHANGED threads
  PROVE  Threads' /\ NothingLost'
<1>1. UNCHANGED <<reader, indexer>>
  BY DEF threads
<1>2. {"join", "last"} \subseteq Importing
  BY DEF Importing
<1> QED BY <1>1, <1>2 DEF IInv, Threads, NothingLost

\* A step that changes nothing.
LEMMA Unchanged == ASSUME IInv, UNCHANGED vars PROVE IInv'
<1> USE DEF vars
<1>1. TypeOK'
  BY DEF IInv, TypeOK
<1>2. Versions' /\ Phases'
  BY DEF IInv, Versions, OnlyCurrentVersion, Phases
<1>3. AllRowsMatch' /\ MarkerMeansComplete'
  BY ZenonT(60), DatabasesKept
<1>4. Threads' /\ NothingLost'
  BY DEF IInv, Threads, NothingLost
<1> QED BY <1>1, <1>2, <1>3, <1>4 DEF IInv

\* Start, and the second opening after the check of the version.
LEMMA OpenStep == ASSUME IInv, Start \/ Reopen PROVE IInv'
<1>1. /\ UNCHANGED <<store, wal, crashes, stops, failures, threads>>
      /\ pc \in {"down", "reopen"}
      /\ IF ver = "absent" THEN ver' = "none" /\ pc' \in {"version", "reversion"}
         ELSE ver' = ver /\ pc' = IF pc = "down" THEN "check" ELSE "load"
  BY DEF Start, Reopen, open, budget
<1>2. pc \notin Importing /\ pc' \notin Importing /\ pc' \in MainStates
  BY <1>1 DEF Importing, MainStates, Opening
<1>3. ver' = ver \/ store = <<EmptyDatabase>>
  BY <1>1 DEF IInv, Versions
<1>4. TypeOK'
  BY <1>1, <1>2 DEF IInv, TypeOK, threads
<1>5. Versions'
  BY <1>1 DEF IInv, Versions, OnlyCurrentVersion, Opening, MainStates, Importing
<1>6. Phases'
  BY <1>1, <1>2 DEF IInv, Phases
<1>7. AllRowsMatch' /\ MarkerMeansComplete'
  BY <1>1, <1>3, DatabasesKept
<1>8. Threads' /\ NothingLost'
  BY <1>1, <1>2, ThreadsKept
<1> QED BY <1>4, <1>5, <1>6, <1>7, <1>8 DEF IInv

\* The version row of a new database.
LEMMA WriteVersionStep == ASSUME IInv, WriteVersion PROVE IInv'
<1>1. /\ UNCHANGED <<store, wal, crashes, stops, failures, threads>>
      /\ pc \in {"version", "reversion"} /\ pc' \in {"check", "load"} /\ ver' = "current"
  BY DEF WriteVersion, budget
<1>2. pc \notin Importing /\ pc' \notin Importing /\ pc' \in MainStates
  BY <1>1 DEF Importing, MainStates, Opening
<1>3. store = <<EmptyDatabase>>
  BY <1>1 DEF IInv, Versions
<1>4. TypeOK'
  BY <1>1, <1>2 DEF IInv, TypeOK, threads
<1>5. Versions'
  BY <1>1 DEF Versions, OnlyCurrentVersion
<1>6. Phases'
  BY <1>1, <1>2 DEF IInv, Phases
<1>7. AllRowsMatch' /\ MarkerMeansComplete'
  BY <1>1, <1>3, DatabasesKept
<1>8. Threads' /\ NothingLost'
  BY <1>1, <1>2, ThreadsKept
<1> QED BY <1>4, <1>5, <1>6, <1>7, <1>8 DEF IInv

\* A database of another version is destroyed, if that succeeds.
LEMMA CheckVersionStep == ASSUME IInv, CheckVersion PROVE IInv'
<1>1. /\ UNCHANGED <<wal, crashes, stops, threads>> /\ pc = "check" /\ pc' = "reopen"
      /\ \/ ver = "current" /\ UNCHANGED <<ver, store, failures>>
         \/ ver' = "absent" /\ store' = <<EmptyDatabase>> /\ UNCHANGED failures
         \/ failures' = failures + 1 /\ UNCHANGED <<ver, store>>
  BY DEF CheckVersion
<1>2. pc \notin Importing /\ pc' \notin Importing /\ pc' \in MainStates
  BY <1>1 DEF Importing, MainStates, Opening
<1>3. /\ IsStore(store') /\ Len(store') = 1 /\ \A db \in Dbs(store') : Good(db, ver', crashes')
      /\ store' = store \/ store' = <<EmptyDatabase>>
  <2>1. IsStore(store) /\ Len(store) = 1 /\ \A db \in Dbs(store) : Good(db, ver, crashes)
    BY <1>1, StoreFacts DEF IInv, Phases, Importing
  <2>2. /\ IsStore(<<EmptyDatabase>>) /\ Len(<<EmptyDatabase>>) = 1
        /\ \A db \in Dbs(<<EmptyDatabase>>) : Good(db, ver', crashes')
    BY EmptyGood, OneDb DEF Good
  <2> QED BY ZenonT(60), <1>1, <2>1, <2>2
<1>4. TypeOK'
  <2>1. failures \in Nat /\ failures' \in Nat
    BY <1>1 DEF IInv, TypeOK
  <2> QED BY <1>1, <1>2, <1>3, <2>1 DEF IInv, TypeOK, threads, IsStore
<1>5. Versions'
  <2>1. failures \in Nat /\ ver # "absent"
    BY ZenonT(60), <1>1 DEF IInv, TypeOK, Versions
  <2> QED BY <1>1, <2>1 DEF Versions, OnlyCurrentVersion, Opening
<1>6. Phases'
  BY <1>1, <1>2, <1>3 DEF IInv, Phases
<1>7. AllRowsMatch' /\ MarkerMeansComplete'
  BY ZenonT(60), <1>3, AllGood DEF AllRowsMatch, MarkerMeansComplete
<1>8. Threads' /\ NothingLost'
  BY ZenonT(60), <1>1, <1>2, ThreadsKept
<1> QED BY <1>4, <1>5, <1>6, <1>7, <1>8 DEF IInv

\* The main thread returned or unwound.
LEMMA ExitStep == ASSUME IInv, NEW reason, Exit(reason), stops' \in Nat PROVE IInv'
<1>1. /\ store' = <<View(store)>> /\ Ended /\ UNCHANGED <<crashes, failures>>
  BY DEF Exit, Closed
<1>2. Good(View(store), ver, crashes')
  BY <1>1, StoreFacts
<1>3. ver = "absent" => View(store) = EmptyDatabase
  BY OneDb, EmptyGood DEF IInv, Versions, Good
<1> QED BY <1>1, <1>2, <1>3, EndedInv DEF IInv, TypeOK

\* The header list is read from the L row down; a missing header ends the process.
LEMMA LoadStep == ASSUME IInv, Load \/ Reload PROVE IInv'
<1>1. CASE \E reason : Exit(reason) /\ UNCHANGED stops
  BY <1>1, ExitStep DEF IInv, TypeOK
<1>2. CASE /\ UNCHANGED <<ver, store, wal, crashes, stops, failures, threads>>
           /\ \/ pc = "load" /\ pc' = (IF View(store).F THEN "serving" ELSE "headers")
              \/ pc = "reload" /\ pc' = "serving"
  <2>1. pc \notin Importing /\ pc' \notin Importing /\ pc' \in MainStates
    BY <1>2 DEF Importing, MainStates, Opening
  <2>2. TypeOK'
    BY <1>2, <2>1 DEF IInv, TypeOK, threads
  <2>3. Versions'
    BY <1>2 DEF IInv, Versions, OnlyCurrentVersion, Opening, MainStates
  <2>4. Phases'
    <3>1. Len(store) = 1 /\ wal = NullHash
      BY <1>2, <2>1 DEF IInv, Phases, Importing
    <3>2. View(store) = store[1]
      BY <3>1, StoreFacts
    <3> QED BY <1>2, <2>1, <3>1, <3>2 DEF Phases
  <2>5. AllRowsMatch' /\ MarkerMeansComplete'
    BY <1>2, DatabasesKept
  <2>6. Threads' /\ NothingLost'
    BY <1>2, <2>1, ThreadsKept
  <2> QED BY <2>2, <2>3, <2>4, <2>5, <2>6 DEF IInv
<1> QED BY <1>1, <1>2, ZenonT(60) DEF Load, Reload, disk, budget

-------------------------------------------------------------------------------
(* The steps of the import, one lemma for every action, and the crashes.   *)

\* The threads start with nothing on its way.
LEMMA StartImportStep == ASSUME IInv, StartImport PROVE IInv'
<1>1. /\ UNCHANGED <<ver, store, wal, crashes, stops, failures>> /\ pc = "headers" /\ pc' = "rows"
      /\ claimed' = View(store).B /\ chain' \in Chains /\ reader' = [st |-> "read", pos |-> 1]
      /\ indexer' = [i \in Indexers |-> Waiting]
  BY DEF StartImport, disk, budget
<1>2. pc' \in Importing /\ pc' \in MainStates /\ pc \notin Importing
  BY ZenonT(60), <1>1 DEF Importing, MainStates
<1>3. TypeOK'
  <2>1. indexer' \in [Indexers -> IndexerState]
    BY <1>1 DEF Waiting, IndexerState
  <2>2. reader' \in [st : {"none", "read", "send", "done", "failed"}, pos : Nat]
    BY <1>1
  <2> QED BY ZenonT(60), <1>1, <1>2, <2>1, <2>2, StoreFacts DEF IInv, TypeOK
<1>4. Versions'
  BY ZenonT(60), <1>1 DEF IInv, Versions, OnlyCurrentVersion, Opening, MainStates
<1>5. Phases'
  BY <1>1, <1>2 DEF IInv, Phases
<1>6. AllRowsMatch' /\ MarkerMeansComplete'
  BY <1>1, DatabasesKept
<1>7. Threads'
  BY SMTT(30), <1>1, <1>2 DEF Threads, Waiting
<1>8. NothingLost'
  <2>1. \A i \in Indexers : indexer'[i].rows = {}
    BY <1>1 DEF Waiting
  <2> QED BY <1>1, <2>1 DEF NothingLost
<1> QED BY <1>3, <1>4, <1>5, <1>6, <1>7, <1>8 DEF IInv

\* The steps of the reader and of the indexers leave the database alone.
LEMMA ImportersStep ==
  ASSUME IInv, UNCHANGED <<ver, store, wal, pc, crashes, failures>>, stops' \in Nat,
         claimed' \in SUBSET Block,
         reader' \in [st : {"none", "read", "send", "done", "failed"}, pos : Nat],
         indexer' \in [Indexers -> IndexerState], Threads', NothingLost'
  PROVE  IInv'
<1>1. TypeOK'
  BY ZenonT(60) DEF IInv, TypeOK
<1>2. Versions' /\ Phases'
  BY DEF IInv, Versions, OnlyCurrentVersion, Phases
<1>3. AllRowsMatch' /\ MarkerMeansComplete'
  BY ZenonT(60), DatabasesKept
<1> QED BY <1>1, <1>2, <1>3 DEF IInv

\* The reader takes the next block file, fails or ends.
LEMMA ReadFileStep == ASSUME IInv, ReadFile PROVE IInv'
<1>1. /\ UNCHANGED <<ver, store, wal, pc, crashes, failures, chain, claimed, indexer>>
      /\ reader.st = "read" /\ stops' \in Nat
  <2>1. /\ UNCHANGED <<ver, store, wal, pc, crashes, failures, chain, claimed, indexer>>
        /\ reader.st = "read" /\ (stops' = stops \/ stops' = stops + 1) /\ stops \in Nat
    BY ZenonT(30) DEF ReadFile, disk, IInv, TypeOK
  <2>2. stops' \in Nat
    BY <2>1
  <2> QED BY Zenon, <2>1, <2>2
<1>2. PICK s \in {"send", "failed", "done"} :
        reader' = [reader EXCEPT !.st = s] /\ (s = "send" => reader.pos <= Len(Files))
  BY DEF ReadFile
<1>3. reader \in [st : {"none", "read", "send", "done", "failed"}, pos : Nat] /\ reader.pos >= 1
  BY <1>1 DEF IInv, TypeOK, Threads
<1>4. /\ reader' \in [st : {"none", "read", "send", "done", "failed"}, pos : Nat]
      /\ reader'.st = s /\ reader'.pos = reader.pos
  BY ZenonT(60), <1>2, <1>3
<1>5. Threads'
  <2>1. s = "send" => reader.pos \in 1 .. Len(Files)
    BY SMTT(30), <1>2, <1>3, BulkConstants DEF BulkConstants
  <2>2. pc \in Importing
    BY ZenonT(30), <1>1 DEF IInv, Threads
  <2> QED BY <1>1, <1>3, <1>4, <2>1, <2>2 DEF IInv, Threads
<1>6. NothingLost'
  BY ZenonT(60), <1>1 DEF IInv, NothingLost
<1> QED BY <1>1, <1>4, <1>5, <1>6, ImportersStep DEF IInv, TypeOK

\* An indexer takes a file from the reader, or sees that there are no more.
LEMMA ReceiveStep == ASSUME IInv, NEW i \in Indexers, Receive(i) PROVE IInv'
<1>1. /\ UNCHANGED <<ver, store, wal, pc, crashes, stops, failures, chain, claimed>>
      /\ indexer[i].st = "recv"
  BY DEF Receive, disk, budget
<1>2. PICK me \in IndexerState :
        /\ indexer' = [indexer EXCEPT ![i] = me] /\ me.st \in {"index", "done"} /\ me.rows = {}
        /\ me.st = "index" => me.file \in 1 .. Len(Files) /\ me.pos = 1
        /\ \/ reader' = reader
           \/ reader.st = "send" /\ reader' = [st |-> "read", pos |-> reader.pos + 1]
  <2>1. CASE /\ reader.st = "send"
             /\ indexer' = [indexer EXCEPT ![i] = [st |-> "index", file |-> reader.pos, pos |-> 1, rows |-> {}]]
             /\ reader' = [st |-> "read", pos |-> reader.pos + 1]
    <3> DEFINE me == [st |-> "index", file |-> reader.pos, pos |-> 1, rows |-> {}]
    <3>1. reader.pos \in 1 .. Len(Files) /\ reader.pos \in Nat
      BY SMTT(30), <2>1 DEF IInv, Threads, TypeOK
    <3>2. /\ me \in IndexerState /\ me.st = "index" /\ me.rows = {} /\ me.file \in 1 .. Len(Files)
          /\ me.pos = 1
      BY ZenonT(30), <3>1 DEF IndexerState
    <3> HIDE DEF me
    <3>3. indexer' = [indexer EXCEPT ![i] = me]
      BY ZenonT(30), <2>1 DEF me
    <3> QED BY <2>1, <3>2, <3>3, ZenonT(60)
  <2>2. CASE indexer' = [indexer EXCEPT ![i].st = "done"] /\ UNCHANGED reader
    <3> DEFINE me == [indexer[i] EXCEPT !.st = "done"]
    <3>1. indexer[i] \in IndexerState /\ indexer[i].rows = {}
      BY ZenonT(60), <1>1 DEF IInv, TypeOK, Threads
    <3>2. me \in IndexerState /\ me.st = "done" /\ me.rows = {}
      BY <3>1 DEF IndexerState
    <3>3. indexer' = [indexer EXCEPT ![i] = me]
      BY ZenonT(60), <2>2
    <3> HIDE DEF me
    <3> QED BY <2>2, <3>2, <3>3, ZenonT(60)
  <2> QED BY <2>1, <2>2 DEF Receive
<1>3. indexer \in [Indexers -> IndexerState] /\ indexer' \in [Indexers -> IndexerState]
  BY ZenonT(60), <1>2 DEF IInv, TypeOK
<1>4. /\ reader' \in [st : {"none", "read", "send", "done", "failed"}, pos : Nat]
      /\ reader' = reader \/ (reader'.st = "read" /\ reader'.pos >= 1)
  <2>1. reader \in [st : {"none", "read", "send", "done", "failed"}, pos : Nat]
    BY DEF IInv, TypeOK
  <2> QED BY <1>2, <2>1
<1>5. \A j \in Indexers : indexer'[j].rows = indexer[j].rows
  BY <1>1, <1>2, <1>3, Zenon DEF IInv, Threads
<1>6. pc = "rows"
  BY ZenonT(60), <1>1 DEF IInv, Threads, Importing
<1>7. Threads'
  <2>1. pc' = "rows" /\ pc' \in Importing /\ chain' \in Chains
    BY ZenonT(30), <1>1, <1>6 DEF IInv, Threads, Importing
  <2>2. /\ reader'.st \in {"read", "send"} => reader'.pos >= 1
        /\ reader'.st = "send" => reader'.pos \in 1 .. Len(Files)
    BY ZenonT(30), <1>4 DEF IInv, Threads
  <2>3. ASSUME NEW j \in Indexers
        PROVE  /\ indexer'[j].st \notin {"index", "send"} => indexer'[j].rows = {}
               /\ indexer'[j].st = "index" => indexer'[j].file \in 1 .. Len(Files) /\ indexer'[j].pos >= 1
               /\ indexer'[j].st = "index" /\ indexer'[j].pos = 1 => indexer'[j].rows = {}
    <3>1. CASE j = i
      <4>1. indexer'[j] = me /\ 1 >= 1
        BY <1>2, <1>3, <3>1
      <4> QED BY ZenonT(60), <1>2, <4>1
    <3>2. CASE j # i
      <4>1. indexer'[j] = indexer[j]
        BY ZenonT(30), <1>2, <1>3, <3>2
      <4> QED BY ZenonT(30), <4>1 DEF IInv, Threads
    <3> QED BY Zenon, <3>1, <3>2
  <2> QED BY ZenonT(30), <2>1, <2>2, <2>3 DEF Threads
<1>8. NothingLost'
  BY <1>1, <1>5, ZenonT(60) DEF IInv, NothingLost
<1> QED BY ZenonT(60), <1>1, <1>3, <1>4, <1>7, <1>8, ImportersStep DEF IInv, TypeOK

\* A block that an indexer claims goes into its rows.
LEMMA IndexBlockStep == ASSUME IInv, NEW i \in Indexers, IndexBlock(i) PROVE IInv'
<1> DEFINE me == indexer[i]
           b == Files[me.file][me.pos]
           mine == b \in {chain[k] : k \in 1 .. Len(chain)} /\ b \notin claimed
<1>1. /\ UNCHANGED <<ver, store, wal, pc, crashes, failures, chain, reader>>
      /\ me.st = "index" /\ stops' \in Nat
  <2>1. UNCHANGED <<ver, store, wal, pc, crashes, failures, chain, reader>> /\ me.st = "index"
    BY Zenon DEF IndexBlock, disk
  <2>2. stops' = stops \/ stops' = stops + 1
    BY ZenonT(60) DEF IndexBlock
  <2> QED BY <2>1, <2>2 DEF IInv, TypeOK
<1>2. /\ me \in IndexerState /\ me.file \in 1 .. Len(Files) /\ me.pos \in Nat /\ me.pos >= 1
      /\ me.rows \in SUBSET Block
      /\ indexer \in [Indexers -> IndexerState] /\ claimed \in SUBSET Block
  BY SMTT(30), <1>1 DEF IInv, TypeOK, Threads, IndexerState
<1>3. pc = "rows" /\ pc \in Importing
  BY ZenonT(30), <1>1 DEF IInv, Threads, Importing
<1>4. PICK new \in IndexerState, S \in SUBSET Block :
        /\ indexer' = [indexer EXCEPT ![i] = new] /\ new.rows = me.rows \cup S
        /\ claimed' = claimed \cup S /\ S \cap claimed = {}
        /\ new.st \in {"failed", "index", "send"}
        /\ new.st = "failed" => new.rows = {}
        /\ new.st = "index" => new.file = me.file /\ new.pos > 1
  <2>1. CASE me.pos = 1 /\ indexer' = [indexer EXCEPT ![i].st = "failed"] /\ UNCHANGED claimed
    <3> DEFINE new == [me EXCEPT !.st = "failed"]
    <3>1. new \in IndexerState /\ new.st = "failed" /\ new.rows = me.rows /\ me.rows = {}
      BY <1>1, <1>2, <2>1, Zenon DEF IndexerState, IInv, Threads
    <3>2. indexer' = [indexer EXCEPT ![i] = new]
      BY <2>1
    <3> HIDE DEF new, me
    <3>3. {} \in SUBSET Block
      OBVIOUS
    <3> QED BY <2>1, <3>1, <3>2, <3>3, Zenon
  <2>2. CASE /\ me.pos <= Len(Files[me.file])
             /\ claimed' = IF mine THEN claimed \cup {b} ELSE claimed
             /\ indexer' = [indexer EXCEPT ![i].pos = me.pos + 1,
                                           ![i].rows = IF mine THEN me.rows \cup {b} ELSE me.rows]
    <3> DEFINE S == IF mine THEN {b} ELSE {}
               new == [me EXCEPT !.pos = me.pos + 1, !.rows = me.rows \cup S]
    <3>1. b \in Block
      <4>1. Files[me.file] \in Seq(Block)
        BY <1>2, BulkConstants DEF BulkConstants
      <4> QED BY <1>2, <2>2, <4>1
    <3>2. S \in SUBSET Block /\ S \cap claimed = {} /\ claimed' = claimed \cup S
      BY <2>2, <3>1, ZenonT(30)
    <3>3. (IF mine THEN me.rows \cup {b} ELSE me.rows) = me.rows \cup S
      BY Zenon
    <3>4. indexer' = [indexer EXCEPT ![i] = new]
      BY <2>2, <3>3, Zenon
    <3> HIDE DEF S
    <3>5. /\ new \in IndexerState /\ new.st = "index" /\ new.rows = me.rows \cup S
          /\ new.file = me.file /\ new.pos > 1
      <4>1. /\ me \in IndexerState /\ me.st = "index" /\ me.pos >= 1 /\ me.rows \cup S \in SUBSET Block
            /\ me.pos \in Nat
        BY <1>1, <1>2, <3>2
      <4> HIDE DEF me
      <4>2. me.pos + 1 \in Nat /\ me.pos + 1 > 1
        BY <4>1
      <4>3. /\ new \in IndexerState /\ new.st = "index" /\ new.rows = me.rows \cup S
            /\ new.file = me.file /\ new.pos = me.pos + 1
        BY <4>1, <4>2, Zenon DEF IndexerState
      <4> QED BY ZenonT(60), <4>2, <4>3
    <3> HIDE DEF new, me
    <3> QED BY <3>2, <3>4, <3>5, ZenonT(60)
  <2>3. CASE indexer' = [indexer EXCEPT ![i].st = "send"] /\ UNCHANGED claimed
    <3> DEFINE new == [me EXCEPT !.st = "send"]
    <3>1. new \in IndexerState /\ new.st = "send" /\ new.rows = me.rows
      BY ZenonT(30), <1>2 DEF IndexerState
    <3>2. indexer' = [indexer EXCEPT ![i] = new]
      BY ZenonT(30), <2>3
    <3> HIDE DEF new, me
    <3>3. {} \in SUBSET Block
      OBVIOUS
    <3> QED BY <2>3, <3>1, <3>2, <3>3, Zenon
  <2> QED BY <2>1, <2>2, <2>3, Zenon DEF IndexBlock
<1>5. indexer' \in [Indexers -> IndexerState] /\ claimed' \in SUBSET Block
  BY ZenonT(60), <1>2, <1>4
<1>6. \A j \in Indexers : indexer'[j] = IF j = i THEN new ELSE indexer[j]
  BY <1>2, <1>4
<1> HIDE DEF b, mine
<1>7. Threads'
  <2>1. \A j \in Indexers :
          /\ indexer'[j].st \notin {"index", "send"} => indexer'[j].rows = {}
          /\ indexer'[j].st = "index" => indexer'[j].file \in 1 .. Len(Files) /\ indexer'[j].pos >= 1
          /\ indexer'[j].st = "index" /\ indexer'[j].pos = 1 => indexer'[j].rows = {}
    <3> TAKE j \in Indexers
    <3>1. CASE j = i
      <4>1. new.pos \in Nat
        BY DEF IndexerState
      <4>2. indexer'[j] = new
        BY ZenonT(30), <1>6, <3>1
      <4>3. new.st \notin {"index", "send"} => new.rows = {}
        BY ZenonT(60), <1>4
      <4>4. new.st = "index" => new.file \in 1 .. Len(Files) /\ new.pos >= 1 /\ new.pos # 1
        BY SMTT(30), <1>2, <1>4, <4>1
      <4> QED BY <4>2, <4>3, <4>4, Zenon
    <3>2. CASE j # i
      BY SMTT(30), <1>6, <3>2 DEF IInv, Threads
    <3> QED BY ZenonT(30), <3>1, <3>2
  <2> QED BY ZenonT(30), <1>1, <1>3, <2>1 DEF IInv, Threads
<1>8. NothingLost'
  <2>1. /\ claimed = View(store).B \cup UNION {indexer[j].rows : j \in Indexers}
        /\ \A j, k \in Indexers : j # k => indexer[j].rows \cap indexer[k].rows = {}
        /\ \A j \in Indexers : indexer[j].rows \cap View(store).B = {}
    BY ZenonT(60), <1>3 DEF IInv, NothingLost
  <2>2. claimed' = claimed \cup S /\ S \cap claimed = {}
    BY Zenon, <1>4
  <2>3. \A j \in Indexers : indexer'[j].rows = IF j = i THEN indexer[i].rows \cup S ELSE indexer[j].rows
    <3> SUFFICES ASSUME NEW j \in Indexers
                 PROVE  indexer'[j].rows = IF j = i THEN indexer[i].rows \cup S ELSE indexer[j].rows
      BY Zenon
    <3>1. CASE j = i
      <4>1. indexer'[j] = new /\ new.rows = indexer[i].rows \cup S
        BY Zenon, <1>4, <1>6, <3>1
      <4> QED BY Zenon, <3>1, <4>1
    <3>2. CASE j # i
      <4>1. indexer'[j] = indexer[j]
        BY ZenonT(60), <1>6, <3>2
      <4> QED BY Zenon, <3>2, <4>1
    <3> QED BY Zenon, <3>1, <3>2
  <2>4. claimed' = View(store).B \cup UNION {indexer'[j].rows : j \in Indexers}
    BY SMTT(30), <2>1, <2>2, <2>3
  <2>5. \A j, k \in Indexers : j # k => indexer'[j].rows \cap indexer'[k].rows = {}
    BY SMTT(30), <2>1, <2>2, <2>3
  <2>6. \A j \in Indexers : indexer'[j].rows \cap View(store).B = {}
    BY SMTT(30), <2>1, <2>2, <2>3
  <2> QED BY ZenonT(30), <1>1, <2>4, <2>5, <2>6 DEF NothingLost
<1> QED BY <1>1, <1>5, <1>7, <1>8, ImportersStep DEF IInv, TypeOK

\* A batch of the import: the store grows by one database without the F row.
LEMMA GrowStep ==
  ASSUME IInv, UNCHANGED <<ver, crashes>>, NEW db, Good(db, ver, crashes), store' = write(store, db)
  PROVE  /\ IsStore(store') /\ View(store') = db /\ Dbs(store') = Dbs(store) \cup {db}
         /\ AllRowsMatch' /\ MarkerMeansComplete'
<1>1. IsStore(store') /\ Dbs(store') = Dbs(store) \cup {db} /\ View(store') = db
  BY ZenonT(30), StoreFacts, WriteStore DEF Good
<1>2. \A d \in Dbs(store') : Good(d, ver', crashes')
  BY <1>1, StoreFacts
<1> QED BY ZenonT(60), <1>1, <1>2, AllGood DEF AllRowsMatch, MarkerMeansComplete

\* The main thread writes the rows of a file.
LEMMA WriteRowsStep == ASSUME IInv, NEW i \in Indexers, WriteRows(i) PROVE IInv'
<1> DEFINE rows == indexer[i].rows
           db == index_blocks(View(store), rows)
<1>1. pc = "rows" /\ pc \in Importing /\ indexer[i].st = "send"
  BY DEF WriteRows, Importing
<1>2. indexer \in [Indexers -> IndexerState] /\ rows \in SUBSET Block
  BY ZenonT(60) DEF IInv, TypeOK, IndexerState
<1>3. Good(db, ver, crashes) /\ db.B = View(store).B \cup rows /\ db.F = View(store).F
  BY <1>2, StoreFacts, IndexBlocksGood
<1>4. \A d \in Dbs(store) : ~ d.F
  BY <1>1, NoMarker
<1> HIDE DEF db
<1>5. CASE /\ store' = write(store, db) /\ indexer' = [indexer EXCEPT ![i] = Waiting]
           /\ UNCHANGED <<ver, wal, pc, panic, budget, chain, claimed, reader>>
  <2>1. UNCHANGED <<ver, wal, pc, crashes, stops, failures, chain, claimed, reader>>
    BY ZenonT(30), <1>5 DEF budget
  <2>2. /\ IsStore(store') /\ View(store') = db /\ Dbs(store') = Dbs(store) \cup {db}
        /\ AllRowsMatch' /\ MarkerMeansComplete'
    BY ZenonT(30), <1>3, <1>5, <2>1, GrowStep
  <2>3. indexer' \in [Indexers -> IndexerState]
    <3>1. Waiting \in IndexerState
      BY DEF Waiting, IndexerState
    <3> QED BY ZenonT(30), <1>2, <1>5, <3>1
  <2>4. /\ \A j \in Indexers : j # i => indexer'[j] = indexer[j]
        /\ indexer'[i].rows = {} /\ indexer'[i].st = "recv"
    BY ZenonT(30), <1>2, <1>5 DEF Waiting
  <2>5. TypeOK'
    BY ZenonT(30), <2>1, <2>2, <2>3 DEF IInv, TypeOK, IsStore
  <2>6. Versions'
    BY ZenonT(30), <1>1, <2>1 DEF IInv, Versions, OnlyCurrentVersion
  <2>7. Phases'
    <3>1. \A d \in Dbs(store') : ~ d.F
      BY ZenonT(60), <1>3, <1>4, <2>2, StoreFacts
    <3>2. \A j \in 1 .. Len(store') : ~ store'[j].F
      BY <3>1, Unmarked, ZenonT(30)
    <3> QED BY ZenonT(60), <1>1, <2>1, <3>2 DEF IInv, Phases
  <2>8. Threads'
    BY ZenonT(60), <1>1, <2>1, <2>4 DEF IInv, Threads
  <2>9. NothingLost'
    <3>1. /\ claimed = View(store).B \cup UNION {indexer[j].rows : j \in Indexers}
          /\ \A j, k \in Indexers : j # k => indexer[j].rows \cap indexer[k].rows = {}
          /\ \A j \in Indexers : indexer[j].rows \cap View(store).B = {}
      BY ZenonT(30), <1>1 DEF IInv, NothingLost
    <3>2. View(store').B = View(store).B \cup rows
      BY ZenonT(60), <1>3, <2>2
    <3>3. claimed' = View(store').B \cup UNION {indexer'[j].rows : j \in Indexers}
      BY SMTT(30), <2>1, <2>4, <3>1, <3>2
    <3>4. \A j, k \in Indexers : j # k => indexer'[j].rows \cap indexer'[k].rows = {}
      BY ZenonT(30), <2>4, <3>1
    <3>5. \A j \in Indexers : indexer'[j].rows \cap View(store').B = {}
      BY ZenonT(60), <2>4, <3>1, <3>2
    <3> QED BY <3>3, <3>4, <3>5 DEF NothingLost
  <2> QED BY <2>2, <2>5, <2>6, <2>7, <2>8, <2>9 DEF IInv
<1>6. CASE /\ stops' = stops + 1 /\ store' = Closed(write(store, db)) /\ Ended
           /\ UNCHANGED <<panic, crashes, failures>>
  <2>1. store' = <<db>>
    BY ZenonT(30), <1>3, <1>6, StoreFacts, WriteStore DEF Closed, Good
  <2>2. ver # "absent"
    BY <1>1 DEF IInv, Versions
  <2>3. crashes' = crashes /\ crashes' \in Nat /\ failures' \in Nat /\ stops \in Nat
    BY ZenonT(30), <1>6 DEF IInv, TypeOK
  <2>4. stops' \in Nat
    BY <1>6, <2>3
  <2> QED BY ZenonT(60), <1>3, <1>6, <2>1, <2>2, <2>3, <2>4, EndedInv
<1> QED BY <1>5, <1>6, Zenon DEF WriteRows, db

\* No indexer is left to send rows.
LEMMA RowsEndStep == ASSUME IInv, RowsEnd PROVE IInv'
<1>1. /\ UNCHANGED <<ver, store, wal, crashes, stops, failures, chain, claimed, reader, indexer>>
      /\ pc = "rows" /\ pc' = "join" /\ \A i \in Indexers : indexer[i].st \in {"done", "failed"}
  BY DEF RowsEnd, disk, budget, threads
<1>2. pc \in Importing /\ pc' \in Importing /\ pc' \in MainStates
  BY ZenonT(30), <1>1 DEF Importing, MainStates
<1>3. TypeOK'
  BY SMTT(30), <1>1, <1>2 DEF IInv, TypeOK
<1>4. Versions' /\ Phases'
  BY ZenonT(30), <1>1, <1>2 DEF IInv, Versions, OnlyCurrentVersion, Phases, Opening, MainStates
<1>5. AllRowsMatch' /\ MarkerMeansComplete'
  BY ZenonT(60), <1>1, DatabasesKept
<1>6. Threads' /\ NothingLost'
  BY ZenonT(60), <1>1, <1>2 DEF IInv, Threads, NothingLost
<1> QED BY ZenonT(60), <1>3, <1>4, <1>5, <1>6 DEF IInv

\* The main thread joins reader and indexers.
LEMMA JoinStep == ASSUME IInv, Join PROVE IInv'
<1>1. CASE \E reason : Exit(reason) /\ UNCHANGED stops
  BY <1>1, ExitStep DEF IInv, TypeOK
<1>2. CASE pc = "join" /\ pc' = "last" /\ UNCHANGED <<disk, panic, budget, threads>>
  <2>1. UNCHANGED <<ver, store, wal, crashes, stops, failures, chain, claimed, reader, indexer>>
    BY <1>2 DEF disk, budget, threads
  <2>2. pc \in Importing /\ pc' \in Importing /\ pc' \in MainStates
    BY <1>2 DEF Importing, MainStates
  <2>3. TypeOK'
    BY ZenonT(60), <2>1, <2>2 DEF IInv, TypeOK
  <2>4. Versions' /\ Phases'
    BY <1>2, <2>1, <2>2 DEF IInv, Versions, OnlyCurrentVersion, Phases, Opening, MainStates
  <2>5. AllRowsMatch' /\ MarkerMeansComplete'
    BY SMTT(30), <2>1, DatabasesKept
  <2>6. Threads' /\ NothingLost'
    BY ZenonT(60), <1>2, <2>1, <2>2 DEF IInv, Threads, NothingLost
  <2> QED BY <2>3, <2>4, <2>5, <2>6 DEF IInv
<1> QED BY <1>1, <1>2, Zenon DEF Join

\* The headers before the first one that is not indexed: from the last of them, the
\* headers load.
LEMMA LastIndexedLoads ==
  ASSUME IInv, pc = "last", NEW m \in IndexedHeaders
  PROVE  chain[m] \in Block /\ Loadable(last_indexed_block(View(store), chain[m]))
<1> DEFINE S == {chain[k] : k \in 1 .. m}
<1>1. chain \in Seq(Block) /\ IsChain(chain) /\ Len(chain) \in Nat
  BY BulkConstants DEF IInv, Threads, Importing, BulkConstants
<1>2. m \in 1 .. Len(chain) /\ \A k \in 1 .. m : chain[k] \in claimed
  BY DEF IndexedHeaders
<1>3. claimed = View(store).B
  <2>1. \A i \in Indexers : indexer[i].rows = {}
    BY ZenonT(60) DEF IInv, Threads
  <2>2. claimed = View(store).B \cup UNION {indexer[i].rows : i \in Indexers}
    BY Zenon DEF IInv, NothingLost, Importing
  <2>3. UNION {indexer[i].rows : i \in Indexers} = {}
    BY <2>1, ZenonT(60)
  <2> QED BY ZenonT(60), <2>2, <2>3
<1>4. S \subseteq View(store).B /\ chain[m] \in S /\ chain[m] \in Block
  BY <1>1, <1>2, <1>3
<1>5. ASSUME NEW b \in S PROVE Prev[b] \in S \cup {NullHash}
  <2>1. PICK k \in 1 .. m : b = chain[k]
    OBVIOUS
  <2>2. k \in 1 .. Len(chain) /\ (k # 1 => k - 1 \in 1 .. m)
    BY <1>1, <1>2
  <2>3. Prev[b] = IF k = 1 THEN NullHash ELSE chain[k - 1]
    BY ZenonT(60), <1>1, <2>1, <2>2 DEF IsChain
  <2> QED BY <2>2, <2>3
<1> HIDE DEF S
<1>6. /\ last_indexed_block(View(store), chain[m]).B = View(store).B
      /\ last_indexed_block(View(store), chain[m]).L = chain[m]
  <2>1. View(store) \in Database /\ RowsMatch(View(store))
    BY StoreFacts, Zenon DEF Good
  <2> QED BY <1>4, <2>1, LastGood
<1> QED BY <1>4, <1>5, <1>6, Zenon DEF Loadable

\* The L row of the tip whose headers are all in the database.
LEMMA WriteLastStep == ASSUME IInv, WriteLast PROVE IInv'
<1>1. CASE \E reason : Exit(reason) /\ UNCHANGED stops
  BY <1>1, ExitStep DEF IInv, TypeOK
<1>2. CASE /\ pc = "last" /\ pc' = "compact"
           /\ \E k \in IndexedHeaders :
                store' = write(store, last_indexed_block(View(store), chain[k])) /\ wal' = chain[k]
           /\ claimed' = {} /\ reader' = NoReader /\ indexer' = [i \in Indexers |-> NoIndexer]
           /\ UNCHANGED <<ver, panic, budget>>
  <2> PICK k \in IndexedHeaders :
         store' = write(store, last_indexed_block(View(store), chain[k])) /\ wal' = chain[k]
    BY <1>2
  <2> DEFINE db == last_indexed_block(View(store), chain[k])
  <2>1. UNCHANGED <<ver, crashes, stops, failures>> /\ pc \in Importing /\ pc' \notin Importing
    BY <1>2 DEF budget, Importing
  <2>2. chain[k] \in Block /\ Loadable(db)
    BY ZenonT(60), <1>2, LastIndexedLoads
  <2>3. /\ db \in Database /\ RowsMatch(db) /\ db.L = chain[k] /\ db.F = View(store).F
    <3>1. View(store) \in Database /\ RowsMatch(View(store))
      BY StoreFacts, Zenon DEF Good
    <3> QED BY ZenonT(60), <2>2, <3>1, LastGood
  <2>4. \A d \in Dbs(store) : ~ d.F
    BY SMTT(30), <2>1, NoMarker
  <2> HIDE DEF db
  <2>5. Good(db, ver, crashes) /\ ~ db.F /\ db.L # NullHash
    <3>1. db.L # NullHash
      BY ZenonT(60), <2>2, <2>3, BlockTree
    <3>2. ~ db.F
      BY ZenonT(30), <2>1, <2>3, NoMarker
    <3> QED BY ZenonT(60), <2>2, <2>3, <3>1, <3>2 DEF Good
  <2>6. /\ IsStore(store') /\ View(store') = db /\ Dbs(store') = Dbs(store) \cup {db}
        /\ AllRowsMatch' /\ MarkerMeansComplete'
    BY ZenonT(30), <2>1, <2>5, GrowStep DEF db
  <2>7. TypeOK'
    <3>1. indexer' \in [Indexers -> IndexerState]
      BY ZenonT(30), <1>2 DEF NoIndexer, IndexerState
    <3>2. reader' \in [st : {"none", "read", "send", "done", "failed"}, pos : Nat]
      BY ZenonT(60), <1>2 DEF NoReader
    <3> QED BY ZenonT(30), <1>2, <2>1, <2>2, <2>6, <3>1, <3>2 DEF IInv, TypeOK, IsStore, MainStates
  <2>8. Versions'
    BY SMTT(30), <1>2, <2>1 DEF IInv, Versions, OnlyCurrentVersion, MainStates, Opening
  <2>9. Phases'
    <3>1. \A d \in Dbs(store') : ~ d.F
      BY <2>4, <2>5, <2>6
    <3>2. \A j \in 1 .. Len(store') : ~ store'[j].F
      BY <3>1, Unmarked, Zenon
    <3> QED BY ZenonT(60), <1>2, <2>2, <2>5, <2>6, <3>2 DEF Phases
  <2>10. Threads' /\ NothingLost'
    BY <1>2, <2>1, Zenon DEF Threads, NothingLost, NoReader, NoIndexer
  <2> QED BY ZenonT(60), <2>6, <2>7, <2>8, <2>9, <2>10 DEF IInv
<1> QED BY <1>1, <1>2, Zenon DEF WriteLast

\* Compaction flushes everything before the marker is written.
LEMMA CompactStep == ASSUME IInv, Compact PROVE IInv'
<1>1. /\ UNCHANGED <<ver, crashes, stops, failures, threads>> /\ pc = "compact" /\ pc' = "marker"
      /\ store' = <<View(store)>> /\ wal' = NullHash
  BY DEF Compact, Closed, budget
<1>2. pc \notin Importing /\ pc' \notin Importing /\ pc' \in MainStates
  BY ZenonT(60), <1>1 DEF Importing, MainStates
<1>3. /\ IsStore(store') /\ Dbs(store') = {View(store)} /\ View(store') = View(store)
      /\ Len(store') = 1
  BY <1>1, StoreFacts, OneDb
<1>4. \A db \in Dbs(store') : Good(db, ver', crashes') /\ ~ db.F
  <2>1. Good(View(store), ver, crashes) /\ ~ View(store).F
    BY ZenonT(30), <1>1, StoreFacts, NoMarker
  <2> QED BY <1>1, <1>3, <2>1, ZenonT(30)
<1>5. TypeOK'
  BY ZenonT(30), <1>1, <1>2, <1>3 DEF IInv, TypeOK, IsStore, threads
<1>6. Versions'
  BY ZenonT(60), <1>1 DEF IInv, Versions, OnlyCurrentVersion, MainStates, Opening
<1>7. Phases'
  <2>1. \A j \in 1 .. Len(store') : ~ store'[j].F
    BY <1>4, Unmarked, ZenonT(60)
  <2> QED BY ZenonT(60), <1>1, <1>3, <2>1 DEF IInv, Phases
<1>8. AllRowsMatch' /\ MarkerMeansComplete'
  BY <1>3, <1>4, AllGood DEF AllRowsMatch, MarkerMeansComplete
<1>9. Threads' /\ NothingLost'
  BY ZenonT(30), <1>1, <1>2, ThreadsKept
<1> QED BY <1>5, <1>6, <1>7, <1>8, <1>9 DEF IInv

\* The F row is written over an L row from which the headers load.
LEMMA WriteMarkerStep == ASSUME IInv, WriteMarker PROVE IInv'
<1> DEFINE db == full_compaction_marker(View(store))
<1>1. /\ UNCHANGED <<ver, wal, crashes, stops, failures, threads>> /\ pc = "marker" /\ pc' = "reload"
      /\ store' = <<db>>
  BY DEF WriteMarker, budget
<1>2. pc \notin Importing /\ pc' \notin Importing /\ pc' \in MainStates
  BY <1>1 DEF Importing, MainStates
<1>3. Good(db, ver', crashes') /\ db \in Database
  <2>1. View(store).L # NullHash /\ Loadable(View(store))
    BY ZenonT(30), <1>1 DEF IInv, Phases
  <2> QED BY <1>1, <2>1, StoreFacts, MarkerGood, ZenonT(30) DEF Good
<1> HIDE DEF db
<1>4. IsStore(store') /\ Dbs(store') = {db} /\ Len(store') = 1
  BY ZenonT(30), <1>1, <1>3, OneDb
<1>5. TypeOK'
  BY ZenonT(30), <1>1, <1>2, <1>4 DEF IInv, TypeOK, IsStore, threads
<1>6. Versions'
  BY ZenonT(30), <1>1 DEF IInv, Versions, OnlyCurrentVersion, MainStates, Opening
<1>7. Phases'
  BY ZenonT(60), <1>1, <1>2, <1>4 DEF IInv, Phases
<1>8. AllRowsMatch' /\ MarkerMeansComplete'
  BY <1>3, <1>4, AllGood DEF AllRowsMatch, MarkerMeansComplete
<1>9. Threads' /\ NothingLost'
  BY <1>1, <1>2, ThreadsKept
<1> QED BY <1>5, <1>6, <1>7, <1>8, <1>9 DEF IInv

\* RocksDB flushes a prefix of the batches on its own.
LEMMA FlushMemtableStep == ASSUME IInv, FlushMemtable PROVE IInv'
<1>1. UNCHANGED <<ver, wal, pc, crashes, stops, failures, chain, claimed, reader, indexer>>
  BY DEF FlushMemtable, budget, threads
<1>2. PICK i \in 2 .. Len(store) : store' = Flushed(store, i)
  BY ZenonT(30) DEF FlushMemtable
<1>3. IsStore(store') /\ Dbs(store') \subseteq Dbs(store) /\ View(store') = View(store)
  <2>1. i \in 1 .. Len(store)
    <3>1. Len(store) \in Nat \ {0}
      BY Zenon, StoreFacts
    <3> QED BY <3>1
  <2> QED BY ZenonT(60), <1>2, <2>1, StoreFacts, FlushedStore
<1>4. Len(store) # 1
  <2>1. Len(store) \in Nat \ {0}
    BY Zenon, StoreFacts
  <2>2. \A m \in Nat : i \in 2 .. m => m # 1
    OBVIOUS
  <2> QED BY Zenon, <2>1, <2>2
<1>5. pc \in Importing \cup {"compact"}
  BY <1>4 DEF IInv, Phases
<1>6. \A db \in Dbs(store') : Good(db, ver', crashes') /\ ~ db.F
  <2>1. \A db \in Dbs(store) : Good(db, ver, crashes) /\ ~ db.F
    BY ZenonT(30), <1>5, StoreFacts, NoMarker
  <2> QED BY <1>1, <1>3, <2>1, ZenonT(30)
<1>7. TypeOK'
  BY ZenonT(30), <1>1, <1>3 DEF IInv, TypeOK, IsStore
<1>8. Versions'
  BY ZenonT(30), <1>1, <1>5 DEF IInv, Versions, OnlyCurrentVersion, Importing
<1>9. Phases'
  <2>1. \A k \in 1 .. Len(store') : ~ store'[k].F
    BY <1>6, Unmarked, Zenon
  <2> QED BY ZenonT(30), <1>1, <1>3, <1>5, <2>1 DEF IInv, Phases
<1>10. AllRowsMatch' /\ MarkerMeansComplete'
  BY <1>3, <1>6, AllGood DEF AllRowsMatch, MarkerMeansComplete
<1>11. Threads' /\ NothingLost'
  BY <1>1, <1>3, ZenonT(60) DEF IInv, Threads, NothingLost
<1> QED BY ZenonT(30), <1>7, <1>8, <1>9, <1>10, <1>11 DEF IInv

\* A crash leaves the flushed batches, with the L row of the log if there is one: then
\* the F row is missing.
LEMMA CrashStep == ASSUME IInv, Crash PROVE IInv'
<1>1. /\ Ended /\ crashes' = crashes + 1 /\ UNCHANGED <<stops, failures>>
      /\ store' = IF wal = NullHash THEN <<store[1]>> ELSE <<last_indexed_block(store[1], wal)>>
  BY DEF Crash, Crashed
<1>2. crashes' \in Nat /\ crashes' # 0 /\ stops' \in Nat /\ failures' \in Nat
  BY <1>1 DEF IInv, TypeOK
<1>3. store[1] \in Database /\ Good(store[1], ver, crashes)
  BY StoreFacts
<1>4. CASE wal = NullHash
  <2>1. Good(store[1], ver, crashes')
    BY <1>2, <1>3 DEF Good
  <2>2. ver = "absent" => store[1] = EmptyDatabase
    BY DEF IInv, Versions
  <2> QED BY ZenonT(30), <1>1, <1>2, <1>4, <2>1, <2>2, EndedInv
<1>5. CASE wal # NullHash
  <2> DEFINE db == last_indexed_block(store[1], wal)
  <2>1. pc = "compact" /\ wal \in Block
    BY <1>5 DEF IInv, Phases, TypeOK
  <2>2. ~ store[1].F
    BY ZenonT(30), <2>1, NoMarker
  <2>3. db \in Database /\ RowsMatch(db) /\ ~ db.F
    BY <1>3, <2>1, <2>2, LastGood DEF Good
  <2>4. ver # "absent"
    BY <2>1 DEF IInv, Versions
  <2>5. store' = <<db>>
    BY <1>1, <1>5
  <2> HIDE DEF db
  <2>6. Good(db, ver, crashes')
    BY <1>2, <2>3 DEF Good
  <2> QED BY ZenonT(30), <1>1, <1>2, <2>4, <2>5, <2>6, EndedInv
<1> QED BY <1>4, <1>5

\* A signal or an error ends the process, and the database is closed.
LEMMA StopStep == ASSUME IInv, Stop PROVE IInv'
<1>1. PICK reason : Exit(reason) /\ (stops' = stops + 1 \/ stops' = stops)
  BY Zenon DEF Stop
<1>2. stops' \in Nat
  BY <1>1 DEF IInv, TypeOK
<1> QED BY <1>1, <1>2, ExitStep

\* Every step keeps the invariant.
LEMMA NextIInv == ASSUME IInv, [Next]_vars PROVE IInv'
<1>1. CASE Main
  <2>1. CASE \E i \in Indexers : WriteRows(i)
    BY <2>1, WriteRowsStep
  <2> QED BY ZenonT(30), <1>1, <2>1, WriteVersionStep, CheckVersionStep, OpenStep, LoadStep, StartImportStep,
             RowsEndStep, JoinStep, WriteLastStep, CompactStep, WriteMarkerStep DEF Main
<1>2. CASE \E i \in Indexers : Indexer(i)
  BY <1>2, ReceiveStep, IndexBlockStep DEF Indexer
<1> QED BY ZenonT(30), <1>1, <1>2, OpenStep, ReadFileStep, FlushMemtableStep, CrashStep, StopStep,
           Unchanged DEF Next

-------------------------------------------------------------------------------
(* The theorems.                                                           *)

\* The inductive invariant holds in every reachable state of the import.
THEOREM Invariant == Spec => []IInv
BY InitIInv, NextIInv, PTL DEF Spec

\* A block that an indexer inserted into indexed_blockhashes is in the database or in the
\* rows of exactly one indexer (NothingLost), whatever the interleaving of the threads,
\* the files and the memtable flushes.
THEOREM NothingIsLost == Spec => []NothingLost
<1>1. IInv => NothingLost
  BY DEF IInv
<1> QED BY <1>1, Invariant, PTL

\* The full compaction marker comes with an L row, with all headers from it down and with
\* their transactions; and so does the L row as long as nothing was killed
\* (MarkerMeansComplete), over any number of crashes, failures and restarts.
THEOREM MarkerIsComplete == Spec => []MarkerMeansComplete
<1>1. IInv => MarkerMeansComplete
  BY DEF IInv
<1> QED BY <1>1, Invariant, PTL

\* run_server() uses only a database of the current version, unless one of another version
\* could not be destroyed (OnlyCurrentVersion), wherever a process was killed while the
\* database was opened, created and destroyed.
THEOREM OnlyCurrentVersionUsed == Spec => []OnlyCurrentVersion
<1>1. IInv => OnlyCurrentVersion
  BY DEF IInv, Versions
<1> QED BY <1>1, Invariant, PTL
===============================================================================
