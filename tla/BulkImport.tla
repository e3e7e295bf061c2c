------------------------------- MODULE BulkImport -------------------------------
(***************************************************************************)
(* The start of the server with the bulk import (run_server in             *)
(* bin/electrscash.rs, bulk.rs, the opening and compaction of store.rs).   *)
(*                                                                         *)
(* One reader thread hands the contents of the blk*.dat files to indexer   *)
(* threads, which hand rows to the main thread, over channels of capacity  *)
(* zero: a send and its receive are one step.  The indexers share the set  *)
(* `indexed_blockhashes': a block is indexed by whoever inserts it first.  *)
(* The main thread writes one unlogged batch per file and, when all        *)
(* threads have ended, the L row through the log.                          *)
(***************************************************************************)
EXTENDS Store

CONSTANTS
  Indexers,            \* the indexer threads
  Files,               \* the blk*.dat files: a sequence of sequences of blocks
  Chains,              \* chains the daemon can be on when the import starts
  MaxCrashes,          \* bound: crashes
  MaxStops,            \* bound: signals, failed requests, unreadable or torn files
  MaxDestroyFailures   \* bound: failures of DB::destroy()

ASSUME BulkConstants ==
  /\ Files \in Seq(Seq(Block))
  /\ \A c \in Chains : c \in Seq(Block) /\ c # <<>> /\ IsChain(c)
  /\ MaxCrashes \in Nat /\ MaxStops \in Nat /\ MaxDestroyFailures \in Nat

VARIABLES
  ver,       \* VER row: "absent" (no directory), "none", "old" or "current"
  store,     \* the database (see Store)
  wal,       \* the L row in the write-ahead log, null when there is none
  pc,        \* what the main thread does next
  panic,     \* the panic that stopped the last process, "none" otherwise
  crashes, stops, failures,
  chain,     \* Parser::current_headers
  claimed,   \* Parser::indexed_blockhashes
  reader,    \* the reader thread and the file it is at
  indexer    \* every indexer thread, its file, position and rows

vars == <<ver, store, wal, pc, panic, crashes, stops, failures, chain, claimed, reader, indexer>>
disk == <<ver, store, wal>>
budget == <<crashes, stops, failures>>
threads == <<chain, claimed, reader, indexer>>

Opening == {"version", "check", "reopen", "reversion"}
Importing == {"rows", "join", "last"}
MainStates == Opening \cup Importing \cup
              {"down", "load", "headers", "compact", "marker", "reload", "serving"}

NoReader == [st |-> "none", pos |-> 0]
NoIndexer == [st |-> "none", file |-> 0, pos |-> 0, rows |-> {}]
Waiting == [st |-> "recv", file |-> 0, pos |-> 0, rows |-> {}]

Init ==
  /\ ver \in {"absent", "old"}
  /\ store = <<[EmptyDatabase EXCEPT !.F = (ver = "old")]>>
  /\ wal = NullHash
  /\ pc = "down" /\ panic = "none"
  /\ crashes = 0 /\ stops = 0 /\ failures = 0
  /\ chain = <<>> /\ claimed = {} /\ reader = NoReader
  /\ indexer = [i \in Indexers |-> NoIndexer]

-------------------------------------------------------------------------------
(* The end of the process: its threads are gone.                           *)

Ended ==
  /\ pc' = "down"
  /\ wal' = NullHash
  /\ chain' = <<>> /\ claimed' = {} /\ reader' = NoReader
  /\ indexer' = [i \in Indexers |-> NoIndexer]
  /\ UNCHANGED ver

\* What a restart finds after a crash: the flushed batches and the log.
Crash ==
  /\ pc # "down" /\ crashes < MaxCrashes
  /\ crashes' = crashes + 1
  /\ store' = IF wal = NullHash THEN Crashed(store)
              ELSE <<last_indexed_block(store[1], wal)>>
  /\ Ended
  /\ UNCHANGED <<panic, stops, failures>>

\* The main thread returned or unwound, which dropped the store.
Exit(reason) ==
  /\ store' = Closed(store)
  /\ panic' = reason
  /\ Ended
  /\ UNCHANGED <<crashes, failures>>

\* A request to the daemon failed, or a signal ended the main loop.
Stop ==
  \/ /\ pc \in {"load", "headers"} /\ stops < MaxStops
     /\ stops' = stops + 1
     /\ Exit("none")
  \/ /\ pc = "serving"
     /\ Exit("none")
     /\ UNCHANGED stops

FlushMemtable ==
  /\ pc # "down"
  /\ \E i \in 2 .. Len(store) : store' = Flushed(store, i)
  /\ UNCHANGED <<ver, wal, pc, panic, budget, threads>>

-------------------------------------------------------------------------------
(* run_server: opening the database.                                       *)

\* DbStore::open() creates the directory before the VER row is written.
open(created, existing) ==
  /\ IF ver = "absent" THEN ver' = "none" /\ pc' = created
                       ELSE UNCHANGED ver /\ pc' = existing
  /\ UNCHANGED <<store, wal, budget, threads>>

Start ==
  /\ pc = "down"
  /\ panic' = "none"
  /\ open("version", "check")

Reopen ==
  /\ pc = "reopen"
  /\ open("reversion", "load")
  /\ UNCHANGED panic

WriteVersion ==
  /\ pc \in {"version", "reversion"}
  /\ ver' = "current"
  /\ pc' = IF pc = "version" THEN "check" ELSE "load"
  /\ UNCHANGED <<store, wal, panic, budget, threads>>

\* Mutant: the version is not looked at.
CheckVersion_Skipped ==
  /\ pc = "check"
  /\ pc' = "reopen"
  /\ UNCHANGED <<disk, panic, budget, threads>>

\* An incompatible database is destroyed; a failure to do so is only logged.
CheckVersion ==
  /\ pc = "check"
  /\ pc' = "reopen"
  /\ \/ /\ ver = "current"
        /\ UNCHANGED <<ver, store, failures>>
     \/ /\ ver # "current"
        /\ ver' = "absent" /\ store' = <<EmptyDatabase>>
        /\ UNCHANGED failures
     \/ /\ ver # "current" /\ failures < MaxDestroyFailures
        /\ failures' = failures + 1
        /\ UNCHANGED <<ver, store>>
  /\ UNCHANGED <<wal, panic, crashes, stops, threads>>

\* Index::load(), then the import unless the F row is there.
Load ==
  /\ pc = "load"
  /\ IF Loadable(View(store))
     THEN /\ pc' = IF View(store).F THEN "serving" ELSE "headers"
          /\ UNCHANGED <<disk, panic, budget, threads>>
     ELSE Exit("missing header in DB") /\ UNCHANGED stops

-------------------------------------------------------------------------------
(* index_blk_files().                                                      *)

\* The indexed blocks, the daemon's headers, then the threads.
StartImport ==
  /\ pc = "headers"
  /\ claimed' = View(store).B
  /\ chain' \in Chains
  /\ reader' = [st |-> "read", pos |-> 1]
  /\ indexer' = [i \in Indexers |-> Waiting]
  /\ pc' = "rows"
  /\ UNCHANGED <<disk, panic, budget>>

ReadFile ==
  /\ reader.st = "read"
  /\ \/ /\ reader.pos <= Len(Files)
        /\ reader' = [reader EXCEPT !.st = "send"]
        /\ UNCHANGED stops
     \/ /\ reader.pos <= Len(Files) /\ stops < MaxStops
        /\ reader' = [reader EXCEPT !.st = "failed"]
        /\ stops' = stops + 1
     \/ /\ reader.pos > Len(Files)
        /\ reader' = [reader EXCEPT !.st = "done"]
        /\ UNCHANGED stops
  /\ UNCHANGED <<disk, pc, panic, crashes, failures, chain, claimed, indexer>>

\* Mutant: an indexer does not notice that the reader has ended.
Receive_NoEnd(i) ==
  /\ indexer[i].st = "recv" /\ reader.st = "send"
  /\ indexer' = [indexer EXCEPT ![i] = [st |-> "index", file |-> reader.pos, pos |-> 1, rows |-> {}]]
  /\ reader' = [st |-> "read", pos |-> reader.pos + 1]
  /\ UNCHANGED <<disk, pc, panic, budget, chain, claimed>>

\* An indexer receives a file, or learns that the reader has ended.
Receive(i) ==
  /\ indexer[i].st = "recv"
  /\ \/ /\ reader.st = "send"
        /\ indexer' = [indexer EXCEPT ![i] = [st |-> "index", file |-> reader.pos,
                                              pos |-> 1, rows |-> {}]]
        /\ reader' = [st |-> "read", pos |-> reader.pos + 1]
     \/ /\ reader.st \in {"done", "failed"}
        /\ indexer' = [indexer EXCEPT ![i].st = "done"]
        /\ UNCHANGED reader
  /\ UNCHANGED <<disk, pc, panic, budget, chain, claimed>>

\* Mutant: the set of indexed blocks is not consulted.
IndexBlock_NoClaim(i) ==
  /\ indexer[i].st = "index"
  /\ LET me == indexer[i]
         b  == Files[me.file][me.pos]
         mine == b \in {chain[k] : k \in 1 .. Len(chain)}
     IN  \/ /\ me.pos <= Len(Files[me.file])
            /\ claimed' = IF mine THEN claimed \cup {b} ELSE claimed
            /\ indexer' = [indexer EXCEPT
                             ![i].pos = me.pos + 1,
                             ![i].rows = IF mine THEN me.rows \cup {b} ELSE me.rows]
         \/ /\ me.pos > Len(Files[me.file])
            /\ indexer' = [indexer EXCEPT ![i].st = "send"]
            /\ UNCHANGED claimed
  /\ UNCHANGED <<disk, pc, panic, budget, chain, reader>>

\* index_blkfile(): parse_blocks() on the whole file, which fails if the daemon
\* was still writing it, then the blocks one by one.
IndexBlock(i) ==
  /\ indexer[i].st = "index"
  /\ LET me == indexer[i]
         b  == Files[me.file][me.pos]
         mine == b \in {chain[k] : k \in 1 .. Len(chain)} /\ b \notin claimed
     IN  \/ /\ me.pos = 1 /\ stops < MaxStops
            /\ indexer' = [indexer EXCEPT ![i].st = "failed"]
            /\ stops' = stops + 1
            /\ UNCHANGED claimed
         \/ /\ me.pos <= Len(Files[me.file])
            /\ claimed' = IF mine THEN claimed \cup {b} ELSE claimed
            /\ indexer' = [indexer EXCEPT
                             ![i].pos = me.pos + 1,
                             ![i].rows = IF mine THEN me.rows \cup {b} ELSE me.rows]
            /\ UNCHANGED stops
         \/ /\ me.pos > Len(Files[me.file])
            /\ indexer' = [indexer EXCEPT ![i].st = "send"]
            /\ UNCHANGED <<claimed, stops>>
  /\ UNCHANGED <<disk, pc, panic, crashes, failures, chain, reader>>

\* The rows of several blocks of one chain in one batch.
index_blocks(db, S) ==
  [db EXCEPT !.B = db.B \cup S,
             !.T = [t \in Tx |-> IF \E b \in S : t \in TxsOf[b]
                                 THEN Height[CHOOSE b \in S : t \in TxsOf[b]]
                                 ELSE db.T[t]]]

\* The main thread receives the rows of a file, writes them and polls for a
\* signal.
WriteRows(i) ==
  /\ pc = "rows" /\ indexer[i].st = "send"
  /\ LET written == write(store, index_blocks(View(store), indexer[i].rows)) IN
     \/ /\ store' = written
        /\ indexer' = [indexer EXCEPT ![i] = Waiting]
        /\ UNCHANGED <<ver, wal, pc, panic, budget, chain, claimed, reader>>
     \/ /\ stops < MaxStops /\ stops' = stops + 1
        /\ store' = Closed(written)
        /\ Ended
        /\ UNCHANGED <<panic, crashes, failures>>

\* Mutant: the rows end with the first indexer that does.
RowsEnd_First ==
  /\ pc = "rows"
  /\ \E i \in Indexers : indexer[i].st \in {"done", "failed"}
  /\ pc' = "join"
  /\ UNCHANGED <<disk, panic, budget, threads>>

\* All senders of rows are gone.
RowsEnd ==
  /\ pc = "rows"
  /\ \A i \in Indexers : indexer[i].st \in {"done", "failed"}
  /\ pc' = "join"
  /\ UNCHANGED <<disk, panic, budget, threads>>

\* The reader is joined first, then the indexers.
Join ==
  /\ pc = "join" /\ reader.st \in {"done", "failed"}
  /\ IF reader.st = "failed" THEN Exit("reader failed") /\ UNCHANGED stops
     ELSE IF \E i \in Indexers : indexer[i].st = "failed"
     THEN Exit("indexing failed") /\ UNCHANGED stops
     ELSE /\ pc' = "last"
          /\ UNCHANGED <<disk, panic, budget, threads>>

\* last_indexed_row(): the headers before the first one that is not indexed.
IndexedHeaders ==
  {k \in 1 .. Len(chain) : \A j \in 1 .. k : chain[j] \in claimed}

WriteLast ==
  /\ pc = "last"
  /\ IF IndexedHeaders = {}
     THEN Exit("no indexed header found") /\ UNCHANGED stops
     ELSE /\ \E k \in IndexedHeaders :
               /\ \A j \in IndexedHeaders : j <= k
               /\ store' = write(store, last_indexed_block(View(store), chain[k]))
               /\ wal' = chain[k]
          /\ pc' = "compact"
          /\ chain' = <<>> /\ claimed' = {} /\ reader' = NoReader
          /\ indexer' = [i \in Indexers |-> NoIndexer]
          /\ UNCHANGED <<ver, panic, budget>>

\* full_compaction(): compact_range() flushes the memtable first; then the F
\* row, synced.
Compact ==
  /\ pc = "compact"
  /\ store' = Closed(store)
  /\ wal' = NullHash
  /\ pc' = "marker"
  /\ UNCHANGED <<ver, panic, budget, threads>>

WriteMarker ==
  /\ pc = "marker"
  /\ store' = <<full_compaction_marker(View(store))>>
  /\ pc' = "reload"
  /\ UNCHANGED <<ver, wal, panic, budget, threads>>

Reload ==
  /\ pc = "reload"
  /\ IF Loadable(View(store))
     THEN /\ pc' = "serving"
          /\ UNCHANGED <<disk, panic, budget, threads>>
     ELSE Exit("missing header in DB") /\ UNCHANGED stops

-------------------------------------------------------------------------------
Main ==
  \/ WriteVersion \/ CheckVersion \/ Reopen \/ Load \/ StartImport
  \/ \E i \in Indexers : WriteRows(i)
  \/ RowsEnd \/ Join \/ WriteLast \/ Compact \/ WriteMarker \/ Reload

Indexer(i) == Receive(i) \/ IndexBlock(i)

Next ==
  \/ Start \/ Main
  \/ ReadFile \/ \E i \in Indexers : Indexer(i)
  \/ FlushMemtable \/ Crash \/ Stop

Spec == Init /\ [][Next]_vars

\* Every thread of a running process keeps taking steps.
FairSpec ==
  /\ Spec
  /\ WF_vars(Main) /\ WF_vars(ReadFile) /\ \A i \in Indexers : WF_vars(Indexer(i))

-------------------------------------------------------------------------------
(* Properties.                                                             *)

\* A block that was inserted into indexed_blockhashes, and that every other
\* thread therefore leaves alone, is in the database or in the rows of exactly
\* one indexer on their way there; nothing else is on its way.
NothingLost ==
  pc \in Importing =>
    /\ claimed = View(store).B \cup UNION {indexer[i].rows : i \in Indexers}
    /\ \A i, j \in Indexers : i # j => indexer[i].rows \cap indexer[j].rows = {}
    /\ \A i \in Indexers : indexer[i].rows \cap View(store).B = {}

\* With the F row, after which no start imports again, comes a complete import:
\* the headers from the L row down are all indexed, with their transactions.  As
\* long as no process is killed, the L row alone comes with all blocks before it
\* ("all previous blocks were indexed").
MarkerMeansComplete ==
  \A k \in 1 .. Len(store) :
    /\ ver = "current" /\ store[k].F =>
         store[k].L # NullHash /\ Loadable(store[k]) /\ RowsMatch(store[k])
    /\ crashes = 0 => Loadable(store[k])

\* A start after a crash finds the headers down from its L row: rows the L row
\* relies on are not left behind.
RestartLoads == panic # "missing header in DB"

\* Rows are read and written only in a database of the current version:
\* another one is re-indexed from nothing.  If destroying it fails the server goes
\* on with it, which is left out here.
OnlyCurrentVersion ==
  failures = 0 /\ pc \in MainStates \ (Opening \cup {"down"}) => ver = "current"

\* The reader holds a file for which no indexer is left.  Its send() does not
\* fail, because index_blk_files() itself keeps the receiver (`blobs'), so that
\* reader.join() never returns, and "indexing failed" is not reported.
ReaderStranded ==
  reader.st = "send" /\ \A i \in Indexers : indexer[i].st = "failed"

\* An import that has started its threads ends, in the main loop or with the
\* end of the process.  Only one wait lasts forever: that of a reader whose
\* indexers have all failed, each on a file it could not parse, before the last
\* file was handed over.  As long as one indexer is left, or all files have been
\* received, the failure of the others ends the process.
ImportEnds == pc \in Importing ~> pc \in {"serving", "down"} \/ ReaderStranded
===============================================================================
