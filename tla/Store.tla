--------------------------------- MODULE Store ---------------------------------
(***************************************************************************)
(* The RocksDB database (store.rs) with the rows of the index (index.rs).  *)
(*                                                                         *)
(* A database is a record: the `B' rows (one per indexed block), the `T'   *)
(* rows (transaction id to height; the `I', `O' and `C' rows of a          *)
(* transaction are written in the same batch and stand or fall with it),   *)
(* the `L' row (last indexed block, null when missing) and the `F' row     *)
(* (the full compaction marker).                                           *)
(*                                                                         *)
(* write(rows, false) disables the write-ahead log, so a batch lives in    *)
(* the memtable until RocksDB flushes it.  Memtables are flushed in order  *)
(* and a batch is atomic: what a crash leaves is the database after some   *)
(* prefix of the batches.  A store is therefore the sequence of the        *)
(* databases since the last memtable flush: the first one is on disk, the  *)
(* last one is what readers see.  A row written with sync = true also goes *)
(* through the log, from which a restart replays it: the F row, written    *)
(* after a compaction emptied the memtable, and the L row of the bulk      *)
(* import, written after batches that are in no log (module BulkImport).   *)
(***************************************************************************)
EXTENDS HeaderList

CONSTANTS
  Tx,     \* the transaction ids that can occur
  TxsOf   \* the transactions of every block

ASSUME BlockTxs == TxsOf \in [Block -> SUBSET Tx]

Database == [B : SUBSET Block,
             T : [Tx -> Nat \cup {NoHeight}],
             L : Block \cup {NullHash},
             F : BOOLEAN]

EmptyDatabase == [B |-> {}, T |-> [t \in Tx |-> NoHeight], L |-> NullHash, F |-> FALSE]

\* Mutant: a row that exists is not written again.
index_block_KeepHeight(db, b, h) ==
  [db EXCEPT !.B = db.B \cup {b},
             !.T = [t \in Tx |-> IF t \in TxsOf[b] /\ db.T[t] = NoHeight THEN h ELSE db.T[t]]]

\* The rows of one block: its B row and the rows of its transactions, which
\* replace the height of a transaction seen in another block.
index_block(db, b, h) ==
  [db EXCEPT !.B = db.B \cup {b},
             !.T = [t \in Tx |-> IF t \in TxsOf[b] THEN h ELSE db.T[t]]]

last_indexed_block(db, b) == [db EXCEPT !.L = b]

full_compaction_marker(db) == [db EXCEPT !.F = TRUE]

-------------------------------------------------------------------------------
\* What a reader gets: the effect of all batches.
View(store) == store[Len(store)]

\* write(rows, false): one more batch in the memtable.
write(store, db) == Append(store, db)

\* RocksDB flushed the memtable up to some batch.
Flushed(store, i) == SubSeq(store, i, Len(store))

\* The database was closed, or a manual compaction flushed the memtable.
Closed(store) == <<View(store)>>

\* The process died: what was only in the memtable is gone.
Crashed(store) == <<store[1]>>

-------------------------------------------------------------------------------
\* read_indexed_headers() gets from the L row to the null hash: L is in a set of
\* indexed blocks that holds the predecessor of each of its blocks.
Loadable(db) ==
  \/ db.L = NullHash
  \/ \E S \in SUBSET db.B : db.L \in S /\ \A b \in S : Prev[b] \in S \cup {NullHash}

\* Every indexed block has its predecessor, and the L row an indexed block:
\* the walk of read_indexed_headers() from L to the null hash finds each header.
Walkable(db) ==
  /\ db.L \in db.B \cup {NullHash}
  /\ \A b \in db.B : Prev[b] \in db.B \cup {NullHash}

\* The T rows are those of the indexed blocks: every transaction of an indexed
\* block has one, and a row's height is that of an indexed block with the
\* transaction.
RowsMatch(db) ==
  \A t \in Tx :
    IF \E b \in db.B : t \in TxsOf[b]
    THEN \E b \in db.B : t \in TxsOf[b] /\ db.T[t] = Height[b]
    ELSE db.T[t] = NoHeight
===============================================================================
