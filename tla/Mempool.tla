-------------------------------- MODULE Mempool --------------------------------
(***************************************************************************)
(* The mirror of the daemon's mempool (mempool.rs, with the requests it    *)
(* makes to the daemon).                                                   *)
(*                                                                         *)
(* Tracker::update() asks for the ids in the mempool, then for the entry   *)
(* and the transaction of each new id, one request after the other.  The   *)
(* mempool changes between any two of them.  The main thread holds the     *)
(* tracker's write lock meanwhile, so others see the tracker only between  *)
(* updates.  A row of the in-memory index is its key: the value of a key   *)
(* is always the same (empty, or the mempool height), so the vector of     *)
(* values of a key is its length.                                          *)
(***************************************************************************)
EXTENDS Integers, FiniteSets, Sequences, Functions

CONSTANTS
  Txid,       \* the transaction ids that can occur
  Key,        \* the row keys that can occur
  RowsOf,     \* index_transaction(tx): the keys of its rows; prefixes may collide
  Rate,       \* entry.fee_per_vbyte() of every transaction
  Vsize,      \* entry.vsize() of every transaction
  BinWidth,   \* VSIZE_BIN_WIDTH
  MaxChanges, \* bound: changes of the daemon's mempool
  MaxFailures \* bound: requests to a daemon that knows the answer which fail all the same

ASSUME MempoolConstants ==
  /\ RowsOf \in [Txid -> Seq(Key)]
  /\ Rate \in [Txid -> Nat] /\ Vsize \in [Txid -> Nat \ {0}]
  /\ BinWidth \in Nat /\ MaxChanges \in Nat /\ MaxFailures \in Nat

VARIABLES
  mem,        \* daemon: the ids in its mempool
  changes,    \* daemon: number of changes so far
  failures,   \* failed requests so far
  pc,         \* where update() is
  panic,      \* the panic that stopped the process, "none" otherwise
  items,      \* Tracker::items
  index,      \* Tracker::index: the number of values of every key
  histogram,  \* Tracker::histogram
  new, old,   \* update(): new_txids and old_txids
  todo,       \* update(): new ids still to be looked at
  entry,      \* update(): the id whose entry was just fetched, in a set
  changed,    \* update(): changed_txs
  left,       \* history: the ids that left the mempool during this update
  failed      \* history: the ids of which a request failed during this update

vars == <<mem, changes, failures, pc, panic, items, index, histogram,
          new, old, todo, entry, changed, left, failed>>
tracker == <<items, index, histogram>>

Init ==
  /\ mem \in SUBSET Txid /\ changes = 0 /\ failures = 0
  /\ pc = "idle" /\ panic = "none"
  /\ items = {} /\ index = [k \in Key |-> 0] /\ histogram = <<>>
  /\ new = {} /\ old = {} /\ todo = {} /\ entry = {} /\ changed = {} /\ left = {} /\ failed = {}

-------------------------------------------------------------------------------
(* The daemon.                                                             *)

\* A transaction enters the mempool, or some leave it (mined, replaced).
MempoolChange ==
  /\ changes < MaxChanges
  /\ changes' = changes + 1
  /\ \/ \E t \in Txid \ mem : mem' = mem \cup {t}
     \/ \E gone \in SUBSET mem \ {{}} : mem' = mem \ gone
  /\ left' = left \cup (mem \ mem')
  /\ UNCHANGED <<failures, pc, panic, tracker, new, old, todo, entry, changed, failed>>

-------------------------------------------------------------------------------
(* MempoolStore.                                                           *)

Occurrences(s, k) == Cardinality({i \in 1 .. Len(s) : s[i] = k})

add(ix, t) == [k \in Key |-> ix[k] + Occurrences(RowsOf[t], k)]

\* The number of values that the rows of the transactions in S are under the key k.
Values(S, k) == SumFunctionOnSet([t \in Txid |-> Occurrences(RowsOf[t], k)], S)

\* Mutant: the key is removed with all its values.
remove_Key(ix, S) ==
  [k \in Key |-> IF \E t \in S : Occurrences(RowsOf[t], k) > 0 THEN 0 ELSE ix[k]]

\* remove() for every transaction of S: a key that is missing, or out of
\* values, is a panic.
remove(ix, S) == [k \in Key |-> ix[k] - Values(S, k)]

remove_ok(ix, S) == \A k \in Key : remove(ix, S)[k] >= 0

-------------------------------------------------------------------------------
(* The fee histogram.                                                      *)

\* The entries from the highest to the lowest rate; the sort is unstable.
SortedEntries(S) ==
  {s \in Bijection(1 .. Cardinality(S), S) :
     \A i \in 1 .. Cardinality(S) - 1 : Rate[s[i]] >= Rate[s[i + 1]]}

\* Mutant: a full bin is closed although the rate is the same.
electrum_fees_step_SplitRate(acc, t) ==
  LET full == acc.bin_size > BinWidth IN
  [hist     |-> IF full THEN Append(acc.hist, <<acc.last, acc.bin_size>>) ELSE acc.hist,
   bin_size |-> (IF full THEN 0 ELSE acc.bin_size) + Vsize[t],
   last     |-> Rate[t]]

\* One entry of the loop: a full bin is closed where the rate changes.
electrum_fees_step(acc, t) ==
  LET full == acc.bin_size > BinWidth /\ acc.last # Rate[t] IN
  [hist     |-> IF full THEN Append(acc.hist, <<acc.last, acc.bin_size>>) ELSE acc.hist,
   bin_size |-> (IF full THEN 0 ELSE acc.bin_size) + Vsize[t],
   last     |-> Rate[t]]

electrum_fees(s) ==
  LET acc[i \in 0 .. Len(s)] ==
        IF i = 0 THEN [hist |-> <<>>, bin_size |-> 0, last |-> 0]
        ELSE electrum_fees_step(acc[i - 1], s[i])
      end == acc[Len(s)]
  IN  IF end.bin_size > 0 THEN Append(end.hist, <<end.last, end.bin_size>>) ELSE end.hist

-------------------------------------------------------------------------------
(* Tracker::update().                                                      *)

\* getmempooltxids(), and what is tracked already.
UpdateStart ==
  /\ pc = "idle"
  /\ pc' = "add"
  /\ new' = mem /\ old' = items
  /\ todo' = mem \ items
  /\ entry' = {} /\ changed' = {} /\ left' = {} /\ failed' = {}
  /\ UNCHANGED <<mem, changes, failures, panic, tracker>>

\* The request failed: the error ends the main loop and the process.
UpdateFails ==
  /\ pc = "idle" /\ failures < MaxFailures
  /\ failures' = failures + 1
  /\ pc' = "down"
  /\ UNCHANGED <<mem, changes, panic, tracker, new, old, todo, entry, changed, left, failed>>

\* A request about t fails although the daemon could answer: a read error, an
\* RPC error of another kind, a signal during a reconnection.
RequestFails(t) ==
  /\ failures < MaxFailures
  /\ failures' = failures + 1 /\ failed' = failed \cup {t}

\* getmempoolentry(t): an error, be it that t is gone, skips t.
FetchEntry ==
  /\ pc = "add" /\ entry = {}
  /\ \E t \in todo :
       /\ todo' = todo \ {t}
       /\ \/ entry' = {t} \cap mem /\ UNCHANGED <<failures, failed>>
          \/ entry' = {} /\ RequestFails(t)
  /\ UNCHANGED <<mem, changes, pc, panic, tracker, new, old, changed, left>>

\* Mutant: an added transaction is not reported.
Fetched_NoChange(t) ==
  /\ items' = items \cup {t}
  /\ index' = add(index, t)
  /\ entry' = {}
  /\ UNCHANGED <<mem, changes, failures, pc, panic, histogram, new, old, todo, changed, left, failed>>

\* get_unconfirmed(t) returns the transaction: add().  One that is gone may still
\* be cached, or served by a daemon with a transaction index.
Fetched(t) ==
  /\ items' = items \cup {t}
  /\ index' = add(index, t)
  /\ changed' = changed \cup {t}
  /\ entry' = {}
  /\ UNCHANGED <<mem, changes, failures, pc, panic, histogram, new, old, todo, left, failed>>

\* get_unconfirmed(t) fails, be it that t is gone: t is skipped.
NotFetched(t) ==
  /\ \/ t \notin mem /\ UNCHANGED <<failures, failed>>
     \/ RequestFails(t)
  /\ entry' = {}
  /\ UNCHANGED <<mem, changes, pc, panic, tracker, new, old, todo, changed, left>>

FetchTransaction == pc = "add" /\ \E t \in entry : Fetched(t) \/ NotFetched(t)

\* The transactions that are not in the mempool any more, and the histogram.
RemoveOld ==
  /\ pc = "add" /\ todo = {} /\ entry = {}
  /\ LET gone == old \ new IN
     IF gone \subseteq items /\ remove_ok(index, gone)
     THEN /\ items' = items \ gone
          /\ index' = remove(index, gone)
          /\ changed' = changed \cup gone
          /\ histogram' \in {electrum_fees(s) : s \in SortedEntries(items')}
          /\ pc' = "done"
          /\ UNCHANGED panic
     ELSE /\ panic' = "missing key in mempool"
          /\ pc' = "down"
          /\ UNCHANGED <<tracker, changed>>
  /\ UNCHANGED <<mem, changes, failures, new, old, todo, entry, left, failed>>

\* update() returns changed_txs.
UpdateDone ==
  /\ pc = "done"
  /\ pc' = "idle"
  /\ new' = {} /\ old' = {} /\ changed' = {} /\ left' = {} /\ failed' = {}
  /\ UNCHANGED <<mem, changes, failures, panic, tracker, todo, entry>>

\* A new process starts with an empty tracker.
Restart ==
  /\ pc = "down" /\ panic = "none"
  /\ pc' = "idle"
  /\ items' = {} /\ index' = [k \in Key |-> 0] /\ histogram' = <<>>
  /\ new' = {} /\ old' = {} /\ todo' = {} /\ entry' = {} /\ changed' = {} /\ left' = {} /\ failed' = {}
  /\ UNCHANGED <<mem, changes, failures, panic>>

Update == UpdateStart \/ FetchEntry \/ FetchTransaction \/ RemoveOld \/ UpdateDone

Next == Update \/ UpdateFails \/ Restart \/ MempoolChange

Spec == Init /\ [][Next]_vars

-------------------------------------------------------------------------------
(* Properties.                                                             *)

\* The index holds the rows of the tracked transactions and no others, with
\* their multiplicity: transactions whose keys collide do not remove each
\* other's rows, and remove() finds every key it looks for.
IndexExact ==
  /\ panic = "none"
  /\ \A k \in Key : index[k] = Values(items, k)

\* The set returned, from which clients are notified, is what was added and
\* what was removed: nothing is missing and nothing is in it without a reason.
\* The tracker holds ids the daemon reported and keeps those it had, and one that
\* it misses left the daemon's mempool during the update, or a request about it
\* failed.
UpdateExact ==
  pc = "done" => /\ changed = (old \ items) \cup (items \ old)
                 /\ items \subseteq new /\ old \cap new \subseteq items
                 /\ new \ items \subseteq left \cup failed

\* A bin of the fee histogram holds the sizes of exactly the transactions
\* between its rate and the rate of the bin before it, whatever the order in
\* which the sort left equal rates; all bins but the last are full.
HistogramExact ==
  pc \in {"idle", "done"} =>
    /\ \A i \in 1 .. Len(histogram) :
         /\ histogram[i][2] =
              SumFunctionOnSet(Vsize, {t \in items : /\ Rate[t] >= histogram[i][1]
                                                     /\ i > 1 => Rate[t] < histogram[i - 1][1]})
         /\ i < Len(histogram) => histogram[i][2] > BinWidth
    /\ items # {} =>
         LET lowest == histogram[Len(histogram)][1] IN
         /\ \E t \in items : Rate[t] = lowest
         /\ \A t \in items : Rate[t] >= lowest

\* When the daemon's mempool stays the same and its answers come again, the tracker
\* of a process that keeps running becomes equal to it: an id that was skipped is
\* looked at again by the next update, and no lookup waits forever for the lock of
\* the transaction cache, so that the eviction loop of every put() ends.
Mirrors == <>[](pc = "down" \/ items = mem)
===============================================================================
