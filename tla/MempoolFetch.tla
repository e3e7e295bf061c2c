------------------------------ MODULE MempoolFetch ------------------------------
(***************************************************************************)
(* Tracker::update() beside the peer threads: all of them read             *)
(* transactions through one TransactionCache (query/tx.rs, cache.rs).      *)
(* Module Mempool takes get_unconfirmed() for one step; here it is the     *)
(* lookup, the load and the put of module Cache, among those of the peers, *)
(* which may hold the lock, put the same transaction, or evict it.         *)
(***************************************************************************)
EXTENDS Mempool

CONSTANTS
  Peers,            \* the peer threads that query transactions
  SizeOf,           \* the size of every serialized transaction
  bytes_capacity, entry_overhead, MaxEntrySize,
  MaxQueries        \* bound: transactions that the peers ask for

Main == "main"
Thread == Peers \cup {Main}

VARIABLES
  cached, bytes_used, lock,  \* the cache, as in module Cache
  at, key, drewEmpty,        \* pc, key and panic of module Cache
  queries                    \* transactions the peers have asked for

TxCache == INSTANCE Cache WITH Key <- Txid, pc <- at, panic <- drewEmpty

ASSUME FetchConstants == TxCache!CacheConstants /\ Main \notin Peers /\ MaxQueries \in Nat

cacheVars == <<cached, bytes_used, lock, at, key, drewEmpty>>
fetchVars == <<vars, cacheVars, queries>>

FetchInit == Init /\ TxCache!Init /\ queries = 0

\* The main thread, between two lookups.
TrackerStep ==
  /\ UpdateStart \/ FetchEntry \/ RemoveOld \/ UpdateDone
  /\ UNCHANGED <<cacheVars, queries>>

\* get_unconfirmed(t): a hit, or the transaction is loaded and put; an error of
\* the load is one of get_unconfirmed().
get_unconfirmed ==
  /\ pc = "add"
  /\ \E t \in entry :
       \/ /\ TxCache!Get(Main, t)
          /\ IF t \in cached THEN Fetched(t) ELSE UNCHANGED vars
       \/ /\ TxCache!Load(Main)
          /\ IF at'[Main] = "idle" THEN NotFetched(t) ELSE UNCHANGED vars
       \/ /\ TxCache!put(Main) \/ TxCache!evict_random(Main) \/ TxCache!Insert(Main)
          /\ IF at'[Main] = "idle" THEN Fetched(t) ELSE UNCHANGED vars
  /\ UNCHANGED queries

\* A peer thread's TxQuery::get(): it begins, with a transaction of its choice ...
PeerAsks(p) ==
  /\ pc # "down" /\ queries < MaxQueries
  /\ queries' = queries + 1
  /\ \E t \in Txid : TxCache!Get(p, t)
  /\ UNCHANGED vars

\* ... and goes on.
PeerRuns(p) == pc # "down" /\ TxCache!Query(p) /\ UNCHANGED <<vars, queries>>

\* The process ended, and a new one starts.
FetchRestart == Restart /\ TxCache!Restart /\ UNCHANGED queries

FetchNext ==
  \/ TrackerStep \/ get_unconfirmed \/ FetchRestart
  \/ \E p \in Peers : PeerAsks(p) \/ PeerRuns(p)
  \/ (UpdateFails \/ MempoolChange) /\ UNCHANGED <<cacheVars, queries>>

FetchSpec == FetchInit /\ [][FetchNext]_fetchVars

\* The main loop calls update() again and again, and the peer threads finish what
\* they started: a thread that evicts, with the lock in its hand, goes on.  Nobody
\* has to start a process that ended again.
FetchFairSpec ==
  /\ FetchSpec
  /\ WF_fetchVars(TrackerStep \/ get_unconfirmed)
  /\ \A p \in Peers : WF_fetchVars(PeerRuns(p))

-------------------------------------------------------------------------------
(* Properties.                                                             *)

\* The bytes that the cache counts are exact and bounded, and no thread draws an
\* entry from an empty map, although the tracker and the peers put the same
\* transactions.
CacheUsageExact == TxCache!UsageExact
===============================================================================
