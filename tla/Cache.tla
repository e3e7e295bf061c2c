--------------------------------- MODULE Cache ---------------------------------
(***************************************************************************)
(* The caches of block txids and of transactions: a RndCache (rndcache.rs) *)
(* behind a lock, read and filled by the threads that query (cache.rs).    *)
(* A thread looks its key up under the lock, loads the value without it,   *)
(* and puts it under the lock, where random entries are evicted until it   *)
(* fits.  Two threads can load one key and put it twice.                   *)
(***************************************************************************)
EXTENDS Integers, Functions

CONSTANTS
  Thread,           \* the threads that query
  Key,              \* block hashes, or txids
  SizeOf,           \* the capacity() of every key's Vec, in elements
  bytes_capacity,
  entry_overhead,
  MaxEntrySize      \* u32::MAX

CacheConstants ==
  /\ SizeOf \in [Key -> Nat]
  /\ bytes_capacity \in Nat /\ entry_overhead \in Nat /\ MaxEntrySize \in Nat

VARIABLES
  cached,        \* the keys of `map' (a value is what its key's load gives)
  bytes_used,
  lock,          \* who holds the lock of the cache: a thread, or "free"
  pc, key,       \* every thread: where it is, and the key it wants, if any
  panic          \* a thread drew an index from an empty map

NoKey == "none"

vars == <<cached, bytes_used, lock, pc, key, panic>>

Init ==
  /\ cached = {} /\ bytes_used = 0 /\ lock = "free"
  /\ pc = [t \in Thread |-> "idle"] /\ key = [t \in Thread |-> NoKey] /\ panic = FALSE

\* The query of t ends.
Done(t) == pc' = [pc EXCEPT ![t] = "idle"] /\ key' = [key EXCEPT ![t] = NoKey]

Cost(k) == SizeOf[k] + entry_overhead

fits_in_cache(size) == bytes_used + size <= bytes_capacity

\* get_or_else(), or TransactionCache::get(): a hit ends the query.
Get(t, k) ==
  /\ pc[t] = "idle" /\ lock = "free"
  /\ IF k \in cached THEN UNCHANGED <<pc, key>>
     ELSE pc' = [pc EXCEPT ![t] = "load"] /\ key' = [key EXCEPT ![t] = k]
  /\ UNCHANGED <<cached, bytes_used, lock, panic>>

\* The value comes from bitcoind, or the call fails.
Load(t) ==
  /\ pc[t] = "load"
  /\ \/ pc' = [pc EXCEPT ![t] = "put"] /\ UNCHANGED key
     \/ Done(t)
  /\ UNCHANGED <<cached, bytes_used, lock, panic>>

\* put() takes the lock; an entry that can never be cached is left out.
put(t) ==
  /\ pc[t] = "put" /\ lock = "free"
  /\ LET size == SizeOf[key[t]] IN
     IF size > bytes_capacity \/ size + entry_overhead > MaxEntrySize
     THEN Done(t) /\ UNCHANGED lock
     ELSE pc' = [pc EXCEPT ![t] = "fit"] /\ lock' = t /\ UNCHANGED key
  /\ UNCHANGED <<cached, bytes_used, panic>>

\* Mutant: an entry is drawn and not removed.
evict_random_Keeps(t) ==
  /\ pc[t] = "fit" /\ ~ fits_in_cache(SizeOf[key[t]]) /\ ~ panic
  /\ IF cached = {} THEN panic' = TRUE ELSE UNCHANGED panic
  /\ UNCHANGED <<cached, bytes_used, lock, pc, key>>

evict_random(t) ==
  /\ pc[t] = "fit" /\ ~ fits_in_cache(SizeOf[key[t]]) /\ ~ panic
  /\ IF cached = {}
     THEN panic' = TRUE /\ UNCHANGED <<cached, bytes_used>>
     ELSE \E k \in cached : /\ cached' = cached \ {k}
                            /\ bytes_used' = bytes_used - Cost(k)
                            /\ UNCHANGED panic
  /\ UNCHANGED <<lock, pc, key>>

\* Mutant: a replaced value stays in the usage.
Insert_NoReplace(t) ==
  /\ pc[t] = "fit" /\ fits_in_cache(SizeOf[key[t]])
  /\ cached' = cached \cup {key[t]}
  /\ bytes_used' = bytes_used + Cost(key[t])
  /\ lock' = "free" /\ Done(t)
  /\ UNCHANGED panic

\* map.insert(): a value that was there is replaced and its size given back.
Insert(t) ==
  /\ pc[t] = "fit" /\ fits_in_cache(SizeOf[key[t]])
  /\ cached' = cached \cup {key[t]}
  /\ bytes_used' = bytes_used + Cost(key[t]) - (IF key[t] \in cached THEN Cost(key[t]) ELSE 0)
  /\ lock' = "free" /\ Done(t)
  /\ UNCHANGED panic

\* A new process starts with an empty cache.
Restart ==
  /\ cached' = {} /\ bytes_used' = 0 /\ lock' = "free"
  /\ pc' = [t \in Thread |-> "idle"] /\ key' = [t \in Thread |-> NoKey] /\ panic' = FALSE

Query(t) == Load(t) \/ put(t) \/ evict_random(t) \/ Insert(t)

Next == Restart \/ \E t \in Thread : Query(t) \/ \E k \in Key : Get(t, k)

Spec == Init /\ [][Next]_vars

-------------------------------------------------------------------------------
(* Properties.                                                             *)

\* bytes_used is the cost of the entries, although one key can be put twice, and
\* the cost of the entries exceeds the capacity by one entry's overhead at most;
\* gen_range() is never asked for an index into an empty map.
UsageExact ==
  /\ ~ panic
  /\ bytes_used = SumFunctionOnSet([k \in Key |-> Cost(k)], cached)
  /\ bytes_used <= bytes_capacity + entry_overhead
===============================================================================
