--------------------------------- MODULE Index ---------------------------------
(***************************************************************************)
(* Keeping the index on the daemon's chain (index.rs, app.rs, the main     *)
(* loop of bin/electrscash.rs), with the database of store.rs, the header  *)
(* list of util.rs and the header requests of daemon.rs.                   *)
(*                                                                         *)
(* One process runs: it loads the headers from the database, imports over  *)
(* JSON-RPC if the import never completed, and then follows the daemon.    *)
(* Beside it the daemon changes its active chain between any two requests, *)
(* RocksDB flushes memtables, and the process can be stopped or die at any *)
(* point and be started again.                                             *)
(***************************************************************************)
EXTENDS Store

CONSTANTS
  Genesis,        \* the first block of the daemon's chain
  MarkEvery,      \* the L row is updated every MarkEvery blocks (1000)
  ChunkSize,      \* headers requested at once (100_000)
  MaxReorg,       \* bound: blocks a chain change connects
  MaxTipChanges,  \* bound: changes of the daemon's chain
  MaxStops        \* bound: crashes and clean stops

ASSUME IndexConstants ==
  /\ Genesis \in Block /\ Prev[Genesis] = NullHash
  /\ MarkEvery \in Nat \ {0}
  /\ ChunkSize \in Nat \ {0}
  /\ MaxReorg \in Nat
  /\ MaxTipChanges \in Nat
  /\ MaxStops \in Nat

\* The blocks from one block down to the null hash.
Branch(S) ==
  /\ \A b \in S : Prev[b] \in S \cup {NullHash}
  /\ \A b, c \in S : Height[b] = Height[c] => b = c

\* A rule of consensus (BIP 30, BIP 34): no chain has a transaction twice.
ASSUME TxsOnce ==
  \A S \in SUBSET Block :
    Branch(S) => \A b, c \in S : b # c => TxsOf[b] \cap TxsOf[c] = {}

VARIABLES
  active,      \* daemon: the active chain, genesis first
  tipChanges,  \* daemon: number of changes so far
  store,       \* the database (see Store)
  hl,          \* Index::headers
  appTip,      \* App::tip
  pc,          \* what the process does next
  panic,       \* the panic that stopped the last process, "none" otherwise
  stops,       \* number of crashes and clean stops so far
  tip,         \* update(): the daemon's best block when it was asked
  cursor,      \* blockhash in the loops that walk back over headers
  hashes,      \* the headers collected by those loops
  new,         \* update(): new_headers
  written      \* update(): the number of blocks written so far

daemonVars == <<active, tipChanges>>
localVars == <<tip, cursor, hashes, new, written>>
vars == <<active, tipChanges, store, hl, appTip, pc, panic, stops,
          tip, cursor, hashes, new, written>>

best == active[Len(active)]

Running == {"load", "update", "all", "walk", "write", "apply", "compact", "marker", "idle"}

Panics == {"none", "missing header in DB", "get_all_headers", "order", "apply"}

Init ==
  /\ active = <<Genesis>> /\ tipChanges = 0
  /\ store = <<EmptyDatabase>>
  /\ hl = empty /\ appTip = NullHash
  /\ pc = "down" /\ panic = "none" /\ stops = 0
  /\ tip = NullHash /\ cursor = NullHash /\ hashes = <<>> /\ new = <<>> /\ written = 0

-------------------------------------------------------------------------------
(* The daemon and RocksDB.                                                 *)

\* The active chain keeps its first k blocks and continues with `ext': a new
\* block, a reorganisation, or blocks that became invalid.
ChainChange ==
  /\ tipChanges < MaxTipChanges
  /\ \E k \in 1 .. Len(active), n \in 0 .. MaxReorg : \E ext \in [1 .. n -> Block] :
       active' = SubSeq(active, 1, k) \o ext
  /\ IsChain(active') /\ active' # active
  /\ tipChanges' = tipChanges + 1
  /\ UNCHANGED <<store, hl, appTip, pc, panic, stops, localVars>>

FlushMemtable ==
  /\ pc \in Running
  /\ \E i \in 2 .. Len(store) : store' = Flushed(store, i)
  /\ UNCHANGED <<daemonVars, hl, appTip, pc, panic, stops, localVars>>

-------------------------------------------------------------------------------
(* The end of the process: its memory is gone.                             *)

Ended ==
  /\ pc' = "down"
  /\ hl' = empty /\ appTip' = NullHash
  /\ tip' = NullHash /\ cursor' = NullHash /\ hashes' = <<>> /\ new' = <<>> /\ written' = 0
  /\ UNCHANGED daemonVars

Crash ==
  /\ pc \in Running /\ stops < MaxStops
  /\ stops' = stops + 1
  /\ store' = Crashed(store)
  /\ Ended
  /\ UNCHANGED panic

\* An error goes up to main(), which ends the process; the database is closed.
Fail ==
  /\ store' = Closed(store)
  /\ Ended
  /\ UNCHANGED panic

\* A signal (poll() in update(), wait() in the main loop) or a failed request
\* to the daemon.
Stop ==
  /\ pc \in {"update", "all", "walk", "write", "idle"} /\ stops < MaxStops
  /\ stops' = stops + 1
  /\ Fail

\* A panic of the main thread: the database is closed by the unwinding unless
\* a connection thread still holds it.
Panic(reason) ==
  /\ store' \in {Closed(store), Crashed(store)}
  /\ panic' = reason
  /\ Ended
  /\ UNCHANGED stops

-------------------------------------------------------------------------------
(* Starting: Index::load() and read_indexed_headers().                     *)

Start ==
  /\ pc = "down"
  /\ pc' = "load" /\ panic' = "none"
  /\ cursor' = View(store).L
  /\ hashes' = <<>>
  /\ UNCHANGED <<daemonVars, store, hl, appTip, stops, tip, new, written>>

LoadHeader ==
  /\ pc = "load" /\ cursor # NullHash
  /\ IF cursor \in View(store).B
     THEN /\ hashes' = <<cursor>> \o hashes
          /\ cursor' = Prev[cursor]
          /\ UNCHANGED <<daemonVars, store, hl, appTip, pc, panic, stops, tip, new, written>>
     ELSE Panic("missing header in DB")

\* The list is built with order() and apply().  Without the F row the import
\* comes next, otherwise the main loop.
LoadDone ==
  /\ pc = "load" /\ cursor = NullHash
  /\ LET entries == order(empty, hashes) IN
     IF apply_ok(empty, entries, View(store).L)
     THEN /\ hl' = apply(empty, entries, View(store).L)
          /\ pc' = IF View(store).F THEN "idle" ELSE "update"
          /\ hashes' = <<>>
          /\ UNCHANGED <<daemonVars, store, appTip, panic, stops, tip, cursor, new, written>>
     ELSE Panic("apply")

-------------------------------------------------------------------------------
(* App::update() and Index::update().                                      *)

\* Mutant: only the first update is made.
AppUpdate_Once ==
  /\ pc = "idle"
  /\ pc' = IF appTip = NullHash THEN "update" ELSE "idle"
  /\ UNCHANGED <<daemonVars, store, hl, appTip, panic, stops, localVars>>

AppUpdate ==
  /\ pc = "idle"
  /\ pc' = IF appTip # best THEN "update" ELSE "idle"
  /\ UNCHANGED <<daemonVars, store, hl, appTip, panic, stops, localVars>>

\* getbestblockhash() again, then get_new_headers().
UpdateStart ==
  /\ pc = "update"
  /\ tip' = best
  /\ cursor' = best
  /\ hashes' = <<>>
  /\ pc' = IF hl.headers = <<>> THEN "all" ELSE "walk"
  /\ UNCHANGED <<daemonVars, store, hl, appTip, panic, stops, new, written>>

\* get_all_headers(): headers by height, a chunk per request, up to the height
\* the tip had.  A height beyond the active chain is an error.
AllHeadersChunk ==
  /\ pc = "all" /\ Len(hashes) <= Height[tip]
  /\ LET last == Len(hashes) + ChunkSize
         upto == IF last > Height[tip] + 1 THEN Height[tip] + 1 ELSE last
     IN  IF upto <= Len(active)
         THEN /\ hashes' = hashes \o SubSeq(active, Len(hashes) + 1, upto)
              /\ UNCHANGED <<daemonVars, store, hl, appTip, pc, panic, stops,
                             tip, cursor, new, written>>
         ELSE Fail /\ UNCHANGED stops

\* Mutant: the loop over the fetched blocks is skipped.
OrderHeaders_SkipWrites ==
  IF order_ok(hl, hashes)
  THEN /\ new' = order(hl, hashes)
       /\ written' = Len(hashes)
       /\ pc' = "apply"
       /\ cursor' = NullHash /\ hashes' = <<>>
       /\ UNCHANGED <<daemonVars, store, hl, appTip, panic, stops, tip>>
  ELSE Panic("order")

\* new_headers = order(...), then the loop over the fetched blocks.
OrderHeaders ==
  IF order_ok(hl, hashes)
  THEN /\ new' = order(hl, hashes)
       /\ written' = 0
       /\ pc' = "write"
       /\ cursor' = NullHash /\ hashes' = <<>>
       /\ UNCHANGED <<daemonVars, store, hl, appTip, panic, stops, tip>>
  ELSE Panic("order")

AllHeadersDone ==
  /\ pc = "all" /\ Len(hashes) = Height[tip] + 1
  /\ IF Linked(hashes) /\ Prev[hashes[1]] = NullHash /\ LastHash(hashes) = tip
     THEN OrderHeaders
     ELSE Panic("get_all_headers")

\* get_new_headers(): one request per header, until a known one.
WalkHeader ==
  /\ pc = "walk" /\ cursor # NullHash
  /\ ~ header_by_blockhash(hl, cursor)
  /\ hashes' = <<cursor>> \o hashes
  /\ cursor' = Prev[cursor]
  /\ UNCHANGED <<daemonVars, store, hl, appTip, pc, panic, stops, tip, new, written>>

WalkDone ==
  /\ pc = "walk"
  /\ cursor = NullHash \/ header_by_blockhash(hl, cursor)
  /\ OrderHeaders

\* Mutant: the L row names the last block of the update instead of this one.
WriteBlock_MarkTip ==
  /\ pc = "write" /\ written < Len(new)
  /\ LET e  == new[written + 1]
         db == index_block(View(store), e.hash, e.height)
     IN  store' = write(store, IF (written + 1) % MarkEvery = 0
                               THEN last_indexed_block(db, new[Len(new)].hash)
                               ELSE db)
  /\ written' = written + 1
  /\ UNCHANGED <<daemonVars, hl, appTip, pc, panic, stops, tip, cursor, hashes, new>>

\* The rows of the next block in one batch, with the L row every MarkEvery.
WriteBlock ==
  /\ pc = "write" /\ written < Len(new)
  /\ LET e  == new[written + 1]
         db == index_block(View(store), e.hash, e.height)
     IN  store' = write(store, IF (written + 1) % MarkEvery = 0
                               THEN last_indexed_block(db, e.hash)
                               ELSE db)
  /\ written' = written + 1
  /\ UNCHANGED <<daemonVars, hl, appTip, pc, panic, stops, tip, cursor, hashes, new>>

\* Mutant: the L row of the last block is only written by the loop.
WriteLast_Forgotten ==
  /\ pc = "write" /\ written = Len(new)
  /\ pc' = "apply"
  /\ UNCHANGED <<daemonVars, store, hl, appTip, panic, stops, localVars>>

\* The L row of the last block, if there was one.  flush() writes an empty
\* batch to the log, which leaves the memtable where it is.
WriteLast ==
  /\ pc = "write" /\ written = Len(new)
  /\ store' = IF new = <<>> THEN store
              ELSE write(store, last_indexed_block(View(store), new[Len(new)].hash))
  /\ pc' = "apply"
  /\ UNCHANGED <<daemonVars, hl, appTip, panic, stops, localVars>>

\* The list is published, and App::tip set unless this was the import.
ApplyHeaders ==
  /\ pc = "apply"
  /\ IF apply_ok(hl, new, tip)
     THEN /\ hl' = apply(hl, new, tip)
          /\ IF View(store).F
             THEN pc' = "idle" /\ appTip' = tip
             ELSE pc' = "compact" /\ UNCHANGED appTip
          /\ tip' = NullHash /\ new' = <<>> /\ written' = 0
          /\ UNCHANGED <<daemonVars, store, panic, stops, cursor, hashes>>
     ELSE Panic("apply")

\* full_compaction(): compact_range() flushes the memtable first.
Compact ==
  /\ pc = "compact"
  /\ store' = Closed(store)
  /\ pc' = "marker"
  /\ UNCHANGED <<daemonVars, hl, appTip, panic, stops, localVars>>

\* The F row, synced; nothing else is in the memtable.
WriteMarker ==
  /\ pc = "marker"
  /\ store' = <<full_compaction_marker(View(store))>>
  /\ pc' = "idle"
  /\ UNCHANGED <<daemonVars, hl, appTip, panic, stops, localVars>>

-------------------------------------------------------------------------------
Step ==
  \/ LoadHeader \/ LoadDone
  \/ AppUpdate \/ UpdateStart
  \/ AllHeadersChunk \/ AllHeadersDone
  \/ WalkHeader \/ WalkDone
  \/ WriteBlock \/ WriteLast \/ ApplyHeaders
  \/ Compact \/ WriteMarker

Next == Start \/ Step \/ ChainChange \/ FlushMemtable \/ Crash \/ Stop

Spec == Init /\ [][Next]_vars

\* A running process keeps taking steps: the main loop has no blocking wait
\* but requests to the daemon and a timer.  Nobody has to start it again.
FairSpec == Spec /\ WF_vars(Step)

-------------------------------------------------------------------------------
(* Properties.                                                             *)

\* The variables keep their types: the store is a sequence of databases, the list
\* one of entries with their map, and panics are those of the code.
TypeOK ==
  /\ active \in Seq(Block) /\ tipChanges \in Nat
  /\ store \in Seq(Database)
  /\ hl \in Lists
  /\ appTip \in Block \cup {NullHash}
  /\ pc \in Running \cup {"down"}
  /\ panic \in Panics
  /\ stops \in Nat
  /\ tip \in Block \cup {NullHash}
  /\ cursor \in Block \cup {NullHash}
  /\ hashes \in Seq(Block)
  /\ new \in Seq(Entry)
  /\ written \in Nat

\* Crash consistency: whatever prefix of the unlogged batches a crash leaves,
\* the walk from the L row finds a B row for every header down to the genesis
\* block (read_indexed_headers() panics on a missing one).
Recoverable == \A i \in 1 .. Len(store) : Walkable(store[i])

\* Batches are complete: in every database a crash can leave, a B row comes
\* with the rows of all the block's transactions, and a T row's height is the
\* height of an indexed block holding the transaction.
RowsComplete == \A i \in 1 .. Len(store) : RowsMatch(store[i])

\* The header list is a chain from the genesis block, each entry at its own
\* height, and header_by_blockhash() finds exactly the blocks of the chain in
\* spite of the entries that reorganisations leave behind in `heights'.
HeadersExact ==
  /\ \A i \in 1 .. Len(hl.headers) :
       /\ hl.headers[i].height = i - 1
       /\ Prev[hl.headers[i].hash] = IF i = 1 THEN NullHash ELSE hl.headers[i - 1].hash
  /\ \A b \in Block :
       header_by_blockhash(hl, b) <=> \E i \in 1 .. Len(hl.headers) : hl.headers[i].hash = b

\* Queries find the rows of every block of the served chain: its blocks are
\* indexed in the database readers see.
HeadersIndexed ==
  \A i \in 1 .. Len(hl.headers) : hl.headers[i].hash \in View(store).B

\* No assertion of order(), apply() or read_indexed_headers() ever fails,
\* however the daemon's chain moves between the requests of an update and
\* wherever earlier processes were stopped.
NoIndexPanic == panic \in {"none", "get_all_headers"}

\* The F row, which makes every later start skip the import, is never on disk
\* before an imported chain is.
MarkerAfterImport ==
  \A i \in 1 .. Len(store) : store[i].F => store[i].L # NullHash

\* Between updates the height in the T row of a transaction of the served
\* chain is the height of its block there ("Confirmed height" of the schema).
TxHeightsCurrent ==
  pc = "idle" /\ appTip # NullHash =>
    \A i \in 1 .. Len(hl.headers) : \A t \in TxsOf[hl.headers[i].hash] :
      View(store).T[t] = hl.headers[i].height

\* It is, as long as no update was cut short by the end of its process.
UninterruptedHeights == stops = 0 => TxHeightsCurrent

\* A process that keeps running ends up serving the daemon's chain once the
\* daemon's chain stays the same.
CatchesUp == <>[](pc = "down" \/ tiphash(hl) = best)

-------------------------------------------------------------------------------
(* The inductive invariant behind the safety properties.                   *)

\* A piece of a chain: linked, at consecutive heights.
Segment(s) ==
  \A i \in 1 .. Len(s) :
    /\ Height[s[i]] = Height[s[1]] + i - 1
    /\ i > 1 => Prev[s[i]] = s[i - 1]

\* The loops that walk back hold a piece of chain that ends at `from' and
\* still misses `cursor'.
Walked(from) ==
  /\ Segment(hashes)
  /\ IF hashes = <<>> THEN cursor = from
     ELSE Prev[hashes[1]] = cursor /\ hashes[Len(hashes)] = from

\* The entries of a list are a chain, and the map has their positions.
ListOk(l) ==
  \A i \in 1 .. Len(l.headers) :
    /\ l.headers[i].height = i - 1
    /\ Height[l.headers[i].hash] = i - 1
    /\ l.heights[l.headers[i].hash] = i - 1
    /\ Prev[l.headers[i].hash] = IF i = 1 THEN NullHash ELSE l.headers[i - 1].hash

\* The entries n lead from a block of the list l (or from the start) to t.
Continues(l, n, t) ==
  /\ \A i \in 1 .. Len(n) :
       /\ n[i].height = Height[n[i].hash]
       /\ n[i].height = n[1].height + i - 1
       /\ i > 1 => Prev[n[i].hash] = n[i - 1].hash
  /\ IF n = <<>> THEN header_by_blockhash(l, t)
     ELSE /\ n[Len(n)].hash = t
          /\ n[1].height <= Len(l.headers)
          /\ Prev[n[1].hash] = IF n[1].height > 0
                               THEN l.headers[n[1].height].hash
                               ELSE NullHash

LoadInv ==
  /\ Walked(View(store).L)
  /\ \A i \in 1 .. Len(hashes) : hashes[i] \in View(store).B

AllInv ==
  /\ hl.headers = <<>> /\ tip \in Block
  /\ Len(hashes) <= Height[tip] + 1
  /\ \A i \in 1 .. Len(hashes) : Height[hashes[i]] = i - 1

WriteInv ==
  /\ tip \in Block /\ Continues(hl, new, tip)
  /\ written <= Len(new)
  /\ \A i \in 1 .. written : new[i].hash \in View(store).B

IInv ==
  /\ TypeOK
  /\ active # <<>> /\ IsChain(active)
  /\ store # <<>> /\ Recoverable /\ RowsComplete /\ MarkerAfterImport
  /\ ListOk(hl) /\ HeadersIndexed
  /\ hl.headers # <<>> => View(store).L # NullHash
  /\ pc \in {"down", "load"} => hl = empty
  /\ pc = "load" => LoadInv
  /\ pc = "all" => AllInv
  /\ pc = "walk" => hl.headers # <<>> /\ tip \in Block /\ Walked(tip)
  /\ pc \in {"write", "apply"} => WriteInv
  /\ pc = "apply" => written = Len(new) /\ (new # <<>> => View(store).L # NullHash)
  /\ pc \in {"compact", "marker"} => hl.headers # <<>>
  /\ NoIndexPanic
===============================================================================
