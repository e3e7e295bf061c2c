# A TLA+ model of ElectrsCash

ElectrsCash indexes the Bitcoin Cash block chain of a `bitcoind` into a RocksDB
database and answers Electrum clients from it. This directory holds TLA+
modules of its stateful parts, the TLC configurations that check them on small
instances, and proofs, checked by TLAPS, about the chain index, the bulk import, the
mempool mirror, the caches, subscriptions, connections and the link to `bitcoind`. Paths below are relative to
the crate (`src/index.rs` and so on).

- [The system](#the-system): inventory of parts, state, operations, hazards
- [Modules](#modules): which module models what, and how
- [Runs](#runs): what each TLC configuration shows, with its bounds
- [Disagreements](#disagreements-between-the-code-and-its-documentation)
- [Proofs](#proofs): theorems, assumptions, the inductive invariants
- [Fairness](#fairness), [what is left out](#what-is-not-modelled)

## The system

One process. The *main thread* (`bin/electrscash.rs`) opens the database, loads
the header list, imports the chain if that was never completed, and then loops:
update the index, update the mempool mirror, notify, wait. *Peer threads*, one
per client, answer requests and handle notifications. Between them run the
acceptor, notifier, rpc and reader threads, and, during the import, one reader
and several indexers. WebSocket clients reach the RPC port through a proxy, a
thread whose executor runs one future per channel.

| Part | State | Operations | What makes it hard |
|---|---|---|---|
| Header list (`util.rs`) | vector of headers, map from hash to height | `order`, `apply`, `header_by_blockhash` | the map keeps blocks that were reorganised away |
| Chain index (`index.rs`, `app.rs`) | header list, tip, progress of `update()` | load, update, publish | the daemon's chain moves between two requests; stops anywhere |
| Database (`store.rs`) | rows, of which a part is only in the memtable | `write`, `flush`, compact, open, destroy | batches without a log are lost by a crash, synced ones are not |
| Bulk import (`bulk.rs`) | claimed blocks, threads, channels of capacity zero | read, index, write, join, `last_indexed_row` | racing indexers, one thread failing while others wait for it |
| Mempool mirror (`mempool.rs`) | tracked entries, index by key, histogram | `update`, `add`, `remove`, `electrum_fees` | transactions vanish between two requests, keys collide |
| Subscriptions (`rpc/blockchain.rs`, `rpc/mod.rs`, `query/`) | status hashes, queues, gauge | subscribe, unsubscribe, notify, `status` | a status is computed in steps while the index changes; queues fill up |
| Connections (`rpc/mod.rs`, `doslimit.rs`) | threads, queues, senders, slot counters | accept, read, reply, shut down | shutdown against full queues, locks and clients that do not read |
| Daemon link (`daemon.rs`, `signal.rs`) | a connection behind a mutex, a signal channel of capacity one | send, receive, retry, reconnect, wait | threads replace the connection under each other and compete for signals |
| Queries (`query/`, `rpc/blockchain.rs`, `rpc/scripthash.rs`) | none but the transaction cache | status, balance, unspent, first use, spender, block and confirmations, Merkle proofs | every read sees another moment of index, tracker and daemon |
| WebSocket proxy (`wstcp/`) | handshake, buffers, frame encoder and decoder, closing state | `poll()` | frames cut anywhere, peers that stop reading or leave, sleeping only when nothing is owed |
| Caches (`cache.rs`, `rndcache.rs`) | entries, bytes used | get, put, evict | two threads put one key; sizes at the limit |

`PROJECT.json` lists all parts, those that are not modelled included, and the
hazards of the code line by line, each with the properties that would catch it.

The parts interact as follows. The index writes through the store and publishes
the header list; the mempool mirror follows; the main loop turns what changed
into notifications; the notifier puts them into the queues of the connections;
peers compute statuses from the store and the mirror. The interactions are
modelled where a property depends on them: `Index` composes store, header list
and daemon; `BulkImport` composes the store with the start of the process;
`MempoolFetch` composes the mempool mirror with the transaction cache that it shares
with the peers; `MainLoop` is what readers see of index, mempool mirror and daemon,
and `Subscriptions` and `Queries` run beside it.

## Modules

A block is an abstract value with a predecessor (`Prev`) and a height; a
transaction is an abstract id. Every counter that bounds a run (`MaxStops`,
`MaxTipChanges`, ...) is a named constant and occurs in a guard.

**`HeaderList`** — the header list as a record of the vector (`headers`) and the
map (`heights`). `order` and `apply` are operators; their assertions are
`order_ok` and `apply_ok`. As in the code, `apply` truncates the vector and
only ever adds to the map.

**`Store`** — a database is a record of its `B`, `T`, `L` and `F` rows. The
other rows of a transaction are in the batch of its `T` row and stand or fall
with it. `write(rows, false)` disables the log, so a store is the sequence of
the databases since the last memtable flush: the first is on disk, the last is
what readers see. A crash leaves the first, closing leaves the last, a flush
drops a prefix. That RocksDB flushes batches in order, applies each atomically
and flushes unlogged data when it is closed is assumed of the library.

**`Index`** — `Index::load`, `Index::update` and `App::update`, one action per
request to the daemon or batch written. `ChainChange` may extend, replace or
cut the daemon's chain between any two actions. `Crash`, `Stop` (a signal or a
failed request) and assertion failures (`Panic`) end the process, and `Start`
begins with what is on disk. The fetcher thread of `update()` is seen as its
blocks arriving in order, which the channel guarantees.

**`BulkImport`** — `run_server` from the first `open` to the main loop: the
version check, destruction and creation of the database, reader, indexers and
main thread, the L row in the log (`wal`), compaction, marker. A rendezvous
(`SyncChannel::new(0)`) is one step of both threads; the receiver of the files is
never dropped, because `index_blk_files` keeps it. Parsing of a file is
reduced to whether it fails.

**`Mempool`** — `Tracker::update` with one action per request, the multimap of
rows as the number of values of every key, and the histogram as a fold over
the entries in every order the unstable sort can produce. A request about an id
fails because the id is gone, or for any other reason; the code skips the id in both
cases, and `left` and `failed` record which it was.

**`MempoolFetch`** — the tracker beside peer threads that use the same
`TransactionCache`. `get_unconfirmed()` is one step in `Mempool`; here it is the
lookup, the load and the put of `Cache`, while peers hold the lock, put the same
transaction or evict it.

**`MainLoop`** — a round of the main loop as other threads see it: the rows of
the new blocks, block by block, then the headers, then the tracker; the daemon's
chain and mempool, which change at any time; and the lookups of `query/` as
operators on these. The server starts with a chain that is indexed (`Indexed`)
and a mempool that is tracked (`Pooled`), as it does after the first
`App::update` and `update_mempool`. The `T` rows it starts with are any of `StartRows`:
those of the chain, or, after an update that was interrupted on a branch since given
up, some with heights of that branch. Lookups by the eight-byte prefix of an id are
taken to find that id. An output has one spender among the transactions of an
instance (`MainLoopConstants`): with two of them, on two branches or one replacing
the other, `find_spending_input` loads the candidates in the order of the scan and
fails if one cannot be loaded (`src/query/queryutil.rs:104`), which is not modelled.

**`Subscriptions`** — the path of a change from the daemon to the client. A
status is the set of pairs of transaction and height whose hash
`Status::hash` computes, and `status()` takes three steps (confirmed funding,
confirmed spending, mempool), between which the main loop may run. `lost`
records notifications that a full queue or a failed lookup dropped: while the main
loop collects the scripthashes to notify, a block or a transaction that cannot be
loaded is left out. A request that panics takes its thread with it and leaves its
subscriptions in the gauge (`leaked`).

**`Merkle`** — `create_merkle_branch_and_root`, recursive over the levels, with
hashes as pairs, and, for comparison, the root of the Bitcoin protocol and the
check a client makes, defined without it.

**`Queries`** — one action per read of a query. `q` is the query with what it
has read so far; `since` records, for the properties only, which chains were
served and which transactions were known since it began. Queries write nothing
but the transaction cache, so one at a time is enough.

**`Connections`** — acceptor, rpc, notifier, peer and reader threads with the
bounded queue of each connection, the senders mutex and both slot counters.
Which request it is does not matter here; a request is answered, ends the
connection or panics.

**`DaemonLink`** — the connection that `App` shares between main thread and
peers (the one of `TxQuery` is of the same kind), request ids, retry and
reconnection, and the `Waiter` on whose channel these threads wait. The connection
is lost with bitcoind (`DaemonStops`) or alone (`ConnectionDrops`); `losses` counts
both, and `swallowed` records that a call took a termination signal without stopping
the server.

**`Cache`** — `get_or_else` and `put` by several threads, and the eviction loop.

**`WsFrame`** — encoder and decoder of frames as operators. A frame is a header
and its payload bytes, each one unit; a masked byte carries its position in the
masking key, and `unmask` gives the byte back only at that position. A header is one
unit; that its bytes may come in two reads matters only if its opcode is refused, and
there both outcomes are in the model (`AfterRefusal`). Arithmetic is that of a release
build: after a read of newlines alone `start_encoding_data` computes `0 - 1`, on which
a debug build panics.

**`WsChannel`** — the future of a channel. A step is a round of the loop in
`poll()`; client and server send a byte at a time, so reads end anywhere; both
may stop reading, and leave. The buffers of `bytecodec`, the sockets and the
executor are external: after `Poll::Pending` the future is polled again when a
stream it could not read or write is ready. `lone` records, for the properties only,
which newlines of the server were read without another byte.

**`ChainService`**, **`IndexService`** — what the index promises its readers,
written without reference to how it does it, and the mapping of `Index` to it:
rows of a block come after those of its predecessor, a chain is published at
once, whole, indexed, and ending at the block the daemon named; a process that
ends takes the served chain with it and may lose rows, never gain them.

The theorems are in modules of their own: **`IndexLemmas`** and **`IndexProofs`** (the
index), **`BulkImportProofs`**, **`MempoolProofs`** (the tracker and the cache),
**`SubscriptionsLemmas`** and **`SubscriptionsProofs`**, **`ConnectionsProofs`**,
**`DaemonLinkProofs`**. Two components have a module of lemmas because the prover's own
processing of an obligation slows down with the size of the module; most leaves name
Zenon for the same reason. The `MC...` modules give values to the
constants for TLC. Operators commented as *Mutant* are altered forms of
the definition that follows them, used to see that a property notices the
alteration; no specification refers to them.

## Runs

Every pass run completes its state space. State counts are TLC's.

| Run (`.cfg`) | Instance | Shows |
|---|---|---|
| `MCIndex` | six blocks in two branches, three chain changes, two stops or crashes; L row every 2 blocks, headers in chunks of 2 (90,452 states) | `Recoverable`: whatever prefix of batches a crash leaves, the headers below the L row are there. `HeadersExact`: the served list is a chain, and lookups are exact in spite of stale map entries. `IInv`: the invariant of the proofs; among its conjuncts are that block rows come with those of their transactions (`RowsComplete`), that served blocks are indexed (`HeadersIndexed`), that the assertions of `order`, `apply` and `read_indexed_headers` hold (`NoIndexPanic`), and `MarkerAfterImport`. `UninterruptedHeights`: until a process is stopped, transaction rows have the heights of the served chain. `ServesChain`: `Index` implements `ChainService`. `CatchesUp`: a process that keeps running ends up on the daemon's chain |
| `MCBulkImport` | two indexers, three files with an orphan and a duplicate, one crash, one or both indexers failing, one failed destroy (305,991) | `NothingLost`: a claimed block is in the database or in exactly one indexer's rows. `MarkerMeansComplete`: the marker only comes with a complete import, and so does the L row without a crash. `OnlyCurrentVersion`, if the old database could be destroyed. `ImportEnds`: the import is completed or the process ends, unless all indexers failed while the reader holds a file (`ReaderStranded`) |
| `MCMempool` | three transactions with colliding keys, equal rates and sizes at the limits of the cache, two changes, a failing request, a peer that asks for a transaction (224,984) | `IndexExact`: the rows are those of the tracked transactions, and removing one never panics. `UpdateExact`: an update reports exactly what changed, and skips only what left the mempool meanwhile or had a failed request. `HistogramExact`. `CacheUsageExact`: the bytes counted by the cache are those of its entries, and no eviction meets an empty one. `Mirrors`: the tracker becomes equal to a mempool at rest |
| `MCSubscriptions` | two scripthashes, a limit of one, an indexed block that can be replaced, a transaction and its spender, queues of one; any three of up to two changes, two requests, a failing query, a panic or a lookup that misses (597,362) | `StaleIsPending`: a stored status that is out of date has its notification on the way or recorded as lost. `StaleTipIsPending`: the same for the tip, also when an older tip is queued behind `headers.subscribe`. `SubscriptionsCounted`: the gauge is the number of live subscriptions and of those that a panic leaked, and the limit holds. `ClientsLearn`: subscribed clients end up with the current status and tip, unless the notification was lost |
| `MCConnections` | two clients of one prefix, three settings of the limits, queues of one, a read error, a panic, a client that stops reading (357,938) | `SlotsExact`, `LiveIsListed`, `StoppedMeansDone`; `ShutdownEnds` unless a client does not read; `ClosedIsCleaned` |
| `MCDaemonLink` | two threads, two calls, two losses of the connection, one of them with a restart of bitcoind and a warm-up reply, a signal of each kind (552,171) | `AwaitedReplyComes`: a thread reads the reply to its own request. `AnswersAreTruthful`: a call that returns a result was carried out, one that returns an error of bitcoind was not unless a connection was lost, and each loss costs at most one more execution. `CallsReturn`. `SignalStops`: a termination signal stops the server unless a call that waits after a loss has taken it |
| `MCWsChannel` | buffers of two units, sockets of three, frames of the client (data longer than the key and the buffers, Ping, Close, refused opcode) and bytes of the server, three together and at most two frames (228,200) | `ForwardsInOrder`: bytes are relayed once, in order, unmasked. `RepliesInOrder`: so are those of the server, and the ends of its lines, but for newlines that are read alone. `FramesWellFormed`: the client gets whole frames and messages, a message ends only where the server ended a line, and nothing comes after a Close frame. `SleepsWithoutDebts`: the future sleeps only if it owes nothing a socket would take. `PartingNoticed`: a peer that leaves is noticed |
| `MCQueries` | four blocks in two branches of different heights and an odd number of transactions, rows of the chain or of the other branch, two changes, every kind of query (2,780,000) | `TxProofsVerify`: proofs lead to the root of what was served. `HeaderProofsVerify`: so do those of headers, and no assertion fails, if the headers up to the checkpoint stay the same. `KnownIsFound`: a spender is found although it is mined during the query. `MissedOnlyIfMined`: a status misses a transaction in one race only. `StableIsRight`: block, height and confirmations are right as long as the transaction stays in the chain. `BalanceIsUnspent`: the balances add up to the unspent outputs |

Why the bounds are enough to be interesting: two branches of different length
with the same transactions at different heights give every kind of chain change
(extend, replace, cut, return); two stops allow a crash during the recovery from
another; a queue of one or two messages is full after a notification and a
request; two indexers race, one can fail while the other goes on, and both can; two
losses let a request fail twice, once while it is made again; in the proxy buffers and
sockets are smaller than a frame, so that every one of them fills up, the masking key
is used again within a frame, and the server can send a byte, a newline and another
byte. Two entries fill the cache of `MCMempool`, and one is larger than it.
No run uses symmetry.

An instance of `MCWsChannel` with four frames and bytes together was checked as well
(1,250,357 states, nine minutes); all its properties hold.

`StaleIsPending` and `ClientsLearn` compare statuses without telling the
heights 0 and -1 of unconfirmed transactions apart (`Coarse`): when the parent
of a mempool transaction is mined, the status of the child's scripthash changes
from -1 to 0, and the code notifies only the scripthashes of the transactions
in the block. The instance has such a child.

What the properties of `Queries` leave out does happen in the model:

- another chain, published after the heights of a checkpoint proof were checked,
  gives a proof over headers of both chains, or, if it is shorter than the checkpoint,
  fails an assertion, for which there is a run of its own (`MCQueriesAssert`);
- a transaction that is mined between the read of the database and that of the
  tracker is missing from a status, and `get_first_use` answers "not found";
- one that is indexed while it is still tracked counts twice in the balances;
- one that leaves the chain can be given the block now at its old height, or,
  if the chain became shorter by two, a number of confirmations that wrapped around in
  `usize` (`src/query/tx.rs:167`; `Usize` stands for its range);
- one that starts with the row of another branch is answered with the block at that
  height until an update writes its row again.

And so does what the properties of `WsChannel` leave out:

- after a frame is finished nothing makes the future decode the next one in
  `ws_rbuf`; if no stream is ready it sleeps on it (`FrameLeft`);
- when the server leaves with decoded data undelivered the decoder stays on it,
  and later frames, a Close frame included, are not decoded (`Clogged`);
- the responses to a refused handshake are put into `ws_wbuf`, and the future
  ends without flushing it; so it is with a Close frame after a protocol error;
- a read that is nothing but a newline ends no message: the newline is dropped, and
  what follows continues the message before it (`lone`);
- a refused opcode whose first byte came in an earlier read leaves the decoder in the
  middle of the frame, and the rest of it is taken for other frames (`Misread`);
- after the server's stream has ended, `poll()` does not return `Poll::Pending` until
  the client answers or leaves: the closed stream never counts as one that would
  block. A channel is alone in the model, so what this costs the other futures of the
  executor is not covered.

## Disagreements between the code and its documentation

Each of these has a run whose property states what a comment or document says,
and which TLC finds violated.

| Run | What happens |
|---|---|
| `MCIndexStaleHeights` | An update to another branch is interrupted after writing blocks, and the daemon returns to the first branch. Its blocks are not written again, so `T` rows keep heights of the branch that was given up ("Confirmed height", `doc/schema.md:26`). |
| `MCBulkImportCrash` | The L row of the bulk import is synced to the log while the block rows are in the memtable; after a crash in between every start panics on a missing header ("all previous blocks were indexed", `src/index.rs:243`). |
| `MCQueriesAssert` | The headers for a checkpoint proof are read one by one; a shorter chain published meanwhile leaves one of them out, and the peer thread panics ("`assert_eq!(header_hashes.len(), heights.len())`", `src/query/mod.rs:405`). |
| `MCConnectionsReset` | After a read error the peer thread and its slot stay ("Clean up RPC threads after connection is closed", `RELEASE-NOTES.md:178`). |

Others are part of the models, and are the reason for the conditions of some
properties; they have no run of their own:

- A chain change between the chunks of `get_all_headers()` fails its assertions
  (`src/daemon.rs:603`); `NoIndexPanic` leaves this panic out.
- When all indexers have failed, the reader waits in `send()` for a receiver, which
  `index_blk_files` itself keeps alive, and the main thread for the reader, so
  `expect("indexing failed")` (`src/bulk.rs:272`) is never reached; this is the
  `ReaderStranded` of `ImportEnds`.
- If an incompatible database cannot be destroyed the server runs on it ("Running
  full reindex", `src/bin/electrscash.rs:53`); `OnlyCurrentVersion` excludes this.
- After a connection to bitcoind was lost, a termination signal can be taken by a
  peer thread that waits to connect again, or by a call of the main thread whose
  errors are ignored ("so multiple threads could wait on signals", `src/signal.rs:8`);
  `SignalStops` excludes a signal that was taken so.
- A newline that is read alone ends no message ("So '\n' means it's the final frame of
  the message", `src/wstcp/frame.rs:85`); `RepliesInOrder` excludes such newlines.
- `get_confirmed_blockhash` answers with the block that is now at the height of the
  transaction's row ("Returns error if transaction is not confirmed",
  `doc/rpc.md:25`); `StableIsRight` is about transactions that stay confirmed.
- A panic takes the subscriptions of a connection with it and leaves them in the gauge;
  `SubscriptionsCounted` counts them apart.
- A reset while the status line is read is not an error of kind `Connection` and
  is not retried ("Handle disconnections from bitcoind by retrying",
  `RELEASE-NOTES.md:281`); the call of `DaemonLink` returns with an error.
- The usage of the cache of block txids counts elements, not bytes ("[bytes]",
  `src/cache.rs:32`); the sizes in `Cache` are the ones the code computes.

## Proofs

There are theorems about every instance of seven of the components. They state 19 of
the properties that the runs check.

### The chain index

`IndexProofs` proves, for every set of blocks that forms a forest, every assignment of
transactions, every batch and chunk size and any number of chain changes, stops and
crashes:

| Theorem | Statement |
|---|---|
| `IndexInvariant` | `Spec => []IInv` |
| `IndexTypes` | `Spec => []TypeOK` |
| `CrashConsistency` | `Spec => []Recoverable` |
| `RowsAtomic` | `Spec => []RowsComplete` |
| `HeaderListExact` | `Spec => []HeadersExact` |
| `ServedBlocksIndexed` | `Spec => []HeadersIndexed` |
| `NoAssertionFails` | `Spec => []NoIndexPanic` |
| `MarkerImpliesImport` | `Spec => []MarkerAfterImport` |
| `IndexImplements` | `Spec => ServesChain`, that is, `Index` implements `ChainService` |
| `HeightsAreCurrent` | `Spec => []UninterruptedHeights` |

The assumptions are `BlockTree` (a height is the distance to a block without
predecessor), `BlockTxs`, `IndexConstants` and, for `HeightsAreCurrent` only,
`TxsOnce` (no transaction is in two blocks of one branch, a rule of the protocol).
TLC evaluates these and all assumptions below on the instances.

None of the properties is inductive on its own: that no assertion of `apply`
fails depends on what the walk back over headers has collected, which depends on
the list it stops at, and that the blocks of the list are indexed depends on what
was written before it was published. `IInv` therefore says, for each place in
the program, what the local variables hold: `LoadInv` (a piece of chain from
the L row down, all of it indexed), `AllInv` (headers at consecutive heights),
`Walked` (a piece of chain from the tip down to `cursor`), `WriteInv` (entries
that continue the list up to the tip, the first `written` of them indexed). With
it go facts about the store (in every version the predecessor of an indexed
block is indexed, which makes crash consistency a property of each batch) and
about the list (`ListOk`: positions, heights and map agree).

The proofs go along the code. Lemmas about operators come first, in `IndexLemmas`
(`IndexBlockGood`, `WriteGood`, `FlushedGood`, `ReopenGood` for the store;
`FoundIff`, `PrependSegment`, `OrderContinues`, `ApplyGood` for the list), then
one lemma per group of actions in `IndexProofs`, then the theorems.

The refinement maps `aim` to `tip`, `indexed` to the `B` rows that readers see
and `chain` to the hashes of the header list. `IInv` gives that a published list
is a chain of indexed blocks up to the tip. Beside it the proof needs
`ReadersInv`: every database a crash can leave has no other blocks than the one
readers see (so a crash only takes rows away), and only a running update has an
aim. `IndexProofs` proves it together with the step simulation, one lemma per
group of actions.

That `T` rows have the heights of the served chain needs `HeightsInv`: while blocks
are written the rows agree with the list that *will* be served, as far as the blocks
kept from the old list and those written so far reach, and the same transaction can
then have another height in the list that is still served. The property is about a
process that was not stopped; with a stop in that phase it fails, which is what
`MCIndexStaleHeights` shows.

### The link to bitcoind

`DaemonLinkProofs` proves, for every set of peer threads and any number of calls,
lost connections, restarts, warm-up replies and signals, from the assumption `LinkConstants` (the
peers are neither the main thread nor the mark of a free mutex, and the bounds
are natural numbers):

| Theorem | Statement |
|---|---|
| `LinkInvariant` | `Spec => []LinkInv` |
| `ReplyComes` | `Spec => []AwaitedReplyComes` |
| `Truthful` | `Spec => []AnswersAreTruthful` |

That a thread finds its own reply depends on who may use the connection and on
what the thread before it left there; that an execution is counted for the right
call depends on the ids. `LinkInv` has these as conjuncts: the mutex is held
exactly in `send()`, `recv()` and the reconnection (`MutexHeld`); no two calls
have the same id (`IdsDiffer`); only a thread that waits has anything on the
connection, and then one request or one reply, and a connection that is gone
has no request (`OneOnTheWay`); and an execution without a lost connection to account
for it is the one whose reply is about to be read (`Accounted`). There is one
lemma per action. Those of the threads rest on four: what a step of one thread
does to the mutex (`MutexLink`), to the ids (`IdsLink`), and to the other two
conjuncts if it leaves the connection alone (`LocalLink`) or uses it
(`HolderLink`).

### The bulk import

`BulkImportProofs` proves, for any number of indexers, all sequences of block files
(with orphans and duplicates), every chain the daemon may report, and any number of
crashes, failing threads and failed attempts to destroy the database, from
`BulkConstants` (files are sequences of blocks, reported chains are chains):

| Theorem | Statement |
|---|---|
| `Invariant` | `Spec => []IInv` |
| `NothingIsLost` | `Spec => []NothingLost` |
| `MarkerIsComplete` | `Spec => []MarkerMeansComplete` |
| `OnlyCurrentVersionUsed` | `Spec => []OnlyCurrentVersion` |

`IInv` adds to these properties what makes them inductive: which versions of the
database go with which place in the start (`Versions`), what is on disk, in the
memtable and in the log in each phase (`Phases`), that in every database a
crash can leave the transactions of its blocks are there (`AllRowsMatch`), and which
indexer has rows (`Threads`). The step that matters is `WriteLast`: the block
whose L row is written is the last of a prefix of the daemon's chain whose blocks are
all claimed; by `NothingLost`, with all indexers joined and none of them holding rows,
claimed blocks are in the database, so the headers below it load (`LastIndexedLoads`).
Compaction flushes before the marker is written, so the marker is never there without
them.

### Connections

`ConnectionsProofs` proves, for every finite set of connections, every assignment of
prefixes, every setting of the limits and size of the queues, and any number of
requests, errors, panics and clients that do not read, from `ConnectionConstants`
(there are finitely many connections, the mark `"exit"` is none of them, and the
bounds are natural numbers):

| Theorem | Statement |
|---|---|
| `Invariant` | `Spec => []IInv` |
| `SlotsAreExact` | `Spec => []SlotsExact` |
| `LiveAreListed` | `Spec => []LiveIsListed` |
| `StoppedServerIsDone` | `Spec => []StoppedMeansDone` |

`IInv` adds that a connection in the acceptor channel is there once and has no
thread yet (`Waiting`), without which it could take a second slot, and that threads
that have not ended are among those still to be joined (`Remembered`). The notifier
removes senders with `retain`, a recursive function of the model: that it keeps
exactly the connections that are still received from is `RetainKeeps`. The induction
theorems of the library take a predicate and are of no use here; `IntervalInduction`
states induction over `0 .. n` with a set instead, and is enough.

### The mempool and the cache

`MempoolProofs` proves, for all transactions with any rows (keys may collide), rates and
sizes, every bin width, and any number of mempool changes between the requests of an
update, failing requests and restarts, from `MempoolConstants` (the types of the
constants; sizes are not zero):

| Theorem | Statement |
|---|---|
| `MempoolInvariant` | `Spec => []Inv` |
| `MempoolIndexExact` | `Spec => []IndexExact` |
| `MempoolUpdateExact` | `Spec => []UpdateExact` |
| `MempoolHistogramExact` | `Spec => []HistogramExact` |
| `FetchImplements` | `FetchSpec => Spec /\ TxCache!Spec`: the composition implements `Mempool` and `Cache`, so the theorems above hold for it |
| `TransactionCacheUsage` | `FetchSpec => []CacheUsageExact`, from `FetchConstants` |

These properties are about sums over sets. The sum of the community modules is a fold,
defined by a recursive function on the subsets of a set; `SubsetInduction`, obtained from
the well-foundedness of strict inclusion on finite sets, shows that there is
such a function and only one (`SumExists`, `SumsAgree`), and then that a sum grows and
shrinks by the weight of an element, whichever it is (`SumAdd`, `SumRemove`,
`SumDifference`). With them the index stays exact when a transaction is added
(`AddExact`) and when all that left are removed (`RemoveExact`), where `remove` meets
neither a missing key nor a key without values.

`UpdateInv` says what an update under way knows: what it added so far is what it tracks
and did not track before, and every id reported that is neither tracked nor still to be
fetched has left the daemon's mempool since, or a request about it failed.

The histogram is computed by a loop over the sorted entries, in the model a recursive
function of the number of rounds. `CountingInduction` gives that there is one
(`LoopRuns`), and that after every round `Binned` holds (`FeesExact`): the bins closed so far have the sizes of the entries seen
with the rates of each, the open one has the rest, and rates do not increase.
`StepBins` is one round, `CloseBin` the moment a bin is full and the rate changes,
`LastBin` what is left at the end. Nothing is assumed of the order of entries with
equal rates.

For the cache the invariant says in addition that an entry about to be inserted fits an
empty cache, so evicting ends before the map is empty. Every step of the
composition is one of `Mempool` or leaves its variables alone, whatever the peers do
with the cache, and one of `Cache` likewise; the latter needs that the ids looked up
are transactions, which `MempoolInvariant` gives.

### Subscriptions

`SubscriptionsProofs` proves, for all blocks, transactions and scripthashes, any
number of connections, all sizes of queues and limits, and any number of chain and
mempool changes, requests, failing queries, panics and lookups that miss:

| Theorem | Statement |
|---|---|
| `Invariant` | `Spec => []Inv` |
| `StaleStatusIsPending` | `Spec => []StaleIsPending` |
| `StaleTipsArePending` | `Spec => []StaleTipIsPending` |

The assumptions are `MainLoopConstants` (the types of the constants; an output is
spent by one transaction only; the chain the server starts with is one, with no
transaction in two of its blocks, and each of them has a row) and `SubscriptionConstants` (finitely many
scripthashes, distinct from blocks; queues hold at least one message).

A status is computed in three reads, and the main loop may change what was read before
the last one, so `StaleIsPending` says nothing about a query under way. `Inv` does:
each part that was read is still what a read would return now, or a
notification for that scripthash is on its way *behind* the query, or was lost
(`ReadInv`), and
then the same for what is stored (`StoredInv`). For the tip the order in the queues
matters: the last tip on its way is the one served (`TipInv` for the channel of the
notifier, `LastTipInv` for a connection), and older ones are in front of it.
`LoopInv` says what the main loop holds where, and `WorkInv` which query a connection
may have. `SubscriptionsLemmas` has what a step can do to a status: writing a
block changes what queries read only for scripthashes of its transactions
(`WriteBlockStatus`), and reading the mempool only for those of transactions that
entered or left it, as far as `Coarse` tells heights apart (`UpdateMempoolStatus`);
the last element of a queue of some kind after appending, taking and concatenating
(`LastAppend`, `LastTail`, `LastConcat`); and what is left to show for a step of one
connection (`SetConn`, `ConnNext`). `Inv` was checked on the instance of
`MCSubscriptions` as well.

### What is only model-checked

- Liveness (`CatchesUp`, `ImportEnds`, `Mirrors`, `ClientsLearn`, `ShutdownEnds`,
  `ClosedIsCleaned`, `CallsReturn`, `SignalStops`, `PartingNoticed`):
  the prover does not reason about `ENABLED`.
- `TxProofsVerify` and `HeaderProofsVerify`: what `create_merkle_branch_and_root`
  computes for lists of every length would need an induction over a recursive
  operator.
- `SubscriptionsCounted`: the cardinality of a set of pairs; the counting that
  `ConnectionsProofs` does for slots makes the modules of the subscriptions larger
  than the prover handles.
- The other properties of `Queries` and those of `WsChannel` have no proof; the
  latter are about contents of buffers at every offset, and their inductive
  invariant would follow each byte through encoder and decoder.

## Fairness

Weak fairness of the steps of the server's threads only: a thread that can run
does run. Nothing is assumed of clients, of the daemon's chain or mempool, or
of who restarts a stopped server. `DaemonLink` also assumes that a bitcoind that
is up answers and that one that stopped is started again some day; without the
latter `tcp_connect` retries forever by design. `WsChannel` assumes that the
executor polls a future that was woken and that connecting to the RPC port
succeeds or fails; streams may break but need not. `Queries` has safety
properties only: every loop of a query is bounded by what it reads. No lock is assumed to be fair:
calls are bounded in `MCDaemonLink`, so a thread cannot be passed over
forever, and in `MempoolFetch` queries of peers are, so the tracker gets the lock of
the cache.
`Subscriptions`, `Connections` and `DaemonLink` subscript the fairness of a thread with
variables that each of its steps changes, which means the same as all variables and is
cheaper to check.

## What is not modelled

- `Daemon::new`: calls and a wait for the end of the initial block download,
  made by one thread before any other exists; its calls are those of
  `DaemonLink`.
- `get_cashaccount_txs` and `cashaccount.rs`: rows found by a name and height,
  and decoding of bytes into that key.
- `estimate_fee`, relay fee, banner and the other methods of `rpc/server.rs`,
  version negotiation included: one read or a constant, formatted.
- Parsing of parameters, addresses, block files and replies of bitcoind: a
  failure is a nondeterministic outcome where it matters.
- `config.rs`, `metrics.rs`, `notify.rs` (which nothing uses), `fake.rs`:
  no state that the other parts depend on.

Encodings of rows are abstracted to their kind, and times to the order of events.
Transactions whose short keys collide are modelled in `Mempool` only.
