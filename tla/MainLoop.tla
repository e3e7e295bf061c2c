------------------------------- MODULE MainLoop -------------------------------
(***************************************************************************)
(* The main loop of bin/electrscash.rs as the threads that answer clients  *)
(* see it, and the daemon it follows.  A round (App::update(), then        *)
(* update_mempool(), then the notifications) is seen as its readers see    *)
(* it: the rows of the new blocks one block after the other, then the      *)
(* headers, then the tracker.  Modules Index, BulkImport and Mempool have  *)
(* the steps inside; nothing here crashes.                                 *)
(***************************************************************************)
EXTENDS Integers, Sequences, FiniteSets, Functions

CONSTANTS
  Block, Prev,          \* blocks and their predecessors
  Txids,                \* the transactions of a block, in order
  Genesis,
  Indexed, Pooled,      \* the chain and the mempool when the server starts
  StartRows,            \* the T rows it may start with: those of the chain, and what
                        \* earlier processes have left of other chains
  Tx, ScriptHash,
  Funds,                \* the scripthashes a transaction pays to
  Spends,               \* the outputs it spends: <<transaction, scripthash>>
  MaxChanges            \* bound: changes of the daemon's chain and of its mempool

None == "none"
NoHeight == -2

\* The transactions of a block.
TxsOf(b) == Range(Txids[b])

\* A transaction is in one block of a chain, and an output is spent by at most one
\* transaction: the lookups that tell two spenders of an output apart, one in a block and
\* one left behind or replaced, are not modelled.
ASSUME MainLoopConstants ==
  /\ Txids \in [Block -> Seq(Tx)]
  /\ Prev \in [Block -> Block \cup {Genesis}]
  /\ Funds \in [Tx -> SUBSET ScriptHash]
  /\ Spends \in [Tx -> SUBSET (Tx \X ScriptHash)]
  /\ \A t, u \in Tx : t # u => Spends[t] \cap Spends[u] = {}
  /\ Indexed \in Seq(Block) /\ Pooled \subseteq Tx
  /\ StartRows \subseteq [Tx -> Nat \cup {NoHeight}]
  /\ \A r \in StartRows : \A i \in 1 .. Len(Indexed) : \A t \in TxsOf(Indexed[i]) : r[t] # NoHeight
  /\ \A i \in 1 .. Len(Indexed) : Prev[Indexed[i]] = IF i = 1 THEN Genesis ELSE Indexed[i - 1]
  /\ \A i, j \in 1 .. Len(Indexed) : i # j => TxsOf(Indexed[i]) \cap TxsOf(Indexed[j]) = {}

VARIABLES
  active, mem,          \* daemon: chain after the genesis block, and mempool
  changes,
  rows,                 \* the T rows: heights of the indexed transactions
  served,               \* Index::headers: chain after the genesis block
  items,                \* Tracker::items
  pc, target, written,  \* main loop; update(): the chain aimed at, blocks written
  headers, tip, txs     \* headers_changed, new_tip, txs_changed

daemonVars == <<active, mem, changes>>
serverVars == <<rows, served, items>>
mainVars == <<pc, target, written, headers, tip, txs>>
loopVars == <<daemonVars, serverVars, mainVars>>

TipOf(chain) == IF chain = <<>> THEN Genesis ELSE chain[Len(chain)]

Confirmed(chain) == UNION {TxsOf(chain[i]) : i \in 1 .. Len(chain)}

\* The server starts after the first App::update() and update_mempool().  Its rows are not
\* exact: those of blocks that were reorganised away are never deleted, and one that was
\* overwritten by an abandoned update has another height (see TxHeightsCurrent in Index).
LoopInit ==
  /\ active = Indexed /\ mem = Pooled /\ changes = 0
  /\ rows \in StartRows
  /\ served = Indexed /\ items = Pooled
  /\ pc = "wait" /\ target = <<>> /\ written = 0
  /\ headers = {} /\ tip = None /\ txs = {}

-------------------------------------------------------------------------------
(* The daemon.                                                             *)

IsChain(s) ==
  \A i \in 1 .. Len(s) : Prev[s[i]] = IF i = 1 THEN Genesis ELSE s[i - 1]

\* A block is connected, or others take the place of the last blocks; their
\* transactions go back to the mempool unless they are in the new ones.
ChainChange ==
  /\ changes < MaxChanges
  /\ \E k \in 0 .. Len(active), n \in 0 .. 2 : \E ext \in [1 .. n -> Block] :
       active' = SubSeq(active, 1, k) \o ext
  /\ IsChain(active') /\ active' # active
  /\ mem' = (mem \cup Confirmed(active)) \ Confirmed(active')
  /\ changes' = changes + 1
  /\ UNCHANGED <<serverVars, mainVars>>

\* A transaction enters the mempool after those it spends, or leaves it with
\* those that spend it.
MempoolChange ==
  /\ changes < MaxChanges
  /\ \/ \E t \in Tx \ (mem \cup Confirmed(active)) :
          /\ \A o \in Spends[t] : o[1] \in mem \cup Confirmed(active)
          /\ mem' = mem \cup {t}
     \/ \E t \in mem :
          /\ \A u \in mem : \A o \in Spends[u] : o[1] # t
          /\ mem' = mem \ {t}
  /\ changes' = changes + 1
  /\ UNCHANGED <<active, serverVars, mainVars>>

-------------------------------------------------------------------------------
(* The main loop.                                                          *)

\* The blocks of `target' that are not in the header list.
NewBlocks == {i \in 1 .. Len(target) : i > Len(served) \/ served[i] # target[i]}

AppUpdate ==
  /\ pc = "wait"
  /\ IF TipOf(served) # TipOf(active)
     THEN /\ pc' = "index" /\ target' = active
          /\ written' \in 0 .. Len(active)
          /\ \A i \in 1 .. Len(active) :
               i <= written' <=> i <= Len(served) /\ served[i] = active[i]
     ELSE /\ pc' = "mempool"
          /\ UNCHANGED <<target, written>>
  /\ headers' = {} /\ tip' = None
  /\ UNCHANGED <<daemonVars, serverVars, txs>>

WriteBlock ==
  /\ pc = "index" /\ written < Len(target)
  /\ rows' = [t \in Tx |-> IF t \in TxsOf(target[written + 1]) THEN written + 1 ELSE rows[t]]
  /\ written' = written + 1
  /\ UNCHANGED <<daemonVars, served, items, pc, target, headers, tip, txs>>

PublishHeaders ==
  /\ pc = "index" /\ written = Len(target)
  /\ headers' = {target[i] : i \in NewBlocks}
  /\ tip' = TipOf(target)
  /\ served' = target
  /\ pc' = "mempool"
  /\ target' = <<>> /\ written' = 0
  /\ UNCHANGED <<daemonVars, rows, items, txs>>

\* update_mempool(), see module Mempool.
UpdateMempool ==
  /\ pc = "mempool"
  /\ items' = mem
  /\ txs' = (items \ mem) \cup (mem \ items)
  /\ pc' = "notify"
  /\ UNCHANGED <<daemonVars, rows, served, target, written, headers, tip>>

\* The changes are handed over to the RPC server.
Notified ==
  /\ pc = "notify"
  /\ pc' = "wait"
  /\ headers' = {} /\ tip' = None /\ txs' = {}
  /\ UNCHANGED <<daemonVars, serverVars, target, written>>

Indexing == AppUpdate \/ WriteBlock \/ PublishHeaders \/ UpdateMempool

-------------------------------------------------------------------------------
(* Looking things up (query/*.rs).                                         *)

\* HeaderQuery::get_by_txid(): the block at the height of the T row, if any.
get_by_txid(height) == IF height \in 1 .. Len(served) THEN {served[height]} ELSE {}

\* load_txn_from_bitcoind(): the daemon looks in the given block, and without one
\* in its mempool.
load_txn_from_bitcoind(t, block) ==
  IF block # {} THEN \E b \in block : t \in TxsOf(b) ELSE t \in mem

confirmed_funding(sh) == {<<t, rows[t]>> : t \in {u \in Tx : rows[u] # NoHeight /\ sh \in Funds[u]}}

SpendsOneOf(t, S, sh) == \E p \in S : <<p, sh>> \in Spends[t]

confirmed_spending(sh, funding) ==
  LET outputs == {f[1] : f \in funding} IN
  {<<t, rows[t]>> : t \in {u \in Tx : rows[u] # NoHeight /\ SpendsOneOf(u, outputs, sh)}}

\* tx_confirmation_state(): with an unconfirmed parent, or without.
MempoolHeight(t) == IF \E o \in Spends[t] : o[1] \in items THEN -1 ELSE 0

unconfirmed_funding(sh) == {<<t, MempoolHeight(t)>> : t \in {u \in items : sh \in Funds[u]}}

unconfirmed_spending(sh, funding) ==
  LET outputs == {f[1] : f \in funding} IN
  {<<t, MempoolHeight(t)>> : t \in {u \in items : SpendsOneOf(u, outputs, sh)}}

\* Insertion into txns_map: a later height of a transaction replaces an earlier.
Insert(map, more) == more \cup {e \in map : \A m \in more : m[1] # e[1]}

\* history(): all funding, then all spending, confirmed before unconfirmed.
history(funding, spending, mfunding, mspending) ==
  Insert(Insert(Insert(funding, mfunding), spending), mspending)

===============================================================================
