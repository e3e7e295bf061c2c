-------------------------------- MODULE Queries --------------------------------
(***************************************************************************)
(* The queries of clients (query/*.rs, rpc/blockchain.rs,                  *)
(* rpc/scripthash.rs) beside the main loop of module MainLoop.             *)
(*                                                                         *)
(* A query reads the database, the header list, the tracker and the daemon *)
(* one after the other, without a snapshot: every read is a step, and the  *)
(* main loop or the daemon may move between two of them.  Queries change   *)
(* nothing but the transaction cache, so one of them at a time is enough.  *)
(* Every output is worth 1.                                                *)
(***************************************************************************)
EXTENDS MainLoop, Merkle

CONSTANT
  Asked          \* the queries: records with a kind and its arguments

VARIABLES
  cached,        \* the transactions the cache may have
  q,             \* the query: what was asked, the next step, what it read, its answer
  since          \* history: what was true since it began

vars == <<loopVars, cached, q, since>>

Known == items \cup {t \in Tx : rows[t] # NoHeight}

\* What a query has read: a block and its height, the confirmations, a list of
\* headers, the transaction that is being loaded and where it was found, the
\* spender, and the outputs and inputs of a scripthash.
Nothing == [block |-> {}, height |-> NoHeight, conf |-> 0, list |-> <<>>, nodes |-> <<>>,
            load |-> [tx |-> None, height |-> NoHeight, block |-> {}],
            place |-> 1, spent |-> <<>>, funding |-> {}, spending |-> {}]

NoQuery == [ask |-> [kind |-> None], at |-> "idle", got |-> Nothing, ans |-> <<>>]

NoHistory == [chains |-> {}, aimed |-> {}, known |-> {}, settled |-> {}, placed |-> {}, tracked |-> TRUE]

\* The transactions whose T row has the height of a served block with them.
Placed == {t \in Tx : \E b \in get_by_txid(rows[t]) : t \in TxsOf(b)}

\* The confirmations are a usize, which wraps around; stands for 2^64.
Usize == 65536

Init ==
  /\ LoopInit
  /\ cached = items /\ q = NoQuery /\ since = NoHistory

FirstStep(kind) ==
  CASE kind \in {"confirmed_blockhash", "verbose", "merkle"} -> "row"
    [] kind \in {"merkle at", "id_from_pos"} -> "proof"
    [] kind \in {"get", "utxo"} -> "cache"
    [] kind = "headers" -> "headers"
    [] kind \in {"status", "mempool"} -> "funding"
    [] kind = "first_use" -> "use"

\* A query arrives.  From here on: the served chains, the chains being indexed, the
\* transactions known all the time, and whether the tracker stayed the same; and which
\* transactions were indexed, and which of them at the right height, when it came.
Ask(a) ==
  /\ q.at = "idle"
  /\ q' = [NoQuery EXCEPT !.ask = a, !.at = FirstStep(a.kind),
                          !.got.height = IF "height" \in DOMAIN a THEN a.height ELSE NoHeight,
                          !.got.load.tx = IF "tx" \in DOMAIN a THEN a.tx ELSE None]
  /\ since' = [chains |-> {served}, aimed |-> IF pc = "index" THEN {target} ELSE {},
               known |-> Known, settled |-> {t \in Tx : rows[t] # NoHeight},
               placed |-> Placed, tracked |-> TRUE]
  /\ UNCHANGED <<loopVars, cached>>

\* The answer is sent.
Send ==
  /\ q.at = "done"
  /\ q' = NoQuery /\ since' = NoHistory
  /\ UNCHANGED <<loopVars, cached>>

Is(kinds) == q.ask.kind \in kinds

Go(step, got) == q' = [q EXCEPT !.at = step, !.got = got]
Answer(a) == q' = [q EXCEPT !.at = "done", !.ans = a]
Error(what) == Answer([error |-> what])
Fail == Error("failed")

-------------------------------------------------------------------------------
(* The block of a transaction.                                             *)

\* get_by_txid(): the T row.  get_verbose() goes on without a header.
Row ==
  /\ q.at = "row"
  /\ LET height == rows[q.ask.tx] IN
     IF height # NoHeight THEN Go("header", [q.got EXCEPT !.height = height])
     ELSE IF Is({"verbose"}) THEN Go("cache", q.got) ELSE Fail
  /\ UNCHANGED cached

\* get_by_txid(): the header at its height.
HeaderOfRow ==
  /\ q.at = "header"
  /\ LET block == get_by_txid(q.got.height)
         got   == [q.got EXCEPT !.block = block]
     IN  IF block = {}
         THEN IF Is({"verbose"}) THEN Go("cache", [got EXCEPT !.height = NoHeight]) ELSE Fail
         ELSE CASE Is({"confirmed_blockhash"}) -> Answer([block |-> block, height |-> got.height])
                [] Is({"verbose"}) -> Go("best", got)
                [] Is({"merkle"}) -> Go("proof", got)
  /\ UNCHANGED cached

\* Mutant: the block of the transaction itself is not counted.
Confirmations_Above ==
  /\ q.at = "best"
  /\ Go("cache", [q.got EXCEPT !.conf = (Len(served) - q.got.height) % Usize,
                               !.load.block = q.got.block])
  /\ UNCHANGED cached

\* get_verbose(): the confirmations, by a tip that may be lower than the header by now.
Confirmations ==
  /\ q.at = "best"
  /\ Go("cache", [q.got EXCEPT !.conf = (1 + Len(served) - q.got.height) % Usize,
                               !.load.block = q.got.block])
  /\ UNCHANGED cached

-------------------------------------------------------------------------------
(* TxQuery::get(), for the transaction asked for or one found in an index. *)

\* The transaction is there.
Obtained ==
  CASE Is({"get"}) -> Answer([tx |-> q.got.load.tx])
    [] Is({"verbose"}) ->
         Answer([block |-> q.got.block, height |-> q.got.height, conf |-> q.got.conf])
    [] Is({"utxo"}) -> Go(IF q.got.spent = <<>> THEN "spender" ELSE "height", q.got)
    [] Is({"first_use"}) -> Go("use header", q.got)

CacheHit ==
  /\ q.at = "cache" /\ q.got.load.tx \in cached
  /\ Obtained
  /\ UNCHANGED cached

\* The block is given, or looked up at the given height, or at that of the T row;
\* at the height of the mempool (0) there is none.
CacheMiss ==
  /\ q.at = "cache"
  /\ Go(CASE q.got.load.block # {} \/ q.got.load.height = 0 -> "load"
          [] q.got.load.height > 0 -> "load header"
          [] q.got.load.block = {} /\ q.got.load.height = NoHeight -> "load row", q.got)
  /\ UNCHANGED cached

LoadRow ==
  /\ q.at = "load row"
  /\ LET height == rows[q.got.load.tx] IN
     Go(IF height = NoHeight THEN "load" ELSE "load header", [q.got EXCEPT !.load.height = height])
  /\ UNCHANGED cached

LoadHeader ==
  /\ q.at = "load header"
  /\ Go("load", [q.got EXCEPT !.load.block = get_by_txid(q.got.load.height)])
  /\ UNCHANGED cached

Load ==
  /\ q.at = "load"
  /\ \/ Fail /\ UNCHANGED cached
     \/ /\ load_txn_from_bitcoind(q.got.load.tx, q.got.load.block)
        /\ Obtained
        /\ cached' = cached \cup {q.got.load.tx}

-------------------------------------------------------------------------------
(* Proofs.                                                                 *)

\* get_merkle_proof() and get_id_from_pos(): the header at a height.
ProofHeader ==
  /\ q.at = "proof"
  /\ LET block == get_by_txid(q.got.height) IN
     IF block = {} THEN Fail ELSE Go("txids", [q.got EXCEPT !.block = block])
  /\ UNCHANGED cached

\* The positions (from 0) the proof is asked for.
Positions(txids) ==
  IF Is({"id_from_pos"}) THEN {q.ask.pos} \cap (0 .. Len(txids) - 1)
  ELSE {i \in 0 .. Len(txids) - 1 : txids[i + 1] = q.ask.tx}

\* getblocktxids(), which may fail, and the branch.
BranchOfTx ==
  /\ q.at = "txids"
  /\ \/ Fail
     \/ \E b \in q.got.block : \E pos \in Positions(Txids[b]) :
          Answer([tx |-> Txids[b][pos + 1], height |-> q.got.height, pos |-> pos,
                  branch |-> create_merkle_branch_and_root(Txids[b], pos).branch])
  /\ UNCHANGED cached

\* Index::get_header(): nothing above the tip.
get_header(height) == IF height > Len(served) THEN <<>> ELSE <<(<<Genesis>> \o served)[height + 1]>>

\* The heights of block_header() (count 1) and block_headers().
Wanted == [i \in 1 .. q.ask.count |-> q.ask.start + i - 1]

\* get_headers(): one height after the other.
ReadHeader ==
  /\ q.at = "headers"
  /\ LET n == q.got.place IN
     IF n <= q.ask.count
     THEN Go("headers", [q.got EXCEPT !.place = n + 1, !.list = @ \o get_header(Wanted[n])])
     ELSE IF q.ask.count = 0 \/ q.ask.cp = 0 THEN Answer([list |-> q.got.list])
     ELSE Go("checkpoint", q.got)
  /\ UNCHANGED cached

\* Mutant: the checkpoint is not compared with the tip.
Checkpoint_AnyHeight ==
  /\ q.at = "checkpoint"
  /\ IF q.ask.cp < Last(Wanted) THEN Fail ELSE Go("nodes", [q.got EXCEPT !.place = 0])
  /\ UNCHANGED cached

\* get_header_merkle_proof(): the heights are checked ...
Checkpoint ==
  /\ q.at = "checkpoint"
  /\ IF q.ask.cp < Last(Wanted) \/ Len(served) < q.ask.cp THEN Fail
     ELSE Go("nodes", [q.got EXCEPT !.place = 0])
  /\ UNCHANGED cached

\* ... and then the headers up to the checkpoint are read, one after the other.
BranchOfHeader ==
  /\ q.at = "nodes"
  /\ LET nodes == q.got.nodes IN
     IF q.got.place <= q.ask.cp
     THEN Go("nodes", [q.got EXCEPT !.place = @ + 1, !.nodes = nodes \o get_header(q.got.place)])
     ELSE IF Len(nodes) # q.ask.cp + 1 THEN Error("panic")
     ELSE LET proof == create_merkle_branch_and_root(nodes, Last(Wanted))
          IN  Answer([list |-> q.got.list, nodes |-> nodes,
                      branch |-> proof.branch, root |-> proof.root])
  /\ UNCHANGED cached

-------------------------------------------------------------------------------
(* utxo_get().                                                             *)

\* Mutant: the database first.
Places_Swapped == <<"store", "tracker">>

\* Where get_tx_spending_prevout() looks for the spender.
Places == <<"tracker", "store">>

\* The transactions of S that are in a place with their heights, 0 in the mempool.
Found(place, S) ==
  IF place = "tracker" THEN {<<t, 0>> : t \in S \cap items}
  ELSE {<<t, rows[t]>> : t \in {u \in S : rows[u] # NoHeight}}

\* The spender is loaded; the tracker stays locked meanwhile, but what is read then
\* does not depend on it.
Spender ==
  /\ q.at = "spender"
  /\ LET spenders == Found(Places[q.got.place], {u \in Tx : <<q.ask.tx, q.ask.sh>> \in Spends[u]})
     IN  \/ /\ spenders = {}
            /\ IF q.got.place < 2 THEN Go("spender", [q.got EXCEPT !.place = 2])
               ELSE Go("height", q.got)
         \/ \E s \in spenders :
              Go("cache", [q.got EXCEPT !.spent = s,
                                        !.load = [tx |-> s[1], height |-> s[2], block |-> {}]])
  /\ UNCHANGED cached

\* get_confirmation_height(): the tracker ...
HeightInTracker ==
  /\ q.at = "height"
  /\ IF q.ask.tx \in items
     THEN Answer([spent |-> q.got.spent, height |-> MempoolHeight(q.ask.tx)])
     ELSE Go("height of row", q.got)
  /\ UNCHANGED cached

\* ... and then the T row.
HeightOfRow ==
  /\ q.at = "height of row"
  /\ Answer([spent |-> q.got.spent, height |-> rows[q.ask.tx]])
  /\ UNCHANGED cached

-------------------------------------------------------------------------------
(* Scripthashes.                                                           *)

\* status() and status_mempool(): the confirmed outputs ...
Funding ==
  /\ q.at = "funding"
  /\ Go(IF Is({"status"}) THEN "spending" ELSE "unconfirmed",
        [q.got EXCEPT !.funding = confirmed_funding(q.ask.sh)])
  /\ UNCHANGED cached

\* Mutant: the inputs are not looked up.
Spending_None ==
  /\ q.at = "spending"
  /\ Go("unconfirmed", q.got)
  /\ UNCHANGED cached

\* ... the confirmed inputs ...
Spending ==
  /\ q.at = "spending"
  /\ Go("unconfirmed", [q.got EXCEPT !.spending = confirmed_spending(q.ask.sh, q.got.funding)])
  /\ UNCHANGED cached

\* ... and, with the tracker locked, those of the mempool.
Unconfirmed ==
  /\ q.at = "unconfirmed"
  /\ LET mfunding == unconfirmed_funding(q.ask.sh)
         confirmed(S) == IF Is({"status"}) THEN S ELSE {}
     IN  Answer([funding |-> confirmed(q.got.funding), spending |-> confirmed(q.got.spending),
                 mfunding |-> mfunding,
                 mspending |-> unconfirmed_spending(q.ask.sh, q.got.funding \cup mfunding)])
  /\ UNCHANGED cached

\* Status::confirmed, mempool: the outputs of a list that one of the inputs spends.
Inputs(funding, spending, sh) ==
  {f[1] : f \in {e \in funding : \E s \in spending : <<e[1], sh>> \in Spends[s[1]]}}

confirmed_balance(st, sh) == Cardinality(st.funding) - Cardinality(Inputs(st.funding, st.spending, sh))

\* An output that is listed twice is looked up twice.
mempool_balance(st, sh) ==
  Cardinality(st.mfunding) - Cardinality(Inputs(st.funding, st.mspending, sh))
                           - Cardinality(Inputs(st.mfunding, st.mspending, sh))

\* Mutant: the inputs of the mempool are forgotten.
unspent_Confirmed(st, sh) ==
  {f[1] : f \in st.funding \cup st.mfunding}
    \ Inputs(st.funding \cup st.mfunding, st.spending, sh)

\* unspent(): by output.
unspent(st, sh) ==
  {f[1] : f \in st.funding \cup st.mfunding}
    \ Inputs(st.funding \cup st.mfunding, st.spending \cup st.mspending, sh)

\* scripthash_first_use(): the first output in the database, else one in the tracker.
FirstUse ==
  /\ q.at = "use"
  /\ LET uses == Found(<<"store", "tracker">>[q.got.place], {t \in Tx : q.ask.sh \in Funds[t]})
     IN  \/ /\ uses = {}
            /\ IF q.got.place < 2 THEN Go("use", [q.got EXCEPT !.place = 2]) ELSE Error("not found")
         \/ \E u \in uses :
              /\ \A v \in uses : u[2] <= v[2]
              /\ Go("cache", [q.got EXCEPT !.load = [tx |-> u[1], height |-> u[2], block |-> {}]])
  /\ UNCHANGED cached

\* get_first_use(): the block at its height.
UseHeader ==
  /\ q.at = "use header"
  /\ LET use == q.got.load IN
     Answer([tx |-> use.tx, height |-> use.height, block |-> get_by_txid(use.height)])
  /\ UNCHANGED cached

-------------------------------------------------------------------------------
\* TimeoutTrigger::check().
Timeout ==
  /\ Is({"status", "mempool", "utxo"}) /\ q.at \notin {"idle", "done"}
  /\ Fail
  /\ UNCHANGED cached

Step ==
  \/ Row \/ HeaderOfRow \/ Confirmations
  \/ CacheHit \/ CacheMiss \/ LoadRow \/ LoadHeader \/ Load
  \/ ProofHeader \/ BranchOfTx \/ ReadHeader \/ Checkpoint \/ BranchOfHeader
  \/ Spender \/ HeightInTracker \/ HeightOfRow
  \/ Funding \/ Spending \/ Unconfirmed \/ FirstUse \/ UseHeader
  \/ Timeout

\* The main loop and the daemon; Tracker::update() loads what is new to it.
Main ==
  /\ Indexing \/ Notified \/ ChainChange \/ MempoolChange
  /\ cached' = cached \cup items'
  /\ since' = IF q.at \in {"idle", "done"} THEN since
              ELSE [since EXCEPT !.chains = @ \cup {served'},
                                 !.aimed = IF pc' = "index" THEN @ \cup {target'} ELSE @,
                                 !.known = @ \cap Known',
                                 !.tracked = @ /\ items' = items]
  /\ UNCHANGED q

Next ==
  \/ Main
  \/ \E a \in Asked : Ask(a)
  \/ Step /\ UNCHANGED <<loopVars, since>>
  \/ Send

Spec == Init /\ [][Next]_vars
-------------------------------------------------------------------------------
(* Properties.                                                             *)

Refused(what) == q.at = "done" /\ q.ans = [error |-> what]

Done(kinds) == Is(kinds) /\ q.at = "done" /\ "error" \notin DOMAIN q.ans

\* The answers of transaction_get_merkle() and transaction_id_from_pos() are proofs:
\* whatever was indexed while they were put together, the branch leads from the
\* transaction to the Merkle root of one block that was served at the height.
TxProofsVerify ==
  Done({"merkle", "merkle at", "id_from_pos"}) =>
    \E c \in since.chains :
      /\ q.ans.height <= Len(c)
      /\ RootOf(q.ans.tx, q.ans.pos, q.ans.branch) = MerkleRoot(Txids[c[q.ans.height]])

\* The first n headers after the genesis block, or all there are.
Beginning(c, n) == SubSeq(c, 1, Min({n, Len(c)}))

\* block_header() and block_headers(): as long as the headers up to the checkpoint stay
\* the same, also if others are published above it meanwhile, the branch leads from the
\* header that is sent along to the root over the served headers up to the checkpoint.
\* Without that the headers are of two chains: see ProofHeadersComplete.
HeaderProofsVerify ==
  Is({"headers"}) /\ q.at = "done" =>
    \A start \in {Beginning(c, q.ask.cp) : c \in since.chains} :
      (\A c \in since.chains : Beginning(c, q.ask.cp) = start) =>
        /\ ~ Refused("panic")
        /\ Done({"headers"}) /\ "root" \in DOMAIN q.ans =>
             /\ q.ans.root = MerkleRoot(<<Genesis>> \o start)
             /\ q.ans.root = RootOf(Last(q.ans.list), Last(Wanted), q.ans.branch)

\* assert_eq!(header_hashes.len(), heights.len()) of get_header_merkle_proof(): every
\* header up to the checkpoint is there, because the best height was checked before.
ProofHeadersComplete == ~ Refused("panic")

\* utxo_get(): a spender, and the transaction itself, that the server knew all the
\* time, in the tracker or in the database, is found, although it may be moved from
\* the one to the other meanwhile.
KnownIsFound ==
  Done({"utxo"}) =>
    /\ q.ans.spent = <<>> =>
         \A u \in since.known : <<q.ask.tx, q.ask.sh>> \notin Spends[u]
    /\ q.ans.height = NoHeight => q.ask.tx \notin since.known

Touches(t, sh) == sh \in Funds[t] \/ \E p \in Tx : <<p, sh>> \in Spends[t]

Listed(st) == {e[1] : e \in st.funding \cup st.spending \cup st.mfunding \cup st.mspending}

\* status() and get_first_use() read the database before the tracker: a transaction of
\* the scripthash that the server knew all the time is missing only if it was not
\* indexed when the query came and the tracker was updated meanwhile.
MissedOnlyIfMined ==
  LET kept == {t \in since.known : since.tracked \/ t \in since.settled} IN
  /\ Done({"status"}) => \A t \in kept : Touches(t, q.ask.sh) => t \in Listed(q.ans)
  /\ Done({"mempool"}) =>
       \A t \in kept \ since.settled : Touches(t, q.ask.sh) => t \in Listed(q.ans)
  /\ Refused("not found") => \A t \in kept : q.ask.sh \notin Funds[t]

\* The block that holds t in every chain that was served or being indexed, if the T row
\* had its height.
StableBlocks(t) ==
  {b \in Block : t \in TxsOf(b) \cap since.placed
                 /\ \A c \in since.chains \cup since.aimed : b \in Range(c)}

\* The block of a transaction (get_confirmed_blockhash(), get_verbose(), get_merkle()) is
\* that of the T row's height at the time the header is read.  If the row was right when
\* the query came, the block is, and the confirmations are those of a served chain, as
\* long as the transaction stays in its block.
StableIsRight ==
  \A b \in IF Is({"confirmed_blockhash", "verbose", "merkle"}) /\ q.at = "done"
           THEN StableBlocks(q.ask.tx) ELSE {} :
    /\ Is({"confirmed_blockhash"}) => ~ Refused("failed")
    /\ Done({"confirmed_blockhash", "verbose"}) => q.ans.block = {b}
    /\ Done({"merkle"}) => \A c \in since.chains : c[q.ans.height] = b
    /\ Done({"verbose"}) => \E c \in since.chains :
         c[q.ans.height] = b /\ q.ans.conf = 1 + Len(c) - q.ans.height

\* get_balance() and listunspent() tell the same: the balances add up to the unspent
\* outputs, unless a transaction that was indexed is still in the tracker.
BalanceIsUnspent ==
  Done({"status"}) =>
    LET Twice(S, T) == \E e \in S, f \in T : e[1] = f[1]
        st == q.ans
    IN  /\ confirmed_balance(st, q.ask.sh) >= 0
        /\ ~ Twice(st.funding \cup st.spending, st.mfunding \cup st.mspending) =>
             confirmed_balance(st, q.ask.sh) + mempool_balance(st, q.ask.sh)
               = Cardinality(unspent(st, q.ask.sh))
===============================================================================
