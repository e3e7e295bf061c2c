----------------------------- MODULE Subscriptions -----------------------------
(***************************************************************************)
(* What subscribed clients are told (rpc/mod.rs, rpc/blockchain.rs,        *)
(* query/*.rs), beside the main loop of module MainLoop.                   *)
(*                                                                         *)
(*   main loop -> notification channel (unbounded) -> notifier thread      *)
(*     -> one bounded queue per connection -> peer thread                  *)
(*                                                                         *)
(* The reader thread of a connection puts requests into the same queue.    *)
(* The peer thread computes a status in three steps (confirmed funding and *)
(* spending from the database, then the mempool under the tracker's lock), *)
(* and the main loop may run between them.  A status is the set of         *)
(* <<transaction, height>> pairs that Status::hash() hashes.               *)
(***************************************************************************)
EXTENDS MainLoop

CONSTANTS
  Conn,                 \* connections
  Requests,             \* the requests clients make: records with a kind and an argument
  BufferSize,           \* rpc_buffer_size
  MaxSubscriptions,     \* scripthash_subscription_limit
  MaxAliases,           \* scripthash_alias_bytes_limit, in addresses
  MaxRequests,          \* bound: requests of a client
  MaxFaults,            \* bound: failed queries and lookups, and panics
  MaxEvents             \* bound: changes, requests and faults together

ASSUME SubscriptionConstants ==
  /\ Requests \subseteq [kind : {"subscribe", "subscribe_address", "unsubscribe"}, arg : ScriptHash]
                         \cup [kind : {"subscribe_headers", "header", "done"}, arg : {None}]
  /\ IsFiniteSet(ScriptHash)
  /\ ScriptHash \cap (Block \cup {Genesis, None}) = {} /\ None \notin Block \cup {Genesis}
  /\ BufferSize \in Nat \ {0}
  /\ MaxSubscriptions \in Nat /\ MaxAliases \in Nat /\ MaxRequests \in Nat

VARIABLES
  faults,
  notifications,        \* the notification channel
  senders,              \* the connections whose senders the notifier knows
  conn,                 \* the connections
  gauge,                \* stats.subscriptions
  leaked,               \* history: subscriptions of peer threads that panicked
  lost                  \* history: notifications a connection did not get

rpcVars == <<notifications, senders, conn, gauge, leaked, lost>>
vars == <<loopVars, faults, rpcVars>>

NotSubscribed == [on |-> FALSE, st |-> {}, alias |-> FALSE]

NoWork == [at |-> None, kind |-> None, arg |-> None, funding |-> {}, spending |-> {}]

NewConn == [st |-> "open", queue |-> <<>>, requests |-> 0, work |-> NoWork,
            subs |-> [s \in ScriptHash |-> NotSubscribed], last |-> None]

\* The clients are connected (module Connections has the life of a connection).
Init ==
  /\ LoopInit
  /\ faults = 0
  /\ notifications = <<>> /\ senders = Conn
  /\ conn = [c \in Conn |-> NewConn]
  /\ gauge = 0 /\ leaked = 0 /\ lost = [c \in Conn |-> {}]

Events == changes + faults + SumFunction([c \in Conn |-> conn[c].requests])

-------------------------------------------------------------------------------
(* The main loop hands its changes over.                                   *)

\* Mutant: only the outputs of a transaction count.
get_scripthashes_effected_by_tx_Outputs(t) == Funds[t]

get_scripthashes_effected_by_tx(t) == Funds[t] \cup {o[2] : o \in Spends[t]}

Effected(S) == UNION {get_scripthashes_effected_by_tx(t) : t \in S}

\* Every transaction of the new blocks, and every one that entered or left the mempool.
\* The transactions of a block whose list is not answered are skipped, unless they are
\* among the others; so is one for which a lookup fails, its own or that of one it
\* spends, because bitcoind does not answer or no longer has it.
Notify ==
  /\ Notified
  /\ \E unread \in SUBSET headers :
     LET all  == (UNION {TxsOf(b) : b \in headers}) \cup txs
         read == (UNION {TxsOf(b) : b \in headers \ unread}) \cup txs
     IN  \E failed \in SUBSET read :
           LET skipped == (all \ read) \cup failed
               faulty  == Cardinality(unread) + Cardinality(failed)
           IN  /\ faults + faulty <= MaxFaults
               /\ faulty = 0 \/ Events + faulty <= MaxEvents
               /\ faults' = faults + faulty
               /\ lost' = [c \in Conn |-> lost[c] \cup Effected(skipped)]
               /\ LET told == Effected(all \ skipped) IN
                  \E n \in 0 .. Cardinality(ScriptHash) : \E order \in Bijection(1 .. n, told) :
                    notifications' = notifications
                      \o [i \in 1 .. n |-> [kind |-> "script", arg |-> order[i]]]
                      \o (IF tip = None THEN <<>> ELSE <<[kind |-> "tip", arg |-> tip]>>)
  /\ UNCHANGED <<senders, conn, gauge, leaked>>

-------------------------------------------------------------------------------
(* The notifier thread: try_send() to every connection it knows.           *)

Accepts(c) == conn[c].st = "open" /\ Len(conn[c].queue) < BufferSize

\* Mutant: a full queue counts as a disconnected one.
Notifier_Forgets ==
  /\ notifications # <<>>
  /\ LET msg == Head(notifications) IN
     /\ conn' = [c \in Conn |-> IF c \in senders /\ Accepts(c)
                                THEN [conn[c] EXCEPT !.queue = Append(@, msg)]
                                ELSE conn[c]]
     /\ lost' = [c \in Conn |-> CASE c \in senders /\ Accepts(c) -> lost[c] \ {msg.arg}
                                  [] c \in senders /\ ~ Accepts(c) -> lost[c] \cup {msg.arg}
                                  [] OTHER -> lost[c]]
     /\ senders' = {c \in senders : Accepts(c)}
     /\ notifications' = Tail(notifications)
  /\ UNCHANGED <<loopVars, faults, gauge, leaked>>

Notifier ==
  /\ notifications # <<>>
  /\ LET msg == Head(notifications) IN
     /\ conn' = [c \in Conn |-> IF c \in senders /\ Accepts(c)
                                THEN [conn[c] EXCEPT !.queue = Append(@, msg)]
                                ELSE conn[c]]
     /\ lost' = [c \in Conn |->
                   CASE c \in senders /\ Accepts(c) -> lost[c] \ {msg.arg}
                     [] c \in senders /\ conn[c].st = "open" /\ ~ Accepts(c) -> lost[c] \cup {msg.arg}
                     [] OTHER -> lost[c]]
     /\ senders' = {c \in senders : conn[c].st = "open"}
     /\ notifications' = Tail(notifications)
  /\ UNCHANGED <<loopVars, faults, gauge, leaked>>

-------------------------------------------------------------------------------
(* Query::status().                                                        *)

\* The last step of status(), under the tracker's lock.
StatusWith(sh, funding, spending) ==
  LET mfunding == unconfirmed_funding(sh) IN
  history(funding, spending, mfunding, unconfirmed_spending(sh, funding \cup mfunding))

\* What a query gets while nothing changes.
Status(sh) ==
  LET funding == confirmed_funding(sh) IN StatusWith(sh, funding, confirmed_spending(sh, funding))

-------------------------------------------------------------------------------
(* A connection: its client, reader thread and peer thread.                *)

Set(c, record) == conn' = [conn EXCEPT ![c] = record]

\* parse_requests() waits while the queue is full; after "done" it ends.
Request(c) ==
  /\ Accepts(c) /\ conn[c].requests < MaxRequests /\ Events < MaxEvents
  /\ \E r \in Requests :
       Set(c, [conn[c] EXCEPT !.queue = Append(@, r),
                              !.requests = IF r.kind = "done" THEN MaxRequests ELSE @ + 1])
  /\ UNCHANGED <<loopVars, faults, notifications, senders, gauge, leaked, lost>>

Subscribed(subs) == {s \in ScriptHash : subs[s].on}
Aliased(subs) == {s \in ScriptHash : subs[s].alias}

remove_subscription(k, sh) == [k EXCEPT !.subs[sh] = NotSubscribed]

\* The connection and its receiver are dropped.
Closed(c) ==
  /\ Set(c, [NewConn EXCEPT !.st = "closed", !.requests = conn[c].requests])
  /\ lost' = [lost EXCEPT ![c] = {}]

\* Mutant: the subscriptions of the connection stay in the gauge.
Close_KeepsCount(c) == Closed(c) /\ UNCHANGED gauge

\* run() ends, with an error or without.
Close(c) == Closed(c) /\ gauge' = gauge - Cardinality(Subscribed(conn[c].subs))

\* A subscription of the same scripthash goes first, then come the limits, and
\* then the status query starts.
Subscribe(c, k, msg) ==
  LET r == remove_subscription(k, msg.arg) IN
  /\ gauge' = gauge - Cardinality(Subscribed(k.subs)) + Cardinality(Subscribed(r.subs))
  /\ IF /\ Cardinality(Subscribed(r.subs)) + 1 <= MaxSubscriptions
        /\ msg.kind = "subscribe_address" => Cardinality(Aliased(r.subs)) + 1 <= MaxAliases
     THEN /\ Set(c, [r EXCEPT !.work = [NoWork EXCEPT !.at = "funding", !.kind = msg.kind,
                                                      !.arg = msg.arg]])
          /\ lost' = [lost EXCEPT ![c] = @ \ {msg.arg}]
     ELSE Set(c, r) /\ UNCHANGED lost

\* handle_replies(): one message.
Receive(c) ==
  /\ conn[c].st = "open" /\ conn[c].work = NoWork /\ conn[c].queue # <<>>
  /\ LET msg == Head(conn[c].queue)
         k   == [conn[c] EXCEPT !.queue = Tail(@)]
     IN  \/ /\ msg.kind \in {"subscribe", "subscribe_address"}
            /\ Subscribe(c, k, msg)
         \/ /\ msg.kind = "unsubscribe"
            /\ Set(c, remove_subscription(k, msg.arg))
            /\ gauge' = gauge - Cardinality(Subscribed(k.subs) \cap {msg.arg})
            /\ UNCHANGED lost
         \/ /\ msg.kind = "subscribe_headers"
            /\ Set(c, [k EXCEPT !.last = TipOf(served)])
            /\ UNCHANGED <<gauge, lost>>
         \/ /\ msg.kind = "header"
            /\ Set(c, k)
            /\ UNCHANGED <<gauge, lost>>
         \/ /\ msg.kind = "tip"
            /\ Set(c, [k EXCEPT !.last = IF @ = None THEN None ELSE msg.arg])
            /\ UNCHANGED <<gauge, lost>>
         \/ /\ msg.kind = "script"
            /\ Set(c, IF ~ k.subs[msg.arg].on THEN k
                      ELSE [k EXCEPT !.work = [NoWork EXCEPT !.at = "funding", !.kind = "script",
                                                             !.arg = msg.arg]])
            /\ UNCHANGED <<gauge, lost>>
         \/ /\ msg.kind = "done"
            /\ Close(c)
  /\ UNCHANGED <<loopVars, faults, notifications, senders, leaked>>

\* A request that fails an assertion, as that for a header with a proof can, takes the
\* peer thread with it: run() does not get to the gauge.
Panic(c) ==
  /\ conn[c].st = "open" /\ conn[c].work = NoWork /\ conn[c].queue # <<>>
  /\ Head(conn[c].queue).kind = "header"
  /\ faults < MaxFaults /\ Events < MaxEvents
  /\ faults' = faults + 1
  /\ Closed(c)
  /\ leaked' = leaked + Cardinality(Subscribed(conn[c].subs))
  /\ UNCHANGED <<loopVars, notifications, senders, gauge>>

QueryFunding(c) ==
  /\ conn[c].work.at = "funding"
  /\ Set(c, [conn[c] EXCEPT !.work.at = "spending",
                            !.work.funding = confirmed_funding(conn[c].work.arg)])
  /\ UNCHANGED <<loopVars, faults, notifications, senders, gauge, leaked, lost>>

QuerySpending(c) ==
  /\ conn[c].work.at = "spending"
  /\ Set(c, [conn[c] EXCEPT !.work.at = "mempool",
                            !.work.spending = confirmed_spending(conn[c].work.arg,
                                                                 conn[c].work.funding)])
  /\ UNCHANGED <<loopVars, faults, notifications, senders, gauge, leaked, lost>>

\* Mutant: unconfirmed spendings of confirmed outputs are left out.
QueryMempool_OwnOutputs(c) ==
  /\ conn[c].work.at = "mempool"
  /\ LET w  == conn[c].work
         mfunding == unconfirmed_funding(w.arg)
         st == history(w.funding, w.spending, mfunding, unconfirmed_spending(w.arg, mfunding))
     IN  IF w.kind = "script"
         THEN /\ Set(c, [conn[c] EXCEPT !.work = NoWork, !.subs[w.arg].st = st])
              /\ UNCHANGED gauge
         ELSE /\ Set(c, [conn[c] EXCEPT !.work = NoWork,
                                        !.subs[w.arg] = [on |-> TRUE, st |-> st,
                                                         alias |-> w.kind = "subscribe_address"]])
              /\ gauge' = gauge + 1
  /\ UNCHANGED <<loopVars, faults, notifications, senders, leaked, lost>>

\* The status is complete.  A subscription is stored with it, or the stored
\* hash is replaced and, if it differs, the client notified.
QueryMempool(c) ==
  /\ conn[c].work.at = "mempool"
  /\ LET w  == conn[c].work
         st == StatusWith(w.arg, w.funding, w.spending)
     IN  IF w.kind = "script"
         THEN /\ Set(c, [conn[c] EXCEPT !.work = NoWork, !.subs[w.arg].st = st])
              /\ UNCHANGED gauge
         ELSE /\ Set(c, [conn[c] EXCEPT !.work = NoWork,
                                        !.subs[w.arg] = [on |-> TRUE, st |-> st,
                                                         alias |-> w.kind = "subscribe_address"]])
              /\ gauge' = gauge + 1
  /\ UNCHANGED <<loopVars, faults, notifications, senders, leaked, lost>>

\* A query error: an error reply, but the end of the connection if the query
\* was made for a notification.
QueryFails(c) ==
  /\ conn[c].work # NoWork /\ faults < MaxFaults /\ Events < MaxEvents
  /\ faults' = faults + 1
  /\ IF conn[c].work.kind = "script"
     THEN Close(c)
     ELSE Set(c, [conn[c] EXCEPT !.work = NoWork]) /\ UNCHANGED <<gauge, lost>>
  /\ UNCHANGED <<loopVars, notifications, senders, leaked>>

-------------------------------------------------------------------------------
Quiet == UNCHANGED <<faults, rpcVars>>

Main == (Indexing /\ Quiet) \/ Notify

Peer(c) ==
  \/ Receive(c) \/ Panic(c)
  \/ QueryFunding(c) \/ QuerySpending(c) \/ QueryMempool(c) \/ QueryFails(c)

Next ==
  \/ (ChainChange \/ MempoolChange) /\ Events < MaxEvents /\ Quiet
  \/ Main \/ Notifier
  \/ \E c \in Conn : Request(c) \/ Peer(c)

Spec == Init /\ [][Next]_vars

\* The threads of the server keep running; clients and the daemon need not.  (Every step
\* of a thread changes the variable it is subscripted with.)
FairSpec ==
  /\ Spec
  /\ WF_<<pc, written>>(Main) /\ WF_notifications(Notifier)
  /\ \A c \in Conn : WF_conn(Peer(c))

-------------------------------------------------------------------------------
(* Properties.                                                             *)

\* Every change of the transactions that t spends is also a change for sh.
ParentsTouch(t, sh) == \A o \in Spends[t] : sh \in get_scripthashes_effected_by_tx(o[1])

\* The heights of an unconfirmed transaction, -1 with an unconfirmed parent and 0
\* without, told apart only if a change of its parents is notified to sh.
Coarse(st, sh) ==
  {<<e[1], IF e[2] < 0 /\ ~ ParentsTouch(e[1], sh) THEN 0 ELSE e[2]>> : e \in st}

Carries(queue, kind, arg) == \E i \in 1 .. Len(queue) : queue[i] = [kind |-> kind, arg |-> arg]

\* The main loop has changed rows or the tracker for sh and not yet notified.
BeingIndexed(sh) ==
  sh \in Effected((UNION {TxsOf(b) : b \in headers}) \cup txs
                   \cup (UNION {TxsOf(target[i]) : i \in {j \in NewBlocks : j <= written}}))

\* A stored status that differs from the current one in its transactions or in
\* their heights is about to be computed again: the change is still
\* in the hands of the main loop, of the notifier, in the queue or in work;
\* or its notification was lost, to a full queue or a lookup that failed.
StaleIsPending ==
  \A c \in Conn : \A sh \in Subscribed(conn[c].subs) :
    \/ Coarse(conn[c].subs[sh].st, sh) = Coarse(Status(sh), sh)
    \/ BeingIndexed(sh)
    \/ Carries(notifications, "script", sh)
    \/ Carries(conn[c].queue, "script", sh)
    \/ conn[c].work.arg = sh
    \/ sh \in lost[c]

\* The same for the chain tip a client knows.
StaleTipIsPending ==
  \A c \in Conn :
    conn[c].last # None =>
      \/ conn[c].last = TipOf(served)
      \/ tip = TipOf(served)
      \/ Carries(notifications, "tip", TipOf(served))
      \/ Carries(conn[c].queue, "tip", TipOf(served))
      \/ TipOf(served) \in lost[c]

\* The gauge of subscriptions, which clients change by requests that succeed, fail or
\* replace each other, and notifications by ending the connection, is the number of
\* subscriptions of the open connections.  A peer thread that panics leaves its own behind
\* in it, and nothing else does; and no connection has more than its limit.
SubscriptionsCounted ==
  /\ gauge = leaked + Cardinality({p \in Conn \X ScriptHash : conn[p[1]].subs[p[2]].on})
  /\ \A c \in Conn : Cardinality(Subscribed(conn[c].subs)) <= MaxSubscriptions

\* Clients learn of every change that was not lost: in the end a subscribed
\* client has the current status of its scripthashes and the current tip.
ClientsLearn ==
  \A c \in Conn :
    <>[](/\ \A sh \in Subscribed(conn[c].subs) :
              Coarse(conn[c].subs[sh].st, sh) = Coarse(Status(sh), sh) \/ sh \in lost[c]
         /\ conn[c].last # None => conn[c].last = TipOf(served) \/ TipOf(served) \in lost[c])
===============================================================================
