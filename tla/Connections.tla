------------------------------ MODULE Connections ------------------------------
(***************************************************************************)
(* The life of client connections and of the RPC server (rpc/mod.rs), with *)
(* the connection limits of doslimit.rs.                                   *)
(*                                                                         *)
(* Threads: the acceptor and the notifier feed the rpc thread through the  *)
(* acceptor channel; the rpc thread takes a slot for a client and starts   *)
(* its peer thread, which starts a reader thread.  Reader and notifier     *)
(* fill the bounded queue of a connection, its peer empties it and writes  *)
(* to the client.  `senders' is behind a mutex, which the rpc thread holds *)
(* while it sends Done to every connection at the end.                     *)
(***************************************************************************)
EXTENDS Integers, FiniteSets, Sequences, Functions

CONSTANTS
  Conn,             \* the connections that can be made
  PrefixOf,         \* get_prefix() of a connection's address
  Configs,          \* the limits a server may be started with: [total, shared]
  BufferSize,       \* rpc_buffer_size
  MaxRequests,      \* bound: lines the clients send
  MaxChanges,       \* bound: notifications
  MaxStalls,        \* bound: times a client stops reading
  MaxResets,        \* bound: connections that end with a read error
  MaxPanics         \* bound: panics of peer threads

AddressPrefixes == {PrefixOf[c] : c \in Conn}

ASSUME ConnectionConstants ==
  /\ IsFiniteSet(Conn) /\ "exit" \notin Conn /\ DOMAIN PrefixOf = Conn
  /\ Configs \subseteq [total : Nat, shared : Nat] /\ BufferSize \in Nat \ {0}
  /\ MaxRequests \in Nat /\ MaxChanges \in Nat /\ MaxStalls \in Nat
  /\ MaxResets \in Nat /\ MaxPanics \in Nat

VARIABLES
  client,        \* every client: what it does with its end of the socket
  peer, reader,  \* the threads of every connection
  held,          \* what a reader is about to put into the queue
  queue,         \* the queue of every connection
  acceptor,      \* acceptor channel: connections, and "exit" for None
  notifications, \* notification channel: "change" and "exit"
  senders,       \* the Vec of senders
  rpc,           \* where the rpc thread is
  closing,       \* the senders still to be sent Done, at the end
  threads,       \* the peer threads not joined yet
  garbage,       \* garbage channel: peer threads that are about to end
  config,        \* rpc_max_connections and rpc_max_connections_shared_prefix
  total, shared, \* total_connections and total_prefixed_connections
  main,          \* "running", or "exiting" once the server is dropped
  requests, changes, stalls, resets, panics

limits == <<config, total, shared>>
budget == <<requests, changes, stalls, resets, panics>>
rpcVars == <<senders, rpc, closing, threads, garbage>>
vars == <<client, peer, reader, held, queue, acceptor, notifications, rpcVars, limits, main, budget>>

Init ==
  /\ client = [c \in Conn |-> "none"]
  /\ peer = [c \in Conn |-> "none"] /\ reader = [c \in Conn |-> "none"]
  /\ held = [c \in Conn |-> "nothing"] /\ queue = [c \in Conn |-> <<>>]
  /\ acceptor = <<>> /\ notifications = <<>>
  /\ senders = <<>> /\ rpc = "accept" /\ closing = <<>>
  /\ threads = {} /\ garbage = {}
  /\ config \in Configs
  /\ total = 0 /\ shared = [p \in AddressPrefixes |-> 0]
  /\ main = "running" /\ requests = 0 /\ changes = 0 /\ stalls = 0 /\ resets = 0 /\ panics = 0

\* The receiver of the queue exists until handle_replies() returns.
Receiving(c) == peer[c] \in {"recv", "write"}

Full(c) == Len(queue[c]) >= BufferSize

\* Vec::retain(): what is left of s, in its order.
retain(s, keep) ==
  LET left[i \in 0 .. Len(s)] ==
        IF i = 0 THEN <<>>
        ELSE IF s[i] \in keep THEN Append(left[i - 1], s[i]) ELSE left[i - 1]
  IN  left[Len(s)]

-------------------------------------------------------------------------------
(* Clients and the acceptor thread.                                        *)

Connect(c) ==
  /\ client[c] = "none" /\ rpc # "stopped"
  /\ client' = [client EXCEPT ![c] = "reading"]
  /\ acceptor' = Append(acceptor, c)
  /\ UNCHANGED <<peer, reader, held, queue, notifications, rpcVars, limits, main, budget>>

\* A client stops reading what it is sent, reads again, or closes its end.
ClientActs(c) ==
  /\ \/ /\ client[c] = "reading" /\ stalls < MaxStalls
        /\ client' = [client EXCEPT ![c] = "stalled"] /\ stalls' = stalls + 1
        /\ UNCHANGED resets
     \/ /\ client[c] = "stalled"
        /\ client' = [client EXCEPT ![c] = "reading"] /\ UNCHANGED <<stalls, resets>>
     \/ /\ client[c] \in {"reading", "stalled"}
        /\ client' = [client EXCEPT ![c] = "closed"] /\ UNCHANGED <<stalls, resets>>
     \/ /\ client[c] \in {"reading", "stalled"} /\ resets < MaxResets
        /\ client' = [client EXCEPT ![c] = "reset"] /\ resets' = resets + 1
        /\ UNCHANGED stalls
  /\ UNCHANGED <<peer, reader, held, queue, acceptor, notifications, rpcVars, limits, main,
                 requests, changes, panics>>

-------------------------------------------------------------------------------
(* GlobalLimits: both counters change under the lock of the prefix table.  *)

\* Mutant: the limit of a prefix is exceeded by one.
inc_connection_ok_OneMore(c) == shared[PrefixOf[c]] <= config.shared /\ total < config.total

inc_connection_ok(c) == shared[PrefixOf[c]] < config.shared /\ total < config.total

inc_connection(c) ==
  /\ shared' = [shared EXCEPT ![PrefixOf[c]] = @ + 1]
  /\ total' = total + 1
  /\ UNCHANGED config

\* A counter that would go below zero is left alone; the table's entry is not
\* checked.
dec_connection(c) ==
  /\ shared' = [shared EXCEPT ![PrefixOf[c]] = @ - 1]
  /\ total' = IF total <= 0 THEN total ELSE total - 1
  /\ UNCHANGED config

-------------------------------------------------------------------------------
(* The rpc thread.                                                         *)

\* Mutant: the thread is not remembered.
Accept_Forgets ==
  /\ rpc = "accept" /\ acceptor # <<>> /\ Head(acceptor) # "exit"
  /\ LET c == Head(acceptor) IN
     IF inc_connection_ok(c)
     THEN /\ inc_connection(c)
          /\ senders' = Append(senders, c)
          /\ peer' = [peer EXCEPT ![c] = "recv"]
          /\ reader' = [reader EXCEPT ![c] = "read"]
     ELSE /\ peer' = [peer EXCEPT ![c] = "rejected"]
          /\ UNCHANGED <<senders, reader, limits>>
  /\ acceptor' = Tail(acceptor)
  /\ UNCHANGED <<client, held, queue, notifications, rpc, closing, threads, garbage, main, budget>>

\* One connection from the acceptor: a slot, a queue, the threads, and the
\* threads that ended meanwhile are joined; or the socket is shut down.
Accept ==
  /\ rpc = "accept" /\ acceptor # <<>> /\ Head(acceptor) # "exit"
  /\ LET c == Head(acceptor) IN
     IF inc_connection_ok(c)
     THEN /\ inc_connection(c)
          /\ senders' = Append(senders, c)
          /\ peer' = [peer EXCEPT ![c] = "recv"]
          /\ reader' = [reader EXCEPT ![c] = "read"]
          /\ threads' = (threads \cup {c}) \ garbage
          /\ garbage' = {}
     ELSE /\ peer' = [peer EXCEPT ![c] = "rejected"]
          /\ UNCHANGED <<senders, reader, threads, garbage, limits>>
  /\ acceptor' = Tail(acceptor)
  /\ UNCHANGED <<client, held, queue, notifications, rpc, closing, main, budget>>

AcceptExit ==
  /\ rpc = "accept" /\ acceptor # <<>> /\ Head(acceptor) = "exit"
  /\ acceptor' = Tail(acceptor)
  /\ rpc' = "closing"
  /\ closing' = senders
  /\ UNCHANGED <<client, peer, reader, held, queue, notifications, senders, threads, garbage,
                 limits, main, budget>>

\* sender.send(Done) waits while the queue is full, with the mutex held.
SendDone ==
  /\ rpc = "closing" /\ closing # <<>>
  /\ LET c == Head(closing) IN
     /\ Receiving(c) => ~ Full(c)
     /\ queue' = IF Receiving(c) THEN [queue EXCEPT ![c] = Append(@, "done")] ELSE queue
  /\ closing' = Tail(closing)
  /\ UNCHANGED <<client, peer, reader, held, acceptor, notifications, senders, rpc, threads, garbage,
                 limits, main, budget>>

SendDoneEnd ==
  /\ rpc = "closing" /\ closing = <<>>
  /\ rpc' = "join"
  /\ UNCHANGED <<client, peer, reader, held, queue, acceptor, notifications, senders, closing, threads,
                 garbage, limits, main, budget>>

JoinThread ==
  /\ rpc = "join"
  /\ IF threads = {}
     THEN rpc' = "stopped" /\ UNCHANGED threads
     ELSE /\ \E c \in threads : /\ peer[c] \in {"finished", "panicked"}
                                /\ threads' = threads \ {c}
          /\ UNCHANGED rpc
  /\ UNCHANGED <<client, peer, reader, held, queue, acceptor, notifications, senders, closing, garbage,
                 limits, main, budget>>

-------------------------------------------------------------------------------
(* The main thread and the notifier thread.                                *)

MainNotifies ==
  /\ main = "running" /\ changes < MaxChanges
  /\ changes' = changes + 1
  /\ notifications' = Append(notifications, "change")
  /\ UNCHANGED <<client, peer, reader, held, queue, acceptor, rpcVars, limits, main,
                 requests, stalls, resets, panics>>

\* Rpc::drop(): Exit is sent, and the rpc thread joined.
MainExits ==
  /\ main = "running"
  /\ main' = "exiting"
  /\ notifications' = Append(notifications, "exit")
  /\ UNCHANGED <<client, peer, reader, held, queue, acceptor, rpcVars, limits, budget>>

\* Mutant: a sender whose queue is full is removed.
Notifier_DropsFull ==
  /\ notifications # <<>> /\ rpc # "closing"
  /\ LET Accepts(c) == Receiving(c) /\ ~ Full(c) IN
     IF Head(notifications) = "exit"
     THEN /\ acceptor' = Append(acceptor, "exit")
          /\ UNCHANGED <<queue, senders>>
     ELSE /\ queue' = [c \in Conn |-> IF c \in Range(senders) /\ Accepts(c)
                                      THEN Append(queue[c], "change") ELSE queue[c]]
          /\ senders' = retain(senders, {c \in Conn : Accepts(c)})
          /\ UNCHANGED acceptor
  /\ notifications' = Tail(notifications)
  /\ UNCHANGED <<client, peer, reader, held, rpc, closing, threads, garbage, limits, main, budget>>

\* It locks the mutex first.  A full queue is skipped, a sender whose receiver
\* is gone is removed.
Notifier ==
  /\ notifications # <<>> /\ rpc # "closing"
  /\ IF Head(notifications) = "exit"
     THEN /\ acceptor' = Append(acceptor, "exit")
          /\ UNCHANGED <<queue, senders>>
     ELSE /\ queue' = [c \in Conn |-> IF c \in Range(senders) /\ Receiving(c) /\ ~ Full(c)
                                      THEN Append(queue[c], "change") ELSE queue[c]]
          /\ senders' = retain(senders, {c \in Conn : Receiving(c)})
          /\ UNCHANGED acceptor
  /\ notifications' = Tail(notifications)
  /\ UNCHANGED <<client, peer, reader, held, rpc, closing, threads, garbage, limits, main, budget>>

-------------------------------------------------------------------------------
(* The reader thread: parse_requests().                                    *)

\* Mutant: the end of the stream is taken for an empty line, and reading goes on.
Read_EndIgnored(c) ==
  /\ reader[c] = "read"
  /\ \/ /\ requests < MaxRequests
        /\ requests' = requests + 1
        /\ held' = [held EXCEPT ![c] = "request"]
        /\ reader' = [reader EXCEPT ![c] = "send"]
     \/ /\ client[c] = "closed" \/ peer[c] = "join"
        /\ UNCHANGED <<requests, held, reader>>
  /\ UNCHANGED <<client, peer, queue, acceptor, notifications, rpcVars, limits, main,
                 changes, stalls, resets, panics>>

\* Mutant: the end of the stream ends the thread without Done.
Read_SilentEnd(c) ==
  /\ reader[c] = "read"
  /\ \/ /\ requests < MaxRequests
        /\ requests' = requests + 1
        /\ held' = [held EXCEPT ![c] = "request"]
        /\ reader' = [reader EXCEPT ![c] = "send"]
     \/ /\ client[c] = "closed" \/ peer[c] = "join"
        /\ reader' = [reader EXCEPT ![c] = "ended"]
        /\ UNCHANGED <<requests, held>>
  /\ UNCHANGED <<client, peer, queue, acceptor, notifications, rpcVars, limits, main,
                 changes, stalls, resets, panics>>

\* A line from the client, perhaps one that is no text (Done, then); or the end of the
\* stream, as the client closed it or the peer thread shut it down.  A read
\* error ends the thread without a message.
Read(c) ==
  /\ reader[c] = "read"
  /\ \/ /\ requests < MaxRequests
        /\ requests' = requests + 1
        /\ \E line \in {"request", "done"} : held' = [held EXCEPT ![c] = line]
        /\ reader' = [reader EXCEPT ![c] = "send"]
     \/ /\ client[c] = "closed" \/ peer[c] = "join"
        /\ held' = [held EXCEPT ![c] = "done"]
        /\ reader' = [reader EXCEPT ![c] = "send"]
        /\ UNCHANGED requests
     \/ /\ client[c] = "reset"
        /\ reader' = [reader EXCEPT ![c] = "ended"]
        /\ UNCHANGED <<requests, held>>
  /\ UNCHANGED <<client, peer, queue, acceptor, notifications, rpcVars, limits, main,
                 changes, stalls, resets, panics>>

\* tx.send() waits while the queue is full; it fails without a receiver.
ReaderSends(c) ==
  /\ reader[c] = "send"
  /\ \/ /\ Receiving(c) /\ ~ Full(c)
        /\ queue' = [queue EXCEPT ![c] = Append(@, held[c])]
        /\ reader' = [reader EXCEPT ![c] = IF held[c] = "done" THEN "ended" ELSE "read"]
     \/ /\ ~ Receiving(c)
        /\ reader' = [reader EXCEPT ![c] = "ended"]
        /\ UNCHANGED queue
  /\ held' = [held EXCEPT ![c] = "nothing"]
  /\ UNCHANGED <<client, peer, acceptor, notifications, rpcVars, limits, main, budget>>

-------------------------------------------------------------------------------
(* The peer thread: handle_replies() and run().                            *)

\* handle_replies() returned, or the thread unwinds: the queue is gone.
EndReplies(c, state) ==
  /\ peer' = [peer EXCEPT ![c] = state]
  /\ queue' = [queue EXCEPT ![c] = <<>>]

\* A request is answered, or it is invalid and ends the connection; a change
\* is news to the client or not, or its status query fails and that ends the
\* connection; either may panic.
PeerReceives(c) ==
  /\ peer[c] = "recv" /\ queue[c] # <<>>
  /\ \/ /\ Head(queue[c]) \in {"request", "change"}
        /\ peer' = [peer EXCEPT ![c] = "write"]
        /\ queue' = [queue EXCEPT ![c] = Tail(@)]
        /\ UNCHANGED panics
     \/ /\ Head(queue[c]) = "change"
        /\ queue' = [queue EXCEPT ![c] = Tail(@)]
        /\ UNCHANGED <<peer, panics>>
     \/ /\ EndReplies(c, "join") /\ UNCHANGED panics
     \/ /\ Head(queue[c]) # "done" /\ panics < MaxPanics
        /\ EndReplies(c, "panicked") /\ panics' = panics + 1
  /\ UNCHANGED <<client, reader, held, acceptor, notifications, rpcVars, limits, main,
                 requests, changes, stalls, resets>>

\* write_all() waits for a client that does not read; it can only fail, sooner
\* or later, when the client is gone.
PeerWrites(c) ==
  /\ peer[c] = "write"
  /\ \/ /\ client[c] \in {"reading", "closed"}
        /\ peer' = [peer EXCEPT ![c] = "recv"]
        /\ UNCHANGED queue
     \/ /\ client[c] \in {"closed", "reset"}
        /\ EndReplies(c, "join")
  /\ UNCHANGED <<client, reader, held, acceptor, notifications, rpcVars, limits, main, budget>>

\* The reader has ended: the slot is given back and the thread reported.
PeerEnds(c) ==
  /\ peer[c] = "join" /\ reader[c] = "ended"
  /\ dec_connection(c)
  /\ garbage' = garbage \cup {c}
  /\ peer' = [peer EXCEPT ![c] = "finished"]
  /\ UNCHANGED <<client, reader, held, queue, acceptor, notifications, senders, rpc, closing, threads,
                 main, budget>>

-------------------------------------------------------------------------------
Rpc == Accept \/ AcceptExit \/ SendDone \/ SendDoneEnd \/ JoinThread

Reader(c) == Read(c) \/ ReaderSends(c)

Peer(c) == PeerReceives(c) \/ PeerWrites(c) \/ PeerEnds(c)

\* The process is over.
Terminated == rpc = "stopped" /\ UNCHANGED vars

Next ==
  \/ Rpc \/ Notifier \/ MainNotifies \/ MainExits
  \/ \E c \in Conn : Connect(c) \/ ClientActs(c) \/ Reader(c) \/ Peer(c)
  \/ Terminated

Spec == Init /\ [][Next]_vars

\* The threads of the server keep running; nothing is assumed of the clients.
FairSpec ==
  /\ Spec
  /\ WF_<<acceptor, rpc, closing, threads>>(Rpc) /\ WF_notifications(Notifier)
  /\ \A c \in Conn : WF_reader(Reader(c)) /\ WF_<<peer, queue>>(Peer(c))

-------------------------------------------------------------------------------
(* Properties.                                                             *)

\* The connections that have taken a slot and not given it back.
Holding(S) == {c \in S : peer[c] \in {"recv", "write", "join", "panicked"}}

\* The two counters are the numbers of connections that hold a slot, and never
\* exceed the limits, in whatever order peers come and go.
SlotsExact ==
  /\ total = Cardinality(Holding(Conn)) /\ total <= config.total
  /\ \A p \in AddressPrefixes :
       /\ shared[p] = Cardinality(Holding({c \in Conn : PrefixOf[c] = p}))
       /\ shared[p] <= config.shared

\* A connection whose peer still receives is known to the notifier; and once the
\* server closes its connections, Done is in its queue or still to be sent.
LiveIsListed ==
  \A c \in Conn : Receiving(c) =>
    /\ c \in Range(senders)
    /\ rpc # "accept" => c \in Range(closing) \/ "done" \in Range(queue[c])

\* When the server has stopped, no peer thread runs: none uses the index or the
\* database that the main thread drops next.
StoppedMeansDone ==
  rpc = "stopped" => \A c \in Conn : peer[c] \in {"none", "rejected", "finished", "panicked"}

\* The shutdown ends unless a client that does not read holds it up: nobody
\* waits forever for the mutex, a full queue or another thread.
ShutdownEnds ==
  main = "exiting" ~> rpc = "stopped" \/ \E c \in Conn : client[c] = "stalled"

\* The thread of a connection that its client closed ends.  It gives the slot back,
\* unless it panicked: then the slot stays taken.
ClosedIsCleaned ==
  \A c \in Conn : client[c] = "closed" /\ Receiving(c) ~> peer[c] \in {"finished", "panicked"}

\* So does the thread of one that ended with a read error.
ResetIsCleaned ==
  \A c \in Conn : client[c] = "reset" /\ Receiving(c) ~> peer[c] \in {"finished", "panicked"}
===============================================================================
