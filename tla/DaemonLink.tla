------------------------------ MODULE DaemonLink -------------------------------
(***************************************************************************)
(* The connection to bitcoind that App shares between the main thread and  *)
(* the peer threads (daemon.rs), and the Waiter on which these threads     *)
(* wait for a timeout or a signal (signal.rs).                             *)
(*                                                                         *)
(* A call takes the connection's mutex, sends a request, receives one      *)
(* reply and gives the mutex back.  After a connection error the thread    *)
(* waits on the Waiter, takes the mutex again and connects, waiting on the *)
(* Waiter, mutex in hand, as long as bitcoind cannot be reached.           *)
(***************************************************************************)
EXTENDS Integers, Sequences

CONSTANTS
  Peers,            \* the peer threads that call the daemon
  MaxCalls,         \* bound: calls of all threads
  MaxStops,         \* bound: times bitcoind stops
  MaxLosses,        \* bound: times the connection is lost or bitcoind stops
  WarmupReplies,    \* bound: -28 replies of a bitcoind that starts
  MaxSignals        \* bound: times each signal is sent to the process

Main == "main"

ASSUME LinkConstants ==
  /\ Main \notin Peers /\ "free" \notin Peers
  /\ MaxCalls \in Nat /\ MaxStops \in Nat /\ MaxLosses \in Nat
  /\ WarmupReplies \in Nat /\ MaxSignals \in Nat

Thread == Peers \cup {Main}

VARIABLES
  daemon,        \* bitcoind: "up" or "down"
  warm,          \* the requests it will answer with -28 before it is ready
  conn,          \* the TCP connection: its state, requests and replies under way
  mutex,         \* who holds `conn': a thread, or "free"
  message_id,
  pc,            \* where every thread is
  id,            \* every thread: the id of its request, 0 outside of a call
  kind,          \* every thread: what its call is for
  executed,      \* history, every thread: times bitcoind carried out its call
  pending, slot, \* signals at the signal hook, and in the channel of capacity 1
  swallowed,     \* history: a SIGINT or SIGTERM went to a call that does not stop the server
  calls, stops, losses, signals

localVars == <<id, kind, executed>>
threadVars == <<pc, localVars>>
signalVars == <<pending, slot, swallowed>>
daemonVars == <<daemon, warm, stops, losses>>
vars == <<daemonVars, conn, mutex, message_id, threadVars, signalVars, calls, signals>>

NewConnection == [state |-> "open", requests |-> <<>>, replies |-> <<>>]

Init ==
  /\ daemon = "up" /\ warm = 0 /\ conn = NewConnection /\ mutex = "free" /\ message_id = 0
  /\ pc = [t \in Thread |-> "idle"] /\ id = [t \in Thread |-> 0]
  /\ kind = [t \in Thread |-> "none"]
  /\ executed = [t \in Thread |-> 0]
  /\ pending = {} /\ slot = "none" /\ swallowed = FALSE
  /\ calls = 0 /\ stops = 0 /\ losses = 0 /\ signals = [s \in {"INT", "USR1"} |-> 0]

-------------------------------------------------------------------------------
(* bitcoind.                                                               *)

\* It answers every request it has read, in order: it carries it out, or refuses
\* it, as it does with a transaction that an earlier request has sent already.
DaemonServes ==
  /\ daemon = "up" /\ conn.state = "open" /\ conn.requests # <<>>
  /\ \E result \in IF warm > 0 THEN {"warmup"} ELSE {"ok", "error"} :
       /\ conn' = [conn EXCEPT !.requests = Tail(@),
                               !.replies = Append(@, [id |-> Head(conn.requests), result |-> result])]
       /\ executed' = [t \in Thread |-> IF result = "ok" /\ id[t] = Head(conn.requests)
                                        THEN executed[t] + 1 ELSE executed[t]]
  /\ warm' = IF warm > 0 THEN warm - 1 ELSE 0
  /\ UNCHANGED <<daemon, stops, losses, mutex, message_id, pc, id, kind, signalVars, calls, signals>>

\* The connection ends or is reset, and a reply under way arrives, is cut short or is
\* lost.
Disconnect ==
  \E state \in {"ended", "reset"} :
  \E replies \in {conn.replies, <<>>, [i \in DOMAIN conn.replies |->
                                         [conn.replies[i] EXCEPT !.result = "cut"]]} :
    conn' = [state |-> state, requests |-> <<>>, replies |-> replies]

\* bitcoind stops.
DaemonStops ==
  /\ daemon = "up" /\ stops < MaxStops /\ losses < MaxLosses
  /\ daemon' = "down" /\ stops' = stops + 1 /\ losses' = losses + 1 /\ warm' = 0
  /\ IF conn.state = "open" THEN Disconnect ELSE UNCHANGED conn
  /\ UNCHANGED <<mutex, message_id, threadVars, signalVars, calls, signals>>

\* The connection is lost while bitcoind stays up, which closes one that was not used
\* for a time.
ConnectionDrops ==
  /\ daemon = "up" /\ conn.state = "open" /\ losses < MaxLosses
  /\ losses' = losses + 1
  /\ Disconnect
  /\ UNCHANGED <<daemon, warm, stops, mutex, message_id, threadVars, signalVars, calls, signals>>

DaemonStarts ==
  /\ daemon = "down"
  /\ daemon' = "up" /\ warm' = WarmupReplies
  /\ UNCHANGED <<stops, losses, conn, mutex, message_id, threadVars, signalVars, calls, signals>>

-------------------------------------------------------------------------------
(* Signals.                                                                *)

\* Equal signals that are pending are one.
SignalSent ==
  /\ \E s \in DOMAIN signals :
       /\ signals[s] < MaxSignals
       /\ signals' = [signals EXCEPT ![s] = @ + 1]
       /\ pending' = pending \cup {s}
  /\ UNCHANGED <<slot, swallowed, daemonVars, conn, mutex, message_id, threadVars, calls>>

\* The thread of notify(): send() waits while the channel is full.
notify ==
  /\ slot = "none"
  /\ \E s \in pending : slot' = s /\ pending' = pending \ {s}
  /\ UNCHANGED <<swallowed, daemonVars, conn, mutex, message_id, threadVars, calls, signals>>

\* wait(): a signal is received by one of the threads that wait.
TimedOut == slot = "none" /\ UNCHANGED slot
Woken == slot = "USR1" /\ slot' = "none"
Interrupted == slot = "INT" /\ slot' = "none"

-------------------------------------------------------------------------------
(* A call of a thread.                                                     *)

\* handle_request_batch() starts: a fresh id for the batch.
StartBatch(t) ==
  /\ message_id' = message_id + 1
  /\ id' = [id EXCEPT ![t] = message_id + 1]

\* The main thread's calls are those whose errors end run_server(), and the
\* ones of Tracker::update that it ignores.
Call(t) ==
  /\ pc[t] = "idle" /\ calls < MaxCalls
  /\ calls' = calls + 1
  /\ StartBatch(t)
  /\ \E k \in IF t = Main THEN {"update", "entry"} ELSE {"query"} : kind' = [kind EXCEPT ![t] = k]
  /\ pc' = [pc EXCEPT ![t] = "lock"]
  /\ UNCHANGED <<executed, daemonVars, conn, mutex, signalVars, signals>>

\* retry_request_batch() returns; an error that reaches run_server() stops it.
Return(t, how) ==
  /\ pc' = [pc EXCEPT ![t] = IF t = Main /\ kind[t] = "update" /\ how # "ok" THEN "stopped" ELSE "idle"]
  /\ id' = [id EXCEPT ![t] = 0] /\ kind' = [kind EXCEPT ![t] = "none"]
  /\ executed' = [executed EXCEPT ![t] = 0]

\* An error of kind Connection.
Retry(t) == pc' = [pc EXCEPT ![t] = "retry"] /\ UNCHANGED localVars

\* call_jsonrpc(): the mutex, then the request is written.  Writing to a
\* connection that is gone may fail, and so does reading the cookie file.
Lock(t) ==
  /\ pc[t] = "lock" /\ mutex = "free"
  /\ mutex' = t
  /\ pc' = [pc EXCEPT ![t] = "send"]
  /\ UNCHANGED <<daemonVars, conn, message_id, localVars, signalVars, calls, signals>>

\* Mutant: the mutex is given back after the request is written.
Send_Unlocks(t) ==
  /\ pc[t] = "send"
  /\ conn' = IF conn.state = "open" THEN [conn EXCEPT !.requests = Append(@, id[t])] ELSE conn
  /\ pc' = [pc EXCEPT ![t] = "recv"]
  /\ mutex' = "free"
  /\ UNCHANGED <<daemonVars, message_id, localVars, signalVars, calls, signals>>

Send(t) ==
  /\ pc[t] = "send"
  /\ \/ /\ conn' = IF conn.state = "open" THEN [conn EXCEPT !.requests = Append(@, id[t])] ELSE conn
        /\ pc' = [pc EXCEPT ![t] = "recv"]
        /\ UNCHANGED <<localVars, mutex>>
     \/ /\ conn.state # "open" \/ daemon = "down"
        /\ Retry(t) /\ mutex' = "free"
        /\ UNCHANGED conn
  /\ UNCHANGED <<daemonVars, message_id, signalVars, calls, signals>>

\* check_error_code() comes before the comparison of the ids.
parse_jsonrpc_reply(t, reply) ==
  CASE reply.result = "warmup" -> Retry(t)
    [] reply.result = "error"  -> Return(t, "error")
    [] reply.id # id[t]        -> Return(t, "wrong id")
    [] OTHER                   -> Return(t, "ok")

\* Mutant: a reply that is slow to come is taken for a lost connection.
Recv_TimesOut(t) ==
  /\ pc[t] = "recv"
  /\ \/ /\ conn.replies # <<>>
        /\ conn' = [conn EXCEPT !.replies = Tail(@)]
        /\ IF Head(conn.replies).result = "cut"
           THEN Retry(t)
           ELSE parse_jsonrpc_reply(t, Head(conn.replies))
     \/ Retry(t) /\ UNCHANGED conn
  /\ mutex' = "free"
  /\ UNCHANGED <<daemonVars, message_id, signalVars, calls, signals>>

\* recv(): a reply; or one that is cut short, or none as the stream ends, both
\* connection errors; or a read error at the status line, which is not one.
Recv(t) ==
  /\ pc[t] = "recv"
  /\ \/ /\ conn.replies # <<>>
        /\ conn' = [conn EXCEPT !.replies = Tail(@)]
        /\ IF Head(conn.replies).result = "cut"
           THEN Retry(t)
           ELSE parse_jsonrpc_reply(t, Head(conn.replies))
     \/ /\ conn.replies = <<>> /\ conn.state = "ended"
        /\ Retry(t) /\ UNCHANGED conn
     \/ /\ conn.replies = <<>> /\ conn.state = "reset"
        /\ Return(t, "disconnected") /\ UNCHANGED conn
  /\ mutex' = "free"
  /\ UNCHANGED <<daemonVars, message_id, signalVars, calls, signals>>

\* wait() returns an error, which becomes that of the call.
Interrupt(t) ==
  /\ Interrupted
  /\ Return(t, "interrupted")
  /\ swallowed' = (swallowed \/ pc'[t] # "stopped")

\* signal.wait() before the reconnection.
RetryWait(t) ==
  /\ pc[t] = "retry"
  /\ \/ (TimedOut \/ Woken) /\ pc' = [pc EXCEPT ![t] = "relock"] /\ UNCHANGED <<localVars, swallowed>>
     \/ Interrupt(t)
  /\ UNCHANGED <<pending, daemonVars, conn, mutex, message_id, calls, signals>>

Relock(t) ==
  /\ pc[t] = "relock" /\ mutex = "free"
  /\ mutex' = t
  /\ pc' = [pc EXCEPT ![t] = "connect"]
  /\ UNCHANGED <<daemonVars, conn, message_id, localVars, signalVars, calls, signals>>

\* Mutant: the guard lives on while the request is made again.
Reconnect_KeepsLock(t) ==
  /\ pc[t] = "connect" /\ daemon = "up"
  /\ conn' = NewConnection
  /\ StartBatch(t)
  /\ pc' = [pc EXCEPT ![t] = "lock"]
  /\ UNCHANGED <<daemonVars, mutex, kind, executed, signalVars, calls, signals>>

\* tcp_connect(), the connection replaced and the request made again ...
Reconnect(t) ==
  /\ pc[t] = "connect" /\ daemon = "up"
  /\ conn' = NewConnection
  /\ mutex' = "free"
  /\ StartBatch(t)
  /\ pc' = [pc EXCEPT ![t] = "lock"]
  /\ UNCHANGED <<daemonVars, kind, executed, signalVars, calls, signals>>

\* ... or a wait for another attempt.
ConnectWait(t) ==
  /\ pc[t] = "connect" /\ daemon = "down"
  /\ \/ Woken /\ UNCHANGED <<pc, localVars, mutex, swallowed>>
     \/ Interrupt(t) /\ mutex' = "free"
  /\ UNCHANGED <<pending, daemonVars, conn, message_id, calls, signals>>

\* Mutant: every signal counts as SIGUSR1.
MainWait_Ignores ==
  /\ pc[Main] = "idle"
  /\ slot # "none" /\ slot' = "none"
  /\ UNCHANGED <<pending, swallowed, daemonVars, conn, mutex, message_id, threadVars, calls, signals>>

\* The main loop waits between its updates, and Index::update() polls.
MainWait ==
  /\ pc[Main] = "idle"
  /\ \/ Woken /\ UNCHANGED pc
     \/ Interrupted /\ pc' = [pc EXCEPT ![Main] = "stopped"]
  /\ UNCHANGED <<pending, swallowed, daemonVars, conn, mutex, message_id, localVars, calls, signals>>

-------------------------------------------------------------------------------
Step(t) ==
  \/ Lock(t) \/ Send(t) \/ Recv(t) \/ RetryWait(t) \/ Relock(t) \/ Reconnect(t) \/ ConnectWait(t)

\* The process may stop, and a server may be idle.
Quiet == (\A t \in Thread : pc[t] \in {"idle", "stopped"}) /\ UNCHANGED vars

Next ==
  \/ DaemonServes \/ DaemonStops \/ ConnectionDrops \/ DaemonStarts \/ SignalSent \/ notify \/ MainWait
  \/ \E t \in Thread : Call(t) \/ Step(t)
  \/ Quiet

Spec == Init /\ [][Next]_vars

\* Threads run; a bitcoind that is up answers, and one that stopped is started
\* again some day.
FairSpec ==
  /\ Spec
  /\ \A t \in Thread : WF_<<pc, slot>>(Step(t))
  /\ WF_slot(MainWait) /\ WF_slot(notify) /\ WF_conn(DaemonServes) /\ WF_daemon(DaemonStarts)

-------------------------------------------------------------------------------
(* Properties.                                                             *)

\* A thread that waits for a reply on an open connection has exactly its own
\* request or reply there: no other thread reads it, leaves an older one before
\* it, or replaces the connection meanwhile.
AwaitedReplyComes ==
  \A t \in Thread : pc[t] = "recv" /\ conn.state = "open" =>
    \/ conn.requests = <<id[t]>> /\ conn.replies = <<>>
    \/ /\ conn.requests = <<>> /\ Len(conn.replies) = 1
       /\ conn.replies[1].id = id[t]

\* retry_request_batch() makes a request again, sendrawtransaction included, and
\* bitcoind may have carried it out before the connection was lost.  Every loss
\* costs at most one more execution; a call that returns a result was carried
\* out; and one that returns bitcoind's error was not, unless a connection was lost.
AnswersAreTruthful ==
  \A t \in Thread :
    /\ executed[t] <= 1 + losses
    /\ pc[t] = "recv" /\ conn.replies # <<>> =>
         LET result == Head(conn.replies).result
         IN  /\ result = "ok" => executed[t] >= 1
             /\ result = "error" /\ executed[t] > 0 => losses > 0

\* Every call returns, whatever bitcoind and the other threads do meanwhile.
CallsReturn ==
  \A t \in Thread : pc[t] = "lock" ~> pc[t] \in {"idle", "stopped"}

\* SIGINT and SIGTERM stop the server, also behind another signal in the channel, with
\* one exception: after a connection was lost the signal can be received by the wait of a
\* call, and is used up there if it is the call of a peer, or one whose errors
\* Tracker::update ignores.
SignalStops == signals["INT"] > 0 ~> pc[Main] = "stopped" \/ (swallowed /\ losses > 0)
===============================================================================
