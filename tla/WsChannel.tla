------------------------------- MODULE WsChannel -------------------------------
(***************************************************************************)
(* A channel of the WebSocket proxy (wstcp/channel.rs, wstcp/server.rs):   *)
(* the future that relays between a WebSocket client and the RPC server.   *)
(*                                                                         *)
(*   client -> ws_rbuf -> frame_decoder -> real_stream                     *)
(*   client <- ws_wbuf <- frame_encoder <- real_stream                     *)
(*                                                                         *)
(* A step is a round of the loop in poll(): the I/O on the WebSocket       *)
(* stream, then the handshake or the relaying, which does the I/O on the   *)
(* stream to the server.  What a client does between the two could as well *)
(* come after the round, and what the server does before it.  They send a  *)
(* byte at a time, so that reads end anywhere.  After Poll::Pending the    *)
(* future is polled again when a stream it could not read or write is      *)
(* ready.  ReadBuf and WriteBuf belong to the crate bytecodec: they read   *)
(* and write until the stream would block, and get their room back when    *)
(* they are empty.                                                         *)
(***************************************************************************)
EXTENDS WsFrame

CONSTANTS
  BufSize,       \* ws_rbuf and ws_wbuf (BUF_SIZE)
  SocketSize,    \* units a socket holds that its receiver has not read
  Frames,        \* the frames a client sends: [kind, len]
  MaxFrames,     \* bound: frames of the client
  MaxBytes,      \* bound: bytes of the server
  MaxTraffic,    \* bound: frames and bytes together
  Requests       \* handshake requests: "upgrade", and "other" for refused ones

ASSUME ChannelConstants ==
  /\ BufSize \in Nat \ {0} /\ SocketSize \in Nat \ {0}
  /\ MaxFrames \in Nat /\ MaxBytes \in Nat /\ MaxTraffic \in Nat

None == <<>>   \* an Option; Some(x) is <<x>>
Code == 9     \* the code of the client's Close frame

VARIABLES
  cIn, cEnd,           \* client: units on their way to the proxy, its end of the stream
  cRest,               \* client: what remains to be sent of the current frame
  cFrames, cBytes,     \* client: frames begun, data bytes sent
  cOut, cRead,         \* units written to the client; how many it has read
  sIn, sEnd, sBytes,   \* server: bytes on their way to the proxy, its end, all bytes sent
  sOut, sRead,         \* bytes written to the server; how many it has read
  dial,                \* TcpStream::connect()
  pc, ch,              \* the future, and the ProxyChannel
  lone                 \* history: where newlines were read from the server without another byte

clientVars == <<cIn, cEnd, cRest, cFrames, cBytes, cRead>>
serverVars == <<sIn, sEnd, sBytes, sRead, dial>>
proxyVars == <<cOut, sOut, pc, ch, lone>>
vars == <<clientVars, serverVars, proxyVars>>

Buffer == [units |-> <<>>, tail |-> 0, state |-> "normal"]

Init ==
  /\ cIn = <<>> /\ cEnd = "open" /\ cFrames = 0 /\ cBytes = 0
  /\ \E r \in Requests : cRest = <<Header(r, TRUE, 0)>>
  /\ cOut = <<>> /\ cRead = 0
  /\ sIn = <<>> /\ sEnd = "open" /\ sBytes = <<>> /\ sOut = <<>> /\ sRead = 0
  /\ dial = "none" /\ pc = "poll" /\ lone = {}
  /\ ch = [rbuf |-> Buffer, wbuf |-> Buffer, real |-> FALSE, rstate |-> "normal",
           wstate |-> "normal", handshake |-> "recv", closing |-> "not yet",
           pong |-> None, close |-> None, dec |-> NewDecoder, enc |-> NewEncoder]

-------------------------------------------------------------------------------
(* The client and the server.                                              *)

\* What the peers do is followed until the future ends.
Ended == pc = "ended"

Accepted == cOut # <<>> /\ cOut[1].kind = "accepted"

InTraffic == cFrames + Len(sBytes) < MaxTraffic

\* A Close frame, or one that the decoder refuses and never gets past.
LastFrame(f) == f.kind \in {"close", "bad"}

\* The next unit of a frame, or the first one of another.  A client waits for the
\* response to its request, and sends nothing after its last frame.
ClientSends ==
  /\ cEnd = "open" /\ ~ Ended
  /\ \/ /\ cRest # <<>>
        /\ cIn' = Append(cIn, Head(cRest)) /\ cRest' = Tail(cRest)
        /\ UNCHANGED <<cFrames, cBytes>>
     \/ /\ cRest = <<>> /\ cRead > 0 /\ Accepted /\ cFrames < MaxFrames /\ InTraffic
        /\ \E f \in Frames :
             LET first == IF is_control(f.kind) THEN Code ELSE cBytes + 1 IN
             /\ cIn' = Append(cIn, Header(f.kind, TRUE, f.len))
             /\ cRest' = [i \in 1 .. f.len |-> Masked(first + i - 1, i)]
             /\ cBytes' = IF is_control(f.kind) THEN cBytes ELSE cBytes + f.len
             /\ cFrames' = IF LastFrame(f) THEN MaxFrames ELSE cFrames + 1
  /\ UNCHANGED <<cEnd, cRead, serverVars, proxyVars>>

ClientReads ==
  /\ cRead < Len(cOut) /\ ~ Ended
  /\ cRead' = Len(cOut)
  /\ UNCHANGED <<cIn, cEnd, cRest, cFrames, cBytes, serverVars, proxyVars>>

\* A client leaves: its stream ends, and using it may fail.
ClientEnds ==
  /\ cEnd = "open" /\ ~ Ended
  /\ cEnd' = "closed"
  /\ UNCHANGED <<cIn, cRest, cFrames, cBytes, cRead, serverVars, proxyVars>>

\* The listener's backlog takes the connection, or nobody listens.
Dialed ==
  /\ dial = "pending" /\ ~ Ended
  /\ dial' \in {"connected", "refused"}
  /\ UNCHANGED <<clientVars, sIn, sEnd, sBytes, sRead, proxyVars>>

ServerSends ==
  /\ dial = "connected" /\ ~ Ended /\ sEnd = "open" /\ Len(sBytes) < MaxBytes /\ InTraffic
  /\ \E v \in {NewLine, Len(sBytes) + 1} :
       /\ sIn' = Append(sIn, v)
       /\ sBytes' = Append(sBytes, v)
  /\ UNCHANGED <<clientVars, sEnd, sRead, dial, proxyVars>>

ServerReads ==
  /\ sRead < Len(sOut) /\ ~ Ended /\ sEnd = "open"
  /\ sRead' = Len(sOut)
  /\ UNCHANGED <<clientVars, sIn, sEnd, sBytes, dial, proxyVars>>

\* The server closes its stream.
ServerEnds ==
  /\ dial = "connected" /\ ~ Ended /\ sEnd = "open"
  /\ sEnd' = "closed"
  /\ UNCHANGED <<clientVars, sIn, sBytes, sRead, dial, proxyVars>>

-------------------------------------------------------------------------------
(* The I/O on the WebSocket stream.                                        *)

Room(buf) == BufSize - buf.tail

\* ReadBuf::fill(): reads n units; with room left the stream has no more.
fill ==
  LET n == Min({Room(ch.rbuf), Len(cIn)}) IN
  [units |-> ch.rbuf.units \o SubSeq(cIn, 1, n),
   tail  |-> ch.rbuf.tail + n,
   state |-> IF n < Room(ch.rbuf) THEN (IF cEnd = "open" THEN "block" ELSE "eos")
             ELSE IF n > 0 THEN "normal" ELSE ch.rbuf.state]

\* What a buffer is after its first n units were taken.
Taken(buf, n) ==
  [buf EXCEPT !.units = SubSeq(@, n + 1, Len(@)),
              !.tail = IF n = Len(buf.units) THEN 0 ELSE @]

\* The units WriteBuf::flush() can write.
Flushable == Min({Len(ch.wbuf.units), SocketSize - (Len(cOut) - cRead)})

flush ==
  [Taken(ch.wbuf, Flushable) EXCEPT
     !.state = IF ch.wbuf.units = <<>> THEN @
               ELSE IF Flushable < Len(ch.wbuf.units) THEN "block" ELSE "normal"]

is_ws_stream_eos(c) == "eos" \in {c.rbuf.state, c.wbuf.state}

Encoded(buf, units) == [buf EXCEPT !.units = @ \o units, !.tail = @ + Len(units)]

\* Mutant: an owed Pong does not keep the future awake.
would_ws_stream_block_Pong(c) ==
  /\ c.rbuf.state = "block"
  /\ \/ c.wbuf.units = <<>> /\ c.close = None
     \/ c.wbuf.state = "block"

would_ws_stream_block(c) ==
  /\ c.rbuf.state = "block"
  /\ \/ c.wbuf.units = <<>> /\ c.close = None /\ c.pong = None
     \/ c.wbuf.state = "block"

would_real_stream_block(c) ==
  /\ c.rstate = "block"
  /\ is_data_empty(c.dec) \/ c.wstate = "block"

-------------------------------------------------------------------------------
(* The handshake.                                                          *)

\* Poll::Pending while the handshake is not done, or another round.
HandshakeWaits(c) ==
  /\ ch' = c
  /\ pc' = IF would_ws_stream_block(c) THEN "pending" ELSE "poll"
  /\ UNCHANGED <<sIn, sOut, lone>>

Respond(c, response) == [c EXCEPT !.wbuf = Encoded(@, <<Header(response, TRUE, 0)>>)]

\* The response to a request that failed is put into ws_wbuf, and the future ends.
Refused(c, response) ==
  /\ ch' = Respond(c, response)
  /\ pc' = "ended"
  /\ UNCHANGED <<sIn, sOut, lone>>

\* process_handshake() until the server is connected.
Handshake(c) ==
  \/ /\ c.handshake = "recv" /\ c.rbuf.units = <<>>
     /\ HandshakeWaits(c)
     /\ UNCHANGED dial
  \/ /\ c.handshake = "recv" /\ c.rbuf.units # <<>>
     /\ IF Head(c.rbuf.units).kind = "upgrade"
        THEN /\ HandshakeWaits([c EXCEPT !.handshake = "connect", !.rbuf = Taken(@, 1)])
             /\ dial' = "pending"
        ELSE Refused(c, "bad request") /\ UNCHANGED dial
  \/ /\ c.handshake = "connect" /\ dial = "pending"
     /\ HandshakeWaits(c)
     /\ UNCHANGED dial
  \/ /\ c.handshake = "connect" /\ dial = "refused"
     /\ Refused(c, "unavailable") /\ UNCHANGED dial

\* The server is connected: the handshake is done, and relaying starts.
Connected(c) ==
  IF c.handshake = "connect" /\ dial = "connected"
  THEN [Respond(c, "accepted") EXCEPT !.handshake = "done", !.real = TRUE]
  ELSE c

-------------------------------------------------------------------------------
(* The relay.                                                              *)

\* starts_closing() in state NotYet; `by' tells who closed first.
starts_closing(c, code, by) ==
  [c EXCEPT !.real = FALSE, !.rstate = "eos", !.wstate = "eos", !.closing = by, !.close = <<code>>]

\* start_encoding_data() on the stream to the server: the bytes it takes.
Readable(c) ==
  IF c.real /\ encoder_idle(c.enc) THEN SubSeq(sIn, 1, Min({PayloadSize, Len(sIn)})) ELSE <<>>

\* Mutant: bytes are read while the encoder still has some.
read_real_Busy(c) ==
  IF sIn # <<>>
  THEN [c EXCEPT !.rstate = "normal",
                 !.enc = start_encoding_data(@, SubSeq(sIn, 1, Min({PayloadSize, Len(sIn)})))]
  ELSE [c EXCEPT !.rstate = IF sEnd = "open" THEN "block" ELSE "eos"]

read_real(c) ==
  IF ~ encoder_idle(c.enc) THEN [c EXCEPT !.rstate = "normal"]
  ELSE IF sIn # <<>>
       THEN [c EXCEPT !.rstate = "normal", !.enc = start_encoding_data(@, Readable(c))]
       ELSE [c EXCEPT !.rstate = IF sEnd = "open" THEN "block" ELSE "eos"]

\* write_decoded_data() on that stream: how many bytes it takes.
Writable(c) ==
  IF c.real /\ ~ is_data_empty(c.dec)
  THEN Min({Len(c.dec.buf) - c.dec.start, SocketSize - (Len(sOut) - sRead)})
  ELSE 0

write_real(c) ==
  IF is_data_empty(c.dec) THEN [c EXCEPT !.wstate = "normal"]
  ELSE IF Writable(c) = 0 THEN [c EXCEPT !.wstate = "block"]
       ELSE [c EXCEPT !.wstate = "normal", !.dec = data_written(@, Writable(c))]

Outcome(c, read, written) == [c |-> c, read |-> read, written |-> written]

\* write_decoded_data() after start_encoding_data() gave r.
RealWrites(c, r, broken) ==
  IF broken = "server" /\ ~ is_data_empty(r.dec)
  THEN Outcome(starts_closing(r, 1001, "server"), Readable(c), 0)
  ELSE Outcome(write_real(r), Readable(c), Writable(r))

\* handle_real_stream(), with the error handling of process_relay(): what becomes of
\* the channel, the bytes read and the number written.
RealIo(c, broken) ==
  IF ~ c.real THEN {Outcome(c, <<>>, 0)}
  ELSE IF broken = "server" /\ encoder_idle(c.enc)
       THEN {Outcome(starts_closing(c, 1001, "server"), <<>>, 0)}
       ELSE {RealWrites(c, r, broken) : r \in {read_real(c)}}

\* An owed Pong, and then an owed Close frame, as soon as the encoder is free.
StartPong(c) ==
  IF encoder_idle(c.enc) /\ c.pong # None
  THEN [c EXCEPT !.enc = start_encoding(@, "pong", c.pong[1]), !.pong = None] ELSE c

StartClose(c) ==
  IF encoder_idle(c.enc) /\ c.close # None
  THEN [c EXCEPT !.enc = start_encoding(@, "close", c.close), !.close = None] ELSE c

\* encode_to_write_buf(), and the end of the closing handshake.
Encode(c) ==
  LET n == Min({Len(c.enc.units), Room(c.wbuf)}) IN
  [c EXCEPT !.wbuf = Encoded(@, SubSeq(c.enc.units, 1, n)),
            !.enc.units = SubSeq(@, n + 1, Len(@)),
            !.closing = IF n = Len(c.enc.units) /\ @ = "client" THEN "closed" ELSE @]

handle_frame(c, kind, payload) ==
  CASE kind = "close" ->
         [c |-> CASE c.closing = "not yet" -> starts_closing(c, payload[1], "client")
                  [] c.closing \in {"server", "client"} -> [c EXCEPT !.closing = "client"]
                  [] OTHER -> c,
          failed |-> c.closing = "closed"]
    [] kind = "ping" ->
         [c |-> IF c.closing = "not yet" THEN [c EXCEPT !.pong = <<payload>>] ELSE c,
          failed |-> FALSE]
    [] OTHER -> [c |-> c, failed |-> FALSE]

\* decode_from_read_buf() gave d.
Consumed(c, d) == [c EXCEPT !.dec = d.dec, !.rbuf = Taken(@, Len(@.units) - Len(d.rest))]

\* What ws_rbuf holds after the decoder refused its first frame.
Misaligned(c, units) ==
  [c EXCEPT !.rbuf.units = units, !.rbuf.tail = IF units = <<>> THEN 0 ELSE Max({@, Len(units)})]

\* finish_decoding() and handle_frame() for a frame that is complete.
Decoded(c, d) ==
  IF d.failed THEN {[c |-> Misaligned(c, units), failed |-> TRUE] : units \in AfterRefusal(d.rest)}
  ELSE IF ~ decoder_idle(d.dec) THEN {[c |-> Consumed(c, d), failed |-> FALSE]}
  ELSE {IF finish_ok(d.dec) THEN handle_frame(f, d.dec.header.kind, d.dec.buf)
        ELSE [c |-> f, failed |-> TRUE] :
          f \in {Consumed(c, [d EXCEPT !.dec = finish_decoding(@)])}}

\* The results of handle_ws_stream(): one, unless an opcode is refused.  The steps are
\* taken from sets of one member, so that TLC computes each of them once.
handle_ws_stream(c) ==
  LET encoded == {Encode(q) : q \in {StartClose(p) : p \in {StartPong(c)}}} IN
  UNION {UNION {Decoded(e, d) : d \in {decode(e.dec, e.rbuf.units)}} : e \in encoded}

\* Mutant: the end of the server's stream is not noticed.
CheckReal_Ignores(c) == c

\* is_real_stream_eos() with the closing that follows.
CheckReal(c) ==
  IF "eos" \in {c.rstate, c.wstate} /\ c.closing = "not yet"
  THEN starts_closing(c, 1000, "server") ELSE c

\* process_relay() and the rest of the round.  An error while the channel is closing
\* ends the future.
Relay(c, broken) ==
  /\ \E io \in RealIo(c, broken) : \E w \in handle_ws_stream(io.c) :
       /\ sIn' = SubSeq(sIn, Len(io.read) + 1, Len(sIn))
       /\ sOut' = sOut \o SubSeq(c.dec.buf, c.dec.start + 1, c.dec.start + io.written)
       /\ lone' = IF \A i \in 1 .. Len(io.read) : io.read[i] = NewLine
                  THEN lone \cup {Len(sBytes) - Len(sIn) + i : i \in 1 .. Len(io.read)}
                  ELSE lone
       /\ IF w.failed /\ w.c.closing # "not yet"
          THEN pc' = "ended" /\ ch' = w.c
          ELSE \E n \in {CheckReal(IF w.failed THEN starts_closing(w.c, 1002, "server") ELSE w.c)} :
                 /\ ch' = n
                 /\ pc' = IF would_ws_stream_block(n) /\ would_real_stream_block(n)
                          THEN "pending" ELSE "poll"
  /\ UNCHANGED dial

\* The end of the future closes both streams.
End == pc' = "ended" /\ UNCHANGED <<sIn, sOut, dial, lone>>

\* The stream to the client is read when ws_rbuf has room, written when ws_wbuf is not empty.
UsesClient == Room(ch.rbuf) > 0 \/ ch.wbuf.units # <<>>

\* A round of poll().  The stream `broken' fails if it is used; its peer is gone.
Poll(broken) ==
  /\ pc = "poll"
  /\ UNCHANGED <<cEnd, cRest, cFrames, cBytes, cRead, sEnd, sBytes, sRead>>
  /\ broken = "client" => cEnd = "closed"
  /\ broken = "server" => sEnd = "closed"
  /\ \/ /\ broken = "client" /\ UsesClient /\ End
        /\ UNCHANGED <<cIn, cOut, ch>>
     \/ /\ ~ (broken = "client" /\ UsesClient)
        /\ \E io \in {[ch EXCEPT !.rbuf = fill, !.wbuf = flush]} : \E c \in {Connected(io)} :
             /\ cIn' = SubSeq(cIn, Len(io.rbuf.units) - Len(ch.rbuf.units) + 1, Len(cIn))
             /\ cOut' = cOut \o SubSeq(ch.wbuf.units, 1, Flushable)
             /\ \/ is_ws_stream_eos(io) /\ End /\ ch' = io
                \/ ~ is_ws_stream_eos(io) /\ c.handshake # "done" /\ Handshake(c)
                \/ /\ ~ is_ws_stream_eos(io) /\ c.handshake = "done"
                   /\ IF c.closing = "closed" THEN End /\ ch' = c ELSE Relay(c, broken)

\* The peer has not read what its socket holds.
ClientFull == Len(cOut) - cRead >= SocketSize
ServerFull == Len(sOut) - sRead >= SocketSize

\* A stream that was not ready is: the executor polls the future again.
Ready ==
  \/ cIn # <<>> \/ cEnd # "open"
  \/ ch.wbuf.state = "block" /\ ~ ClientFull
  \/ ch.handshake = "connect" /\ dial # "pending"
  \/ ch.real /\ (sIn # <<>> \/ sEnd # "open")
  \/ ch.real /\ ch.wstate = "block" /\ ~ ServerFull

Wake ==
  /\ pc = "pending" /\ Ready
  /\ pc' = "poll"
  /\ UNCHANGED <<clientVars, serverVars, cOut, sOut, ch, lone>>

-------------------------------------------------------------------------------
Future == Wake \/ \E broken \in {"none", "client", "server"} : Poll(broken)

Client == ClientSends \/ ClientReads \/ ClientEnds

Server == Dialed \/ ServerSends \/ ServerReads \/ ServerEnds

Terminated == Ended /\ UNCHANGED vars

Next == Future \/ Client \/ Server \/ Terminated

Spec == Init /\ [][Next]_vars

\* The executor polls a future that was woken, and connecting succeeds or fails.
\* Nothing is assumed of the client or of the server, and no stream has to break.
FairSpec == Spec /\ WF_vars(Wake \/ Poll("none")) /\ WF_dial(Dialed)

-------------------------------------------------------------------------------
(* Properties.                                                             *)

\* The server gets the payload of the client's data frames, unmasked, every byte
\* once and in order, however frames are cut up by reads, by full buffers and by
\* writes that take part of the data, and whatever control frames lie between.
ForwardsInOrder ==
  /\ Len(sOut) <= cBytes
  /\ \A i \in 1 .. Len(sOut) : sOut[i] = i

\* Everything on its way to the client or there.
ToClient == cOut \o ch.wbuf.units \o ch.enc.units

IsHeader(u) == "kind" \in DOMAIN u

\* The header of the frame that unit i of s belongs to.
FrameAt(s, i) == s[Max({j \in 1 .. i : IsHeader(s[j])})]

IsData(header) == header.kind \in {"text", "cont"}

\* The text a client makes of the units of s: the payload of its data frames, and a
\* newline at the end of a message.
TextOf(s) ==
  LET EndsFrame(i) == i = Len(s) \/ IsHeader(s[i + 1])
      Piece(i) == IF IsHeader(s[i]) \/ ~ IsData(FrameAt(s, i)) THEN <<>>
                  ELSE IF FrameAt(s, i).fin /\ EndsFrame(i) THEN <<s[i].byte, NewLine>>
                  ELSE <<s[i].byte>>
  IN  FlattenSeq([i \in 1 .. Len(s) |-> Piece(i)])

\* The lines of a text: a newline after another one, or at the beginning, ends none.
LinesOf(text) ==
  LET Counts(i) == text[i] # NewLine \/ (i > 1 /\ text[i - 1] # NewLine)
      places    == SelectSeq([i \in 1 .. Len(text) |-> i], Counts)
  IN  [k \in 1 .. Len(places) |-> text[places[k]]]

\* What the proxy has read from the server, but the newlines that came alone.
ReadFromServer ==
  LET Kept(i) == i \notin lone
      places  == SelectSeq([i \in 1 .. Len(sBytes) - Len(sIn) |-> i], Kept)
  IN  [k \in 1 .. Len(places) |-> sBytes[places[k]]]

\* Every byte the proxy read from the server is on its way to the client, once and
\* in order, and so is every end of a line, as a newline in the payload or as the end
\* of a message.  A newline that is read alone is the exception: it is dropped, and
\* the lines around it run together unless a message ended there before.
RepliesInOrder == LinesOf(TextOf(ToClient)) = LinesOf(ReadFromServer)

\* What the client gets are whole frames and whole messages: no frame begins inside
\* the payload of another, a text frame begins a message and only where the last
\* one is finished, a message is finished only where the server wrote a newline,
\* and nothing follows a Close frame.
FramesWellFormed ==
  LET s     == ToClient
      heads == {i \in 1 .. Len(s) : IsHeader(s[i])}
      NextHead(i) == Min({j \in heads : j > i} \cup {Len(s) + 1})
      data  == {i \in heads : IsData(s[i])}
  IN  \A i \in heads :
        /\ s[i].len = NextHead(i) - i - 1
        /\ s[i].kind = "close" => NextHead(i) = Len(s) + 1
        /\ i \in data /\ s[i].fin => sBytes[s[NextHead(i) - 1].byte + 1] = NewLine
        /\ LET before == {j \in data : j < i} IN
           i \in data =>
             (s[i].kind = "text" <=> before = {} \/ s[Max(before)].fin)

Asleep == pc = "pending" /\ ~ Ready

\* The future sleeps although a frame is waiting in ws_rbuf: after a data frame is
\* finished nothing makes it decode the next one until a stream is ready again.
FrameLeft == Asleep /\ ch.rbuf.units # <<>>

\* The future sleeps only on streams that are not ready.  It owes the client nothing
\* that the client's socket had room for, be it a reply, a Pong or a Close frame,
\* and every byte of the frames it got is forwarded, unless the server's socket
\* is full or a frame was left in ws_rbuf.
SleepsWithoutDebts ==
  Asleep /\ ch.handshake = "done" =>
    /\ (ToClient = cOut /\ ch.pong = None /\ ch.close = None) \/ ClientFull
    /\ cRest = <<>> => Len(sOut) = cBytes \/ ServerFull \/ FrameLeft

\* The server is gone and a decoded byte can never be written: no later frame is
\* decoded, neither a Close frame nor what fills ws_rbuf.
Clogged == ~ ch.real /\ ~ is_data_empty(ch.dec)

CloseSent == \E i \in 1 .. Len(cOut) : IsHeader(cOut[i]) /\ cOut[i].kind = "close"

\* Leaving is noticed.  A client that leaves takes the channel with it, unless the
\* server does not read or left first with data undelivered.  When the server ends
\* its stream, a client that stays is sent a Close frame, unless it closed first
\* or does not read.
PartingNoticed ==
  cEnd # "open" \/ (sEnd # "open" /\ ch.real) ~>
    \/ Ended
    \/ cEnd # "open" /\ (ServerFull \/ Clogged)
    \/ cEnd = "open" /\ (CloseSent \/ ClientFull \/ ch.closing \in {"client", "closed"})
===============================================================================
