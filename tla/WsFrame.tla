-------------------------------- MODULE WsFrame --------------------------------
(***************************************************************************)
(* The WebSocket frame codec (wstcp/frame.rs, wstcp/opcode.rs).            *)
(*                                                                         *)
(* A stream to or from the client is a sequence of units: the header of a  *)
(* frame, then its payload, a byte each.  The bytes of a header are one    *)
(* unit.  A client masks byte i of a payload with byte i % MaskLen of a    *)
(* key: a payload byte carries the position it was masked with, and comes  *)
(* out wrong when it is unmasked with another one.                         *)
(***************************************************************************)
EXTENDS Integers, SequencesExt

CONSTANTS
  MaskLen,      \* bytes of a masking key (4)
  PayloadSize   \* the payload buffers of the encoder and of the decoder (4096)

ASSUME FrameConstants == MaskLen \in Nat \ {0} /\ PayloadSize \in Nat \ {0}

NewLine == 0    \* the byte '\n'
Garbled == -1   \* a byte unmasked with the wrong byte of the key

\* Opcodes; "bad" stands for those that Opcode::from_u8() refuses.
is_control(kind) == kind \in {"close", "ping", "pong"}

Header(kind, fin, len) == [kind |-> kind, fin |-> fin, len |-> len]
Byte(v) == [byte |-> v, mask |-> 0]
Masked(v, i) == [byte |-> v, mask |-> (i - 1) % MaskLen]

-------------------------------------------------------------------------------
(* FrameEncoder: the units still to be encoded, and first_frame.           *)

NewEncoder == [units |-> <<>>, first |-> TRUE]

encoder_idle(enc) == enc.units = <<>>

\* The payload of a read: without the newlines at its end.  In a read of newlines
\* alone the offset of the last byte is computed as 0 - 1: a release build wraps
\* and finds no byte there, as modelled; a debug build panics.
Stripped(data) ==
  SubSeq(data, 1, Max({0} \cup {i \in 1 .. Len(data) : data[i] # NewLine}))

\* Mutant: first_frame is not set again at the end of a message.
start_encoding_data_NeverFirst(enc, data) ==
  LET payload == Stripped(data)
      fin     == payload # data
  IN  IF payload = <<>> THEN enc
      ELSE [units |-> <<Header(IF enc.first THEN "text" ELSE "cont", fin, Len(payload))>>
                      \o [i \in 1 .. Len(payload) |-> Byte(payload[i])],
            first |-> FALSE]

\* start_encoding_data(), after a read of `data': newlines at its end finish the
\* message; a read of newlines alone leaves the encoder as it was.
start_encoding_data(enc, data) ==
  LET payload == Stripped(data)
      fin     == payload # data
  IN  IF payload = <<>> THEN enc
      ELSE [units |-> <<Header(IF enc.first THEN "text" ELSE "cont", fin, Len(payload))>>
                      \o [i \in 1 .. Len(payload) |-> Byte(payload[i])],
            first |-> fin]

\* start_encoding() of a Pong or Close frame.
start_encoding(enc, kind, payload) ==
  [enc EXCEPT !.units = <<Header(kind, TRUE, Len(payload))>>
                        \o [i \in 1 .. Len(payload) |-> Byte(payload[i])]]

-------------------------------------------------------------------------------
(* FrameDecoder: the header of the frame being decoded, payload_offset, the *)
(* payload buffer with buf_start, and mask_offset.                         *)

NoHeader == Header("none", FALSE, 0)

NewDecoder == [header |-> NoHeader, offset |-> 0, buf |-> <<>>, start |-> 0, mask |-> 0]

decoder_idle(dec) ==
  /\ dec.header # NoHeader /\ dec.offset = dec.header.len
  /\ is_control(dec.header.kind) \/ dec.start = Len(dec.buf)

is_data_empty(dec) ==
  dec.header = NoHeader \/ is_control(dec.header.kind) \/ dec.start = Len(dec.buf)

\* Mutant: unmasking starts anew with every call.
unmask_Restarts(dec, units) ==
  [i \in 1 .. Len(units) |->
     IF units[i].mask = (i - 1) % MaskLen THEN units[i].byte ELSE Garbled]

unmask(dec, units) ==
  [i \in 1 .. Len(units) |->
     IF units[i].mask = (dec.mask + i - 1) % MaskLen THEN units[i].byte ELSE Garbled]

\* FramePayloadDecoder::decode(): as much as there is, as the frame still lacks
\* and as the buffer has room for.
decode_payload(dec, units) ==
  LET size == Min({dec.header.len - dec.offset, Len(units), PayloadSize - Len(dec.buf)}) IN
  [dec    |-> [dec EXCEPT !.offset = @ + size,
                          !.buf = @ \o unmask(dec, SubSeq(units, 1, size)),
                          !.mask = (@ + size) % MaskLen],
   rest   |-> SubSeq(units, size + 1, Len(units)),
   failed |-> FALSE]

\* What is decoded after a refused opcode.  If both bytes of the opcode came in one
\* read, nothing of the frame was consumed.  If they came in two the first is gone,
\* and the rest of the frame, its key and payload included, is taken for another
\* one: for the beginning of a header, or for a frame with some of the bytes.
Misread == {<<>>} \cup {<<Header(k, TRUE, 1), Masked(Garbled, 1)>> : k \in {"text", "close", "ping"}}

AfterRefusal(units) == {units} \cup {m \o Tail(units) : m \in Misread}

\* FrameDecoder::decode(): a header unless one is there, then the payload of a
\* frame that is not complete.  A refused opcode is an error.
decode(dec, units) ==
  IF dec.header # NoHeader
  THEN IF decoder_idle(dec) THEN [dec |-> dec, rest |-> units, failed |-> FALSE]
       ELSE decode_payload(dec, units)
  ELSE IF units = <<>> \/ Head(units).kind = "bad"
       THEN [dec |-> dec, rest |-> units, failed |-> units # <<>>]
       ELSE decode_payload([dec EXCEPT !.header = Head(units)], Tail(units))

\* finish_decoding(): ready for the next frame.  A Close frame needs its code, and
\* without it the header is gone but the payload stays.
finish_ok(dec) == dec.header.kind = "close" => dec.buf # <<>>

finish_decoding(dec) ==
  IF finish_ok(dec) THEN NewDecoder ELSE [dec EXCEPT !.header = NoHeader]

\* write_decoded_data() when the writer takes n bytes.
data_written(dec, n) ==
  IF dec.start + n = Len(dec.buf)
  THEN [dec EXCEPT !.buf = <<>>, !.start = 0]
  ELSE [dec EXCEPT !.start = @ + n]
===============================================================================
