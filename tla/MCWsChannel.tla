----------------------------- MODULE MCWsChannel -------------------------------
(* A client that sends data frames of three bytes, which wrap the masking key *)
(* and do not fit into the decoder's buffer, a Ping, a Close frame and a frame *)
(* whose opcode is refused.                                                    *)
EXTENDS WsChannel

MCFrames ==
  {[kind |-> "text", len |-> 3], [kind |-> "ping", len |-> 0],
   [kind |-> "close", len |-> 1], [kind |-> "bad", len |-> 0]}
===============================================================================
