---------------------------- MODULE MCConnections ------------------------------
(* Two clients behind one address prefix, and servers with room for both, for *)
(* one connection, and for one of a prefix.                                   *)
EXTENDS Connections

MCPrefixOf == [c \in Conn |-> "p1"]

MCConfigs == {[total |-> 2, shared |-> 2], [total |-> 1, shared |-> 2], [total |-> 2, shared |-> 1]}
===============================================================================
