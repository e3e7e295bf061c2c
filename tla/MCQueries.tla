------------------------------- MODULE MCQueries -------------------------------
(* t1 pays to s1, t2 spends that output and pays to s2; t3 and t4 are any      *)
(* others.  Two branches hold them at other heights and positions; b1 has an   *)
(* odd number.                                                                 *)
EXTENDS Queries, TLC

CONSTANTS g, a1, a2, b1, b2, t1, t2, t3, t4, s1, s2

MCPrev == (a1 :> g) @@ (a2 :> a1) @@ (b1 :> g) @@ (b2 :> b1)
MCTxids == (a1 :> <<t1>>) @@ (a2 :> <<t3, t2>>) @@ (b1 :> <<t3, t1, t2>>) @@ (b2 :> <<t4>>)
MCIndexed == <<a1>>

\* Nothing but a1 was ever indexed, or b1 and b2 were, and an update to a chain with t1 at
\* height 2 was abandoned.
MCStartRows ==
  {(t1 :> 1) @@ [t \in Tx |-> NoHeight], (t1 :> 2) @@ (t2 :> 1) @@ (t3 :> 1) @@ (t4 :> 2)}

MCFunds == (t1 :> {s1}) @@ (t2 :> {s2}) @@ (t3 :> {}) @@ (t4 :> {})
MCSpends == (t1 :> {}) @@ (t2 :> {<<t1, s1>>}) @@ (t3 :> {}) @@ (t4 :> {})

MCAsked ==
  [kind : {"confirmed_blockhash", "verbose", "merkle", "get"}, tx : {t1, t2}]
    \cup [kind : {"merkle at"}, tx : {t2}, height : 1 .. 2]
    \cup [kind : {"id_from_pos"}, height : 1 .. 2, pos : {0, 2}]
    \cup [kind : {"headers"}, start : 0 .. 1, count : 0 .. 2, cp : 0 .. 2]
    \cup {[kind |-> "utxo", tx |-> t1, sh |-> s1], [kind |-> "utxo", tx |-> t2, sh |-> s2]}
    \cup [kind : {"status", "mempool", "first_use"}, sh : {s1, s2}]
===============================================================================
