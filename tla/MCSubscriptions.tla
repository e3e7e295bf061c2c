---------------------------- MODULE MCSubscriptions ----------------------------
(* t1 pays to s1; t2 spends that output and pays to s2.  Two branches, the     *)
(* second one with t1 and t2 at another height.                                *)
EXTENDS Subscriptions, TLC

CONSTANTS g, a1, b1, b2, t1, t2, s1, s2, c1

MCPrev == (a1 :> g) @@ (b1 :> g) @@ (b2 :> b1)
MCTxids == (a1 :> <<t1>>) @@ (b1 :> <<>>) @@ (b2 :> <<t1, t2>>)
MCIndexed == <<a1>>
MCStartRows == {(t1 :> 1) @@ (t2 :> NoHeight)}
MCFunds == (t1 :> {s1}) @@ (t2 :> {s2})
MCSpends == (t1 :> {}) @@ (t2 :> {<<t1, s1>>})

MCRequests ==
  {[kind |-> "subscribe", arg |-> s1], [kind |-> "subscribe_address", arg |-> s2],
   [kind |-> "unsubscribe", arg |-> s1], [kind |-> "subscribe_headers", arg |-> None],
   [kind |-> "header", arg |-> None], [kind |-> "done", arg |-> None]}
===============================================================================
