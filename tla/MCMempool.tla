------------------------------- MODULE MCMempool -------------------------------
(* Three transactions: t1 and t2 share a row key, t3 has one of its keys twice. *)
EXTENDS MempoolFetch, TLC

CONSTANTS t1, t2, t3, k1, k2, k3

MCRowsOf == (t1 :> <<k1, k2>>) @@ (t2 :> <<k1>>) @@ (t3 :> <<k3, k3>>)

\* t2 and t3 pay the same rate.
MCRate == (t1 :> 3) @@ (t2 :> 1) @@ (t3 :> 1)

\* t1 fills a bin on its own; so does either of the others.
MCVsize == (t1 :> 3) @@ (t2 :> 3) @@ (t3 :> 4)

\* t1 and t2 fit the cache together, but for the overhead; t3 is too large for it.
MCSizeOf == (t1 :> 2) @@ (t2 :> 2) @@ (t3 :> 9)
===============================================================================
