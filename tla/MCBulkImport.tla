------------------------------ MODULE MCBulkImport ------------------------------
(* BulkImport on a small set of block files for TLC. *)
EXTENDS BulkImport, TLC

CONSTANTS g, a1, a2, b1, b2, t1, t2, i1, i2

MCPrev == (g :> NullHash) @@ (a1 :> g) @@ (a2 :> a1) @@ (b1 :> g) @@ (b2 :> b1)

MCHeight == (g :> 0) @@ (a1 :> 1) @@ (a2 :> 2) @@ (b1 :> 1) @@ (b2 :> 2)

\* t1 moves up when b2 replaces a1.
MCTxsOf == (g :> {}) @@ (a1 :> {t1}) @@ (a2 :> {t2}) @@ (b1 :> {t2}) @@ (b2 :> {t1})

\* The second chain ends with a block that is in no file.
MCChains == {<<g, a1, a2>>, <<g, b1, b2>>}

\* Blocks out of order, an orphan, and a block that is in two files.
MCFiles == <<<<a1, b1>>, <<g, a1>>, <<a2>>>>
===============================================================================
