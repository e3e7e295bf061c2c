------------------------------ MODULE IndexService ------------------------------
(***************************************************************************)
(* Module Index as an implementation of module ChainService: the header    *)
(* list is the served chain, and the rows of the database that readers see *)
(* are the indexed blocks.                                                 *)
(***************************************************************************)
EXTENDS Index

served == [i \in 1 .. Len(hl.headers) |-> hl.headers[i].hash]

Service == INSTANCE ChainService
           WITH aim <- tip, indexed <- View(store).B, chain <- served

\* Whatever happens to the daemon's chain and to the process, readers see what
\* ChainService allows: update() writes a block's rows after its predecessor's and
\* before any header, publishes the whole chain in one step, and publishes no chain
\* but one that ends at the tip it was aimed at.
ServesChain == Service!Spec

Seen(s) == \A i \in 1 .. Len(s) : s[i].B \subseteq View(s).B

\* What the refinement needs beside IInv.  No crash brings back rows that readers
\* have not seen: the database on disk, and every one a memtable flush can put there,
\* has no other blocks than the one they see.  And only an update has an aim.
ReadersInv ==
  /\ Seen(store)
  /\ pc \in {"down", "load"} => tip = NullHash
===============================================================================
