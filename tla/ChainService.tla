------------------------------ MODULE ChainService ------------------------------
(***************************************************************************)
(* What the index promises to those who read it: rows come before headers, *)
(* a chain is published at once and in full, and it ends at a block the    *)
(* daemon gave as its best one.  Module Index is shown to implement this.  *)
(***************************************************************************)
EXTENDS Integers, Sequences

CONSTANTS Block, NullHash, Prev

VARIABLES
  active,   \* the daemon's chain
  aim,      \* the daemon's best block when the running update asked for it
  indexed,  \* the blocks whose rows can be read
  chain     \* the blocks whose headers are served

vars == <<active, aim, indexed, chain>>

\* A chain from its first block, with all of its blocks in S.
IsChainIn(s, S) ==
  \A i \in 1 .. Len(s) : s[i] \in S /\ Prev[s[i]] = IF i = 1 THEN NullHash ELSE s[i - 1]

Init == aim = NullHash /\ indexed = {} /\ chain = <<>>

DaemonMoves == UNCHANGED <<aim, indexed, chain>>

Aim ==
  /\ aim' = active[Len(active)]
  /\ UNCHANGED <<active, indexed, chain>>

\* Rows are written for a block only after those of its predecessor.
IndexBlock ==
  /\ aim # NullHash
  /\ \E b \in Block :
       /\ Prev[b] \in indexed \cup {NullHash}
       /\ indexed' = indexed \cup {b}
  /\ UNCHANGED <<active, aim, chain>>

Publish ==
  /\ aim # NullHash /\ chain' # <<>>
  /\ IsChainIn(chain', indexed)
  /\ chain'[Len(chain')] = aim
  /\ aim' = NullHash
  /\ UNCHANGED <<active, indexed>>

\* A new process serves what an earlier one indexed.
Load ==
  /\ chain = <<>> /\ aim = NullHash
  /\ IsChainIn(chain', indexed)
  /\ UNCHANGED <<active, aim, indexed>>

\* The process ends, perhaps with a crash that takes some of the rows.
End ==
  /\ chain' = <<>> /\ aim' = NullHash
  /\ indexed' \subseteq indexed
  /\ UNCHANGED active

Next == DaemonMoves \/ Aim \/ IndexBlock \/ Publish \/ Load \/ End

Spec == Init /\ [][Next]_vars
===============================================================================
