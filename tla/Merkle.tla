--------------------------------- MODULE Merkle ---------------------------------
(***************************************************************************)
(* The Merkle proofs of query/mod.rs: the branch from a leaf to the root,  *)
(* computed level by level.  A hash is injective: that of two nodes is the *)
(* pair of them.                                                           *)
(***************************************************************************)
EXTENDS Integers, SequencesExt

merklize(left, right) == <<left, right>>

\* Mutant: the last node of an odd level is not doubled but goes up alone.
RECURSIVE create_merkle_branch_and_root_Odd(_, _)
create_merkle_branch_and_root_Odd(hashes, index) ==
  IF Len(hashes) = 1 THEN [branch |-> <<>>, root |-> hashes[1]]
  ELSE LET n  == Len(hashes)
           up == [i \in 1 .. (n + 1) \div 2 |->
                    IF 2 * i > n THEN hashes[n] ELSE merklize(hashes[2 * i - 1], hashes[2 * i])]
           sibling == IF index % 2 = 0 THEN index + 1 ELSE index - 1
           rest == create_merkle_branch_and_root_Odd(up, index \div 2)
       IN  [branch |-> (IF sibling < n THEN <<hashes[sibling + 1]>> ELSE <<>>) \o rest.branch,
            root |-> rest.root]

\* The loop over the levels; `index' counts from 0.
RECURSIVE create_merkle_branch_and_root(_, _)
create_merkle_branch_and_root(hashes, index) ==
  IF Len(hashes) = 1 THEN [branch |-> <<>>, root |-> hashes[1]]
  ELSE LET even    == IF Len(hashes) % 2 = 0 THEN hashes ELSE Append(hashes, Last(hashes))
           sibling == IF index % 2 = 0 THEN index + 1 ELSE index - 1
           rest    == create_merkle_branch_and_root(
                        [i \in 1 .. Len(even) \div 2 |-> merklize(even[2 * i - 1], even[2 * i])],
                        sibling \div 2)
       IN  [branch |-> <<even[sibling + 1]>> \o rest.branch, root |-> rest.root]

-------------------------------------------------------------------------------
(* What it is checked against: the tree defined from its root, and what a  *)
(* client computes from a branch.                                          *)

Width(n, level) == (n + 2 ^ level - 1) \div 2 ^ level

\* Node i of a level over the leaves; a left child without a right one is its own.
RECURSIVE Node(_, _, _)
Node(leaves, level, i) ==
  IF level = 0 THEN leaves[i + 1]
  ELSE LET right == Min({2 * i + 1, Width(Len(leaves), level - 1) - 1})
       IN  merklize(Node(leaves, level - 1, 2 * i), Node(leaves, level - 1, right))

MerkleRoot(leaves) == Node(leaves, Min({k \in 0 .. Len(leaves) : 2 ^ k >= Len(leaves)}), 0)

\* The root a client arrives at from a leaf.
RECURSIVE RootOf(_, _, _)
RootOf(hash, index, branch) ==
  IF branch = <<>> THEN hash
  ELSE RootOf(IF index % 2 = 0 THEN merklize(hash, Head(branch)) ELSE merklize(Head(branch), hash),
              index \div 2, Tail(branch))
===============================================================================
