------------------------------ MODULE HeaderList ------------------------------
(***************************************************************************)
(* The in-memory list of block headers (util.rs, struct HeaderList): a     *)
(* vector `headers' of entries from the genesis block to the tip, and a    *)
(* map `heights' from block hashes to positions.  A block hash and its     *)
(* block are identified.  The map is a function over all blocks in which   *)
(* NoHeight stands for a missing key.  It is never pruned when the vector  *)
(* is truncated, so it also holds entries of blocks that left the chain.   *)
(***************************************************************************)
EXTENDS Integers, Sequences

CONSTANTS
  Block,     \* the block hashes that can occur
  NullHash,  \* BlockHash::default()
  Prev,      \* header.prev_blockhash of every block
  Height     \* distance to the genesis block

NoHeight == -1

\* A header commits to its predecessor's hash, so the blocks form a forest
\* rooted at blocks whose prev_blockhash is the null hash.
ASSUME BlockTree ==
  /\ NullHash \notin Block
  /\ Prev \in [Block -> Block \cup {NullHash}]
  /\ Height \in [Block -> Nat]
  /\ \A b \in Block :
       Height[b] = IF Prev[b] = NullHash THEN 0 ELSE Height[Prev[b]] + 1

Entry == [height : Nat, hash : Block]

Lists == [headers : Seq(Entry), heights : [Block -> Nat \cup {NoHeight}]]

\* The hash at the end of a sequence of headers, null when there is none.
LastHash(s) == IF s = <<>> THEN NullHash ELSE s[Len(s)]

\* Every header points at the one before it.
Linked(s) == \A i \in 1 .. Len(s) - 1 : Prev[s[i + 1]] = s[i]

\* A chain from its genesis block; the heights follow from the links.
IsChain(s) ==
  \A i \in 1 .. Len(s) :
    /\ Height[s[i]] = i - 1
    /\ Prev[s[i]] = IF i = 1 THEN NullHash ELSE s[i - 1]

-------------------------------------------------------------------------------
empty == [headers |-> <<>>, heights |-> [b \in Block |-> NoHeight]]

tiphash(hl) ==
  IF hl.headers = <<>> THEN NullHash ELSE hl.headers[Len(hl.headers)].hash

\* Mutant: the entry at the position is not compared.
header_by_blockhash_Stale(hl, b) == hl.heights[b] # NoHeight /\ hl.heights[b] < Len(hl.headers)

\* header_by_blockhash(b) is Some(_): the map knows b, and the entry at that
\* position still is b.
header_by_blockhash(hl, b) ==
  LET h == hl.heights[b] IN
  /\ h # NoHeight
  /\ h < Len(hl.headers)
  /\ hl.headers[h + 1].hash = b

\* order() finds the height of the first new header, or panics.
order_ok(hl, hashes) ==
  \/ hashes = <<>>
  \/ Prev[hashes[1]] = NullHash
  \/ header_by_blockhash(hl, Prev[hashes[1]])

order(hl, hashes) ==
  LET base == IF hashes = <<>> \/ Prev[hashes[1]] = NullHash
              THEN 0
              ELSE hl.headers[hl.heights[Prev[hashes[1]]] + 1].height + 1
  IN  [i \in 1 .. Len(hashes) |-> [height |-> base + i - 1, hash |-> hashes[i]]]

\* The number of entries apply() keeps: the height of the first new header or,
\* without new headers, everything up to the tip.
kept(hl, new, tip) ==
  IF new = <<>> THEN hl.heights[tip] + 1 ELSE new[1].height

\* The assertions of apply() on its arguments.
apply_ok(hl, new, tip) ==
  IF tip = NullHash THEN new = <<>>
  ELSE /\ \A i \in 1 .. Len(new) - 1 :
            /\ new[i].height + 1 = new[i + 1].height
            /\ new[i].hash = Prev[new[i + 1].hash]
       /\ IF new = <<>>
          THEN /\ hl.heights[tip] # NoHeight
               /\ hl.heights[tip] < Len(hl.headers)
               /\ hl.headers[hl.heights[tip] + 1].hash = tip
          ELSE /\ new[Len(new)].hash = tip
               /\ new[1].height <= Len(hl.headers)
               /\ Prev[new[1].hash] = IF new[1].height > 0
                                      THEN hl.headers[new[1].height].hash
                                      ELSE NullHash

\* Truncate the vector, then push the new entries; the map only gains keys.
apply(hl, new, tip) ==
  IF tip = NullHash THEN empty
  ELSE [headers |-> SubSeq(hl.headers, 1, kept(hl, new, tip)) \o new,
        heights |-> [b \in Block |->
                       IF \E i \in 1 .. Len(new) : new[i].hash = b
                       THEN new[CHOOSE i \in 1 .. Len(new) : new[i].hash = b].height
                       ELSE hl.heights[b]]]
===============================================================================
