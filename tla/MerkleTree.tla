----------------------------- MODULE MerkleTree -----------------------------
(***************************************************************************)
(* The Merkle trees of src/src/utils/merkle.ts: building, proofs and their *)
(* verification.  A pair is hashed with the smaller felt first, so a node  *)
(* is the hash of a set of one or two felts; a node without a neighbour    *)
(* is paired with zero.                                                    *)
(***************************************************************************)
EXTENDS Integers, Sequences, SequencesExt

Throws == <<"throws">>

N(n) == <<"n", n>>

Zero == N(0)

hash(a, b) == <<"pair", {a, b}>>

------------------------------------------------------------------------------
(* A tree is its levels: the leaves, the branches, and the root alone.      *)

LevelAbove(level) ==
  [i \in 1..((Len(level) + 1) \div 2) |->
     hash(level[2 * i - 1], IF 2 * i > Len(level) THEN Zero ELSE level[2 * i])]

RECURSIVE levelsFrom(_)
levelsFrom(level) ==
  IF Len(level) = 1 THEN <<level>> ELSE <<level>> \o levelsFrom(LevelAbove(level))

\* No leaves: build() calls itself until the stack is full.
build(leaves) == IF leaves = <<>> THEN <<>> ELSE levelsFrom(leaves)

root(leaves) == IF leaves = <<>> THEN Throws ELSE build(leaves)[Len(build(leaves))][1]

\* Beside a node, found by the node's first place in its level.
Beside(level, node) ==
  LET place == CHOOSE i \in DOMAIN level : level[i] = node /\ \A j \in 1..(i - 1) : level[j] # node
  IN IF place % 2 = 1 THEN place + 1 ELSE place - 1

Neighbour(level, node) ==
  IF Beside(level, node) \in DOMAIN level THEN level[Beside(level, node)] ELSE Zero

\* A leaf that is not found throws: the path then ends with Throws.
\* (indexOf() finds only a string written the same way; here there is one way.)
RECURSIVE getProof(_, _)
getProof(levels, node) ==
  IF \A i \in DOMAIN levels[1] : levels[1][i] # node THEN <<Throws>>
  ELSE IF Len(levels) = 1 THEN <<>>
  ELSE LET neighbour == Neighbour(levels[1], node)
       IN <<neighbour>> \o getProof(Tail(levels), hash(node, neighbour))

Fails(path) == \E i \in DOMAIN path : path[i] = Throws

\* A mutant: the end of the path is not compared.
pathIsFollowed(top, leaf, path) == top # Throws /\ ~Fails(path)

proofMerklePath(top, leaf, path) == top = FoldLeft(hash, leaf, path)
=============================================================================
