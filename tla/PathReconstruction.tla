------------------------- MODULE PathReconstruction -------------------------
(***************************************************************************)
(* Authentication paths, as client/src/reconstruct.rs puts them together   *)
(* from a decoded row and a broadcast, and the definition they should      *)
(* meet.  The Sinsemilla hash is an injective constructor: Combine.        *)
(* A path is a function from levels (0 at the leaf) to hashes.             *)
(***************************************************************************)
EXTENDS Integers, Sequences

CONSTANTS
  EmptyLeaf,         \* empty_root(0)
  SubshardHeight     \* SUBSHARD_HEIGHT (8)

ASSUME HeightAssumption == SubshardHeight \in Nat \ {0}

ShardHeight == 2 * SubshardHeight      \* SHARD_HEIGHT (16)
TreeDepth == 2 * ShardHeight           \* TREE_DEPTH (32)

\* The powers of two: how many nodes of a level there are below a node.
Pow2[n \in 0..TreeDepth] == IF n = 0 THEN 1 ELSE 2 * Pow2[n - 1]

SubshardLeaves == Pow2[SubshardHeight]
SubshardsPerShard == Pow2[SubshardHeight]
ShardLeaves == Pow2[ShardHeight]

Combine(level, left, right) == <<level, left, right>>

EmptyRoot[level \in 0..TreeDepth] ==
  IF level = 0 THEN EmptyLeaf
  ELSE Combine(level - 1, EmptyRoot[level - 1], EmptyRoot[level - 1])

Sibling(i) == IF i % 2 = 0 THEN i + 1 ELSE i - 1

\* The parents of the nodes at a level; a node without a right sibling gets an empty one.
Parents(nodes, level) ==
  [i \in 1..((Len(nodes) + 1) \div 2) |->
     Combine(level, nodes[2 * i - 1],
             IF 2 * i <= Len(nodes) THEN nodes[2 * i] ELSE EmptyRoot[level])]

-----------------------------------------------------------------------------
(* reconstruct.rs *)

\* Mutated form of ExtractSiblings: missing siblings are empty leaves at every level.
ExtractSiblingsEmptyLeaf(nodes, index, base, levels) ==
  LET Tier[k \in 0..levels] == IF k = 0 THEN nodes ELSE Parents(Tier[k - 1], base + k - 1)
  IN  [level \in base..(base + levels - 1) |->
         LET k == level - base
             s == Sibling(index \div Pow2[k])
         IN  IF s < Len(Tier[k]) THEN Tier[k][s + 1] ELSE EmptyLeaf]

\* extract_siblings: the siblings along the way up from nodes[index] at level base.
ExtractSiblings(nodes, index, base, levels) ==
  LET Tier[k \in 0..levels] == IF k = 0 THEN nodes ELSE Parents(Tier[k - 1], base + k - 1)
  IN  [level \in base..(base + levels - 1) |->
         LET k == level - base
             s == Sibling(index \div Pow2[k])
         IN  IF s < Len(Tier[k]) THEN Tier[k][s + 1] ELSE EmptyRoot[level]]

\* compute_root_from_path
RootFromPath(position, leaf, siblings) ==
  LET Node[level \in 0..TreeDepth] ==
        IF level = 0 THEN leaf
        ELSE IF (position \div Pow2[level - 1]) % 2 = 0
             THEN Combine(level - 1, Node[level - 1], siblings[level - 1])
             ELSE Combine(level - 1, siblings[level - 1], Node[level - 1])
  IN  Node[TreeDepth]

\* decompose_position ...
ShardOf(position) == position \div ShardLeaves
SubshardOf(position) == (position \div SubshardLeaves) % SubshardsPerShard
LeafOf(position) == position % SubshardLeaves

\* Mutated form of RowIndex: rows counted from the first shard of the tree.
RowIndexGlobal(position, windowStart) ==
  ShardOf(position) * SubshardsPerShard + SubshardOf(position)

\* ... and physical_row_index
RowIndex(position, windowStart) ==
  (ShardOf(position) - windowStart) * SubshardsPerShard + SubshardOf(position)

\* reconstruct_witness: the tiers come from the row, the shard's sub-shard roots and the
\* cap.  The root is computed from them; nothing is compared with it.
Reconstruct(position, row, b) ==
  LET lower == ExtractSiblings(row, LeafOf(position), 0, SubshardHeight)
      middle == ExtractSiblings(b.subshard_roots[ShardOf(position) - b.window_start + 1],
                                SubshardOf(position), SubshardHeight, SubshardHeight)
      upper == ExtractSiblings(b.shard_roots, ShardOf(position), ShardHeight, ShardHeight)
      siblings == [level \in 0..(TreeDepth - 1) |->
                     IF level < SubshardHeight THEN lower[level]
                     ELSE IF level < ShardHeight THEN middle[level] ELSE upper[level]]
  IN  [position |-> position,
       siblings |-> siblings,
       anchor_root |-> RootFromPath(position, row[LeafOf(position) + 1], siblings)]

-----------------------------------------------------------------------------
(* The tree of a sequence of leaves, by definition: what a path should be. *)

Node(leaves, level, index) ==
  LET Level[l \in 0..TreeDepth] ==
        [i \in Nat |-> IF l = 0
                       THEN IF i < Len(leaves) THEN leaves[i + 1] ELSE EmptyLeaf
                       ELSE Combine(l - 1, Level[l - 1][2 * i], Level[l - 1][2 * i + 1])]
  IN  Level[level][index]

TreeRoot(leaves) == Node(leaves, TreeDepth, 0)

AuthPath(leaves, position) ==
  [level \in 0..(TreeDepth - 1) |-> Node(leaves, level, Sibling(position \div Pow2[level]))]
=============================================================================
