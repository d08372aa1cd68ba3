--------------------------- MODULE CommitmentTree ---------------------------
(***************************************************************************)
(* The value CommitmentTreeDb of witness/src/tree.rs and its operations.   *)
(* A tree is a record of                                                   *)
(*   prefetched  roots of the shards before the window; leaf_offset is the *)
(*               number of leaves under them (prepare_tree makes it so)    *)
(*   leaves      the leaves from leaf_offset on                            *)
(*   blocks      [height, hash, num]: num_commitments per ingested block   *)
(*   cache       ss_root_cache: row |-> cached sub-shard root, or None     *)
(* The hash of a complete subtree is an injective function of its level    *)
(* and its leaves, so a root is the pair of them.                          *)
(***************************************************************************)
EXTENDS Integers, SequencesExt

CONSTANTS
  Leaves,               \* note commitments
  EmptyLeaf,            \* empty_roots[0]
  SubshardLeaves,       \* SUBSHARD_LEAVES
  SubshardsPerShard,    \* SUBSHARDS_PER_SHARD
  MaxShards             \* L0_MAX_SHARDS

ASSUME TreeAssumption ==
  /\ EmptyLeaf \notin Leaves
  /\ {SubshardLeaves, SubshardsPerShard, MaxShards} \subseteq Nat \ {0}

VARIABLES
  tree,     \* the CommitmentTreeDb of the running server
  saved     \* the trees witness_snapshot.bin holds: none yet, or one

ShardLeaves == SubshardLeaves * SubshardsPerShard
Rows == 0..(MaxShards * SubshardsPerShard - 1)    \* L0_DB_ROWS cache slots
None == <<>>

\* complete_subtree_root, from leaves (level 0) or from sub-shard roots (level 1)
Root(level, nodes) == <<level, nodes>>

\* subshard_leaves, by local row; positions beyond the frontier hold the empty leaf.
Row(leaves, r) ==
  [j \in 1..SubshardLeaves |->
     LET p == r * SubshardLeaves + j
     IN  IF p <= Len(leaves) THEN leaves[p] ELSE EmptyLeaf]

EmptySubshardRoot == Root(0, Row(<<>>, 0))

-----------------------------------------------------------------------------
\* new (no roots) and with_offset
EmptyTree(roots) ==
  [prefetched |-> roots, leaves |-> <<>>, blocks |-> <<>>, cache |-> [r \in Rows |-> None]]

WindowStart(t) == Len(t.prefetched)
TreeSize(t) == WindowStart(t) * ShardLeaves + Len(t.leaves)
PopulatedShards(t) == IF TreeSize(t) = 0 THEN 0 ELSE (TreeSize(t) - 1) \div ShardLeaves + 1
WindowShards(t) ==
  IF t.leaves = <<>> THEN 0
  ELSE LET local == (Len(t.leaves) - 1) \div ShardLeaves + 1
       IN  IF local <= MaxShards THEN local ELSE MaxShards

LastHeight(t) == IF t.blocks = <<>> THEN 0 ELSE Last(t.blocks).height

Forget(cache, rows) == [r \in Rows |-> IF r \in rows THEN None ELSE cache[r]]

\* Mutated form of AppendCommitments: a sub-shard that was begun stays cached.
AppendWhole(t, height, hash, cms) ==
  LET old == Len(t.leaves)
  IN  [t EXCEPT !.leaves = @ \o cms,
                !.blocks = Append(@, [height |-> height, hash |-> hash, num |-> Len(cms)]),
                !.cache = Forget(@, (old + SubshardLeaves - 1) \div SubshardLeaves
                                      ..(old + Len(cms) - 1) \div SubshardLeaves)]

AppendCommitments(t, height, hash, cms) ==
  LET old == Len(t.leaves)
      dirty == IF cms = <<>> THEN {}
               ELSE old \div SubshardLeaves..(old + Len(cms) - 1) \div SubshardLeaves
  IN  [t EXCEPT !.leaves = @ \o cms,
                !.blocks = Append(@, [height |-> height, hash |-> hash, num |-> Len(cms)]),
                !.cache = Forget(@, dirty)]

\* The leaves of the first n blocks: their num_commitments, summed.
LeavesUpTo(blocks) ==
  LET upTo[n \in 0..Len(blocks)] == IF n = 0 THEN 0 ELSE upTo[n - 1] + blocks[n].num
  IN  upTo

\* How many blocks remain when those above target are popped off the end.
BlocksKept(blocks, target) == Max({0} \cup {i \in DOMAIN blocks : blocks[i].height <= target})

\* Mutated form of RollbackTo: the new frontier's sub-shard stays cached.
RollbackPastFrontier(t, target) ==
  LET n == BlocksKept(t.blocks, target)
      upTo == LeavesUpTo(t.blocks)
      len == Len(t.leaves) - (upTo[Len(t.blocks)] - upTo[n])
  IN  [t EXCEPT !.blocks = SubSeq(@, 1, n),
                !.leaves = SubSeq(@, 1, len),
                !.cache = Forget(@, {r \in Rows : r * SubshardLeaves >= len})]

\* Mutated form of RollbackTo: only the last block's leaves are removed.
RollbackOneBlock(t, target) ==
  LET n == BlocksKept(t.blocks, target)
      len == Len(t.leaves) - (IF n = Len(t.blocks) THEN 0 ELSE Last(t.blocks).num)
  IN  [t EXCEPT !.blocks = SubSeq(@, 1, n),
                !.leaves = SubSeq(@, 1, len),
                !.cache = Forget(@, {r \in Rows : (r + 1) * SubshardLeaves >= len})]

\* The blocks above target are popped, their leaves truncated, and every cached root
\* from the new frontier's sub-shard on is dropped.
RollbackTo(t, target) ==
  LET n == BlocksKept(t.blocks, target)
      upTo == LeavesUpTo(t.blocks)
      len == Len(t.leaves) - (upTo[Len(t.blocks)] - upTo[n])
      frontier == IF len = 0 THEN 0 ELSE (len - 1) \div SubshardLeaves
  IN  [t EXCEPT !.blocks = SubSeq(@, 1, n),
                !.leaves = SubSeq(@, 1, len),
                !.cache = Forget(@, {r \in Rows : r >= frontier})]

-----------------------------------------------------------------------------
(* build_pir_db_and_broadcast: what it returns, and the cache it fills *)

\* Populated rows of the window; the others are padding or empty sub-shards.
LiveRows(t) ==
  {r \in Rows : r < WindowShards(t) * SubshardsPerShard /\ r * SubshardLeaves < Len(t.leaves)}

SubshardRoot(t, r) ==
  IF r \notin LiveRows(t) THEN EmptySubshardRoot
  ELSE IF t.cache[r] # None THEN t.cache[r]
  ELSE Root(0, Row(t.leaves, r))

SubRoots(t, shard) ==
  [k \in 1..SubshardsPerShard |-> SubshardRoot(t, shard * SubshardsPerShard + k - 1)]

Broadcast(t) ==
  LET subs == [i \in 1..WindowShards(t) |-> SubRoots(t, i - 1)]
  IN  [cap |-> t.prefetched \o [i \in 1..WindowShards(t) |-> Root(1, subs[i])],
       subshard_roots |-> subs,
       window_start_shard |-> WindowStart(t),
       window_shard_count |-> WindowShards(t)]

FillCache(t) ==
  [t EXCEPT !.cache = [r \in Rows |-> IF r \in LiveRows(t) THEN SubshardRoot(t, r) ELSE @[r]]]
=============================================================================
