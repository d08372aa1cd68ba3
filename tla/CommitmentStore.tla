-------------------------- MODULE CommitmentStore --------------------------
(***************************************************************************)
(* The commitment tree over the life of a server: bootstrap (a full tree,  *)
(* or the window prepare_tree seeds from subtree roots), blocks appended   *)
(* by sync and follow, reorgs, rebuilds of the published data, snapshots   *)
(* and restarts.  A restart also stands for every error that ends the      *)
(* process, TreeSizeMismatch among them.                                   *)
(***************************************************************************)
EXTENDS CommitmentTree

CONSTANTS
  Blocks,       \* the blocks that may arrive, as [hash, cms]
  SubtreeRoots,     \* what get_subtree_roots may give: sequences of shard roots
  MaxBlocks     \* bound: blocks held at a time

ASSUME StoreAssumption ==
  /\ \A b \in Blocks : b.cms \in Seq(Leaves)
  /\ MaxBlocks \in Nat

storeVars == <<tree, saved>>

\* prepare_tree: new() with no completed shard before the window, else with_offset,
\* and the shard-completing block with those of its leaves that lie in the window.
Prepared ==
  {EmptyTree(<<>>)}
    \cup {AppendCommitments(EmptyTree(roots), 1, b.hash, b.cms) :
            roots \in SubtreeRoots \ {<<>>}, b \in Blocks}

StoreInit == tree \in Prepared /\ saved = {}

\* validate_prior_tree_size: once a reorg has removed the shard-completing block,
\* every block of the new chain starts before leaf_offset.
FollowsOn(t) == t.prefetched # <<>> => t.blocks # <<>>

AppendBlock(b) ==
  /\ FollowsOn(tree)
  /\ Len(tree.blocks) < MaxBlocks
  /\ tree' = AppendCommitments(tree, LastHeight(tree) + 1, b.hash, b.cms)
  /\ UNCHANGED saved

Rollback(target) ==
  /\ tree' = RollbackTo(tree, target)
  /\ UNCHANGED saved

Rebuild ==
  /\ tree' = FillCache(tree)
  /\ UNCHANGED saved

\* to_snapshot writes every field, cached roots included.
SaveTree ==
  /\ saved' = {tree}
  /\ UNCHANGED tree

\* from_snapshot reads them back; without a file prepare_tree runs again.
Restart ==
  /\ tree' \in (IF saved = {} THEN Prepared ELSE saved)
  /\ UNCHANGED saved

StoreNext ==
  \/ \E b \in Blocks : AppendBlock(b)
  \/ \E target \in 0..LastHeight(tree) : Rollback(target)
  \/ Rebuild
  \/ SaveTree
  \/ Restart

StoreSpec == StoreInit /\ [][StoreNext]_storeVars

-----------------------------------------------------------------------------
\* The leaves that block i of a tree contributed.
BlockLeaves(t, i) ==
  SubSeq(t.leaves, LeavesUpTo(t.blocks)[i - 1] + 1, LeavesUpTo(t.blocks)[i])

LogOf(t) ==
  [i \in DOMAIN t.blocks |->
     [height |-> t.blocks[i].height, hash |-> t.blocks[i].hash, cms |-> BlockLeaves(t, i)]]

Roots == {Root(0, row) : row \in [1..SubshardLeaves -> Leaves \cup {EmptyLeaf}]}
TreeOK(t) ==
  t \in [prefetched : SubtreeRoots \cup {<<>>},
         leaves : Seq(Leaves),
         blocks : Seq([height : Nat, hash : {b.hash : b \in Blocks}, num : Nat]),
         cache : [Rows -> Roots \cup {None}]]

\* Tree and snapshot are well typed, and the block records account for every leaf.
StoreTypeOK ==
  \A t \in {tree} \cup saved :
    /\ TreeOK(t)
    /\ LeavesUpTo(t.blocks)[Len(t.blocks)] = Len(t.leaves)

\* A cached sub-shard root, in memory or restored from a snapshot, is the root
\* of the leaves that are under it now: appends and rollbacks drop every root they
\* make stale.
CacheCoherent ==
  \A t \in {tree} \cup saved : \A r \in Rows :
    t.cache[r] # None => t.cache[r] = Root(0, Row(t.leaves, r))

\* What a rebuild publishes, with whatever the cache holds, is what the blocks of
\* the log determine: the roots of their commitments in the window's order.
BroadcastExact ==
  LET all == FlattenSeq([i \in DOMAIN tree.blocks |-> LogOf(tree)[i].cms])
      sub(r) == Root(0, Row(all, r))
      shard(i) == [k \in 1..SubshardsPerShard |-> sub((i - 1) * SubshardsPerShard + k - 1)]
      subs == [i \in 1..WindowShards(tree) |-> shard(i)]
  IN  /\ Broadcast(tree).subshard_roots = subs
      /\ Broadcast(tree).cap
           = tree.prefetched \o [i \in 1..WindowShards(tree) |-> Root(1, subs[i])]

\* The tree implements a log of blocks with their commitments, through reorgs,
\* saves and restarts.
Log == INSTANCE CommitmentLog
         WITH log <- LogOf(tree),
              kept <- {LogOf(t) : t \in saved},
              Fresh <- {LogOf(t) : t \in Prepared}
IsCommitmentLog == Log!Spec

\* "All populated shard roots for the cap tree" (witness/src/types.rs).
CapComplete == Len(Broadcast(tree).cap) = PopulatedShards(tree)
=============================================================================
