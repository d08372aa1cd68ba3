--------------------------- MODULE WitnessServer ---------------------------
(***************************************************************************)
(* The standalone witness server (server/src/witness/server.rs).  Without  *)
(* a snapshot it asks the node for the roots of completed shards, starts a *)
(* tree above them, seeds it with the leaves of the shard-completing block *)
(* that lie in the window, and syncs from there; with one it resumes above *)
(* it.  It publishes and saves the tree, and then follows the chain.  Four *)
(* calls to the node make a tree, and nothing but the sizes of blocks ties *)
(* their answers together.  The process may end between any two steps.     *)
(*                                                                         *)
(* The follower sends any event that ChainFollower and OnlyConfirmed       *)
(* allow; the snapshot is the AtomicCell that SnapshotFiles implements.    *)
(* Assumed of the network: it keeps its confirmed blocks (~deep).          *)
(***************************************************************************)
EXTENDS ConfirmedChain, CommitmentTree

CONSTANTS
  Commitments,       \* hash |-> the Ironwood note commitments of the block
  Activation,        \* nu6_3_activation_height
  WindowLimits,      \* effective_window_shard_limit: what a start may be configured with
  SnapshotInterval,  \* snapshot_interval
  Window,            \* the follower's reorg_window (2 * CONFIRMATION_DEPTH)
  MaxCrashes         \* bound: how often the process may end

ASSUME WitnessServerAssumption ==
  /\ Commitments \in [Hashes -> Seq(Leaves)]
  /\ Activation \in Heights
  /\ {SnapshotInterval, Window} \subseteq Nat \ {0}
  /\ \A c \in Chains : \A h \in Heights : h < Activation => Commitments[c[h]] = <<>>
  /\ WindowLimits \subseteq 1..MaxShards
  /\ MaxCrashes \in Nat

VARIABLES
  pc,         \* where run, sync_into or prepare_tree is
  goal,       \* target_height
  next,       \* the next height to sync
  prev,       \* expected_prev within one sync_range
  live,       \* live_pir: the published tree, if any
  unsaved,    \* blocks_since_snapshot
  followed,   \* the chain up to the newest block the follower has handed over
  durable,    \* what a power loss may bring back instead
  crashes     \* ends of the process so far (model bound)

syncVars == <<goal, next, prev>>
fileVars == <<saved, durable>>
serverVars == <<pc, syncVars, tree, live, unsaved, followed, fileVars, crashes>>
worldVars == <<nodeVars, observerVars>>
vars == <<worldVars, serverVars>>

Follower == INSTANCE ChainFollower WITH held <- followed, MaxDrop <- Window - 1

-----------------------------------------------------------------------------
(* The chain's note commitment tree *)

\* All leaves of the tree after block x.
TreeOf ==
  [x \in Hashes |->
     LET c == CHOOSE d \in Chains : x \in Range(d)
         h == CHOOSE k \in Heights : c[k] = x
     IN  FlattenSeq([k \in 1..h |-> Commitments[c[k]]])]

\* ironwood_commitment_tree_size
SizeAfter(x) == Len(TreeOf[x])

\* ironwood_prior_tree_size
PriorSize(x) == SizeAfter(x) - Len(Commitments[x])

ShardRoots(leaves) ==
  [i \in 1..Len(leaves) \div ShardLeaves |->
     Root(1, [k \in 1..SubshardsPerShard |->
                Root(0, Row(leaves, (i - 1) * SubshardsPerShard + k - 1))])]

\* completing_block_height
CompletedAt(i) == Min({h \in Heights : SizeAfter(best[h]) >= i * ShardLeaves})

-----------------------------------------------------------------------------
(* sync_into and prepare_tree *)

\* get_latest_block
ReadTip ==
  /\ pc = "down"
  /\ goal' = ConfirmedTip
  /\ pc' = "load"
  /\ Answered
  /\ UNCHANGED <<observerVars, next, prev, tree, live, unsaved, followed, fileVars, crashes>>

\* load_snapshot: resume above its newest block, or prepare a tree.
Load ==
  /\ pc = "load"
  /\ \/ /\ saved = {}
        /\ pc' = "roots"
        /\ UNCHANGED <<tree, next>>
     \/ /\ tree' \in saved
        /\ next' = IF tree'.blocks = <<>> THEN Activation ELSE LastHeight(tree') + 1
        /\ pc' = "sync"
  /\ UNCHANGED <<worldVars, goal, prev, live, unsaved, followed, fileVars, crashes>>

\* get_subtree_roots, less the shards completed above the target height.
KeptRoots ==
  LET roots == ShardRoots(TreeOf[best[tip]])
  IN  SubSeq(roots, 1, Cardinality({i \in DOMAIN roots : CompletedAt(i) <= goal}))

\* With enough completed shards, a tree that starts above all but the last limit - 1
\* of them; else a full one.
FetchRoots ==
  /\ pc = "roots"
  /\ \E limit \in WindowLimits :
       IF Len(KeptRoots) >= limit
       THEN LET start == Len(KeptRoots) - (limit - 1)
            IN  /\ tree' = EmptyTree(SubSeq(KeptRoots, 1, start))
                /\ next' = CompletedAt(start) + 1
                /\ pc' = "completing"
       ELSE /\ tree' = EmptyTree(<<>>)
            /\ next' = Activation
            /\ pc' = "sync"
  /\ Answered
  /\ UNCHANGED <<observerVars, goal, prev, live, unsaved, followed, fileVars, crashes>>

\* spillover_from_commitments
Spillover(x, offset) ==
  LET skip == MaxOf(Len(Commitments[x]) - (SizeAfter(x) - offset), 0)
  IN  IF SizeAfter(x) <= offset THEN <<>>
      ELSE SubSeq(Commitments[x], skip + 1, Len(Commitments[x]))

\* The shard-completing block; a node that lacks it fails the call.
FetchCompleting ==
  /\ pc = "completing"
  /\ \E blocks \in Streams(next - 1, next - 1) :
       /\ blocks # <<>>
       /\ LET x == Head(blocks).hash
          IN  tree' = AppendCommitments(tree, next - 1, x, Spillover(x, TreeSize(tree)))
  /\ pc' = "sync"
  /\ Answered
  /\ UNCHANGED <<observerVars, syncVars, live, unsaved, followed, fileVars, crashes>>

\* The blocks of one batch, appended as long as each starts where the tree ends.
AppendAll(t, blocks) ==
  LET upTo[n \in 0..Len(blocks)] ==
        IF n = 0 THEN [tree |-> t, ok |-> TRUE]
        ELSE LET s == upTo[n - 1]
                 b == blocks[n]
             IN  IF s.ok /\ PriorSize(b.hash) = TreeSize(s.tree)
                 THEN [s EXCEPT !.tree =
                         AppendCommitments(@, b.height, b.hash, Commitments[b.hash])]
                 ELSE [s EXCEPT !.ok = FALSE]
  IN  upTo[Len(blocks)]

\* One batch of sync_range; TreeSizeMismatch ends the process.
SyncBatch ==
  /\ pc = "sync"
  /\ next <= goal
  /\ LET end == MinOf(next + BatchSize - 1, goal)
     IN  \E blocks \in Streams(next, end) :
           /\ ValidRange(blocks, next, end, prev)
           /\ LET s == AppendAll(tree, blocks)
              IN  /\ tree' = s.tree
                  /\ pc' = IF s.ok THEN "sync" ELSE "mismatch"
           /\ next' = end + 1
           /\ prev' = Last(blocks).hash
  /\ Answered
  /\ UNCHANGED <<observerVars, goal, live, unsaved, followed, fileVars, crashes>>

\* rebuild_pir, and the save begins.  (Bound: the previous one has reached the disk.)
Publish ==
  /\ pc = "sync"
  /\ next > goal
  /\ tree' = FillCache(tree)
  /\ live' = {tree'}
  /\ durable' = saved
  /\ pc' = "save"
  /\ UNCHANGED <<worldVars, syncVars, unsaved, followed, saved, crashes>>

-----------------------------------------------------------------------------
(* run: the follow mode *)

\* save_snapshot
Save ==
  /\ pc = "save"
  /\ saved' = {tree}
  /\ IF followed = <<>>
     THEN pc' = "connect" /\ goal' = 0 /\ next' = 0 /\ prev' = NoHash
     ELSE pc' = "follow" /\ UNCHANGED syncVars
  /\ UNCHANGED <<worldVars, tree, live, unsaved, followed, durable, crashes>>

\* follow_blocks starts if the node still serves the newest block; else it fails.
Connect ==
  /\ pc = "connect"
  /\ LastHeight(tree) \in 1..tip
  /\ best[LastHeight(tree)] = Last(tree.blocks).hash
  /\ followed' = SubSeq(best, 1, LastHeight(tree))
  /\ pc' = "follow"
  /\ Answered
  /\ UNCHANGED <<observerVars, syncVars, tree, live, unsaved, fileVars, crashes>>

\* The end of the loop's body for the changed tree t: publish it, and save it when n
\* blocks are unsaved and that is enough.
Handled(t, n) ==
  /\ tree' = FillCache(t)
  /\ live' = {tree'}
  /\ IF n >= SnapshotInterval
     THEN unsaved' = 0 /\ pc' = "save" /\ durable' = saved
     ELSE unsaved' = n /\ UNCHANGED <<pc, durable>>
  /\ UNCHANGED <<worldVars, syncVars, saved, crashes>>

\* BlockEvent::NewBlock; TreeSizeMismatch ends the process.
HandleBlock ==
  /\ pc = "follow"
  /\ Follower!Extend
  /\ ConfirmedBlocks(followed')
  /\ LET x == Last(followed')
     IN  IF PriorSize(x) = TreeSize(tree)
         THEN Handled(AppendCommitments(tree, Len(followed'), x, Commitments[x]), unsaved + 1)
         ELSE /\ pc' = "mismatch"
              /\ UNCHANGED <<worldVars, syncVars, tree, live, unsaved, fileVars, crashes>>

\* Mutated form of HandleReorg: a reorg counts towards the next snapshot.
HandleReorgCounted ==
  /\ pc = "follow"
  /\ Follower!Retract
  /\ followed' \notin {<<>>, followed}
  /\ lagged
  /\ Handled(RollbackTo(tree, Len(followed')), unsaved + 1)

\* BlockEvent::Reorg; without one of a confirmed block, a replica must have lagged.
HandleReorg ==
  /\ pc = "follow"
  /\ Follower!Retract
  /\ followed' \notin {<<>>, followed}
  /\ lagged
  /\ Handled(RollbackTo(tree, Len(followed')), unsaved)

\* The process ends; a power loss may bring back the previous snapshot.
Crash ==
  /\ pc # "down"
  /\ crashes < MaxCrashes
  /\ crashes' = crashes + 1
  /\ saved' \in {saved, durable}
  /\ durable' = saved'
  /\ pc' = "down"
  /\ goal' = 0 /\ next' = 0 /\ prev' = NoHash
  /\ tree' = EmptyTree(<<>>)
  /\ live' = {}
  /\ unsaved' = 0
  /\ followed' = <<>>
  /\ UNCHANGED worldVars

-----------------------------------------------------------------------------
Init ==
  /\ NodeInit
  /\ ObserverInit /\ ~deep
  /\ pc = "down"
  /\ goal = 0 /\ next = 0 /\ prev = NoHash
  /\ tree = EmptyTree(<<>>)
  /\ live = {}
  /\ unsaved = 0
  /\ followed = <<>>
  /\ saved = {} /\ durable = {}
  /\ crashes = 0

Next ==
  \/ ChainStep /\ ~deep' /\ UNCHANGED serverVars      \* the network's promise
  \/ ReadTip
  \/ Load
  \/ FetchRoots
  \/ FetchCompleting
  \/ SyncBatch
  \/ Publish
  \/ Save
  \/ Connect
  \/ HandleBlock
  \/ HandleReorg
  \/ Crash

Spec == Init /\ [][Next]_vars

-----------------------------------------------------------------------------
Trees == {tree} \cup live \cup saved \cup durable

\* Every variable of the server holds a value of its type, and the block records of a
\* tree account for all of its leaves.
TypeOK ==
  /\ pc \in {"down", "load", "roots", "completing", "sync", "save", "connect", "follow",
             "mismatch"}
  /\ goal \in 0..MaxHeight /\ next \in 0..(MaxHeight + 1)
  /\ prev \in Hashes \cup {NoHash}
  /\ unsaved \in 0..(SnapshotInterval - 1)
  /\ followed \in Seq(Hashes)
  /\ \A t \in Trees :
       /\ t.leaves \in Seq(Leaves)
       /\ t.blocks \in Seq([height : Heights, hash : Hashes, num : Nat])
       /\ LeavesUpTo(t.blocks)[Len(t.blocks)] = Len(t.leaves)

\* The tree is the network's after its newest block, from the window's first leaf on, and
\* the roots below the window are those of the same tree.
IsTreeOf(t, x) ==
  /\ WindowStart(t) <= SizeAfter(x) \div ShardLeaves
  /\ t.prefetched = SubSeq(ShardRoots(TreeOf[x]), 1, WindowStart(t))
  /\ t.leaves = SubSeq(TreeOf[x], WindowStart(t) * ShardLeaves + 1, SizeAfter(x))

\* The roots, the completing block and the batches come from a node that may change chain
\* or lag between and during the calls.  Still every tree the server saves or publishes is
\* the network's tree after a confirmed block.  Only a lagging node can make the server
\* roll a windowed tree back below its first leaf and publish it empty; such a tree is
\* never saved, so the size check that then ends the process lets the next one resume.
TreesExact ==
  LET Exact(t) ==
        IF t.blocks = <<>> THEN t = EmptyTree(<<>>)
        ELSE /\ ConfirmedBlocks([h \in {LastHeight(t)} |-> Last(t.blocks).hash])
             /\ IsTreeOf(t, Last(t.blocks).hash)
  IN  /\ \A t \in saved \cup durable : Exact(t)
      /\ \A t \in live : Exact(t) \/ (lagged /\ t.blocks = <<>> /\ t.leaves = <<>>)
      /\ pc = "mismatch" => lagged
=============================================================================
