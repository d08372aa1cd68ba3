--------------------------- MODULE CombinedServer ---------------------------
(***************************************************************************)
(* The combined server (server/src/server.rs): one shared pipeline feeds   *)
(* the nullifier table and the commitment tree.  sync_both brings both up  *)
(* to the confirmed tip from their snapshots, the follow loop handles the  *)
(* pipeline's events, rebuild_both publishes first one and then the other, *)
(* and save_both writes first one snapshot and then the other.  The server *)
(* may crash, or be shut down, between any two of these steps.             *)
(*                                                                         *)
(* The two stores are the maps and logs that NullifierStore and            *)
(* CommitmentStore implement, reduced to heights and block hashes.         *)
(***************************************************************************)
EXTENDS Pipeline

CONSTANTS
  TreeSizeAfter,     \* hash |-> ironwood_commitment_tree_size of the block
  NullifierCount,    \* hash |-> number of nullifiers in the block
  TargetSize,        \* target_size
  SnapshotInterval,  \* snapshot_interval
  MaxCrashes         \* bound: how often the process may end for no reason

ASSUME ServerAssumption ==
  /\ TreeSizeAfter \in [Hashes -> Nat]
  /\ NullifierCount \in [Hashes -> Nat]
  /\ {TargetSize, SnapshotInterval, MaxCrashes} \subseteq Nat

VARIABLES
  pc,          \* where run_with_states_until is
  nf,          \* the nullifier table's block index: height |-> hash
  tree,        \* the commitment tree: is it windowed, and its block records
  liveNf,      \* nf_state.live_pir: the published table, if any
  liveTree,    \* wit_state.live_pir: the published tree, if any
  savedNf,     \* snapshot.bin, if any
  savedTree,   \* witness_snapshot.bin, if any
  unsaved,     \* blocks_since_snapshot
  crashes,     \* crashes so far (model bound)
  unlinked     \* a sync has added a block to a store that is not its newest block's child

storeVars == <<nf, tree, unsaved>>
liveVars == <<liveNf, liveTree>>
savedVars == <<savedNf, savedTree>>
serverVars == <<pc, storeVars, liveVars, savedVars, crashes, unlinked>>
vars == <<pipelineVars, serverVars>>

NoNf == [h \in {} |-> NoHash]
EmptyTree(windowed) == [windowed |-> windowed, blocks |-> <<>>]

\* An optional file or published value: the empty set, or a singleton.
ValueOr(option, default) == IF option = {} THEN default ELSE CHOOSE x \in option : TRUE

NewestNf(db) == IF DOMAIN db = {} THEN 0 ELSE Max(DOMAIN db)
NewestTree(t) == IF t.blocks = <<>> THEN 0 ELSE Last(t.blocks).height

-----------------------------------------------------------------------------
\* The nullifiers in the blocks at the n highest heights, for every n.
CountDown(db) ==
  LET count[n \in 0..MaxHeight] ==
        IF n = 0 THEN 0
        ELSE LET h == MaxHeight + 1 - n
             IN  count[n - 1] + (IF h \in DOMAIN db THEN NullifierCount[db[h]] ELSE 0)
  IN  count

\* Mutated form of EvictToSize: a block whose nullifiers just fill the target goes too.
EvictToBelowSize(db) ==
  [h \in {g \in DOMAIN db : CountDown(db)[MaxHeight + 1 - g] < TargetSize} |-> db[h]]

\* evict_to_size: the oldest blocks go until the rest is small enough.
EvictToSize(db) ==
  [h \in {g \in DOMAIN db : CountDown(db)[MaxHeight + 1 - g] <= TargetSize} |-> db[h]]

\* ironwood_prior_tree_size: the block's own tree size less its commitments, which is
\* the size after its parent.
PriorSize(b) ==
  LET c == CHOOSE d \in Chains : d[b.height] = b.hash
  IN  IF b.height = 1 THEN 0 ELSE TreeSizeAfter[c[b.height - 1]]

\* validate_prior_tree_size: the block starts where the tree ends.  A tree that a
\* reorg emptied below its window ends above the start of every block that may come.
PriorSizeMatches(t, b) ==
  IF t.blocks = <<>> THEN ~t.windowed /\ PriorSize(b) = 0
  ELSE PriorSize(b) = TreeSizeAfter[Last(t.blocks).hash]

InsertBlock(db, b) ==
  [h \in DOMAIN db \cup {b.height} |-> IF h = b.height THEN b.hash ELSE db[h]]

AppendBlock(t, b) ==
  [t EXCEPT !.blocks = Append(@, [height |-> b.height, hash |-> b.hash])]

\* apply_block into the stores that lack the block, and evict_to_size.
ApplyBlock(s, b, toNf, toTree) ==
  [nf |-> EvictToSize(IF toNf THEN InsertBlock(s.nf, b) ELSE s.nf),
   tree |-> IF toTree THEN AppendBlock(s.tree, b) ELSE s.tree,
   ok |-> s.ok /\ (toTree => PriorSizeMatches(s.tree, b))]

\* Mutated form of RollBack: only the nullifier table is rolled back.
RollBackTable(fork) ==
  /\ nf' = [h \in {g \in DOMAIN nf : g <= fork} |-> nf[h]]
  /\ UNCHANGED tree

RollBack(fork) ==
  /\ nf' = [h \in {g \in DOMAIN nf : g <= fork} |-> nf[h]]
  /\ tree' = [tree EXCEPT !.blocks = SubSeq(@, 1, Kept(@, fork))]

-----------------------------------------------------------------------------
\* What ends with the process.
Volatile(p) ==
  /\ pc' = p
  /\ phase' = "off"
  /\ cause' = "none"
  /\ history' = <<>>
  /\ batch' = <<>>
  /\ channel' = <<>>
  /\ expectedPrev' = NoHash
  /\ current' = 0
  /\ target' = 0
  /\ next' = 0

StopServer ==
  /\ Volatile("down")
  /\ nf' = NoNf
  /\ tree' = EmptyTree(FALSE)
  /\ unsaved' = 0
  /\ liveNf' = {}
  /\ liveTree' = {}
  /\ UNCHANGED <<nodeVars, savedVars, unlinked>>

\* prepare_tree: a full tree, or one that starts at a shard-completing block.
PreparedTrees(goal) ==
  {EmptyTree(FALSE)}
    \cup {AppendBlock(EmptyTree(TRUE), CompactBlock(best, h)) : h \in 1..MinOf(goal, tip)}

\* nf_from.min(wit_from)
SyncStart(db, t) == MinOf(NewestNf(db), NewestTree(t)) + 1

\* The stores after n of these blocks, for every n: each takes those above its newest.
Synced(db, t, blocks) ==
  LET after[n \in 0..Len(blocks)] ==
        IF n = 0 THEN [nf |-> db, tree |-> t, ok |-> TRUE]
        ELSE LET b == blocks[n]
             IN  ApplyBlock(after[n - 1], b, b.height > NewestNf(db), b.height > NewestTree(t))
  IN  after

\* The stores once sync_both has handled the blocks.
SyncStores(db, t, blocks) ==
  [Synced(db, t, blocks)[Len(blocks)] EXCEPT !.nf = EvictToSize(@)]

\* Does every block of this height link to the block x below it?
LinksTo(blocks, height, x) ==
  \A i \in DOMAIN blocks : blocks[i].height = height => blocks[i].prev = x

\* sync_both up to the rebuild: load or prepare both stores and apply the missing
\* confirmed blocks.  Nothing of it is visible or durable before it ends, and an
\* error leaves the server down.
Sync ==
  /\ pc = "down"
  /\ \E db \in {ValueOr(savedNf, NoNf)},
        t \in (IF savedTree = {} THEN PreparedTrees(ConfirmedTip) ELSE savedTree) :
       LET goal == ConfirmedTip
           from == SyncStart(db, t)
       IN  \E blocks \in (IF from <= goal THEN Streams(from, goal) ELSE {<<>>}) :
             LET s == SyncStores(db, t, blocks)
             IN  /\ from <= goal => ValidRange(blocks, from, goal, NoHash)
                 /\ s.ok
                 /\ nf' = s.nf
                 /\ tree' = s.tree
                 /\ unlinked' =
                      \/ unlinked
                      \/ /\ DOMAIN db # {}
                         /\ ~LinksTo(blocks, NewestNf(db) + 1, db[NewestNf(db)])
                      \/ /\ t.blocks # <<>>
                         /\ ~LinksTo(blocks, NewestTree(t) + 1, Last(t.blocks).hash)
  /\ pc' = "rebuild_nf"
  /\ Answered
  /\ UNCHANGED <<followVars, channel, liveVars, savedVars, unsaved, crashes>>

\* rebuild_both, first store: nf_state.live_pir
RebuildNf ==
  /\ pc = "rebuild_nf"
  /\ liveNf' = {nf}
  /\ pc' = "rebuild_tree"
  /\ UNCHANGED <<pipelineVars, storeVars, liveTree, savedVars, crashes, unlinked>>

\* Mutated form of RebuildTree: it saves one block late.
RebuildTreeSavingLate ==
  /\ pc = "rebuild_tree"
  /\ liveTree' = {tree}
  /\ pc' = IF phase = "off" \/ unsaved > SnapshotInterval THEN "save_nf" ELSE "recv"
  /\ UNCHANGED <<pipelineVars, storeVars, liveNf, savedVars, crashes, unlinked>>

\* Mutated form of RebuildTree: the tree is published after the initial sync only.
RebuildTreeOnce ==
  /\ pc = "rebuild_tree"
  /\ liveTree' = IF liveTree = {} THEN {tree} ELSE liveTree
  /\ pc' = IF phase = "off" \/ unsaved >= SnapshotInterval THEN "save_nf" ELSE "recv"
  /\ UNCHANGED <<pipelineVars, storeVars, liveNf, savedVars, crashes, unlinked>>

\* rebuild_both, second store.  sync_both always saves next, the follow loop
\* when enough blocks have come.
RebuildTree ==
  /\ pc = "rebuild_tree"
  /\ liveTree' = {tree}
  /\ pc' = IF phase = "off" \/ unsaved >= SnapshotInterval THEN "save_nf" ELSE "recv"
  /\ UNCHANGED <<pipelineVars, storeVars, liveNf, savedVars, crashes, unlinked>>

\* save_both, one file after the other
SaveNf ==
  /\ pc = "save_nf"
  /\ savedNf' = {nf}
  /\ pc' = "save_tree"
  /\ UNCHANGED <<pipelineVars, storeVars, liveVars, savedTree, crashes, unlinked>>

SaveTree ==
  /\ pc = "save_tree"
  /\ savedTree' = {tree}
  /\ pc' = IF phase = "off" THEN "check" ELSE "recv"
  /\ unsaved' = 0
  /\ UNCHANGED <<pipelineVars, nf, tree, liveVars, savedNf, crashes, unlinked>>

\* Mutated form of TipsAgree: the tips' heights are compared, their hashes not checked.
TipsAgreeInHeight ==
  DOMAIN nf # {} /\ tree.blocks # <<>> /\ NewestTree(tree) = NewestNf(nf)

\* The test between sync_both and the follow loop.
TipsAgree ==
  /\ DOMAIN nf # {}
  /\ tree.blocks # <<>>
  /\ NewestTree(tree) = NewestNf(nf)
  /\ Last(tree.blocks).hash = nf[NewestNf(nf)]

\* Spawn follow_blocks at the common tip.
StartFollowing ==
  /\ pc = "check"
  /\ TipsAgree
  /\ pc' = "recv"
  /\ phase' = "connect"
  /\ current' = NewestNf(nf)
  /\ UNCHANGED <<nodeVars, cause, target, history, next, expectedPrev, batch, channel,
                 storeVars, liveVars, savedVars, crashes, unlinked>>

\* SubsystemTipMismatch
TipMismatch ==
  /\ pc = "check"
  /\ ~TipsAgree
  /\ StopServer
  /\ UNCHANGED crashes

ReceiveReorg ==
  /\ pc = "recv"
  /\ channel # <<>>
  /\ Head(channel).type = "Reorg"
  /\ RollBack(Head(channel).rollback_to)
  /\ channel' = Tail(channel)
  /\ pc' = "rebuild_nf"
  /\ UNCHANGED <<nodeVars, followVars, unsaved, liveVars, savedVars, crashes, unlinked>>

\* A block whose prior tree size does not match ends the server.
ReceiveBlock ==
  /\ pc = "recv"
  /\ channel # <<>>
  /\ Head(channel).type = "NewBlock"
  /\ LET s == ApplyBlock([nf |-> nf, tree |-> tree, ok |-> TRUE], Head(channel), TRUE, TRUE)
     IN  IF ~s.ok
         THEN StopServer /\ UNCHANGED crashes
         ELSE /\ nf' = s.nf
              /\ tree' = s.tree
              /\ unsaved' = unsaved + 1
              /\ channel' = Tail(channel)
              /\ pc' = "rebuild_nf"
              /\ UNCHANGED <<nodeVars, followVars, liveVars, savedVars, crashes, unlinked>>

\* The follow task has ended: its queued events are handled first, then run returns.
FollowEnded ==
  /\ pc = "recv"
  /\ phase = "failed"
  /\ channel = <<>>
  /\ StopServer
  /\ UNCHANGED crashes

\* A crash, a failed rebuild or save, a bucket overflow, or a shutdown (which saves nothing).
Crash ==
  /\ pc # "down"
  /\ crashes < MaxCrashes
  /\ crashes' = crashes + 1
  /\ StopServer

-----------------------------------------------------------------------------
Init ==
  /\ NodeInit
  /\ pc = "down"
  /\ phase = "off"
  /\ cause = "none"
  /\ history = <<>>
  /\ batch = <<>>
  /\ channel = <<>>
  /\ expectedPrev = NoHash
  /\ current = 0 /\ target = 0 /\ next = 0
  /\ nf = NoNf
  /\ tree = EmptyTree(FALSE)
  /\ liveNf = {} /\ liveTree = {}
  /\ savedNf = {} /\ savedTree = {}
  /\ unsaved = 0
  /\ crashes = 0
  /\ unlinked = FALSE

Producer ==
  \/ LoadHistory(nf[NewestNf(nf)])
  \/ Poll
  \/ FindFork
  \/ SendReorg
  \/ FetchBatch
  \/ SendBlock
  \/ EndPoll

Server ==
  \/ RebuildNf
  \/ RebuildTree
  \/ SaveNf
  \/ SaveTree
  \/ StartFollowing
  \/ TipMismatch
  \/ ReceiveReorg
  \/ ReceiveBlock
  \/ FollowEnded

Next ==
  \/ NodeStep /\ UNCHANGED <<followVars, channel, serverVars>>
  \/ (Producer \/ RpcError) /\ UNCHANGED serverVars
  \/ Sync
  \/ Server
  \/ Crash

\* The runtime schedules the follow task and the server task; nobody owes a restart.
Spec ==
  Init /\ [][Next]_vars /\ WF_vars(Producer /\ UNCHANGED serverVars) /\ WF_vars(Server)

-----------------------------------------------------------------------------
Following == phase # "off"

NfIndexes == UNION {[hs -> Hashes] : hs \in SUBSET Heights}
Trees == [windowed : BOOLEAN, blocks : Seq([height : Heights, hash : Hashes])]

\* Every variable of the server holds a value of its type.
TypeOK ==
  /\ pc \in {"down", "rebuild_nf", "rebuild_tree", "save_nf", "save_tree", "check", "recv"}
  /\ nf \in NfIndexes /\ tree \in Trees
  /\ \A db \in liveNf \cup savedNf : db \in NfIndexes
  /\ \A t \in liveTree \cup savedTree : t \in Trees
  /\ Cardinality(liveNf) <= 1 /\ Cardinality(liveTree) <= 1
  /\ Cardinality(savedNf) <= 1 /\ Cardinality(savedTree) <= 1
  /\ unsaved \in 0..MaxOf(SnapshotInterval, 1)
  /\ (pc = "down" => liveNf = {} /\ liveTree = {} /\ ~Following)

OnChain(c, db, t) ==
  /\ \A h \in DOMAIN db : db[h] = c[h]
  /\ \A i \in DOMAIN t.blocks : t.blocks[i].hash = c[t.blocks[i].height]

\* While the server follows, both stores hold blocks of one and the same chain,
\* whatever crashes and half-finished saves came before, provided that no sync
\* resumed above a block that the node had left.
StoresOnOneChain ==
  Following /\ ~unlinked => \E c \in Chains : OnChain(c, nf, tree)

\* The same of a server that has been restarted in any way, as "walk back to find fork
\* point" would have it (plans/done/0_spendability_pir_redesign).
RestartFindsFork == Following => \E c \in Chains : OnChain(c, nf, tree)

\* While the server follows, neither store has a gap and both end at the same
\* height (unless eviction or a reorg emptied one of them), also after a crash between the
\* two saves made one snapshot newer than the other, and whatever the node has left since.
StoresInStep ==
  Following =>
    /\ \A g, h \in DOMAIN nf : g..h \subseteq DOMAIN nf
    /\ \A i, j \in DOMAIN tree.blocks :
         tree.blocks[j].height - tree.blocks[i].height = j - i
    /\ DOMAIN nf # {} /\ tree.blocks # <<>> => NewestTree(tree) = NewestNf(nf)

\* A crash at any point, before or between the two saves included, leaves files that
\* the next sync brings to the confirmed tip together, from every tree it may prepare
\* when there is no snapshot, unless the node has left their blocks or a reorg has
\* emptied a windowed tree.  Eviction empties the table only when the newest block
\* alone has more nullifiers than the target.
SnapshotsResume ==
  LET goal == ConfirmedTip
      db == ValueOr(savedNf, NoNf)
      Resumed(t) ==
        LET from == SyncStart(db, t)
        IN  SyncStores(db, t, [i \in 1..(goal - from + 1) |-> CompactBlock(best, from + i - 1)])
  IN  \A t \in (IF savedTree = {} THEN PreparedTrees(goal) ELSE savedTree) :
        /\ t.windowed => t.blocks # <<>>
        /\ OnChain(best, db, t)
        /\ NewestNf(db) <= goal /\ NewestTree(t) <= goal
        => /\ Resumed(t).ok
           /\ NewestTree(Resumed(t).tree) = goal
           /\ NewestNf(Resumed(t).nf) = goal \/ NullifierCount[best[goal]] > TargetSize

\* A table and a tree that end at the same height and, provided that no sync resumed
\* above a block that the node had left, at the same block.
SameTip(db, t) ==
  DOMAIN db # {} /\ t.blocks # <<>> =>
    /\ NewestTree(t) = NewestNf(db)
    /\ ~unlinked => Last(t.blocks).hash = db[NewestNf(db)]

\* A table that is one event ahead of a tree: one block longer, or rolled back by less
\* than the tracking window; the blocks that both have are the same.
OneEventApart(db, t) ==
  DOMAIN db # {} /\ t.blocks # <<>> =>
    /\ NewestNf(db) - NewestTree(t) \in (-(Window - 1)..1) \ {0}
    /\ ~unlinked => \A i \in DOMAIN t.blocks :
         t.blocks[i].height \in DOMAIN db => t.blocks[i].hash = db[t.blocks[i].height]

\* A table and a tree of which one ends higher only because its snapshot did.
SnapshotAhead(db, t) ==
  DOMAIN db # {} /\ t.blocks # <<>> =>
    \/ NewestTree(t) = NewestNf(db)
    \/ /\ NewestTree(t) > NewestNf(db)
       /\ \E saved \in savedTree : NewestTree(saved) = NewestTree(t)
    \/ /\ NewestTree(t) < NewestNf(db)
       /\ \E saved \in savedNf : NewestNf(saved) = NewestNf(db)

\* What the two endpoints serve together.  While the server follows it is one state,
\* and what the stores hold whenever the loop waits for an event; between the two swaps
\* of a rebuild the two are one event apart.  Before the tips have been compared, they
\* end at different heights only when a snapshot was ahead of the confirmed tip.
ServedInStep ==
  /\ pc = "recv" => liveNf = {nf} /\ liveTree = {tree}
  /\ \A db \in liveNf, t \in liveTree :
       IF ~Following THEN SnapshotAhead(db, t)
       ELSE IF pc = "rebuild_tree" THEN OneEventApart(db, t)
       ELSE SameTip(db, t)

\* A server that stops ending ends up serving: once the node settles, both endpoints
\* end at its newest confirmed height and, provided that no sync resumed above a block
\* that the node had left, with the block of its chain.  Eviction may have emptied the
\* table; a reorg below a windowed tree's first block empties the tree for good.
ServesTip ==
  LET goal == ConfirmedTip
  IN  /\ goal > 0 /\ liveTree # {}
      /\ \A t \in liveTree :
           IF t.blocks = <<>> THEN t.windowed
           ELSE NewestTree(t) = goal /\ (~unlinked => Last(t.blocks).hash = best[goal])
      /\ \A db \in liveNf : DOMAIN db # {} =>
           NewestNf(db) = goal /\ (~unlinked => db[goal] = best[goal])

ServesConfirmedTip == []<>(pc = "down") \/ <>[]ServesTip
=============================================================================
