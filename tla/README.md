# Verification of spendability-pir

TLA+ models of the ingest servers, the peer-to-peer transport and the clients of this repository,
the TLC configurations that check them on small instances, and TLAPS proofs about them.
Paths below are relative to the repository's `crates/` directory.

## 1. The system

A server ingests compact blocks from a lightwalletd node and keeps two stores: the set of
Ironwood nullifiers (is a note spent?) and the note commitment tree (what is its witness?).
It publishes each as a row matrix that clients query privately (PIR). A wallet asks over
HTTP or over a Zakura peer-to-peer stream.

| Component | State | Operations | Talks to |
|---|---|---|---|
| lightwalletd client (`server/src/ingest/client.rs`) | none | latest block, block range, subtree roots, tree state | the node, by RPC |
| pipeline (`server/src/ingest/pipeline.rs`) | history of recent hashes, current height | load history, poll, find fork, announce reorg, fetch and announce blocks | node; store, by a bounded channel |
| nullifier table (`nullifier/src/{table,snapshot}.rs`) | buckets, block index, hash index, counter | insert, rollback, evict, look up, snapshot | called by the servers |
| commitment tree (`witness/src/{tree,snapshot}.rs`) | leaves, prefetched shard roots, block records, sub-shard root cache | append, rollback, build rows and broadcast, snapshot | called by the servers |
| combined server (`server/src/server.rs`) | both stores, both published PIR states, two snapshots | sync, rebuild both, save both, handle events | all of the above |
| standalone servers (`server/src/{nullifier,witness}/server.rs`) | one store each | bootstrap, backfill, sync, follow | the same |
| dataset marker, snapshot files (`ingest/dataset.rs`, `*/snapshot_io.rs`) | files | write to a temporary file, rename, check | servers |
| P2P transport (`server/src/p2p.rs`, `client/src/p2p.rs`, `protocol/src/p2p.rs`) | sessions, workers, queues, decoders | add and remove a peer, request, exchange, serve | Zakura |
| clients (`client/src/{nullifier,witness,reconstruct}.rs`) | metadata, broadcast | refresh, query, rebuild the path | HTTP or P2P |
| PIR engine, HTTP routes, `main.rs` | none that lasts | answer a query, route it, start and stop | - |

### What is hard about it

* *Reorganisations.* Four parties must agree on where a fork is: the node, the follower's
  private history, the events under way in the channel, and the stores. The node may move
  between any two calls of the follower, and inside a streamed range.
* *Two stores, one chain.* They are fed together, but loaded, published and saved one after
  the other, and either may be emptied (eviction, a reorg below the tree's window).
* *Crashes.* Nothing is transactional across the two snapshots, and follow mode ends the
  process on most errors. A marker and a snapshot are separate files, each written in four steps.
* *Bootstrap.* A new store is put together from several calls to a node that may move between
  them: a tip, shard roots, a completing block, batches upwards, batches downwards.
* *Derived data kept by hand.* The table's counter and its two indexes, the tree's root cache.
* *Timeouts.* Replies on a stream carry no identifier: an abandoned request must not leave
  its reply to the next one.

### What makes each part correct

* Pipeline: a store that applies its events always holds the start of one chain; it follows
  the node's confirmed chain; the follower survives any reorg inside its window.
* Nullifier table: it is a map from heights to blocks; slots are owned once; lookups are exact.
* Commitment tree: it is a log of blocks; what it publishes is what that log determines.
* Combined server: the stores agree with one chain and with one another, across crashes;
  a server that stays up publishes every confirmed block.
* Standalone servers: whatever they build, publish or save is made of confirmed blocks of the
  network's chain, without gaps, and a restart can continue from it.
* Snapshot files: a save is atomic, and a directory is opened by its own dataset's server only.
* Nullifier client: what it concludes from metadata read earlier and rows read later is true.
* Transport: an answer is the answer to the caller's own request; exactly the newest session
  is published, and not for longer than its connection lives.

`PROJECT.json` lists the hazards at their lines with the properties that cover them.

## 2. The modules

| Module | Models | Kind |
|---|---|---|
| `LwdNode` | the node, by what the pipeline guards against | environment |
| `BlockRange` | `validate_range`, the confirmed tip | operators |
| `ConfirmedChain` | what confirmation means: observers of the node | observer variables |
| `Pipeline` | `follow_blocks`, history | actions, used by `Follow` and `CombinedServer` |
| `PipelineProofs` | the invariant of `follow_blocks` for any consumer | proofs |
| `ChainFollower` | what a store is promised | abstract specification |
| `Follow` | pipeline + channel + a consumer | specification, implements `ChainFollower` |
| `FollowProofs` | theorems about `Follow` | proofs |
| `NullifierTable` | `HashTableDb` as operators on a record | data structure |
| `BlockNullifiers` | what the table promises | abstract specification |
| `NullifierStore` | a table's life: inserts, reorgs, eviction, saves, restarts | specification, implements `BlockNullifiers` |
| `NullifierStoreProofs` | theorems about `NullifierStore` | proofs |
| `CommitmentTree` | `CommitmentTreeDb` as operators on a record | data structure |
| `CommitmentLog` | what the tree promises | abstract specification |
| `CommitmentStore` | a tree's life | specification, implements `CommitmentLog` |
| `CombinedServer` | `server.rs`: pipeline + both stores + snapshots + crashes | specification |
| `CombinedServerProofs` | theorems about `CombinedServer` | proofs |
| `AtomicCell` | what a snapshot file promises | abstract specification |
| `SnapshotFiles` | `dataset.rs`, `snapshot_io.rs`, process ends and power losses | specification, implements `AtomicCell` |
| `NullifierServer` | `nullifier/server.rs` with its files: sync, backfill, follow, crashes | actions |
| `SpendClient` | `client/src/nullifier.rs` with `NullifierServer` | specification |
| `SpendClientProofs` | theorems about `SnapshotFiles`, `NullifierServer` and `SpendClient` | proofs |
| `WitnessServer` | `witness/server.rs`: `prepare_tree`, sync, follow, crashes | specification |
| `CommitmentProofs` | theorems about `CommitmentStore` and `WitnessServer` | proofs |
| `P2PSession` | client session, server loop, framing | specification |
| `PathReconstruction` | `reconstruct.rs` and position arithmetic, with the tree by definition | pure operators |
| `WitnessClient` | `client/src/witness.rs` against a server that keeps publishing | specification |
| `ClientProofs` | theorems about `P2PSession` and `WitnessClient` | proofs |
| `Induction` | induction, recursion and maxima without operator parameters | lemmas of the proofs |
| `MC*` | values of the constants for TLC | |

`CombinedServer` composes the pipeline with the two stores. It does not repeat the buckets
and the leaves: it holds the abstract values (which block at which height) that
`NullifierStore` and `CommitmentStore` are shown to implement. The standalone servers are
composed in the same way, one layer up: their follower is any process that keeps the two
promises `Follow` is shown to keep (`ChainFollower` and `OnlyConfirmed`), `NullifierServer` holds
the map that `NullifierStore` implements, and `WitnessServer` holds the tree of `CommitmentTree`
itself and a snapshot that is the `AtomicCell` `SnapshotFiles` is shown to implement.
`NullifierServer` runs on the files themselves.

Definitions named "... Mutated form of ..." are plausible bugs. Nothing refers to them: each
one replaces the operator that follows it to confirm that a property notices.

### State and actions against the code

* **LwdNode.** `best` is the chain the node serves, `tip` its newest height. `Mine` and
  `Reorganise` may happen at any moment. `Streams(lo, hi)` is the set of block sequences one
  `get_block_range` may deliver, including one that begins on a chain the node has served since
  the ingest task's last call was answered (`served`) and ends on the present one.
* **ConfirmedChain.** `peak` is the highest tip the node has shown, and a block is confirmed
  once it lies `Depth` below. `deep` records that the node replaced a confirmed block, `lagged`
  that it showed a lower tip than before. No code reads them: they state assumptions.
* **Pipeline.** `phase` is the await at which `follow_blocks` stands: `connect` (loading the
  history), `poll` (latest block), `overlap` (fetching the overlap), `reorg` and `send`
  (waiting for room in the channel), `extend` (fetching the next batch), `failed`. One action
  per await, so the node and the consumer interleave between any two. `cause` tells the
  errors apart: `rpc`, `range` (InvalidRange and its kin), `window` (ReorgBeyondWindow).
* **NullifierTable.** `cells` are the slots of the buckets, `index` is `block_index`,
  `heightOf` is `block_hash_to_height`, `num` is `num_entries`. `Allocations` are the slots
  `Bucket::insert` may choose: any free ones, a superset of the code's lowest-free rule
  (the properties do not depend on the choice). `Insert` of a block that some bucket has no
  room for is refused as in the code, before anything is written.
* **CommitmentTree.** `prefetched`, `leaves`, `blocks` (with leaf counts), `cache`. Merkle
  hashing is a free constructor (`Root`): equal roots mean equal leaves.
* **CombinedServer.** `pc` is the step of `run_with_states_until`: `down`, `rebuild_nf`,
  `rebuild_tree`, `save_nf`, `save_tree`, `check` (the tip comparison), `recv`. `Sync` is one
  step because nothing it does is visible or durable before it ends. `Crash` also stands for
  a failed rebuild or save, a bucket overflow, and a shutdown, which saves nothing.
* **SnapshotFiles.** `disk` is the directory as processes see it, `settled` what a power loss
  may bring back instead, `io` the write in progress with its next step. A file knows whether it
  was synced; one that was not may come back torn. `Refused` is `ensure_ironwood_dataset`.
* **NullifierServer.** `pc` is where `run` or `sync_into` stands: `down`, `refused` (the directory
  is not its own), `label` (writing the marker), `tip`, `load`, `sync` (one batch per step, then
  the next range or publication), `save`, `connect` (starting `follow_blocks`), `follow`. `range`
  and `bottom` are the running `sync_range` and the lower end of the backfill. `table` maps
  heights to blocks, `live` is the published one. `TargetSize` is the configured size that the
  backfill fills up to, `EvictSize` the constant `TARGET_SIZE` that `evict_to_target` cuts down
  to: the standalone server uses both. A failed call leaves the server where it is until a
  `Crash`, which may be a process end or a power loss.
* **SpendClient.** `metadata` is what the client read last. A query leaves no trace at either
  end, so it is no step: `AnswersHold` speaks of the answer it would get in each state.
* **WitnessServer.** `pc` has `roots` and `completing` for the two calls of `prepare_tree`, and
  `mismatch` for a run that returned `TreeSizeMismatch`. `Commitments` gives each block its
  leaves, so a tree's position arithmetic is checked leaf by leaf against the chain's tree.
  Each start may be configured with another window limit.
* **P2PSession.** Per connection: `worker` and `job` (`run_worker`), `queue` (the channel of
  one), `decoder`, the frames each way (`wire`, `reply`), the server's loop (`serving`,
  `assembled`, `responses`). `current` is the published generation. `closed` stands for the
  connection's and the service's cancellation tokens, `cancelled` for `worker_cancel`.
  A worker whose token is cancelled may still take a request or a frame: `select!` chooses
  among ready branches at random.
* **WitnessClient.** `live` is the tree behind the server's published PIR state: a prefix of
  one of the logs, above a number of completed shards. `broadcast` is what the client keeps
  from `connect` or `refresh_broadcast`; `rows` is `decoded_rows` of the running
  `get_witnesses`. `entry` tells the two callers apart: the async `get_witnesses` asks for each
  row once per call, `WitnessClientBlocking::get_witnesses` (the FFI) calls the async client for
  each position, so `rows` ends with every answer. Each `QueryRow` reads `live` anew, so the server moves between any two
  rows of a call. `of` and `rowOf` record where data came from, for the properties only. A
  row after the window decodes to zero bytes, which `parse_leaves` accepts.
* **PathReconstruction.** Hashes are terms (`Combine`), so equal roots mean equal trees. The
  tree is 32 levels in the code, four times `SubshardHeight` here. `Node`, `TreeRoot` and
  `AuthPath` define what a path should be, from all leaves and level by level: a level is the
  function from all indices to the combination of two nodes of the level below, and empty
  leaves go on for ever. `Pow2` is 2 to a power no larger than the tree's height.

## 3. The runs

| Run | Question | Bounds |
|---|---|---|
| `follow` | Do history, channel and consumer agree through reorgs at any point of a poll? Does the store implement `ChainFollower`, and catch up? | 4 chains of 5 blocks forking above 1, 2 and 3; 2 reorgs; depth 1, window 3, batches of 2, channel of 2 |
| `follow_gives_up` | Is `ReorgBeyondWindow` raised only beyond the window? No. | the same |
| `nullifier_store` | Do the table's books stay exact, and does it implement a map? | 2 buckets of 2, 4 nullifiers, 3 heights, 2 hashes, target size 1 |
| `commitment_store` | Is a stale cached root ever used? Does the tree implement a log? | sub-shards of 2 leaves, 2 sub-shards per shard, window of 2 shards, 3 blocks |
| `cap_truncated` | Does the cap hold every populated shard? No, beyond the window. | the same |
| `combined_server` | Do the stores stay in step through reorgs, eviction and crashes? Does it serve the tip? | 3 chains of 4 blocks, 2 reorgs, 1 crash, saves every 2 blocks |
| `restart_link` | Does a restart find a fork it missed? No. | the same, but 1 reorg and 2 crashes |
| `spend_client` | Is every table built, published or saved made of confirmed blocks, through backfill, crashes and power losses? Is a new table filled exactly? Does a directory open for its own server? Are the client's answers true? | 2 chains of 6 blocks forking above 3, 1 reorg or lag, 1 crash, depth 1, batches of 2, activation at 2, target size 4, eviction above 3, saves every 2 blocks |
| `witness_server` | Is every tree published or saved the network's, leaf by leaf and root by root? Can a restart continue? | 2 chains of 6 blocks forking above 3, 2 reorgs or lags, 2 crashes, shards of 2 leaves, window limits 1 and 2, saves every 2 blocks |
| `p2p_session` | Do answers reach their callers, and do session generations replace one another cleanly? | 2 connections, 2 requests, messages of 2 frames |
| `witness_client` | Which witnesses are authentication paths of the tree, when the broadcast is kept and the server moves on? | sub-shards of 2 leaves, shards of 4, a tree of 16, window of 2 shards, 2 logs of up to 9 leaves, 2 later publications |
| `witness_unverified` | Is a witness checked against the broadcast? No. | the same |

### Properties

`Follow`
* `HistoryMatchesConsumer`: the history equals the newest part of what the consumer will
  hold once the channel is drained.
* `SurvivesOneReorg`: one reorg never ends follow mode unless it exceeds the window.
* `FollowsOneChain`: the store implements `ChainFollower`: it is the start of one chain, and
  moves by a child block or by dropping at most `Window - 1` blocks.
* `OnlyConfirmed`: what reaches the consumer are confirmed blocks of the network's chain, though
  tip and blocks are read by different calls; without lag no reorg is ever announced.
* `CatchesUp`: once the node settles, the store becomes its confirmed chain (or the task failed).

`NullifierStore`
* `SlotsOwnedOnce`, `NumIsExact`, `HashMapInvertsIndex`, `ContainsIsExact`: the table's
  redundant books agree, after a refused insert too. `IsBlockMap`: it implements `BlockNullifiers`.

`CommitmentStore`
* `CacheCoherent`: a cached root, in memory or restored, is the root of the leaves there now.
* `BroadcastExact`: what is published is what the log of blocks determines.
* `IsCommitmentLog`: the tree implements `CommitmentLog`.

`CombinedServer`
* `StoresInStep`: while following, neither store has a gap and both end at the same height.
* `StoresOnOneChain`: they then lie on one chain, unless a sync resumed above an orphaned block.
* `SnapshotsResume`: after a crash at any point, before or between the first two saves too, the
  next sync brings what is on disk (or a newly prepared tree) to the confirmed tip together. The
  table may end below it only when the newest block alone has more nullifiers than the target.
* `ServedInStep`: whenever the loop waits, the two endpoints serve the stores' contents, ending
  at the same height and, unless a sync resumed above an orphaned block, at the same block.
  Between the two swaps of a rebuild they are one event apart, never more. At a start, which
  publishes before it compares the tips, they differ only if a snapshot was ahead of the tip.
* `ServesConfirmedTip`: a server that stops ending ends up serving the confirmed tip.

`NullifierServer` and `SpendClient`
* `ConfirmedForever`: every table in memory, published or on disk is a run of consecutive
  confirmed blocks.
* `FilledOrFloor`: a new table ends at the confirmed tip and reaches down to the minimum sync
  height or as far as the sizes allow, without a gap between two batches.
* `OwnDirectoryOpens`: a server refuses another dataset's directory and never its own, after any
  crash in the middle of a write.
* `IsAtomicCell`: the snapshot file implements `AtomicCell`.
* `AnswersHold`: "spent" is always true; "unspent" is true of the blocks the metadata promised,
  less those evicted since, unless a lagging node made the server step back. An eviction between
  reading the metadata and the query does make "unspent" untrue of the evicted heights: the
  client has no means to notice, and no property claims otherwise.

`WitnessServer`
* `TreesExact`: every tree saved is the network's tree after a confirmed block, leaves, positions
  and prefetched roots; so is every tree published, except that a lagging node can make the
  server roll a windowed tree back below its first leaf and publish it empty. Only that leads to
  `TreeSizeMismatch`, and the emptied tree is never saved, because a reorg does not count
  towards the next snapshot: the next start resumes. (The standalone nullifier server does
  count a reorg; its table has no window to be emptied below.)

`P2PSession`
* `AnswersMatch`: a caller's answer is the answer to its own request.
* `WaitingIsHeld`: a request that was handed over, and whose caller waits, is in the hands of a
  running worker. A caller still blocked in `send` on the full channel is not claimed to be.
* `OnlyCurrentWorks`, `WithdrawnByItsOwn`, `DeadSessionWithdrawn`: generations of the session.

`WitnessClient`
* `SameTreeExact`: when row and broadcast are of one tree that fits the window, the witness is
  the authentication path of the position and ends in that tree's root.
* `FullSubshardExact`: growth of the tree does no harm to a note in a full sub-shard.
* `SameRowSameRoot`: notes of one sub-shard asked for in one call of the async client get the
  same root, whatever the server publishes meanwhile. In a call of the blocking client they do
  when their rows came from one tree; it asks again for each note, so they need not (see below).

### Why the bounds are enough

The interesting cases are: a fork at the oldest entry of the history, one below it, and one
in the middle; a batch boundary inside the new branch; a full channel at a reorg; a second
reorg during the first. Chains of five blocks with a window of three reach each. For the
table: a full bucket, a freed slot reused by another block, an eviction that takes several
blocks, and one that takes all. For the tree: a partial sub-shard at the frontier, a rollback
inside and across sub-shards and shards, a windowed tree, and a tree that outgrows the
window. For the server: a block whose nullifiers exceed the target and one whose just fill it, branches that agree and
that disagree in tree size, a crash between the two saves and a server that ends with an error
later, and a reorg while the server is down followed by one that it follows. (The last takes two
reorgs: a store resumed above an orphaned block ends, after a rollback to that height, at another
block than the other store. `unlinked` excludes it from what is said of blocks, not of heights.) For the
nullifier server: goals below, at and above the activation height, a new table that is overfull
and one that needs a batch below its first, a snapshot newer than the confirmed tip, a crash at
every step of the marker's and the snapshot's write, a foreign directory of either kind. (One
crash is what the run allows; with two the state space grows fivefold, to 3 million states, and
holds no violation either.) For the witness server: a completing block with and without leaves that spill
over, branches that complete a shard at different heights, windows above one and two shards, a
lag of up to the whole window. For the
transport: a reply of two frames abandoned after none or one of them, a newer connection that
arrives before or after an older one. For the witness client: positions in full, partial and
empty sub-shards, in the first and second shard of a window, a window that starts above shard
0, a tree that outgrows the window, a row of a longer, a shorter and a forked tree, and calls,
by either entry point, of several positions with a shared row, also when another row is asked for in between. The mutated forms of the operators, each of which some
property notices at these bounds, are evidence that the cases do happen.

### Fairness

* `Follow`, `CombinedServer`: weak fairness of the follow task and of the consumer, which the
  tokio runtime polls whenever they are ready; none for the node, for errors, for crashes or
  restarts. `CatchesUp` and `ServesConfirmedTip` therefore allow for a task that ended with
  an error and for a process that is down again and again.
* `P2PSession`: weak fairness of each worker and of each server loop; none for callers, for
  Zakura's calls or for the network.
* The stores are libraries and the clients are driven by their wallets: no fairness, no liveness.
  The standalone servers follow with the same loop as the combined one, whose liveness
  `combined_server` checks; they are checked for safety.

Deadlock checking is off: the node's chain, callers and publications are finite, and the stores may rest.

### Disagreements between code and documents

1. `follow_gives_up`: the error text of `ReorgBeyondWindow` says that "the fork exceeds the
   {depth}-block tracking window" (`server/src/ingest/pipeline.rs:48`). The history shrinks
   with every rollback and is never refilled downwards, so a second fork inside the window
   can end the task.
2. `restart_link`: the design plan asks for a check of the first block's `prev_hash` against
   the stored tip after a restart, and for a walk back to the fork. `sync_both` checks no link
   there: a reorg missed while down leaves an orphaned block below the new branch, and the
   server serves it. `docs/nullifier.md:26-27` also has malformed chain links fail ingestion.
3. `cap_truncated`: `BroadcastData` documents "All populated shard roots for the cap tree"
   (`witness/src/types.rs:116`). Only the window's shards get a root.

4. `witness_unverified`: two comments say that a witness is verified against the broadcast's
   anchor root before it is returned (`client/src/reconstruct.rs:19`, `client/src/witness.rs:155`).
   The root is computed and returned; nothing is compared, and `VerificationFailed` is never
   raised. A row of the frontier's sub-shard fetched after the broadcast gives a root of no tree.

One more is reported without a run of its own, since no line states it of that function:
`WitnessClientBlocking::get_witnesses` (`client/src/witness.rs:298-311`) asks for the row again for
every note, so two notes of the frontier's sub-shard in one call can get different roots when
the server publishes in between, although their `anchor_height`, the broadcast's, is the same. The
async function it is named after asks once. A wallet relies on the agreement:
`docs/pir_wallet_integration.md:205-206` has the notes share one anchor height, and lines
279-281 require one root of all selected notes, or transaction construction fails.
`SameRowSameRoot` without its conjunct about `entry` is violated by such a call.

`StoresOnOneChain` excludes the histories of the second one (`unlinked`, set by a sync that
resumed above a block the node had left) and says what holds otherwise.

## 4. The proofs

Every theorem holds for all values of the constants that the `ASSUME`s of its modules admit; TLC
evaluates each of them in some run. They say that numbers are numbers and collections are of their
types, and otherwise
* `ChainAssumption`: the chains have one length, and a hash stands for one place on one chain;
* `TreeAssumption`: an empty leaf is not a note commitment;
* `WitnessServerAssumption`: no block below the activation height has commitments, and the
  activation height is one the chain reaches;
* `FilesAssumption`, `SnapshotsAssumption`: a missing file is not a file, and a table that is saved
  is one of the snapshots a file may hold;
* `ClientAssumption`, `CapacityAssumption`: an empty leaf is not the zero bytes that pad the
  matrix, a call asks for at least one position, and no log has more commitments than a tree has
  leaves (2^32 in the code: the network's note commitment tree is of that height and is full then);
* `StoreAssumption`, which `CommitmentProofs` carries along for both of its specifications, is
  about the blocks of `CommitmentStore` alone.

A module's `IInv` (`StoreInv`, `FilesInv` and `WitnessInv` of the smaller specifications) is the inductive
invariant: TLC confirmed it on the run's instance before it was proved, and `InvariantHolds`
(`StoreInvariantHolds`, `ServerInvariantHolds`, `FilesWhole`, `WitnessInvariantHolds`) says that it always holds.

**`NullifierStoreProofs`**: `TableTypeOK`, `SlotsAreOwnedOnce`, `CountIsExact`,
`HashMapIsInverse`, `LookupIsExact`, and `TableIsBlockMap`, the refinement of `BlockNullifiers`.
None of the invariants is inductive alone. `IInv` is `Consistent` of the table and of the
snapshot, and `Counted` of the table. `Consistent` says that the index is well typed, that
every block's slots hold nullifiers of their own bucket, that blocks own disjoint slots, that
every occupied slot is owned, and that no nullifier or hash occurs twice; the snapshot needs
it because a restart brings it back. The steps are lemmas about the operators, not about
actions: `InsertKeeps`, `RemoveKeeps` (rollback and eviction are both `Remove` of a set of
heights) and `RestoreKeeps`, so each action's case cites one. `EntryCount` is the only
counting argument: blocks with disjoint slots have as many entries as slots, so the
counter, which is adjusted by lengths, agrees with a cardinality. `EvictedAreOldest` gives
the refinement its `DropOldest` step.

**`CommitmentProofs`**, of `CommitmentStore`: `StoreTypeCorrect`, `CacheNeverStale`,
`PublishedIsExact`, and `ImplementsLog`, the refinement of `CommitmentLog`. `StoreInv` says of the
tree and of the snapshot that they are well typed, that the block records account for every leaf
(`Accounted`: the recursive function `LeavesUpTo` of all records is the number of leaves), and that
every cached root is the root of its row (`Coherent`). `Accounted` is what makes a rollback truncate
at a block boundary; the cache survives it because `RollbackTo` drops the cached root of the row that
the boundary cuts and of every row after it, a fact about quotients (`Quotient`, `RowsApart`).

**`CommitmentProofs`**, of `WitnessServer`: `ServerTypeCorrect` and `AllTreesExact`. Neither follows
from its own step: a tree says only how long it is, and a block only where it starts, so the
invariant must say which block of which chain a tree began with. `Of(t, c, base)` does: the window
of `t` starts at a leaf of block `base + 1` of the chain `c` (a full tree: below the first leaf), its
blocks are the next ones, its leaves are theirs, and the roots below are the chain's. It holds of
some `base` at every step of the server, with the confirmed part of the node's chain:
* `Held`: of the published tree and the files. A tree that has lost the start of its window (a
  windowed one without blocks) may be published when the node has lagged, but never saved;
* `Ready`: of the tree that is synced, whose last block is the one below `next`;
* `Behind`: of the tree that follows; it ends with the newest block handed over, or starts above it.
  With the last case a block handed over after a rollback below the window does not fit the tree
  (its prior size is below the window's first leaf), so `TreeSizeMismatch` is a lagging node's;
* `Agreed`: the chains that a call may still be answered from have the same blocks up to `goal`.

The lemmas that carry it are one per operator: `AppendOf`, `RollbackOf`, `FillOf`, `SpilloverOf` (the
part of the completing block's commitments that lies in the window, cut in the middle of a block),
`KeptParts` (the roots that are kept are of shards completed at or below `goal`, and `CompletedAt` is
the block whose leaves complete the last of them), `AppendAllOf` (a batch, by induction), and
`OfSame` (a tree of one chain is a tree of another that has the same blocks, which is what lets the
node reorganise above the confirmed part at any moment). Roots prefetched for one chain are those
of every chain that agrees as far as the completing block: `RootsAgree`.

**`PipelineProofs`** proves no theorem of a specification: it holds the invariant of
`follow_blocks` for whoever consumes its events, `Followed(base)`, where `base` is what the
consumer holds now. `Coming(base)` is what it will hold after every queued event; `Queued` says
that each prefix of the queue leaves it with the start of a chain, `Mirrors` that the history is
the newest part of `Coming(base)`, and `Progress` where the running poll stands: what was
announced ends at the block the next one must extend. There is one lemma per action
(`LoadKeeps`, `PollKeeps`, `ForkKeeps`, `ReorgKeeps`, `FetchKeeps`, `SendKeeps`, `EndPollKeeps`,
`FailKeeps`), one for the node (`NodeKeeps`) and one for the consumer (`ConsumeKeeps`).
`ValidStream` is the lemma about `validate_range`: though a stream may start on a chain the node
has left, what passes is one chain's blocks.

**`FollowProofs`** adds to it that what was announced was confirmed (`Confirming`):
`TypeCorrect`, `HistoryMirrorsConsumer`, `OnlyConfirmedBlocks`, and `ImplementsFollower`, the
refinement of `ChainFollower`. The action property `SurvivesOneReorg` (theorem `SurvivesReorg`) needs
a second invariant, because the error is raised in a later poll than the reorg that shortens the
history, or than the one the node answered differently to:
* `Undisturbed`, before any reorganisation: the node's chain holds all that was announced and what
  waits to be sent (`Agree`, `AgreeBatch`), and the history covers the window (`Covers`: it reaches
  `Window` blocks down from the given height, or to block 1);
* `Surviving`, after at most one: the history still covers the window (of the newest block, or of
  the poll's target), or the node's chain holds what is left after the rollback and its confirmed
  tip is not below it. The second case is a history that the rollback cut short and that is refilled
  from the target up; a second reorganisation in that time is the finding `follow_gives_up`.

`GivesUpBeyond` then shows that whichever of `Poll` and `FindFork` ends the task, its oldest entry
is the deepest block of the window, and the node has left it or fallen below it.

**`CombinedServerProofs`** uses the same lemmas with the two stores as the consumer:
`TypeCorrect`, `OneChain`, `InStep`, `SnapshotsResumeTogether`, `ServesInStep`. `IInv` is
* `Control`: while no task follows, nothing of a pipeline is left, and the follow loop waits
  with fewer blocks unsaved than the interval;
* `Published`: from each half of `rebuild_both` on, what is published is what the store holds;
* `Stored`: stores and snapshots have no gaps, every block of the table is at its own height,
  and unless `unlinked` each of them, alone, lies on one chain. The two snapshots are *not*
  claimed to agree: a crash between the two saves, or a reorg while down, sets them apart, and it
  is `TipsAgree` that lets the follow loop start only from stores that agree;
* `InFollow`: a running pipeline is `Followed(base)` for some `base` whose newest height both
  stores end at, unless emptied, and whose blocks they hold unless `unlinked`.

`ServesInStep` needs a second invariant beside `IInv`, `Publishing`: while a rebuild is under way,
what is still served is the state before the event in hand, which `OneEventApart` relates to the
new one, or nothing yet at a start; and until the tips are compared, the stores differ in
height only as the snapshots did.

`SyncIs` is the lemma about `sync_both`, by induction over the blocks it applies: from any two
stores and the blocks of one chain above the lower of them, each ends with what is left of
its own blocks and that chain's above (`BroughtNf`, `BroughtTree`), and the tree sizes match if
the tree was on that chain. Eviction needs `CountOrdered`: the further down, the more
nullifiers, so what `evict_to_size` keeps is an upper part of the index.

**`ClientProofs`**, of `P2PSession`: `TypeCorrect`, `AnswersBelongToTheirCallers`, `WaitersAreHeld`,
`OneGenerationWorks`, and the action property `OnlyItsOwnEndWithdraws`. Replies carry no
identifier, so the invariant must know of every frame whose it is. `Flow` says of each
connection that what is in its wire, its server and its reply stream belongs to one request,
that of the exchange in progress, and at which of the stages (asked, taken, answering, answered,
lost) it is; it rests on a worker giving up the connection with the exchange. `Generations` ties
`current` to the connections that were opened and closed. `Placed` says that who waits, waits
on a connection.

**`ClientProofs`**, of `WitnessClient`: `WitnessTypeCorrect`, `SameTreePathsExact`,
`FullSubshardPathsExact` and `SameRowSharesRoot`. The invariant `WitnessInv` is short: `RowsOfTrees`
(a decoded row is that row of a tree the server published), `MadeOf` (a witness is put together
from the kept broadcast and its row of the tree it records) and, for the async client only,
`DecodedFor` (that tree is the one of the row kept for its position). That the rows of such a
call are kept and never replaced makes `DecodedFor` inductive, and with it notes of one sub-shard
share their root; in a blocking call `MadeOf` gives it for rows of one tree.
The work is in what the algorithm computes, for every height, log and window:
* `NodeSteps`, `EmptyBeyond`: the recursive functions satisfy their equations, and a node beyond
  the last leaf is the empty root of its level;
* `TiersAre`: the tier `k` levels above the nodes `extract_siblings` is given is the start of the
  tree's level there, and what is missing on its right is empty;
* `IndexOnTheWayUp`, `SiblingsAre`: the index within a shard or sub-shard and the index in the whole
  tree go up in step, so the sibling found among the nodes, or the empty root put in its place, is
  the tree's;
* `ClimbInTree`, `ClimbTogether`: a path of the tree's siblings climbs to the tree's root, and two
  climbs that meet stay together;
* `RowHolds`, `SubshardPrefix`, `ShardPrefix`: the row, the sub-shard roots and the cap of a tree
  that fits its window are such starts of levels, at the place `decompose_position` and
  `physical_row_index` look them up;
* `SameTreeWitness` puts the three tiers together. `FullRowsAgree` adds that a longer tree has the
  same row for a sub-shard that was full.

**`SpendClientProofs`**, of `SnapshotFiles`:

* `FilesWhole`: a file under its final name is complete and synced, in the directory and in what
  a power loss may bring back;
* `SnapshotIsAtomicCell`: `FilesSpec => IsAtomicCell`, the refinement of the run. `FilesSpec` lets
  marker and snapshots be written in any order and leaves `settled` free to catch up or not when
  a write begins, so each write, crash and restart of `NullifierServer` is one of its steps.

The invariant `FilesInv` is `Whole` of both directories and `Writing`: a write that has come to its
rename has a temporary file with the content it was asked to write, synced. Without the second
part a rename could bring in anything. `PowerLossKeepsWhole` is the lemma that a power loss
changes no file that is whole.

**`SpendClientProofs`**, of `NullifierServer` and `SpendClient`: `TypeCorrect`, `TablesStayConfirmed`,
`NewTablesFilled`, `DirectoriesStayApart`, `AnswersStayTrue`, and `SnapshotStaysAtomic`, which carries
`IsAtomicCell` from the files alone to the running server (`StepOfFiles`: every step of the server,
the node or the client is one of `FilesSpec`). `IInv` is
* `Control`: where the server stands, and that its table is made of confirmed blocks, without a gap
  once it serves;
* `Agreed`: the chains a call may be answered from have the same blocks up to `goal`. It is why
  ranges fetched in any order, downwards too, are parts of one chain;
* `Syncing`: which heights the table has in the middle of a forward sync or a backfill. A backfill
  fills a hole from below (`bottom..next - 1` and `last + 1..goal`), so the table is *not* gapless
  then, and a table is published only when the hole is closed;
* `Following`: what the follower has handed over ends where the table does;
* `Promised`: the client's metadata is of a table no longer than the server's, unless a replica lagged.
  A crash breaks this until the new start has synced, and `goal` bounds it then;
* `Stored`: the write in progress is the one the server waits for, the directory is its own or a
  foreign one that it refused, and what any of the files holds, or would after a power loss, is a
  table without gaps.

`EvictParts` and `SizeIsSum` are the counting lemmas: what `evict_to_target` and the sizes that
`FilledOrFloor` compares are sums over heights, by way of `SetSums` of `Induction`.
**`Induction`** makes up for what the prover lacks. The library's induction theorems take an
operator as a parameter, which no backend here can instantiate; `UpTo` states induction about a
set, and `Recursion` that a recursive function exists, from a step given as a function. With
them the recursive functions of the models (`LeavesUpTo`, `BlocksKept`, `Handled`, `CountDown`,
`Synced`, `Node`, the tiers of `extract_siblings`, the climb of `compute_root_from_path`) get their equations as lemmas. They are written as functions, not with `RECURSIVE`,
for that reason.

Model-checked only: liveness (`CatchesUp`, `ServesConfirmedTip`, `DeadSessionWithdrawn`), which is
out of the prover's reach, as is anything about ENABLED. Every other property of the passing runs
is stated by a theorem.

## 5. Assumptions and what is left out

* SHA and Sinsemilla collisions; an all-zero nullifier (the table's mark of an empty slot);
  a block that repeats a nullifier.
* `NullifierServer` and `WitnessServer` assume that the network keeps its confirmed blocks
  (`~deep`), though not that the node never lags. Without it a prefetched shard root of an
  orphaned block would stay, since roots are never checked again, and sync after a restart
  would link two branches (the finding `restart_link`).
* Files: a rename is atomic, directory changes reach the disk in their order, and the previous
  save has reached it when the next one begins.
* `get_subtree_roots` answers from one moment of the node; a snapshot interval of 0 (save after
  every event, reorgs included) is left out.
* Bytes: protobuf, JSON, the layout of snapshots and PIR rows. Widths of heights and counters
  (u64, far from their limits).
* Zakura, tokio and lightwalletd, except for what the code relies on: a FIFO stream, a
  cancellation that every later read finds, `select!` in any order, an RPC that may fail.
* The PIR engine, the command line, and of the HTTP routes `health` and `params`, which carry
  nothing the models tell apart. The fields and network of a tree state: a refused one is a failed call.

## 6. Plan

Done: node, pipeline and confirmation; nullifier table with proofs; commitment tree; combined
server; snapshot files with proofs; both standalone servers; both clients; transport.

Done with proofs: nullifier table, commitment tree, pipeline, combined server, both standalone
servers, both clients, path reconstruction, transport, files.

Models worth having: an instance of `CombinedServer` with the trees of `WitnessServer` in place of
block records.
