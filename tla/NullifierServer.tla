-------------------------- MODULE NullifierServer --------------------------
(***************************************************************************)
(* The standalone nullifier server (server/src/nullifier/server.rs): it    *)
(* checks its data directory, loads the snapshot or starts an empty table, *)
(* syncs up to the confirmed tip, extends a new table downwards until it   *)
(* is full, publishes and saves it, and then follows the chain.  It may    *)
(* end, or lose power, between any two of these steps: that stands for     *)
(* every failed call or refused block as well.                             *)
(*                                                                         *)
(* The table is the map from heights to blocks that NullifierStore         *)
(* implements.  The follower is the one that Follow implements: here it    *)
(* sends any event that ChainFollower and OnlyConfirmed allow.  Assumed of *)
(* the network: it keeps its confirmed blocks (~deep).                     *)
(***************************************************************************)
EXTENDS ConfirmedChain, SnapshotFiles

CONSTANTS
  Activation,        \* nu6_3_activation_height
  BackfillBatch,     \* BACKFILL_BATCH (50_000)
  NullifierCount,    \* hash |-> number of nullifiers in the block
  TargetSize,        \* target_size, which a new table is filled up to
  EvictSize,         \* TARGET_SIZE, which evict_to_target cuts down to
  SnapshotInterval,  \* snapshot_interval
  Window,            \* the follower's reorg_window (2 * CONFIRMATION_DEPTH)
  MaxCrashes         \* bound: how often the process may end

ASSUME NullifierServerAssumption ==
  /\ {Activation, BackfillBatch, SnapshotInterval, Window} \subseteq Nat \ {0}
  /\ MaxCrashes \in Nat
  /\ {TargetSize, EvictSize} \subseteq Nat
  /\ NullifierCount \in [Hashes -> 0..EvictSize]

\* Among what a server may save are the tables of consecutive blocks of one chain.
ASSUME SnapshotsAssumption ==
  \A c \in Chains, lo \in Heights, hi \in 0..MaxHeight : [h \in lo..hi |-> c[h]] \in Snapshots

VARIABLES
  pc,             \* where run, or sync_into, is
  goal,           \* target_height
  table,          \* the hash table: height |-> block hash
  fromSnapshot,   \* from_snapshot
  range,          \* the running sync_range: next height, last height, expected_prev
  bottom,         \* the lowest height synced or begun: backfill_end + 1
  live,           \* live_pir: the published table, if any
  unsaved,        \* blocks_since_snapshot
  followed,       \* the chain up to the newest block the follower has handed over
  crashes         \* ends of the process so far (model bound)

syncVars == <<goal, fromSnapshot, range, bottom>>
volatile == <<pc, syncVars, table, live, unsaved, followed>>
serverVars == <<volatile, diskVars, crashes>>
worldVars == <<nodeVars, observerVars>>

Follower == INSTANCE ChainFollower WITH held <- followed, MaxDrop <- Window - 1

NoBlocks == [h \in {} |-> NoHash]
Newest(t) == Max(DOMAIN t)
Oldest(t) == Min(DOMAIN t)

\* hashtable.len(): the number of nullifiers
Size(t) == MapThenSumSet(LAMBDA h : NullifierCount[t[h]], DOMAIN t)

\* evict_to_target
Evict(t) ==
  LET Rest(h) == [g \in {k \in DOMAIN t : k >= h} |-> t[g]]
      kept == {h \in DOMAIN t : Size(Rest(h)) <= EvictSize}
  IN  [h \in kept |-> t[h]]

\* insert_block of consecutive blocks from `lo` on
InsertAll(t, lo, hashes) ==
  [h \in DOMAIN t \cup lo..(lo + Len(hashes) - 1) |->
     IF h < lo \/ h >= lo + Len(hashes) THEN t[h] ELSE hashes[h - lo + 1]]

\* min_sync_height
MinSyncHeight(height) == IF height >= Activation THEN Activation ELSE 1

-----------------------------------------------------------------------------
(* sync_into *)

NoRange == [next |-> 1, last |-> 0, prev |-> NoHash]

\* sync_into returns.
ForgetSync == goal' = 0 /\ fromSnapshot' = FALSE /\ range' = NoRange /\ bottom' = 0

\* A write begins.  (Bound: the previous one has reached the disk by then.)
StartWrite(f, data) == BeginWrite(f, data) /\ settled' = disk

\* ensure_ironwood_dataset: refuse the directory, accept it, or label a new one.
Start ==
  /\ pc = "down"
  /\ IF Refused
     THEN pc' = "refused" /\ UNCHANGED diskVars
     ELSE IF Labelled
     THEN pc' = "tip" /\ UNCHANGED diskVars
     ELSE pc' = "label" /\ StartWrite("dataset.json", OurMarker)
  /\ UNCHANGED <<worldVars, syncVars, table, live, unsaved, followed, crashes>>

\* get_latest_block
ReadTip ==
  /\ pc = "tip"
  /\ goal' = ConfirmedTip
  /\ pc' = "load"
  /\ Answered
  /\ UNCHANGED <<observerVars, fromSnapshot, range, bottom, table, live, unsaved,
                 followed, diskVars, crashes>>

\* Mutated form of ForwardStart: a snapshot's table is continued at the confirmed tip.
ForwardStartAtGoal(t, loaded) ==
  IF ~loaded THEN MaxOf(goal - BackfillBatch, MinSyncHeight(goal)) ELSE goal

\* forward_start, for the table t of a snapshot or for a new one
ForwardStart(t, loaded) ==
  IF ~loaded THEN MaxOf(goal - BackfillBatch, MinSyncHeight(goal))
  ELSE IF DOMAIN t = {} THEN goal
  ELSE Newest(t) + 1

\* Mutated form of Load: the snapshot is published before it has caught up.
LoadAndPublish ==
  /\ pc = "load"
  /\ LET found == Content(disk, "snapshot.bin")
         t == IF found = NoFile THEN NoBlocks ELSE found
         start == ForwardStart(t, found # NoFile)
     IN  /\ table' = t
         /\ live' = IF found = NoFile THEN {} ELSE {t}
         /\ fromSnapshot' = (found # NoFile)
         /\ range' = [next |-> start, last |-> goal, prev |-> NoHash]
         /\ bottom' = start
         /\ pc' = "sync"
         /\ UNCHANGED goal
  /\ UNCHANGED <<worldVars, unsaved, followed, diskVars, crashes>>

\* load_snapshot; a snapshot that does not decode ends the process.
Load ==
  /\ pc = "load"
  /\ LET found == Content(disk, "snapshot.bin")
         t == IF found = NoFile THEN NoBlocks ELSE found
         start == ForwardStart(t, found # NoFile)
     IN  IF found = Torn
         THEN pc' = "refused" /\ UNCHANGED <<syncVars, table>>
         ELSE /\ table' = t
              /\ fromSnapshot' = (found # NoFile)
              /\ range' = [next |-> start, last |-> goal, prev |-> NoHash]
              /\ bottom' = start
              /\ pc' = "sync"
              /\ UNCHANGED goal
  /\ UNCHANGED <<worldVars, live, unsaved, followed, diskVars, crashes>>

\* One batch of sync_blocks.  Batches of one range are linked, ranges are not.  The
\* genesis block has no Ironwood tree, so no range begins there.
SyncBatch ==
  /\ pc = "sync"
  /\ 1 <= range.next /\ range.next <= range.last
  /\ LET end == MinOf(range.next + BatchSize - 1, range.last)
     IN  \E blocks \in Streams(range.next, end) :
           /\ ValidRange(blocks, range.next, end, range.prev)
           /\ table' = InsertAll(table, range.next, [i \in DOMAIN blocks |-> blocks[i].hash])
           /\ range' = [range EXCEPT !.next = end + 1, !.prev = Last(blocks).hash]
  /\ Answered
  /\ UNCHANGED <<observerVars, pc, goal, fromSnapshot, bottom, live, unsaved, followed,
                 diskVars, crashes>>

\* backfill_end, backfill_start
BackfillEnd == MaxOf(bottom - 1, 0)

\* Mutated form of BackfillStart: the batch may reach below the minimum sync height.
BackfillStartUnbounded == MaxOf(BackfillEnd - (BackfillBatch - 1), 1)

BackfillStart ==
  MaxOf(MaxOf(BackfillEnd - (BackfillBatch - 1), 0), MinSyncHeight(goal))

\* A range is done and a new table has room left: the next batch downwards.
Backfill ==
  /\ pc = "sync"
  /\ range.next > range.last
  /\ ~fromSnapshot /\ Size(table) < TargetSize /\ BackfillEnd >= MinSyncHeight(goal)
  /\ range' = [next |-> BackfillStart, last |-> BackfillEnd, prev |-> NoHash]
  /\ bottom' = BackfillStart
  /\ UNCHANGED <<worldVars, pc, goal, fromSnapshot, table, live, unsaved, followed,
                 diskVars, crashes>>

\* Evict, publish (rebuild_pir), and begin to save.
Publish ==
  /\ pc = "sync"
  /\ range.next > range.last
  /\ fromSnapshot \/ Size(table) >= TargetSize \/ BackfillEnd < MinSyncHeight(goal)
  /\ table' = Evict(table)
  /\ live' = {Evict(table)}
  /\ StartWrite("snapshot.bin", Evict(table))
  /\ pc' = "save"
  /\ UNCHANGED <<worldVars, syncVars, unsaved, followed, crashes>>

-----------------------------------------------------------------------------
(* run: the follow mode *)

\* The steps of a write; the process waits for the last one.
Write ==
  /\ WriteStep
  /\ UNCHANGED <<worldVars, volatile, crashes>>

EndWrite ==
  /\ RenameTmp
  /\ IF pc = "label" THEN pc' = "tip" /\ UNCHANGED syncVars
     ELSE IF followed # <<>> THEN pc' = "follow" /\ UNCHANGED syncVars
     ELSE pc' = "connect" /\ ForgetSync
  /\ UNCHANGED <<worldVars, table, live, unsaved, followed, crashes>>

\* follow_blocks starts if the node still serves the newest block; else it fails.
Connect ==
  /\ pc = "connect"
  /\ DOMAIN table # {}
  /\ Newest(table) <= tip
  /\ best[Newest(table)] = table[Newest(table)]
  /\ followed' = SubSeq(best, 1, Newest(table))
  /\ pc' = "follow"
  /\ Answered
  /\ UNCHANGED <<observerVars, syncVars, table, live, unsaved, diskVars, crashes>>

\* Mutated form of Handled: the table is saved one block late.
HandledLate(t) ==
  /\ table' = t
  /\ live' = {t}
  /\ IF unsaved >= SnapshotInterval
     THEN unsaved' = 0 /\ pc' = "save" /\ StartWrite("snapshot.bin", t)
     ELSE unsaved' = unsaved + 1 /\ UNCHANGED <<pc, diskVars>>
  /\ UNCHANGED <<worldVars, syncVars, crashes>>

\* The end of the loop's body for the changed table t: publish it, and save it when due.
Handled(t) ==
  /\ table' = t
  /\ live' = {t}
  /\ IF unsaved + 1 >= SnapshotInterval
     THEN unsaved' = 0 /\ pc' = "save" /\ StartWrite("snapshot.bin", t)
     ELSE unsaved' = unsaved + 1 /\ UNCHANGED <<pc, diskVars>>
  /\ UNCHANGED <<worldVars, syncVars, crashes>>

\* BlockEvent::NewBlock
HandleBlock ==
  /\ pc = "follow"
  /\ Follower!Extend
  /\ ConfirmedBlocks(followed')
  /\ Handled(Evict(InsertAll(table, Len(followed'), <<Last(followed')>>)))

\* BlockEvent::Reorg; without one of a confirmed block, a replica must have lagged.
HandleReorg ==
  /\ pc = "follow"
  /\ Follower!Retract
  /\ followed' \notin {<<>>, followed}
  /\ lagged
  /\ Handled(Evict([h \in {g \in DOMAIN table : g <= Len(followed')} |-> table[h]]))

\* The process ends; what it held in memory is gone.
Crash ==
  /\ pc \notin {"down", "refused"}
  /\ crashes < MaxCrashes
  /\ crashes' = crashes + 1
  /\ ProcessExit \/ PowerLoss
  /\ pc' = "down"
  /\ ForgetSync
  /\ table' = NoBlocks
  /\ live' = {}
  /\ unsaved' = 0
  /\ followed' = <<>>
  /\ UNCHANGED worldVars

-----------------------------------------------------------------------------
ServerInit ==
  /\ NodeInit
  /\ ObserverInit /\ ~deep
  /\ FilesInit
  /\ pc = "down"
  /\ goal = 0 /\ fromSnapshot = FALSE /\ range = NoRange /\ bottom = 0
  /\ table = NoBlocks
  /\ live = {}
  /\ unsaved = 0
  /\ followed = <<>>
  /\ crashes = 0

ServerStep ==
  \/ Start
  \/ ReadTip
  \/ Load
  \/ SyncBatch
  \/ Backfill
  \/ Publish
  \/ Write
  \/ EndWrite
  \/ Connect
  \/ HandleBlock
  \/ HandleReorg
  \/ Crash

ServerNext ==
  \/ ChainStep /\ ~deep' /\ UNCHANGED serverVars      \* the network's promise
  \/ ServerStep

-----------------------------------------------------------------------------
Contiguous(t) == \A g, h \in DOMAIN t : g..h \subseteq DOMAIN t

\* Every table a server has built, published or saved is a run of consecutive confirmed
\* blocks of the network's chain, however its sync, backfill, restarts and rollbacks
\* interleave with the node.
ConfirmedForever ==
  /\ \A t \in {table} \cup live : ConfirmedBlocks(t)
  /\ \A dir \in {disk, settled} :
       LET t == Content(dir, "snapshot.bin")
       IN  t \notin {NoFile, OldSnapshot} => ConfirmedBlocks(t) /\ Contiguous(t)
  /\ \A t \in live : Contiguous(t)

\* A new table, when first published, ends at the confirmed tip and reaches down to the
\* minimum sync height, or as far as the two sizes allow: the backfill leaves out no
\* block between its batches and stops neither early nor below the minimum.
FilledOrFloor ==
  LET floor == MinSyncHeight(goal)
  IN  pc = "save" /\ followed = <<>> /\ ~fromSnapshot =>
        IF DOMAIN table = {} THEN goal < floor
        ELSE /\ DOMAIN table = Oldest(table)..goal
             /\ floor <= Oldest(table)
             /\ \/ Oldest(table) = floor
                \/ Size(table) + NullifierCount[best[Oldest(table) - 1]] > EvictSize
                \/ Size(table) >= TargetSize

\* A server refuses the directory of another dataset and never touches its snapshot, but
\* never one that was new when it first started there, whatever crashes it went through.
OwnDirectoryOpens ==
  LET foreign == \E f \in {"snapshot.bin", "snapshot.bin.tmp"} :
                   Content(disk, f) = OldSnapshot
  IN  /\ pc = "refused" => foreign
      /\ foreign => pc \in {"down", "refused"} /\ table = NoBlocks
=============================================================================
