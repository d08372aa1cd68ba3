--------------------------- MODULE NullifierStore ---------------------------
(***************************************************************************)
(* The nullifier table over the life of a server: blocks inserted by sync, *)
(* follow and backfill, reorgs, eviction to the target size, snapshots and *)
(* restarts.  A restart also stands for every error that ends the process. *)
(***************************************************************************)
EXTENDS NullifierTable

CONSTANTS
  TableHeights,   \* the heights considered
  TargetSize      \* target_size

ASSUME StoreAssumption ==
  /\ TableHeights \subseteq Nat
  /\ IsFiniteSet(TableHeights)
  /\ TargetSize \in Nat

VARIABLES
  table,    \* the HashTableDb of the running server
  saved     \* what snapshot.bin holds (an absent file loads as an empty table)

vars == <<table, saved>>

Held(t) == {t.cells[c] : c \in Cells} \ {Empty}

Init ==
  /\ table = EmptyTable
  /\ saved = ToSnapshot(EmptyTable)

\* Mutated form of Insert: without the pre-flight count, the nullifiers placed before
\* the first that found its bucket full stay in their slots.
InsertUncounted(height, hash, nfs) ==
  /\ height \notin DOMAIN table.index
  /\ hash \notin DOMAIN table.heightOf
  /\ nfs \cap Held(table) = {}
  /\ IF Fits(table, nfs)
     THEN \E alloc \in Allocations(table, nfs) :
            table' = InsertAt(table, height, hash, alloc)
     ELSE \E placed \in SUBSET nfs : \E alloc \in Allocations(table, placed) :
            table' = [InsertAt(table, height, hash, alloc) EXCEPT
                        !.index = table.index, !.heightOf = table.heightOf]
  /\ UNCHANGED saved

\* insert_block of a block the table does not hold yet: when the pre-flight count
\* finds a bucket too full (BucketOverflow), the table stays as it was.
Insert(height, hash, nfs) ==
  /\ height \notin DOMAIN table.index
  /\ hash \notin DOMAIN table.heightOf
  /\ nfs \cap Held(table) = {}
  /\ IF Fits(table, nfs)
     THEN \E alloc \in Allocations(table, nfs) :
            table' = InsertAt(table, height, hash, alloc)
     ELSE UNCHANGED table
  /\ UNCHANGED saved

\* `while latest_height > rollback_to { rollback_block(latest_block_hash) }`
Rollback(rollback_to) ==
  /\ table' = Remove(table, {h \in DOMAIN table.index : h > rollback_to})
  /\ UNCHANGED saved

\* `while len > target { evict_oldest_block }`
EvictToSize ==
  /\ table' = Remove(table, Evicted(table, TargetSize))
  /\ UNCHANGED saved

Save ==
  /\ saved' = ToSnapshot(table)
  /\ UNCHANGED table

Restart ==
  /\ table' = FromSnapshot(saved)
  /\ UNCHANGED saved

Next ==
  \/ \E height \in TableHeights, hash \in BlockHashes, nfs \in SUBSET Nullifiers :
       Insert(height, hash, nfs)
  \/ \E rollback_to \in TableHeights : Rollback(rollback_to)
  \/ EvictToSize
  \/ Save
  \/ Restart

Spec == Init /\ [][Next]_vars

-----------------------------------------------------------------------------
Indexes == UNION {[hs -> [hash : BlockHashes, slots : SUBSET Cells]] :
                    hs \in SUBSET TableHeights}
Contents == [Cells -> Nullifiers \cup {Empty}]

\* Table and snapshot hold values of their types.
TypeOK ==
  /\ table.cells \in Contents
  /\ table.index \in Indexes
  /\ table.heightOf \in UNION {[xs -> TableHeights] : xs \in SUBSET BlockHashes}
  /\ table.num \in 0..Cardinality(Cells)
  /\ saved.cells \in Contents
  /\ saved.index \in Indexes

Occupied(t) == {c \in Cells : t.cells[c] # Empty}
Owned(index) == UNION {index[h].slots : h \in DOMAIN index}

\* Two blocks never own the same slot, and the occupied slots are the owned ones:
\* no rollback or eviction clears another block's entry, and none is left behind.
SlotsOwnedOnce ==
  /\ \A g, h \in DOMAIN table.index :
       g # h => table.index[g].slots \cap table.index[h].slots = {}
  /\ Occupied(table) = Owned(table.index)

\* num_entries, kept by increments, is the number of occupied slots: eviction
\* stops at the target size and not before or after.
NumIsExact == table.num = Cardinality(Occupied(table))

\* The hash map is the inverse of the block index, so rollback_block and
\* evict_oldest_block never fail with BlockNotFound for a block the table holds.
HashMapInvertsIndex ==
  /\ DOMAIN table.heightOf = {table.index[h].hash : h \in DOMAIN table.index}
  /\ \A h \in DOMAIN table.index : table.heightOf[table.index[h].hash] = h

\* A nullifier is found by the one-bucket lookup exactly when some block put it there.
ContainsIsExact ==
  \A n \in Nullifiers :
    Contains(table, n) <=> \E c \in Owned(table.index) : table.cells[c] = n

\* The table implements a map from heights to the blocks' nullifiers, through
\* inserts, reorgs, evictions and restarts.
BlocksOf(s) == [h \in DOMAIN s.index |->
                  [hash |-> s.index[h].hash,
                   nfs |-> {s.cells[c] : c \in s.index[h].slots}]]
Abstract == INSTANCE BlockNullifiers WITH held <- BlocksOf(table), kept <- BlocksOf(saved)
IsBlockMap == Abstract!Spec
=============================================================================
