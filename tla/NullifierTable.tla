--------------------------- MODULE NullifierTable ---------------------------
(***************************************************************************)
(* The value HashTableDb of nullifier/src/table.rs and its operations.  A  *)
(* table is a record of                                                    *)
(*   cells     the buckets, flattened: <<bucket, slot>> |-> nullifier      *)
(*   index     block_index: height |-> [hash, slots], slots a set of cells *)
(*   heightOf  block_hash_to_height                                        *)
(*   num       num_entries                                                 *)
(* Nullifiers differ from the 32 zero bytes that mark an empty slot, and   *)
(* those of one chain differ from each other (a consensus rule the code    *)
(* relies on).                                                             *)
(***************************************************************************)
EXTENDS Integers, FiniteSets

CONSTANTS
  Nullifiers,     \* every nullifier considered
  Empty,          \* the EMPTY sentinel
  Buckets,        \* 0..NUM_BUCKETS-1
  Capacity,       \* BUCKET_CAPACITY
  BucketOf,       \* hash_to_bucket
  BlockHashes     \* hashes of the blocks considered

ASSUME TableAssumption ==
  /\ Empty \notin Nullifiers
  /\ IsFiniteSet(Nullifiers)
  /\ IsFiniteSet(Buckets)
  /\ Capacity \in Nat
  /\ BucketOf \in [Nullifiers -> Buckets]

Slots == 0..(Capacity - 1)
Cells == Buckets \X Slots

EmptyTable ==
  [cells |-> [c \in Cells |-> Empty],
   index |-> [h \in {} |-> 0],
   heightOf |-> [x \in {} |-> 0],
   num |-> 0]

FreeCells(t, b) == {c \in Cells : c[1] = b /\ t.cells[c] = Empty}

\* One (block, slot) pair per entry of the block index.
Entries(index) == UNION {{h} \X index[h].slots : h \in DOMAIN index}

-----------------------------------------------------------------------------
(* insert_block *)

\* The pre-flight count: every bucket has room for the block's nullifiers.
Fits(t, nfs) ==
  \A b \in Buckets :
    Cardinality({n \in nfs : BucketOf[n] = b}) <= Cardinality(FreeCells(t, b))

\* Mutated form of Allocations: a nullifier may take a slot that is in use.
AllocationsAnySlot(t, nfs) ==
  {a \in [nfs -> Cells] :
     /\ \A n \in nfs : a[n][1] = BucketOf[n]
     /\ \A n, m \in nfs : a[n] = a[m] => n = m}

\* Bucket::insert for each nullifier in some order: a free slot of its own bucket,
\* the lowest ones first.
Allocations(t, nfs) ==
  {a \in [nfs -> Cells] :
     /\ \A n \in nfs : a[n] \in FreeCells(t, BucketOf[n])
     /\ \A n, m \in nfs : a[n] = a[m] => n = m
     /\ \A n \in nfs : \A c \in FreeCells(t, BucketOf[n]) :
          c[2] < a[n][2] => \E m \in nfs : a[m] = c}

\* The rest of insert_block, for the slots chosen in alloc.
InsertAt(t, height, hash, alloc) ==
  LET slots == {alloc[n] : n \in DOMAIN alloc}
  IN  [cells |-> [c \in Cells |->
                    IF c \in slots
                    THEN CHOOSE n \in DOMAIN alloc : alloc[n] = c
                    ELSE t.cells[c]],
       index |-> [h \in DOMAIN t.index \cup {height} |->
                    IF h = height THEN [hash |-> hash, slots |-> slots] ELSE t.index[h]],
       heightOf |-> [x \in DOMAIN t.heightOf \cup {hash} |->
                       IF x = hash THEN height ELSE t.heightOf[x]],
       num |-> t.num + Cardinality(slots)]

-----------------------------------------------------------------------------
(* rollback_block, applied to the blocks at the heights hs one after another *)

\* Mutated form of Remove: the hash map keeps the removed blocks.
RemoveKeepingHashes(t, hs) ==
  LET freed == UNION {t.index[h].slots : h \in hs}
  IN  [cells |-> [c \in Cells |-> IF c \in freed THEN Empty ELSE t.cells[c]],
       index |-> [h \in DOMAIN t.index \ hs |-> t.index[h]],
       heightOf |-> t.heightOf,
       num |-> t.num - Cardinality({e \in Entries(t.index) : e[1] \in hs})]

\* Mutated form of Remove: the entries stay in their buckets.
RemoveKeepingCells(t, hs) ==
  [cells |-> t.cells,
   index |-> [h \in DOMAIN t.index \ hs |-> t.index[h]],
   heightOf |-> [x \in DOMAIN t.heightOf \ {t.index[h].hash : h \in hs} |-> t.heightOf[x]],
   num |-> t.num - Cardinality({e \in Entries(t.index) : e[1] \in hs})]

\* Mutated form of Remove: the count is not reduced.
RemoveKeepingCount(t, hs) ==
  LET freed == UNION {t.index[h].slots : h \in hs}
      gone == {t.index[h].hash : h \in hs}
  IN  [cells |-> [c \in Cells |-> IF c \in freed THEN Empty ELSE t.cells[c]],
       index |-> [h \in DOMAIN t.index \ hs |-> t.index[h]],
       heightOf |-> [x \in DOMAIN t.heightOf \ gone |-> t.heightOf[x]],
       num |-> t.num]

Remove(t, hs) ==
  LET freed == UNION {t.index[h].slots : h \in hs}
      gone == {t.index[h].hash : h \in hs}
  IN  [cells |-> [c \in Cells |-> IF c \in freed THEN Empty ELSE t.cells[c]],
       index |-> [h \in DOMAIN t.index \ hs |-> t.index[h]],
       heightOf |-> [x \in DOMAIN t.heightOf \ gone |-> t.heightOf[x]],
       num |-> t.num - Cardinality({e \in Entries(t.index) : e[1] \in hs})]

\* The heights evict_oldest_block takes one by one while len() > size: the lowest
\* ones, all of them needed, and no more once the rest fits.
Evicted(t, size) ==
  LET Left(h) == Cardinality({e \in Entries(t.index) : e[1] >= h})
  IN  {h \in DOMAIN t.index : Left(h) > size}

\* contains: only the nullifier's own bucket is searched.
Contains(t, n) == \E s \in Slots : t.cells[<<BucketOf[n], s>>] = n

-----------------------------------------------------------------------------
\* to_snapshot writes the block index and the buckets; from_snapshot rebuilds
\* the hash map and the count from the index.
ToSnapshot(t) == [cells |-> t.cells, index |-> t.index]

FromSnapshot(s) ==
  [cells |-> s.cells,
   index |-> s.index,
   heightOf |-> [x \in {s.index[h].hash : h \in DOMAIN s.index} |->
                   CHOOSE h \in DOMAIN s.index : s.index[h].hash = x],
   num |-> Cardinality(Entries(s.index))]
=============================================================================
