------------------------ MODULE NullifierStoreProofs ------------------------
(***************************************************************************)
(* For every number of buckets, capacity, set of nullifiers and blocks:    *)
(* the nullifier table is type correct, its slot bookkeeping is exact, and *)
(* it implements the map BlockNullifiers.                                  *)
(***************************************************************************)
EXTENDS NullifierStore, FiniteSetTheorems, FunctionTheorems, TLAPS

\* The conjuncts of the inductive invariant that speak of the buckets and the
\* index alone; they hold of the table and of the snapshot a restart reads.
Shaped(s) == s.cells \in Contents /\ s.index \in Indexes

OwnedOnce(s) ==
  /\ \A g, h \in DOMAIN s.index :
       g # h => s.index[g].slots \cap s.index[h].slots = {}
  /\ Occupied(s) = Owned(s.index)

HashesDiffer(s) ==
  \A g, h \in DOMAIN s.index : s.index[g].hash = s.index[h].hash => g = h

InOwnBucket(s) ==
  \A c \in Cells : s.cells[c] # Empty => BucketOf[s.cells[c]] = c[1]

Consistent(s) == Shaped(s) /\ OwnedOnce(s) /\ HashesDiffer(s) /\ InOwnBucket(s)

\* The two fields that from_snapshot rebuilds agree with the other two.
Counted(t) ==
  /\ t.num = Cardinality(Occupied(t))
  /\ t.heightOf \in [{t.index[h].hash : h \in DOMAIN t.index} -> TableHeights]
  /\ \A h \in DOMAIN t.index : t.heightOf[t.index[h].hash] = h

\* The inductive invariant.
IInv == Consistent(table) /\ Counted(table) /\ Consistent(saved)

-----------------------------------------------------------------------------
LEMMA IndexType ==
  ASSUME NEW index
  PROVE  index \in Indexes <=>
           /\ DOMAIN index \subseteq TableHeights
           /\ index = [h \in DOMAIN index |-> index[h]]
           /\ \A h \in DOMAIN index :
                index[h] \in [hash : BlockHashes, slots : SUBSET Cells]
  BY DEF Indexes

LEMMA CellsFinite == IsFiniteSet(Cells)
  <1>1. IsFiniteSet(Slots)
    BY TableAssumption, FS_Interval DEF Slots
  <1>2. QED
    BY <1>1, TableAssumption, FS_Product DEF Cells

\* When no two blocks own the same slot, the blocks at hs have as many entries as slots.
LEMMA EntryCount ==
  ASSUME NEW s, Consistent(s), NEW hs \in SUBSET DOMAIN s.index
  PROVE  LET es == {e \in Entries(s.index) : e[1] \in hs}
             cs == UNION {s.index[h].slots : h \in hs}
         IN  Cardinality(es) = Cardinality(cs) /\ IsFiniteSet(cs) /\ IsFiniteSet(es)
  <1> DEFINE es == {e \in Entries(s.index) : e[1] \in hs}
             cs == UNION {s.index[h].slots : h \in hs}
             f == [e \in es |-> e[2]]
  <1>0. \A h \in DOMAIN s.index : s.index[h].slots \subseteq Cells
    BY IndexType DEF Consistent, Shaped
  <1>1. cs \subseteq Cells
    BY <1>0
  <1>2. IsFiniteSet(cs)
    BY <1>1, CellsFinite, FS_Subset
  <1>3. \A e : e \in es <=> \E h \in hs, c \in Cells : c \in s.index[h].slots /\ e = <<h, c>>
    BY <1>0 DEF Entries
  <1>4. f \in [es -> cs]
    BY <1>3
  <1>5. \A d, e \in es : f[d] = f[e] => d = e
    <2> SUFFICES ASSUME NEW d \in es, NEW e \in es, d[2] = e[2]
                 PROVE  d = e
      OBVIOUS
    <2>1. PICK g \in hs, c \in Cells : c \in s.index[g].slots /\ d = <<g, c>>
      BY <1>3
    <2>2. PICK h \in hs, k \in Cells : k \in s.index[h].slots /\ e = <<h, k>>
      BY <1>3
    <2>3. c = k
      BY <2>1, <2>2
    <2>4. g = h
      BY <2>1, <2>2, <2>3 DEF Consistent, OwnedOnce
    <2>5. QED
      BY <2>1, <2>2, <2>3, <2>4
  <1>6. \A c \in cs : \E e \in es : f[e] = c
    <2> SUFFICES ASSUME NEW c \in cs PROVE \E e \in es : f[e] = c
      OBVIOUS
    <2>1. PICK h \in hs : c \in s.index[h].slots
      OBVIOUS
    <2>2. <<h, c>> \in es
      BY <1>0, <1>3, <2>1
    <2>3. f[<<h, c>>] = c
      BY <2>2
    <2>4. QED
      BY <2>2, <2>3
  <1>7. f \in Injection(es, cs)
    BY <1>4, <1>5 DEF Injection, IsInjective
  <1>8. f \in Surjection(es, cs)
    BY <1>4, <1>6 DEF Surjection
  <1>9. IsFiniteSet(es)
    BY <1>2, <1>7, FS_Injection
  <1>10. Cardinality(cs) = Cardinality(es)
    BY <1>7, <1>8, <1>9, FS_Surjection
  <1>11. QED
    BY <1>2, <1>9, <1>10
-----------------------------------------------------------------------------
LEMMA EmptyIsConsistent ==
  Consistent(EmptyTable) /\ Counted(EmptyTable) /\ Consistent(ToSnapshot(EmptyTable))
  <1>1. Occupied(EmptyTable) = {} /\ Owned(EmptyTable.index) = {}
    BY DEF Occupied, Owned, EmptyTable
  <1>2. EmptyTable.cells \in Contents /\ EmptyTable.index \in Indexes
    BY IndexType DEF EmptyTable, Contents
  <1>3. Consistent(EmptyTable)
    BY <1>1, <1>2 DEF Consistent, Shaped, OwnedOnce, HashesDiffer, InOwnBucket, EmptyTable
  <1>4. Counted(EmptyTable)
    BY <1>1, FS_EmptySet DEF Counted, EmptyTable
  <1>5. QED
    BY <1>1, <1>3, <1>4 DEF ToSnapshot, Consistent, Shaped, OwnedOnce, HashesDiffer,
       InOwnBucket, Occupied

\* insert_block of a block the table does not hold keeps the books.
LEMMA InsertKeeps ==
  ASSUME NEW t, Consistent(t), Counted(t),
         NEW height \in TableHeights \ DOMAIN t.index,
         NEW hash \in BlockHashes \ DOMAIN t.heightOf,
         NEW nfs \in SUBSET Nullifiers,
         NEW alloc \in Allocations(t, nfs)
  PROVE  Consistent(InsertAt(t, height, hash, alloc)) /\ Counted(InsertAt(t, height, hash, alloc))
  <1> DEFINE u == InsertAt(t, height, hash, alloc)
             slots == {alloc[n] : n \in nfs}
  <1>1. /\ alloc \in [nfs -> Cells]
        /\ \A n \in nfs : alloc[n] \in Cells /\ alloc[n][1] = BucketOf[n] /\ t.cells[alloc[n]] = Empty
        /\ \A n, m \in nfs : alloc[n] = alloc[m] => n = m
    BY DEF Allocations, FreeCells
  <1>2. /\ u.cells = [c \in Cells |-> IF c \in slots THEN CHOOSE n \in nfs : alloc[n] = c
                                                   ELSE t.cells[c]]
        /\ u.index = [h \in DOMAIN t.index \cup {height} |->
                        IF h = height THEN [hash |-> hash, slots |-> slots] ELSE t.index[h]]
        /\ u.heightOf = [x \in DOMAIN t.heightOf \cup {hash} |->
                            IF x = hash THEN height ELSE t.heightOf[x]]
        /\ u.num = t.num + Cardinality(slots)
    BY <1>1 DEF InsertAt
  <1> HIDE DEF u
  <1>3. \A n \in nfs : u.cells[alloc[n]] = n
    BY <1>1, <1>2
  <1>4. \A c \in Cells \ slots : u.cells[c] = t.cells[c]
    BY <1>2
  <1>5. Occupied(u) = Occupied(t) \cup slots /\ Occupied(t) \cap slots = {}
    BY <1>1, <1>2, <1>3, <1>4, TableAssumption DEF Occupied
  <1>6. Shaped(u)
    <2>1. u.cells \in Contents
      <3>1. \A c \in Cells : u.cells[c] \in Nullifiers \cup {Empty}
        BY <1>1, <1>3, <1>4 DEF Consistent, Shaped, Contents
      <3>2. QED
        BY <1>2, <3>1 DEF Contents
    <2>2. u.index \in Indexes
      <3>1. DOMAIN t.index \subseteq TableHeights
        BY IndexType DEF Consistent, Shaped
      <3>2. \A h \in DOMAIN t.index : t.index[h] \in [hash : BlockHashes, slots : SUBSET Cells]
        BY IndexType DEF Consistent, Shaped
      <3>3. slots \in SUBSET Cells
        BY <1>1
      <3>4. QED
        BY <1>2, <3>1, <3>2, <3>3, IndexType
    <2>3. QED
      BY <2>1, <2>2 DEF Shaped
  <1>7. OwnedOnce(u)
    <2>1. Owned(t.index) \cap slots = {} /\ Owned(t.index) = Occupied(t)
      BY <1>5 DEF Consistent, OwnedOnce
    <2>2. \A h \in DOMAIN t.index : t.index[h].slots \cap slots = {}
      BY <2>1 DEF Owned
    <2>3. Owned(u.index) = Owned(t.index) \cup slots
      BY <1>2 DEF Owned
    <2>4. \A g, h \in DOMAIN u.index : g # h => u.index[g].slots \cap u.index[h].slots = {}
      BY <1>2, <2>2 DEF Consistent, OwnedOnce
    <2>5. QED
      BY <1>5, <2>1, <2>3, <2>4 DEF OwnedOnce
  <1>8. HashesDiffer(u)
    BY <1>2 DEF HashesDiffer, Consistent, Counted
  <1>9. InOwnBucket(u)
    BY <1>1, <1>3, <1>4 DEF InOwnBucket, Consistent
  <1>10. Counted(u)
    <2>1. IsFiniteSet(Occupied(t)) /\ IsFiniteSet(slots)
      BY <1>1, CellsFinite, FS_Subset DEF Occupied
    <2>2. u.num = Cardinality(Occupied(u))
      <3>1. Cardinality(Occupied(t) \cup slots)
              = Cardinality(Occupied(t)) + Cardinality(slots) - Cardinality(Occupied(t) \cap slots)
        BY <2>1, FS_Union
      <3>2. Cardinality(Occupied(t) \cap slots) = 0
        BY <1>5, FS_EmptySet
      <3>3. Cardinality(Occupied(t)) \in Nat /\ Cardinality(slots) \in Nat
        BY <2>1, FS_CardinalityType
      <3>4. QED
        BY <1>2, <1>5, <3>1, <3>2, <3>3 DEF Counted
    <2>3. DOMAIN t.heightOf = {t.index[h].hash : h \in DOMAIN t.index}
      BY DEF Counted
    <2>4. {u.index[h].hash : h \in DOMAIN u.index} = DOMAIN t.heightOf \cup {hash}
      BY <1>2, <2>3
    <2>5. u.heightOf \in [{u.index[h].hash : h \in DOMAIN u.index} -> TableHeights]
      <3>1. t.heightOf \in [DOMAIN t.heightOf -> TableHeights]
        BY <2>3 DEF Counted
      <3>2. u.heightOf \in [DOMAIN t.heightOf \cup {hash} -> TableHeights]
        BY <1>2, <3>1
      <3>3. QED
        BY <2>4, <3>2
    <2>6. \A h \in DOMAIN u.index : u.heightOf[u.index[h].hash] = h
      BY <1>2, <2>3 DEF Counted
    <2>7. QED
      BY <2>2, <2>5, <2>6 DEF Counted
  <1>11. QED
    BY <1>6, <1>7, <1>8, <1>9, <1>10 DEF Consistent, u

\* Rollback and eviction of any of the blocks keep the books.
LEMMA RemoveKeeps ==
  ASSUME NEW t, Consistent(t), Counted(t), NEW hs \in SUBSET DOMAIN t.index
  PROVE  Consistent(Remove(t, hs)) /\ Counted(Remove(t, hs))
  <1> DEFINE u == Remove(t, hs)
             freed == UNION {t.index[h].slots : h \in hs}
             gone == {t.index[h].hash : h \in hs}
             left == DOMAIN t.index \ hs
  <1>1. /\ u.cells = [c \in Cells |-> IF c \in freed THEN Empty ELSE t.cells[c]]
        /\ u.index = [h \in left |-> t.index[h]]
        /\ u.heightOf = [x \in DOMAIN t.heightOf \ gone |-> t.heightOf[x]]
        /\ u.num = t.num - Cardinality({e \in Entries(t.index) : e[1] \in hs})
    BY DEF Remove
  <1> HIDE DEF u
  <1>2. /\ DOMAIN t.index \subseteq TableHeights
        /\ \A h \in DOMAIN t.index :
             t.index[h] \in [hash : BlockHashes, slots : SUBSET Cells]
        /\ t.cells \in Contents
    BY IndexType DEF Consistent, Shaped
  <1>3. freed \subseteq Owned(t.index) /\ Owned(t.index) = Occupied(t)
    BY DEF Owned, Consistent, OwnedOnce
  <1>4. Occupied(u) = Occupied(t) \ freed
    BY <1>1 DEF Occupied
  <1>5. Owned(u.index) = Owned(t.index) \ freed
    <2>1. Owned(u.index) = UNION {t.index[h].slots : h \in left}
      BY <1>1 DEF Owned
    <2>2. \A g \in left, h \in hs : t.index[g].slots \cap t.index[h].slots = {}
      BY DEF Consistent, OwnedOnce
    <2>3. QED
      BY <2>1, <2>2 DEF Owned
  <1>6. Shaped(u)
    <2>1. u.cells \in Contents
      BY <1>1, <1>2 DEF Contents
    <2>2. u.index \in Indexes
      BY <1>1, <1>2, IndexType
    <2>3. QED
      BY <2>1, <2>2 DEF Shaped
  <1>7. OwnedOnce(u)
    <2>1. Occupied(u) = Owned(u.index)
      BY <1>3, <1>4, <1>5
    <2>2. \A g, h \in DOMAIN t.index : g # h => t.index[g].slots \cap t.index[h].slots = {}
      BY DEF Consistent, OwnedOnce
    <2>3. \A g, h \in DOMAIN u.index : g # h => u.index[g].slots \cap u.index[h].slots = {}
      BY <1>1, <2>2
    <2>4. QED
      BY <2>1, <2>3 DEF OwnedOnce
  <1>8. HashesDiffer(u)
    BY <1>1 DEF HashesDiffer, Consistent
  <1>9. InOwnBucket(u)
    BY <1>1 DEF InOwnBucket, Consistent
  <1>10. u.num = Cardinality(Occupied(u))
    <2>1. /\ Cardinality({e \in Entries(t.index) : e[1] \in hs}) = Cardinality(freed)
          /\ IsFiniteSet(freed)
      BY EntryCount
    <2>2. IsFiniteSet(Occupied(t))
      BY CellsFinite, FS_Subset DEF Occupied
    <2>3. Cardinality(Occupied(t) \ freed)
            = Cardinality(Occupied(t)) - Cardinality(Occupied(t) \cap freed)
      BY <2>1, <2>2, FS_Difference
    <2>4. Occupied(t) \cap freed = freed
      BY <1>3
    <2>5. QED
      BY <1>1, <1>4, <2>1, <2>3, <2>4 DEF Counted
  <1>11. Counted(u)
    <2>1. DOMAIN t.heightOf = {t.index[h].hash : h \in DOMAIN t.index}
      BY DEF Counted
    <2>2. {u.index[h].hash : h \in DOMAIN u.index} = {t.index[h].hash : h \in left}
      BY <1>1
    <2>3. {t.index[h].hash : h \in left} = DOMAIN t.heightOf \ gone
      BY <2>1 DEF Consistent, HashesDiffer
    <2>4. u.heightOf \in [{u.index[h].hash : h \in DOMAIN u.index} -> TableHeights]
      <3>1. t.heightOf \in [DOMAIN t.heightOf -> TableHeights]
        BY <2>1 DEF Counted
      <3>2. u.heightOf \in [DOMAIN t.heightOf \ gone -> TableHeights]
        BY <1>1, <3>1
      <3>3. QED
        BY <2>2, <2>3, <3>2
    <2>5. \A h \in DOMAIN u.index : u.heightOf[u.index[h].hash] = h
      BY <1>1, <2>2, <2>3 DEF Counted
    <2>6. QED
      BY <1>10, <2>4, <2>5 DEF Counted
  <1>12. QED
    BY <1>6, <1>7, <1>8, <1>9, <1>11 DEF Consistent, u

\* from_snapshot rebuilds the hash map and the count that insert and remove keep.
LEMMA RestoreKeeps ==
  ASSUME NEW s, Consistent(s)
  PROVE  Consistent(FromSnapshot(s)) /\ Counted(FromSnapshot(s))
  <1> DEFINE u == FromSnapshot(s)
             hashes == {s.index[h].hash : h \in DOMAIN s.index}
  <1>1. /\ u.cells = s.cells
        /\ u.index = s.index
        /\ u.heightOf = [x \in hashes |-> CHOOSE h \in DOMAIN s.index : s.index[h].hash = x]
        /\ u.num = Cardinality(Entries(s.index))
    BY DEF FromSnapshot
  <1> HIDE DEF u
  <1>2. Consistent(u)
    BY <1>1 DEF Consistent, Shaped, OwnedOnce, HashesDiffer, InOwnBucket, Occupied
  <1>3. u.num = Cardinality(Occupied(u))
    <2>1. {e \in Entries(s.index) : e[1] \in DOMAIN s.index} = Entries(s.index)
      BY DEF Entries
    <2>2. Cardinality(Entries(s.index)) = Cardinality(Owned(s.index))
      BY <2>1, EntryCount DEF Owned
    <2>3. QED
      BY <1>1, <1>2, <2>2 DEF Consistent, OwnedOnce
  <1>4. \A h \in DOMAIN s.index :
          (CHOOSE g \in DOMAIN s.index : s.index[g].hash = s.index[h].hash) = h
    BY DEF Consistent, HashesDiffer
  <1>5. DOMAIN s.index \subseteq TableHeights
    BY IndexType DEF Consistent, Shaped
  <1>6. u.heightOf \in [{u.index[h].hash : h \in DOMAIN u.index} -> TableHeights]
    <2>1. u.heightOf \in [hashes -> TableHeights]
      BY <1>1, <1>4, <1>5
    <2>2. {u.index[h].hash : h \in DOMAIN u.index} = hashes
      BY <1>1
    <2>3. QED
      BY <2>1, <2>2
  <1>7. \A h \in DOMAIN u.index : u.heightOf[u.index[h].hash] = h
    BY <1>1, <1>4
  <1>8. QED
    BY <1>2, <1>3, <1>6, <1>7 DEF Counted, u

-----------------------------------------------------------------------------
(* The inductive invariant *)

LEMMA InvInit == Init => IInv
  BY EmptyIsConsistent DEF Init, IInv

LEMMA InvNext == IInv /\ [Next]_vars => IInv'
  <1> SUFFICES ASSUME IInv, [Next]_vars PROVE IInv'
    OBVIOUS
  <1>1. ASSUME NEW height \in TableHeights, NEW hash \in BlockHashes,
               NEW nfs \in SUBSET Nullifiers, Insert(height, hash, nfs)
        PROVE  IInv'
    <2>1. ASSUME Fits(table, nfs) PROVE Consistent(table') /\ Counted(table')
      <3>1. PICK alloc \in Allocations(table, nfs) : table' = InsertAt(table, height, hash, alloc)
        BY <1>1, <2>1 DEF Insert
      <3>2. QED
        BY <1>1, <3>1, InsertKeeps DEF Insert, IInv
    <2>2. Consistent(table') /\ Counted(table')
      <3>1. ASSUME ~Fits(table, nfs) PROVE table' = table
        BY <1>1, <3>1 DEF Insert
      <3>2. QED
        BY <2>1, <3>1 DEF IInv
    <2>3. Consistent(saved')
      BY <1>1 DEF Insert, IInv
    <2>4. QED
      BY <2>2, <2>3 DEF IInv, Consistent, Counted, Shaped, OwnedOnce, HashesDiffer,
         InOwnBucket, Occupied, Owned
  <1>2. ASSUME NEW hs \in SUBSET DOMAIN table.index, table' = Remove(table, hs), saved' = saved
        PROVE  IInv'
    <2>1. Consistent(table') /\ Counted(table') /\ Consistent(saved')
      BY <1>2, RemoveKeeps DEF IInv
    <2>2. QED
      BY <2>1 DEF IInv, Consistent, Counted, Shaped, OwnedOnce, HashesDiffer,
         InOwnBucket, Occupied, Owned
  <1>3. ASSUME NEW rollback_to \in TableHeights, Rollback(rollback_to)
        PROVE  IInv'
    BY <1>2, <1>3 DEF Rollback
  <1>4. CASE EvictToSize
    BY <1>2, <1>4 DEF EvictToSize, Evicted
  <1>5. CASE Save
    BY <1>5 DEF Save, IInv, ToSnapshot, Consistent, Counted, Shaped, OwnedOnce, HashesDiffer,
       InOwnBucket, Occupied, Owned
  <1>6. CASE Restart
    <2>1. Consistent(table') /\ Counted(table') /\ Consistent(saved')
      BY <1>6, RestoreKeeps DEF Restart, IInv
    <2>2. QED
      BY <2>1 DEF IInv, Consistent, Counted, Shaped, OwnedOnce, HashesDiffer,
         InOwnBucket, Occupied, Owned
  <1>7. CASE UNCHANGED vars
    BY <1>7 DEF vars, IInv, Consistent, Counted, Shaped, OwnedOnce, HashesDiffer,
       InOwnBucket, Occupied, Owned
  <1>8. QED
    BY <1>1, <1>3, <1>4, <1>5, <1>6, <1>7 DEF Next

LEMMA InvAlways == Spec => []IInv
  BY InvInit, InvNext, PTL DEF Spec

LEMMA InvImplies ==
  IInv => TypeOK /\ SlotsOwnedOnce /\ NumIsExact /\ HashMapInvertsIndex /\ ContainsIsExact
  <1> SUFFICES ASSUME IInv
               PROVE  TypeOK /\ SlotsOwnedOnce /\ NumIsExact /\ HashMapInvertsIndex
                        /\ ContainsIsExact
    OBVIOUS
  <1>1. NumIsExact /\ SlotsOwnedOnce
    BY DEF IInv, Counted, Consistent, OwnedOnce, NumIsExact, SlotsOwnedOnce
  <1>2. HashMapInvertsIndex
    BY DEF IInv, Counted, HashMapInvertsIndex
  <1>3. TypeOK
    <2>1. table.heightOf \in UNION {[xs -> TableHeights] : xs \in SUBSET BlockHashes}
      <3>1. {table.index[h].hash : h \in DOMAIN table.index} \in SUBSET BlockHashes
        BY IndexType DEF IInv, Consistent, Shaped
      <3>2. QED
        BY <3>1 DEF IInv, Counted
    <2>2. table.num \in 0..Cardinality(Cells)
      <3>1. Occupied(table) \subseteq Cells
        BY DEF Occupied
      <3>2. /\ IsFiniteSet(Occupied(table))
            /\ Cardinality(Occupied(table)) <= Cardinality(Cells)
        BY <3>1, CellsFinite, FS_Subset
      <3>3. Cardinality(Occupied(table)) \in Nat /\ Cardinality(Cells) \in Nat
        BY <3>2, CellsFinite, FS_CardinalityType
      <3>4. QED
        BY <1>1, <3>2, <3>3 DEF NumIsExact
    <2>3. QED
      BY <2>1, <2>2 DEF TypeOK, IInv, Consistent, Shaped
  <1>4. ContainsIsExact
    <2> SUFFICES ASSUME NEW n \in Nullifiers
                 PROVE  Contains(table, n)
                          <=> \E c \in Owned(table.index) : table.cells[c] = n
      BY DEF ContainsIsExact
    <2>1. n # Empty /\ BucketOf[n] \in Buckets
      BY TableAssumption
    <2>2. Owned(table.index) = {c \in Cells : table.cells[c] # Empty}
      BY <1>1 DEF SlotsOwnedOnce, Occupied
    <2>3. ASSUME Contains(table, n)
          PROVE  \E c \in Owned(table.index) : table.cells[c] = n
      <3>1. PICK s \in Slots : table.cells[<<BucketOf[n], s>>] = n
        BY <2>3 DEF Contains
      <3>2. <<BucketOf[n], s>> \in Cells
        BY <2>1 DEF Cells
      <3>3. QED
        BY <2>1, <2>2, <3>1, <3>2
    <2>4. ASSUME NEW c \in Owned(table.index), table.cells[c] = n
          PROVE  Contains(table, n)
      <3>1. c \in Cells /\ c[1] = BucketOf[n]
        BY <2>1, <2>2, <2>4 DEF IInv, Consistent, InOwnBucket
      <3>2. PICK b \in Buckets, s \in Slots : c = <<b, s>>
        BY <3>1 DEF Cells
      <3>3. QED
        BY <2>4, <3>1, <3>2 DEF Contains
    <2>5. QED
      BY <2>3, <2>4
  <1>5. QED
    BY <1>1, <1>2, <1>3, <1>4

\* Every reachable table and snapshot is well typed (struct HashTableDb).
THEOREM TableTypeOK == Spec => []TypeOK
  BY InvAlways, InvImplies, PTL

\* insert_block, rollback_block, evict_oldest_block and from_snapshot never let
\* two blocks share a slot, and never lose or strand an entry.
THEOREM SlotsAreOwnedOnce == Spec => []SlotsOwnedOnce
  BY InvAlways, InvImplies, PTL

\* num_entries, which eviction compares with the target size, never drifts.
THEOREM CountIsExact == Spec => []NumIsExact
  BY InvAlways, InvImplies, PTL

\* rollback_block and evict_oldest_block always find the block they are given.
THEOREM HashMapIsInverse == Spec => []HashMapInvertsIndex
  BY InvAlways, InvImplies, PTL

\* contains, and a client's one-row query, find exactly the held nullifiers.
THEOREM LookupIsExact == Spec => []ContainsIsExact
  BY InvAlways, InvImplies, PTL

-----------------------------------------------------------------------------
(* The table implements the map *)

\* Removing blocks from the table removes them from the map and changes no other.
LEMMA RemoveIsKeep ==
  ASSUME NEW t, Consistent(t), NEW hs \in SUBSET DOMAIN t.index
  PROVE  BlocksOf(Remove(t, hs)) = Abstract!Keep(BlocksOf(t), DOMAIN t.index \ hs)
  <1> DEFINE u == Remove(t, hs)
             left == DOMAIN t.index \ hs
             freed == UNION {t.index[h].slots : h \in hs}
  <1>1. /\ u.cells = [c \in Cells |-> IF c \in freed THEN Empty ELSE t.cells[c]]
        /\ u.index = [h \in left |-> t.index[h]]
    BY DEF Remove
  <1> HIDE DEF u
  <1>2. \A h \in left : t.index[h].slots \subseteq Cells
    BY IndexType DEF Consistent, Shaped
  <1>3. \A h \in left : t.index[h].slots \cap freed = {}
    BY DEF Consistent, OwnedOnce
  <1>4. \A h \in left : \A c \in t.index[h].slots : u.cells[c] = t.cells[c]
    BY <1>1, <1>2, <1>3
  <1>5. \A h \in left : {u.cells[c] : c \in u.index[h].slots} = {t.cells[c] : c \in t.index[h].slots}
    <2> SUFFICES ASSUME NEW h \in left
                 PROVE  {u.cells[c] : c \in u.index[h].slots} = {t.cells[c] : c \in t.index[h].slots}
      OBVIOUS
    <2>1. u.index[h].slots = t.index[h].slots
      BY <1>1
    <2>2. \A c \in t.index[h].slots : u.cells[c] = t.cells[c]
      BY <1>4
    <2>3. QED
      BY <2>1, <2>2
  <1>6. BlocksOf(u) = [h \in left |-> [hash |-> t.index[h].hash,
                                       nfs |-> {t.cells[c] : c \in t.index[h].slots}]]
    BY <1>1, <1>5 DEF BlocksOf
  <1>7. QED
    BY <1>6 DEF BlocksOf, Abstract!Keep, u

\* Eviction takes the lowest blocks.
LEMMA EvictedAreOldest ==
  ASSUME NEW t, Consistent(t), NEW size \in Nat
  PROVE  /\ Evicted(t, size) \subseteq DOMAIN t.index
         /\ \A h \in Evicted(t, size), g \in DOMAIN t.index \ Evicted(t, size) : h < g
  <1> DEFINE From(h) == {e \in Entries(t.index) : e[1] >= h}
  <1>1. DOMAIN t.index \subseteq Nat
    BY IndexType, StoreAssumption DEF Consistent, Shaped
  <1>2. IsFiniteSet(Entries(t.index))
    <2>1. {e \in Entries(t.index) : e[1] \in DOMAIN t.index} = Entries(t.index)
      BY DEF Entries
    <2>2. QED
      BY <2>1, EntryCount
  <1>3. \A e \in Entries(t.index) : e[1] \in Nat
    BY <1>1 DEF Entries
  <1>4. SUFFICES ASSUME NEW h \in DOMAIN t.index, NEW g \in DOMAIN t.index,
                        Cardinality(From(h)) > size, ~(Cardinality(From(g)) > size), ~(h < g)
                 PROVE  FALSE
    BY DEF Evicted
  <1>5. From(h) \subseteq From(g)
    BY <1>1, <1>3, <1>4
  <1>6. IsFiniteSet(From(g)) /\ IsFiniteSet(From(h))
    BY <1>2, FS_Subset
  <1>7. Cardinality(From(h)) <= Cardinality(From(g))
    BY <1>5, <1>6, FS_Subset
  <1>8. Cardinality(From(h)) \in Nat /\ Cardinality(From(g)) \in Nat
    BY <1>6, FS_CardinalityType
  <1> HIDE DEF From
  <1>9. QED
    BY <1>4, <1>7, <1>8

LEMMA MapInit == Init => Abstract!Init
  BY DEF Init, Abstract!Init, Abstract!Nothing, BlocksOf, EmptyTable, ToSnapshot

LEMMA InsertAdds ==
  ASSUME IInv, NEW height \in TableHeights, NEW hash \in BlockHashes,
         NEW nfs \in SUBSET Nullifiers, Insert(height, hash, nfs), Fits(table, nfs)
  PROVE  Abstract!Add
  <1>1. PICK alloc \in Allocations(table, nfs) : table' = InsertAt(table, height, hash, alloc)
    BY DEF Insert
  <1> DEFINE slots == {alloc[n] : n \in nfs}
             old == DOMAIN table.index
  <1>2. /\ alloc \in [nfs -> Cells]
        /\ \A n \in nfs : alloc[n] \in Cells /\ table.cells[alloc[n]] = Empty
        /\ \A n, m \in nfs : alloc[n] = alloc[m] => n = m
    BY DEF Allocations, FreeCells
  <1>3. /\ table'.cells = [c \in Cells |-> IF c \in slots THEN CHOOSE n \in nfs : alloc[n] = c
                                                        ELSE table.cells[c]]
        /\ table'.index = [h \in old \cup {height} |->
                        IF h = height THEN [hash |-> hash, slots |-> slots] ELSE table.index[h]]
    BY <1>1, <1>2 DEF InsertAt
  <1>4. height \notin old /\ hash \notin DOMAIN table.heightOf /\ nfs \cap Held(table) = {}
        /\ saved' = saved
    BY DEF Insert
  <1>5. \A h \in old : \A c \in table.index[h].slots : c \in Cells /\ table.cells[c] # Empty
    BY DEF IInv, Consistent, OwnedOnce, Owned, Occupied
  <1>6. {table'.cells[c] : c \in slots} = nfs
    <2>1. \A n \in nfs : table'.cells[alloc[n]] = n
      BY <1>2, <1>3
    <2>2. QED
      BY <2>1
  <1>7. \A h \in old : {table'.cells[c] : c \in table.index[h].slots}
                         = {table.cells[c] : c \in table.index[h].slots}
    <2>1. \A h \in old : \A c \in table.index[h].slots : table'.cells[c] = table.cells[c]
      BY <1>2, <1>3, <1>5
    <2>2. QED
      BY <2>1
  <1>8. BlocksOf(table)' = [g \in old \cup {height} |->
                              IF g = height THEN [hash |-> hash, nfs |-> nfs]
                              ELSE BlocksOf(table)[g]]
    <2>1. DOMAIN table'.index = old \cup {height}
      BY <1>3
    <2>2. table'.index[height] = [hash |-> hash, slots |-> slots]
      BY <1>3
    <2>3. \A g \in old : table'.index[g] = table.index[g] /\ g # height
      BY <1>3, <1>4
    <2>4. \A g \in old : BlocksOf(table)[g] =
            [hash |-> table.index[g].hash, nfs |-> {table.cells[c] : c \in table.index[g].slots}]
      BY DEF BlocksOf
    <2> HIDE DEF slots
    <2>5. \A g \in old \cup {height} :
            [hash |-> table'.index[g].hash, nfs |-> {table'.cells[c] : c \in table'.index[g].slots}]
              = IF g = height THEN [hash |-> hash, nfs |-> nfs] ELSE BlocksOf(table)[g]
      <3>1. ASSUME NEW g \in old
            PROVE  [hash |-> table'.index[g].hash,
                    nfs |-> {table'.cells[c] : c \in table'.index[g].slots}] = BlocksOf(table)[g]
        BY <1>7, <2>3, <2>4
      <3>2. [hash |-> table'.index[height].hash,
             nfs |-> {table'.cells[c] : c \in table'.index[height].slots}]
              = [hash |-> hash, nfs |-> nfs]
        BY <1>6, <2>2
      <3>3. QED
        BY <2>3, <3>1, <3>2
    <2>6. QED
      BY <2>1, <2>5 DEF BlocksOf
  <1>9. \A g \in old : table.index[g].hash # hash
    BY <1>4 DEF IInv, Counted
  <1>10. \A g \in old : BlocksOf(table)[g].nfs \cap nfs = {}
    BY <1>4, <1>5 DEF BlocksOf, Held
  <1>11. DOMAIN BlocksOf(table) = old /\ \A g \in old : BlocksOf(table)[g].hash = table.index[g].hash
    BY DEF BlocksOf
  <1>12. BlocksOf(saved)' = BlocksOf(saved)
    BY <1>4 DEF BlocksOf
  <1>13. /\ height \in TableHeights \ DOMAIN BlocksOf(table)
         /\ \A g \in DOMAIN BlocksOf(table) :
              BlocksOf(table)[g].hash # hash /\ BlocksOf(table)[g].nfs \cap nfs = {}
    BY <1>4, <1>9, <1>10, <1>11
  <1>14. BlocksOf(table)' = [g \in DOMAIN BlocksOf(table) \cup {height} |->
                               IF g = height THEN [hash |-> hash, nfs |-> nfs]
                               ELSE BlocksOf(table)[g]]
    BY <1>8, <1>11
  <1>15. QED
    BY <1>12, <1>13, <1>14 DEF Abstract!Add

LEMMA MapNext == IInv /\ [Next]_vars => [Abstract!Next]_<<BlocksOf(table), BlocksOf(saved)>>
  <1> SUFFICES ASSUME IInv, [Next]_vars
               PROVE  \/ Abstract!Next
                      \/ UNCHANGED <<BlocksOf(table), BlocksOf(saved)>>
    OBVIOUS
  <1>1. ASSUME NEW height \in TableHeights, NEW hash \in BlockHashes,
               NEW nfs \in SUBSET Nullifiers, Insert(height, hash, nfs)
        PROVE  Abstract!Add \/ UNCHANGED <<BlocksOf(table), BlocksOf(saved)>>
    <2>1. CASE Fits(table, nfs)
      BY <1>1, <2>1, InsertAdds
    <2>2. CASE ~Fits(table, nfs)
      BY <1>1, <2>2 DEF Insert, BlocksOf
    <2>3. QED
      BY <2>1, <2>2
  <1>2. ASSUME NEW rollback_to \in TableHeights, Rollback(rollback_to)
        PROVE  Abstract!DropNewest
    <2> DEFINE above == {h \in DOMAIN table.index : h > rollback_to}
    <2>1. BlocksOf(table)' = Abstract!Keep(BlocksOf(table), DOMAIN table.index \ above)
      <3>1. BlocksOf(Remove(table, above))
              = Abstract!Keep(BlocksOf(table), DOMAIN table.index \ above)
        BY RemoveIsKeep DEF IInv
      <3>2. BlocksOf(table)' = BlocksOf(Remove(table, above))
        BY <1>2 DEF Rollback, BlocksOf
      <3>3. QED
        BY <3>1, <3>2
    <2>2. DOMAIN table.index \subseteq Nat
      BY IndexType, StoreAssumption DEF IInv, Consistent, Shaped
    <2>3. DOMAIN BlocksOf(table) = DOMAIN table.index
      BY DEF BlocksOf
    <2>4. DOMAIN table.index \cap (DOMAIN table.index \ above) = DOMAIN table.index \cap 0..rollback_to
      BY <2>2, StoreAssumption
    <2>5. BlocksOf(table)' = Abstract!Keep(BlocksOf(table), 0..rollback_to)
      BY <2>1, <2>3, <2>4 DEF Abstract!Keep
    <2>6. BlocksOf(saved)' = BlocksOf(saved)
      BY <1>2 DEF Rollback, BlocksOf
    <2>7. QED
      BY <2>5, <2>6 DEF Abstract!DropNewest
  <1>3. CASE EvictToSize
    <2> DEFINE gone == Evicted(table, TargetSize)
    <2>1. /\ gone \subseteq DOMAIN table.index
          /\ \A h \in gone, g \in DOMAIN table.index \ gone : h < g
      BY EvictedAreOldest, StoreAssumption DEF IInv
    <2>2. BlocksOf(table)' = Abstract!Keep(BlocksOf(table), DOMAIN table.index \ gone)
      <3>1. BlocksOf(Remove(table, gone))
              = Abstract!Keep(BlocksOf(table), DOMAIN table.index \ gone)
        BY <2>1, RemoveIsKeep DEF IInv
      <3>2. BlocksOf(table)' = BlocksOf(Remove(table, gone))
        BY <1>3 DEF EvictToSize, BlocksOf
      <3>3. QED
        BY <3>1, <3>2
    <2>3. DOMAIN BlocksOf(table) = DOMAIN table.index
      BY DEF BlocksOf
    <2>4. BlocksOf(saved)' = BlocksOf(saved)
      BY <1>3 DEF EvictToSize, BlocksOf
    <2>5. Abstract!DropOldest
      BY <2>1, <2>2, <2>3, <2>4 DEF Abstract!DropOldest
    <2>6. QED
      BY <2>5 DEF Abstract!Next
  <1>4. CASE Save
    BY <1>4 DEF Save, ToSnapshot, BlocksOf, Abstract!Next, Abstract!Save
  <1>5. CASE Restart
    BY <1>5 DEF Restart, FromSnapshot, BlocksOf, Abstract!Next, Abstract!Restart
  <1>6. CASE UNCHANGED vars
    BY <1>6 DEF vars, BlocksOf
  <1>7. QED
    BY <1>1, <1>2, <1>3, <1>4, <1>5, <1>6 DEF Next, Abstract!Next

\* The bucket table, its block index and its snapshots implement a map from
\* heights to blocks under inserts, reorgs, evictions, saves and restarts.
THEOREM TableIsBlockMap == Spec => IsBlockMap
  BY InvAlways, MapInit, MapNext, PTL DEF Spec, IsBlockMap, Abstract!Spec
=============================================================================
