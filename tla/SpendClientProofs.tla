------------------------- MODULE SpendClientProofs -------------------------
(***************************************************************************)
(* For all chains, depths, batch sizes, table sizes and snapshot           *)
(* intervals, wherever the process ends and however the node moves while   *)
(* it keeps its confirmed blocks: the standalone nullifier server's tables *)
(* hold consecutive confirmed blocks, a new one is filled as far down as   *)
(* its size allows, its own directory always opens, and a client that      *)
(* keeps the metadata it once read is never answered wrongly.              *)
(***************************************************************************)
EXTENDS SpendClient, Induction

-----------------------------------------------------------------------------
(* Snapshot files: what a directory holds, and that a snapshot is an atomic cell *)

SnapshotContents == Snapshots \cup {OldSnapshot}
MarkerContents == {OurMarker, OtherMarker}

\* What a directory may hold: a file under its final name is complete and synced.
Whole(dir) ==
  /\ DOMAIN dir = Names
  /\ dir["snapshot.bin"] \in [data : SnapshotContents, where : {"disk"}] \cup {NoFile}
  /\ dir["dataset.json"] \in [data : MarkerContents, where : {"disk"}] \cup {NoFile}

\* The write in progress: what it will rename is the content it was asked to write.
Writing ==
  \/ io = Idle
  \/ /\ io.step \in {"create", "write", "sync", "rename"}
     /\ \/ io.file = "snapshot.bin" /\ io.data \in Snapshots
        \/ io.file = "dataset.json" /\ io.data = OurMarker
     /\ io.step = "rename" => disk[TmpOf(io.file)] = File(io.data, "disk")

\* The inductive invariant.
FilesInv == Whole(disk) /\ Whole(settled) /\ Writing

-----------------------------------------------------------------------------
LEMMA DirectoriesWhole == \A dir \in Directories : Whole(dir)
  BY FilesAssumption
  DEF Directories, Whole, Names, Finals, Tmps, SnapshotContents, MarkerContents, File

\* A file that is not there is not a file, and its content tells which of the two it is.
LEMMA ContentOfWhole ==
  ASSUME NEW dir, Whole(dir)
  PROVE  Content(dir, "snapshot.bin") \in CellValues
  BY DEF Whole, Content, CellValues, SnapshotContents, File

\* What a power loss does to a file that is whole: nothing.
LEMMA PowerLossKeepsWhole ==
  ASSUME NEW dir, Whole(dir), NEW d2,
         NEW torn \in SUBSET {f \in Names : dir[f] # NoFile /\ dir[f].where = "cache"},
         d2 = [f \in Names |->
                 IF dir[f] = NoFile THEN NoFile
                 ELSE File(IF f \in torn THEN Torn ELSE dir[f].data, "disk")]
  PROVE  Whole(d2) /\ Content(d2, "snapshot.bin") = Content(dir, "snapshot.bin")
  <1>1. \A f \in Finals : dir[f] = NoFile \/ dir[f] = File(dir[f].data, "disk")
    BY DEF Whole, Finals, File
  <1>2. \A f \in Finals : f \notin torn
    <2> SUFFICES ASSUME NEW f \in Finals, f \in torn PROVE FALSE
      OBVIOUS
    <2>1. dir[f] # NoFile /\ dir[f].where = "cache"
      OBVIOUS
    <2>2. dir[f].where = "disk"
      BY <2>1 DEF Whole, Finals
    <2> QED
      BY <2>1, <2>2
  <1>3. \A f \in Finals : f \in Names /\ d2[f] = dir[f]
    BY <1>1, <1>2 DEF Names
  <1>4. DOMAIN d2 = Names
    OBVIOUS
  <1> QED
    BY <1>3, <1>4 DEF Whole, Content, Finals

-----------------------------------------------------------------------------
LEMMA InitWhole == FilesInit => FilesInv
  BY DirectoriesWhole DEF FilesInit, FilesInv, Writing

LEMMA NextWhole == FilesInv /\ [FilesNext]_diskVars => FilesInv'
  <1> SUFFICES ASSUME FilesInv, [FilesNext]_diskVars PROVE FilesInv'
    OBVIOUS
  <1> USE DEF FilesInv
  <1>1. CASE \E data \in Snapshots : BeginWrite("snapshot.bin", data) /\ settled' \in {disk, settled}
    BY <1>1 DEF BeginWrite, Writing
  <1>2. CASE BeginWrite("dataset.json", OurMarker) /\ settled' \in {disk, settled}
    BY <1>2 DEF BeginWrite, Writing
  <1>3. CASE WriteStep
    <2>1. io.step # "idle" /\ io.file \in Finals
      BY <1>3 DEF WriteStep, CreateTmp, WriteTmp, SyncTmp, Writing, Idle, Finals
    <2>2. TmpOf(io.file) \in Tmps
      BY <2>1 DEF TmpOf, Finals, Tmps
    <2>3. \E f \in Tmps : \E file : disk' = [disk EXCEPT ![f] = file]
      BY <1>3, <2>2 DEF WriteStep, CreateTmp, WriteTmp, SyncTmp
    <2>4. Whole(disk)'
      BY <2>3 DEF Whole, Tmps, Names
    <2>5. CASE CreateTmp
      BY <2>1, <2>4, <2>5 DEF CreateTmp, Writing, Idle
    <2>6. CASE WriteTmp
      BY <2>1, <2>4, <2>6 DEF WriteTmp, Writing, Idle
    <2>7. CASE SyncTmp
      <3>1. disk'[TmpOf(io.file)] = File(io.data, "disk")
        BY <2>2, <2>7 DEF SyncTmp, Whole, Names
      <3>2. io'.step = "rename" /\ io'.file = io.file /\ io'.data = io.data
        BY <2>1, <2>7 DEF SyncTmp, Writing, Idle
      <3>3. Writing'
        BY <2>1, <3>1, <3>2 DEF Writing, Idle
      <3> QED
        BY <2>4, <2>7, <3>3 DEF SyncTmp
    <2> QED
      BY <1>3, <2>5, <2>6, <2>7 DEF WriteStep
  <1>4. CASE RenameTmp
    <2>1. /\ disk[TmpOf(io.file)] = File(io.data, "disk")
          /\ \/ io.file = "snapshot.bin" /\ io.data \in Snapshots
             \/ io.file = "dataset.json" /\ io.data = OurMarker
      BY <1>4 DEF RenameTmp, Writing, Idle
    <2>2. Writing' /\ settled' = settled
      BY <1>4 DEF RenameTmp, Writing
    <2>3. CASE io.file = "snapshot.bin" /\ io.data \in Snapshots
      <3>1. disk' = [disk EXCEPT !["snapshot.bin"] = File(io.data, "disk"),
                                 !["snapshot.bin.tmp"] = NoFile]
        BY <1>4, <2>1, <2>3 DEF RenameTmp, TmpOf
      <3>2. Whole(disk)'
        BY <2>3, <3>1 DEF Whole, Names, Finals, Tmps, SnapshotContents, File
      <3> QED
        BY <2>2, <3>2
    <2>4. CASE io.file = "dataset.json" /\ io.data = OurMarker
      <3>1. disk' = [disk EXCEPT !["dataset.json"] = File(OurMarker, "disk"),
                                 !["dataset.json.tmp"] = NoFile]
        BY <1>4, <2>1, <2>4 DEF RenameTmp, TmpOf
      <3>2. Whole(disk)'
        BY <3>1 DEF Whole, Names, Finals, Tmps, MarkerContents, File
      <3> QED
        BY <2>2, <3>2
    <2> QED
      BY <2>1, <2>3, <2>4
  <1>5. CASE Settle
    BY <1>5 DEF Settle, Writing
  <1>6. CASE ProcessExit
    BY <1>6 DEF ProcessExit, Writing
  <1>7. CASE PowerLoss
    BY <1>7, PowerLossKeepsWhole DEF PowerLoss, Writing
  <1>8. CASE UNCHANGED diskVars
    BY <1>8 DEF diskVars, Writing
  <1> QED
    BY <1>1, <1>2, <1>3, <1>4, <1>5, <1>6, <1>7, <1>8 DEF FilesNext

\* A file under its final name is never torn or missing its sync: what a load reads is
\* a snapshot that was saved whole, and the marker is one that was written whole.
THEOREM FilesWhole == FilesSpec => []FilesInv
  BY InitWhole, NextWhole, PTL DEF FilesSpec

-----------------------------------------------------------------------------
\* Every step of a save is a step of the cell, or one the cell does not see.
LEMMA StepOfCell ==
  FilesInv /\ [FilesNext]_diskVars =>
    [Cell!Next]_<<Content(disk, "snapshot.bin"), Content(settled, "snapshot.bin")>>
  <1> DEFINE cell == Content(disk, "snapshot.bin")
             durable == Content(settled, "snapshot.bin")
  <1> SUFFICES ASSUME FilesInv, [FilesNext]_diskVars
               PROVE  [Cell!Next]_<<cell, durable>>
    OBVIOUS
  <1>0. Whole(disk) /\ Whole(settled) /\ Writing
    BY DEF FilesInv
  <1>1. CASE UNCHANGED disk /\ settled' \in {disk, settled}
    <2>1. cell' = cell /\ durable' \in {cell, durable}
      BY <1>1 DEF Content
    <2> QED
      BY <2>1 DEF Cell!Next, Cell!Settle
  <1>2. CASE WriteStep
    <2>1. io.step # "idle" /\ io.file \in Finals
      BY <1>0, <1>2 DEF WriteStep, CreateTmp, WriteTmp, SyncTmp, Writing, Idle, Finals
    <2>2. TmpOf(io.file) \in Tmps
      BY <2>1 DEF TmpOf, Finals, Tmps
    <2>3. \E f \in Tmps : \E file : disk' = [disk EXCEPT ![f] = file]
      BY <1>2, <2>2 DEF WriteStep, CreateTmp, WriteTmp, SyncTmp
    <2>4. disk'["snapshot.bin"] = disk["snapshot.bin"] /\ settled' = settled
      BY <1>0, <1>2, <2>3 DEF Whole, Tmps, Names, WriteStep, CreateTmp, WriteTmp, SyncTmp
    <2>5. cell' = cell /\ durable' = durable
      BY <2>4 DEF Content
    <2> QED
      BY <2>5
  <1>3. CASE RenameTmp
    <2>1. settled' = settled
      BY <1>3 DEF RenameTmp
    <2>2. Whole(disk)'
      BY NextWhole DEF FilesInv
    <2>3. cell' \in CellValues
      BY <2>2, ContentOfWhole
    <2>4. durable' = durable
      BY <2>1 DEF Content
    <2> QED
      BY <2>3, <2>4 DEF Cell!Next, Cell!Save
  <1>4. CASE PowerLoss
    <2>1. PICK dir \in {disk, settled} :
            \E torn \in SUBSET {f \in Names : dir[f] # NoFile /\ dir[f].where = "cache"} :
              disk' = [f \in Names |->
                         IF dir[f] = NoFile THEN NoFile
                         ELSE File(IF f \in torn THEN Torn ELSE dir[f].data, "disk")]
      BY <1>4 DEF PowerLoss
    <2>2. Whole(dir)
      BY <1>0
    <2>3. cell' = Content(dir, "snapshot.bin")
      BY <2>1, <2>2, PowerLossKeepsWhole
    <2>4. cell' \in {cell, durable}
      BY <2>3
    <2>5. durable' = cell'
      BY <1>4 DEF PowerLoss, Content
    <2> QED
      BY <2>4, <2>5 DEF Cell!Next, Cell!Crash
  <1> HIDE DEF cell, durable
  <1> QED
    BY <1>1, <1>2, <1>3, <1>4
    DEF FilesNext, BeginWrite, Settle, ProcessExit, diskVars

\* A directory starts as a cell.
LEMMA InitOfCell == FilesInit => Cell!Init
  <1> SUFFICES ASSUME FilesInit PROVE Cell!Init
    OBVIOUS
  <1>1. Whole(disk) /\ settled = disk
    BY InitWhole DEF FilesInit, FilesInv
  <1>2. Content(disk, "snapshot.bin") \in CellValues
    BY <1>1, ContentOfWhole
  <1> QED
    BY <1>1, <1>2 DEF Cell!Init

\* Temporary file, sync and rename implement an atomic cell, for every set of snapshots.
THEOREM SnapshotIsAtomicCell == FilesSpec => IsAtomicCell
  BY InitOfCell, InitWhole, NextWhole, StepOfCell, PTL DEF FilesSpec, IsAtomicCell, Cell!Spec

-----------------------------------------------------------------------------
(* The inductive invariant *)

\* The node has kept every block that was once confirmed.
NodeType ==
  /\ best \in served /\ served \subseteq Chains
  /\ tip \in Heights /\ peak \in Heights /\ tip <= peak
  /\ deep = FALSE /\ (~lagged => tip = peak)

\* The blocks of a table, all of them on the first n of the chain c, and without a gap.
On(t, c, n) ==
  /\ t \in Tables /\ DOMAIN t \subseteq 1..n
  /\ \A h \in DOMAIN t : t[h] = c[h]
Run(t, n) == \E a \in 1..(MaxHeight + 1) : DOMAIN t = a..n
Gapless(t) == \E n \in 0..MaxHeight : Run(t, n)

\* A table that may be published and saved.
Fit(t, c, n) == On(t, c, n) /\ Gapless(t)

\* What a server in each place holds.
Serving == {"save", "connect", "follow"}
Control ==
  /\ pc \in {"down", "refused", "label", "tip", "load", "sync"} \cup Serving
  /\ goal \in 0..Confirmed
  /\ range \in [next : 0..(MaxHeight + 1), last : 0..MaxHeight, prev : Hashes \cup {NoHash}]
  /\ bottom \in 0..(MaxHeight + 1)
  /\ unsaved \in 0..(SnapshotInterval - 1)
  /\ pc \notin {"sync"} \cup Serving => table = NoBlocks
  /\ live = IF pc \in Serving THEN {table} ELSE {}
  /\ On(table, best, Confirmed)
  /\ pc \in Serving => Gapless(table)

\* The chains that the node may stream from agree up to the target height.
Agreed == pc \in {"load", "sync"} => \A c \in served : \A h \in 1..goal : c[h] = best[h]

\* A snapshot's table grows upwards; a new one is complete but for the running range.
Syncing ==
  pc = "sync" =>
    /\ fromSnapshot =>
         /\ range.last = goal /\ Run(table, range.next - 1)
         /\ DOMAIN table # {} \/ range.next = goal
    /\ ~fromSnapshot =>
         /\ MinSyncHeight(goal) <= bottom /\ bottom <= range.next
         /\ range.next <= range.last + 1 /\ range.last <= goal
         /\ bottom <= goal \/ goal = 0
         /\ DOMAIN table = bottom..(range.next - 1) \cup (range.last + 1)..goal

\* What the follower has handed over ends where the table does.
Following ==
  /\ followed \in Seq(Hashes)
  /\ followed # <<>> =>
       /\ pc \in {"save", "follow"}
       /\ Len(followed) <= Confirmed /\ followed = SubSeq(best, 1, Len(followed))
       /\ Run(table, Len(followed))
  /\ pc = "follow" => followed # <<>>

\* The client's metadata promises no more than the server has, or will have synced.
Promised ==
  /\ metadata \subseteq Spans /\ Cardinality(metadata) <= 1
  /\ \A span \in metadata :
       /\ span.latest <= Confirmed
       /\ ~lagged =>
            /\ pc \in {"load", "sync"} => span.latest <= goal
            /\ pc \in Serving => span.latest <= Metadata(table).latest

\* A directory of this server, and one of another dataset.
Own(dir) ==
  /\ Content(dir, "dataset.json") \in {NoFile, OurMarker}
  /\ \A f \in {"snapshot.bin", "snapshot.bin.tmp"} :
       /\ Content(dir, f) # OldSnapshot
       /\ dir["dataset.json"] = NoFile => dir[f] = NoFile
Foreign(dir) ==
  /\ Content(dir, "dataset.json") \in {NoFile, OtherMarker}
  /\ \E f \in {"snapshot.bin", "snapshot.bin.tmp"} : Content(dir, f) = OldSnapshot

\* What a directory may hold: its snapshot is a fit table.
Typed(dir) == \A f \in Names : dir[f] \in Files
Sound(dir, c, n) ==
  LET t == Content(dir, "snapshot.bin")
  IN  t \notin {NoFile, OldSnapshot} => Fit(t, c, n)

\* The write in progress is the one that the server waits for.
Written ==
  /\ io.step # "idle" =>
       IF io.file = "snapshot.bin" THEN pc = "save" /\ Fit(io.data, best, Confirmed)
       ELSE pc = "label"
  /\ io.step = "idle" => pc \notin {"label", "save"}

\* The directory has one owner, and this server uses none but its own.
Owned ==
  /\ \/ Own(disk) /\ Own(settled) /\ pc # "refused"
     \/ Foreign(disk) /\ pc \in {"down", "refused"}
  /\ pc \notin {"down", "refused", "label"} => Content(disk, "dataset.json") = OurMarker

Stored ==
  /\ FilesInv
  /\ \A dir \in {disk, settled} : Typed(dir) /\ Sound(dir, best, Confirmed)
  /\ Written /\ Owned

IInv ==
  /\ NodeType /\ Control /\ Agreed /\ Syncing /\ Following /\ Promised /\ Stored
  /\ FilledOrFloor
-----------------------------------------------------------------------------
(* The size of a table, and eviction *)

Weights(t) == [h \in DOMAIN t |-> NullifierCount[t[h]]]

\* The size of a part of a table is a sum of weights.
LEMMA SizeIsSum ==
  ASSUME NEW t \in Tables, NEW f, SetSums(f, Weights(t), DOMAIN t),
         NEW r, DOMAIN r \subseteq DOMAIN t, \A h \in DOMAIN r : r[h] = t[h],
         IsFiniteSet(DOMAIN r)
  PROVE  Size(r) = f[DOMAIN r]
  <1> DEFINE U == DOMAIN r
             pick(s) == CHOOSE x \in s : TRUE
             Eq(g) == g = [s \in SUBSET U |->
                             IF s = {} THEN 0 ELSE NullifierCount[r[pick(s)]] + g[s \ {pick(s)}]]
             iter == CHOOSE g : Eq(g)
  <1>1. Size(r) = iter[U]
    BY DEF Size, MapThenSumSet, MapThenFoldSet
  <1>2. \A s \in SUBSET U : s \in SUBSET DOMAIN t /\ (s # {} => pick(s) \in s)
    OBVIOUS
  <1>3. f \in [SUBSET DOMAIN t -> Nat] /\ f[{}] = 0
    BY DEF SetSums
  <1>4. \A s \in SUBSET U : s # {} => f[s] = NullifierCount[r[pick(s)]] + f[s \ {pick(s)}]
    <2>1. SUFFICES ASSUME NEW s \in SUBSET U, s # {}
                   PROVE  f[s] = NullifierCount[r[pick(s)]] + f[s \ {pick(s)}]
      OBVIOUS
    <2>2. pick(s) \in s /\ pick(s) \in DOMAIN t /\ s \in SUBSET DOMAIN t
      BY <1>2, <2>1
    <2> HIDE DEF pick
    <2>3. f[s] = Weights(t)[pick(s)] + f[s \ {pick(s)}]
      BY <2>2 DEF SetSums
    <2>4. Weights(t)[pick(s)] = NullifierCount[r[pick(s)]]
      BY <2>1, <2>2 DEF Weights
    <2> QED
      BY <2>3, <2>4
  <1>5. \E g : Eq(g)
    <2> DEFINE g == [s \in SUBSET U |-> f[s]]
    <2>1. \A s \in SUBSET U : g[s] = f[s] /\ g[s \ {pick(s)}] = f[s \ {pick(s)}]
      OBVIOUS
    <2>2. \A s \in SUBSET U :
            g[s] = IF s = {} THEN 0 ELSE NullifierCount[r[pick(s)]] + g[s \ {pick(s)}]
      <3> HIDE DEF g, pick
      <3> QED
        BY <1>3, <1>4, <2>1
    <2>3. g = [s \in SUBSET U |-> g[s]]
      OBVIOUS
    <2> HIDE DEF g, pick
    <2>4. Eq(g)
      BY <2>2, <2>3
    <2> HIDE DEF Eq
    <2> QED
      BY <2>4
  <1>6. Eq(iter)
    <2> HIDE DEF Eq
    <2> QED
      BY <1>5
  <1>7. \A s \in SUBSET U :
          iter[s] = IF s = {} THEN 0 ELSE NullifierCount[r[pick(s)]] + iter[s \ {pick(s)}]
    <2> HIDE DEF iter, pick
    <2> QED
      BY <1>6
  <1> HIDE DEF iter, pick, Eq
  <1> DEFINE N == Cardinality(U)
             T == {n \in 0..N : \A s \in SUBSET U : Cardinality(s) = n => iter[s] = f[s]}
  <1>8. N \in Nat /\ \A s \in SUBSET U : IsFiniteSet(s) /\ Cardinality(s) \in 0..N
    BY FS_Subset, FS_CardinalityType
  <1>9. 0 \in T
    <2>1. \A s \in SUBSET U : Cardinality(s) = 0 => s = {}
      BY <1>8, FS_EmptySet
    <2>2. iter[{}] = 0 /\ f[{}] = 0
      BY <1>3, <1>7
    <2>3. \A s \in SUBSET U : Cardinality(s) = 0 => iter[s] = f[s]
      BY <2>1, <2>2
    <2>4. 0 \in 0..N
      BY <1>8
    <2> HIDE DEF N
    <2> QED
      BY <2>3, <2>4
  <1>10. ASSUME NEW n \in 0..(N - 1), n \in T PROVE n + 1 \in T
    <2>1. n \in Nat /\ n + 1 \in 0..N
      BY <1>8
    <2>2. SUFFICES ASSUME NEW s \in SUBSET U, Cardinality(s) = n + 1 PROVE iter[s] = f[s]
      BY <2>1
    <2>3. s # {} /\ IsFiniteSet(s)
      BY <1>8, <2>1, <2>2, FS_EmptySet
    <2>4. pick(s) \in s
      BY <1>2, <2>3
    <2>5. Cardinality(s \ {pick(s)}) = Cardinality(s) - 1
      BY <2>3, <2>4, FS_RemoveElement
    <2>6. Cardinality(s \ {pick(s)}) = n /\ s \ {pick(s)} \in SUBSET U
      BY <2>1, <2>2, <2>5
    <2>7. iter[s \ {pick(s)}] = f[s \ {pick(s)}]
      BY <1>10, <2>6
    <2> QED
      BY <1>4, <1>7, <2>3, <2>7
  <1>11. N \in T
    <2> HIDE DEF T
    <2>1. \A n \in 0..N : n \in T
      BY <1>8, <1>9, <1>10, UpTo
    <2> QED
      BY <1>8, <2>1
  <1> QED
    BY <1>1, <1>11

\* A table is a function on finitely many heights, and so is every part of it.
LEMMA TableParts ==
  ASSUME NEW t \in Tables
  PROVE  /\ DOMAIN t \in SUBSET Heights /\ IsFiniteSet(DOMAIN t)
         /\ t \in [DOMAIN t -> Hashes]
         /\ \A h \in DOMAIN t : Weights(t)[h] = NullifierCount[t[h]] /\ Weights(t)[h] \in 0..EvictSize
         /\ \A hs \in SUBSET DOMAIN t : [h \in hs |-> t[h]] \in Tables
  <1>1. PICK hs \in SUBSET Heights : t \in [hs -> Hashes]
    BY DEF Tables
  <1>2. DOMAIN t = hs
    BY <1>1
  <1>3. IsFiniteSet(Heights)
    BY ChainAssumption, FS_Interval DEF Heights
  <1>4. IsFiniteSet(DOMAIN t)
    BY <1>1, <1>2, <1>3, FS_Subset
  <1>5. \A h \in DOMAIN t : Weights(t)[h] = NullifierCount[t[h]] /\ Weights(t)[h] \in 0..EvictSize
    BY <1>1, <1>2, NullifierServerAssumption DEF Weights
  <1>6. ASSUME NEW gs \in SUBSET DOMAIN t PROVE [h \in gs |-> t[h]] \in Tables
    <2>1. [h \in gs |-> t[h]] \in [gs -> Hashes] /\ gs \in SUBSET Heights
      BY <1>1, <1>2
    <2> QED
      BY <2>1 DEF Tables
  <1> QED
    BY <1>1, <1>2, <1>4, <1>5, <1>6

\* Evicting takes blocks from the lower end, never the newest one, and no more than needed.
LEMMA EvictParts ==
  ASSUME NEW t \in Tables
  PROVE  LET e == Evict(t) IN
         /\ e \in Tables /\ DOMAIN e \subseteq DOMAIN t /\ \A h \in DOMAIN e : e[h] = t[h]
         /\ \A g \in DOMAIN e, h \in DOMAIN t : g <= h => h \in DOMAIN e
         /\ \A h \in DOMAIN t : (\A g \in DOMAIN t : g <= h) => h \in DOMAIN e
         /\ \A g \in DOMAIN t \ DOMAIN e :
              (\A h \in DOMAIN t : h > g => h \in DOMAIN e) =>
                Size(e) + NullifierCount[t[g]] > EvictSize
  <1> DEFINE U == DOMAIN t
             w == Weights(t)
             above(h) == {k \in U : k >= h}
             kept == {h \in U : Size([g \in above(h) |-> t[g]]) <= EvictSize}
             e == [h \in kept |-> t[h]]
  <1>1. Evict(t) = e
    BY DEF Evict
  <1>2. /\ U \in SUBSET Heights /\ IsFiniteSet(U)
        /\ \A h \in U : w[h] = NullifierCount[t[h]] /\ w[h] \in 0..EvictSize
    BY TableParts
  <1>3. EvictSize \in Nat /\ \A h \in U : h \in Nat /\ w[h] \in Nat
    BY <1>2, NullifierServerAssumption DEF Heights
  <1>4. PICK f : SetSums(f, w, U)
    <2> HIDE DEF U, w
    <2> QED
      BY <1>2, <1>3, SetSumsExist
  <1>5. f \in [SUBSET U -> Nat] /\ f[{}] = 0
    BY <1>4 DEF SetSums
  <1>6. ASSUME NEW hs \in SUBSET U PROVE Size([g \in hs |-> t[g]]) = f[hs]
    <2> DEFINE r == [g \in hs |-> t[g]]
    <2>1. DOMAIN r = hs /\ \A h \in hs : r[h] = t[h]
      OBVIOUS
    <2>2. IsFiniteSet(hs)
      BY <1>2, FS_Subset
    <2> HIDE DEF r
    <2>3. Size(r) = f[DOMAIN r]
      BY <1>4, <2>1, <2>2, SizeIsSum
    <2> QED
      BY <2>1, <2>3 DEF r
  <1>7. \A h \in U : h \in kept <=> f[above(h)] <= EvictSize
    BY <1>6
  <1>8. kept \subseteq U
    OBVIOUS
  <1> HIDE DEF kept
  <1>9. e \in Tables /\ DOMAIN e = kept /\ \A h \in kept : e[h] = t[h]
    BY <1>8, TableParts
  <1>10. ASSUME NEW g \in kept, NEW h \in U, g <= h PROVE h \in kept
    <2>1. above(h) \in SUBSET above(g) /\ above(g) \in SUBSET U
      BY <1>3, <1>8, <1>10
    <2>2. f[above(h)] <= f[above(g)]
      <3> HIDE DEF above, U, w
      <3> QED
        BY <1>2, <1>3, <1>4, <2>1, SetSumsGrow
    <2>3. f[above(g)] <= EvictSize
      BY <1>7, <1>8
    <2> HIDE DEF above
    <2>4. f[above(h)] \in Nat /\ f[above(g)] \in Nat
      BY <1>5, <2>1
    <2> QED
      BY <1>3, <1>7, <2>2, <2>3, <2>4
  <1>11. ASSUME NEW h \in U, \A g \in U : g <= h PROVE h \in kept
    <2>1. above(h) = {h}
      BY <1>3, <1>11
    <2>2. {h} \in SUBSET U /\ h \in {h} /\ {h} \ {h} = {}
      OBVIOUS
    <2> HIDE DEF U, w, above
    <2>3. f[{h}] = w[h] + f[{}]
      BY <1>4, <2>2 DEF SetSums
    <2>4. w[h] \in Nat /\ w[h] <= EvictSize
      BY <1>2, <1>3
    <2>5. f[{h}] = w[h]
      BY <1>5, <2>3, <2>4
    <2>6. f[above(h)] <= EvictSize
      BY <2>1, <2>4, <2>5
    <2> QED
      BY <1>7, <2>6
  <1>12. ASSUME NEW g \in U \ kept, \A h \in U : h > g => h \in kept
         PROVE  Size(e) + NullifierCount[t[g]] > EvictSize
    <2>1. above(g) = kept \cup {g}
      <3>1. \A h \in kept : h >= g
        BY <1>3, <1>8, <1>10, <1>12
      <3>2. \A h \in U : h >= g => h > g \/ h = g
        BY <1>3
      <3> QED
        BY <1>3, <1>8, <1>12, <3>1, <3>2
    <2>2. f[above(g)] = w[g] + f[above(g) \ {g}]
      <3>1. above(g) \in SUBSET U /\ g \in above(g)
        BY <2>1
      <3> HIDE DEF above
      <3> QED
        BY <1>4, <3>1 DEF SetSums
    <2>3. above(g) \ {g} = kept
      BY <2>1
    <2>4. Size(e) = f[kept]
      BY <1>6, <1>8
    <2>5. ~ (f[above(g)] <= EvictSize) /\ f[above(g)] \in Nat /\ f[kept] \in Nat
      BY <1>5, <1>7, <1>8, <1>12
    <2>6. w[g] = NullifierCount[t[g]] /\ w[g] \in Nat
      BY <1>2, <1>3
    <2> HIDE DEF above, e, w
    <2>7. f[above(g)] = NullifierCount[t[g]] + Size(e)
      BY <2>2, <2>3, <2>4, <2>6
    <2>8. Size(e) \in Nat /\ NullifierCount[t[g]] \in Nat
      BY <2>4, <2>5, <2>6
    <2>9. ~ (NullifierCount[t[g]] + Size(e) <= EvictSize)
      BY <2>5, <2>7
    <2> QED
      BY <1>3, <2>8, <2>9
  <1> QED
    BY <1>1, <1>8, <1>9, <1>10, <1>11, <1>12

-----------------------------------------------------------------------------
(* Tables *)

\* The constants are numbers.
LEMMA Numbers ==
  /\ MaxHeight \in Nat /\ MaxHeight >= 1 /\ Heights = 1..MaxHeight
  /\ Depth \in Nat /\ BatchSize \in Nat /\ BatchSize >= 1
  /\ Activation \in Nat /\ Activation >= 1 /\ BackfillBatch \in Nat /\ BackfillBatch >= 1
  /\ SnapshotInterval \in Nat /\ SnapshotInterval >= 1
  /\ TargetSize \in Nat /\ EvictSize \in Nat
  BY ChainAssumption, RangeAssumption, NullifierServerAssumption DEF Heights

\* The hashes of a chain.
LEMMA ChainHash ==
  ASSUME NEW c \in Chains
  PROVE  c \in Seq(Hashes) /\ Len(c) = MaxHeight /\ \A h \in Heights : c[h] \in Hashes
  BY ChainAssumption DEF Hashes

\* The empty table ends wherever one likes.
LEMMA NoBlocksFit ==
  ASSUME NEW c, NEW n \in Nat
  PROVE  /\ DOMAIN NoBlocks = {} /\ NoBlocks \in Tables /\ Fit(NoBlocks, c, n)
         /\ \A m \in 0..MaxHeight : Run(NoBlocks, m - 1) /\ Run(NoBlocks, m)
  <1>1. DOMAIN NoBlocks = {}
    BY DEF NoBlocks
  <1>2. NoBlocks \in [{} -> Hashes] /\ {} \in SUBSET Heights
    BY DEF NoBlocks
  <1>3. NoBlocks \in Tables
    BY <1>2 DEF Tables
  <1>4. \A m \in 0..MaxHeight : Run(NoBlocks, m - 1) /\ Run(NoBlocks, m)
    <2> TAKE m \in 0..MaxHeight
    <2>1. m + 1 \in 1..(MaxHeight + 1) /\ (m + 1)..m = {} /\ (m + 1)..(m - 1) = {}
      BY Numbers
    <2> QED
      BY <1>1, <2>1 DEF Run
  <1>5. Gapless(NoBlocks)
    BY <1>4, Numbers DEF Gapless
  <1> QED
    BY <1>1, <1>3, <1>4, <1>5 DEF Fit, On

\* The newest and the oldest height of a table.
LEMMA Ends ==
  ASSUME NEW t \in Tables, DOMAIN t # {}
  PROVE  /\ Newest(t) \in DOMAIN t /\ \A h \in DOMAIN t : h <= Newest(t)
         /\ Oldest(t) \in DOMAIN t /\ \A h \in DOMAIN t : Oldest(t) <= h
  <1>1. DOMAIN t \in SUBSET Heights
    BY TableParts
  <1>2. DOMAIN t \in SUBSET (0..MaxHeight) /\ DOMAIN t \in SUBSET Nat /\ MaxHeight \in Nat
    BY <1>1, Numbers
  <1> DEFINE D == DOMAIN t
  <1>3. D # {} /\ D \in SUBSET (0..MaxHeight) /\ D \in SUBSET Nat
    BY <1>2
  <1>4. Newest(t) = Max(D) /\ Oldest(t) = Min(D)
    BY DEF Newest, Oldest
  <1> HIDE DEF D
  <1>5. Max(D) \in D /\ \A h \in D : h <= Max(D)
    BY <1>2, <1>3, MaxIsGreatest
  <1>6. \E m \in D : \A h \in D : m <= h
    BY <1>3, LeastNatural
  <1>7. Min(D) \in D /\ \A h \in D : Min(D) <= h
    BY <1>6 DEF Min
  <1> QED
    BY <1>4, <1>5, <1>7 DEF D

\* A table without a gap that is not empty is a run from its oldest to its newest block.
LEMMA RunEnds ==
  ASSUME NEW t \in Tables, NEW n, Run(t, n), n \in Int, DOMAIN t # {}
  PROVE  /\ Newest(t) = n /\ DOMAIN t = Oldest(t)..n /\ n \in Heights /\ Oldest(t) \in 1..n
  <1>1. PICK a \in 1..(MaxHeight + 1) : DOMAIN t = a..n
    BY DEF Run
  <1>2. /\ Newest(t) \in DOMAIN t /\ \A h \in DOMAIN t : h <= Newest(t)
        /\ Oldest(t) \in DOMAIN t /\ \A h \in DOMAIN t : Oldest(t) <= h
    BY Ends
  <1>3. DOMAIN t \in SUBSET Heights
    BY TableParts
  <1> DEFINE D == DOMAIN t
             hi == Newest(t)
             lo == Oldest(t)
  <1>4. D = a..n /\ hi \in D /\ lo \in D /\ (\A h \in D : h <= hi) /\ (\A h \in D : lo <= h)
        /\ D \in SUBSET Heights
    BY <1>1, <1>2, <1>3
  <1> HIDE DEF D, hi, lo
  <1>5. hi = n /\ lo = a /\ n \in Heights /\ a \in 1..n
    BY <1>4, Numbers
  <1> QED
    BY <1>1, <1>5 DEF hi, lo

\* A run is without a gap, and a table without a gap is a run.
LEMMA RunGapless ==
  ASSUME NEW t \in Tables
  PROVE  /\ \A n \in 0..MaxHeight : Run(t, n) => Gapless(t)
         /\ Gapless(t) /\ DOMAIN t # {} => Run(t, Newest(t)) /\ Newest(t) \in Heights
  <1>1. \A n \in 0..MaxHeight : Run(t, n) => Gapless(t)
    BY DEF Gapless
  <1>2. ASSUME Gapless(t), DOMAIN t # {} PROVE Run(t, Newest(t)) /\ Newest(t) \in Heights
    <2>1. PICK n \in 0..MaxHeight : Run(t, n)
      BY <1>2 DEF Gapless
    <2>2. n \in Int
      OBVIOUS
    <2>3. Newest(t) = n /\ n \in Heights
      BY <1>2, <2>1, <2>2, RunEnds
    <2> QED
      BY <2>1, <2>3
  <1> QED
    BY <1>1, <1>2

\* What the metadata of a table say.
LEMMA MetadataParts ==
  ASSUME NEW t \in Tables
  PROVE  /\ Metadata(t) \in Spans
         /\ DOMAIN t = {} => Metadata(t).latest = 0 /\ Metadata(t).earliest = 0
         /\ DOMAIN t # {} => Metadata(t).latest = Newest(t) /\ Metadata(t).earliest = Oldest(t)
  <1>1. DOMAIN t \in SUBSET (0..MaxHeight) /\ 0 \in 0..MaxHeight
    BY TableParts, Numbers
  <1>2. DOMAIN t # {} => Newest(t) \in 0..MaxHeight /\ Oldest(t) \in 0..MaxHeight
    BY <1>1, Ends
  <1> QED
    BY <1>1, <1>2 DEF Metadata, Spans

\* A table on the first blocks of a chain is one on the first blocks of what it grew into.
LEMMA OnLater ==
  ASSUME NEW c, NEW d, NEW n \in Nat, NEW m \in Nat, n <= m, \A h \in 1..n : d[h] = c[h],
         NEW t, On(t, c, n)
  PROVE  On(t, d, m)
  BY DEF On

\* What is fit to be saved is among what the files are declared to hold.
LEMMA FitIsSnapshot ==
  ASSUME NEW c \in Chains, NEW n \in Nat, NEW t, Fit(t, c, n)
  PROVE  t \in Snapshots
  <1>1. t \in Tables /\ \A h \in DOMAIN t : t[h] = c[h]
    BY DEF Fit, On
  <1>2. t \in [DOMAIN t -> Hashes]
    BY <1>1, TableParts
  <1>3. PICK m \in 0..MaxHeight, a \in 1..(MaxHeight + 1) : DOMAIN t = a..m
    BY DEF Fit, Gapless, Run
  <1>4. \E lo \in Heights, hi \in 0..MaxHeight : DOMAIN t = lo..hi
    <2>1. CASE a \in Heights
      BY <1>3, <2>1
    <2>2. CASE a \notin Heights
      <3>1. a..m = {} /\ 1..0 = {} /\ 1 \in Heights /\ 0 \in 0..MaxHeight
        BY <1>3, <2>2, Numbers
      <3> QED
        BY <1>3, <3>1
    <2> QED
      BY <2>1, <2>2
  <1>5. PICK lo \in Heights, hi \in 0..MaxHeight : DOMAIN t = lo..hi
    BY <1>4
  <1>6. t = [h \in lo..hi |-> c[h]]
    BY <1>1, <1>2, <1>5
  <1> QED
    BY <1>5, <1>6, SnapshotsAssumption

\* evict_to_target leaves a run that ends where it did.
LEMMA EvictRun ==
  ASSUME NEW t \in Tables, NEW n \in Int, Run(t, n)
  PROVE  /\ Evict(t) \in Tables /\ Run(Evict(t), n)
         /\ DOMAIN t # {} => DOMAIN Evict(t) # {}
         /\ \A c, m : On(t, c, m) => On(Evict(t), c, m)
  <1> DEFINE e == Evict(t)
  <1>1. /\ e \in Tables /\ DOMAIN e \subseteq DOMAIN t /\ \A h \in DOMAIN e : e[h] = t[h]
        /\ \A g \in DOMAIN e, h \in DOMAIN t : g <= h => h \in DOMAIN e
        /\ \A h \in DOMAIN t : (\A g \in DOMAIN t : g <= h) => h \in DOMAIN e
    BY EvictParts
  <1> HIDE DEF e
  <1>2. \A c, m : On(t, c, m) => On(e, c, m)
    BY <1>1 DEF On
  <1>3. ASSUME DOMAIN t # {} PROVE DOMAIN e # {}
    <2>1. Newest(t) \in DOMAIN t /\ \A h \in DOMAIN t : h <= Newest(t)
      BY <1>3, Ends
    <2> QED
      BY <1>1, <2>1
  <1>4. Run(e, n)
    <2>1. CASE DOMAIN t = {}
      <3>1. DOMAIN e = DOMAIN t
        BY <1>1, <2>1
      <3> QED
        BY <3>1 DEF Run
    <2>2. CASE DOMAIN t # {}
      <3>1. /\ Oldest(e) \in DOMAIN e /\ \A h \in DOMAIN e : Oldest(e) <= h
        BY <1>1, <1>3, <2>2, Ends
      <3>2. DOMAIN t = Oldest(t)..n /\ n \in Heights /\ Oldest(t) \in 1..n
        BY <2>2, RunEnds
      <3> DEFINE lo == Oldest(e)
                 a == Oldest(t)
                 D == DOMAIN e
      <3>3. D \subseteq a..n /\ lo \in D /\ (\A h \in D : lo <= h) /\ a \in 1..n /\ n \in Heights
            /\ (\A g \in D, h \in a..n : g <= h => h \in D)
        BY <1>1, <3>1, <3>2
      <3> HIDE DEF lo, a, D
      <3>4. lo \in a..n /\ a \in Nat /\ n \in Nat /\ n <= MaxHeight /\ a >= 1
        BY <3>3, Numbers
      <3>5. \A h \in lo..n : h \in D
        BY <3>3, <3>4
      <3>6. \A h \in D : h \in lo..n
        BY <3>3, <3>4
      <3>7. D = lo..n
        BY <3>5, <3>6
      <3>8. lo \in 1..(MaxHeight + 1)
        BY <3>4, Numbers
      <3> QED
        BY <3>7, <3>8 DEF Run, D
    <2> QED
      BY <2>1, <2>2
  <1> QED
    BY <1>1, <1>2, <1>3, <1>4 DEF e

\* insert_block of blocks of the chain.
LEMMA InsertOn ==
  ASSUME NEW c \in Chains, NEW n \in 0..MaxHeight, NEW t, On(t, c, n),
         NEW lo \in Nat, NEW k \in Nat, NEW hashes, Len(hashes) = k, lo >= 1, lo + k - 1 <= n,
         \A i \in 1..k : hashes[i] = c[lo + i - 1],
         NEW longer, longer = InsertAll(t, lo, hashes)
  PROVE  On(longer, c, n)
  <1> DEFINE D == DOMAIN t \cup lo..(lo + k - 1)
             val(h) == IF h < lo \/ h >= lo + k THEN t[h] ELSE hashes[h - lo + 1]
             new == [h \in D |-> val(h)]
  <1>1. InsertAll(t, lo, hashes) = new
    BY DEF InsertAll
  <1>2. DOMAIN t \subseteq 1..n /\ t \in Tables /\ \A h \in DOMAIN t : t[h] = c[h]
    BY DEF On
  <1>3. \A h \in D : h \in 1..n /\ h \in Heights
    BY <1>2, Numbers
  <1>4. \A h \in D : val(h) = c[h]
    <2> SUFFICES ASSUME NEW h \in D PROVE val(h) = c[h]
      OBVIOUS
    <2>1. CASE h < lo \/ h >= lo + k
      <3>1. h \in DOMAIN t
        BY <1>3, <2>1
      <3> QED
        BY <1>2, <2>1, <3>1
    <2>2. CASE ~ (h < lo \/ h >= lo + k)
      <3>1. h - lo + 1 \in 1..k /\ lo + (h - lo + 1) - 1 = h
        BY <1>3, <2>2
      <3>2. hashes[h - lo + 1] = c[lo + (h - lo + 1) - 1]
        BY <3>1
      <3> QED
        BY <2>2, <3>1, <3>2
    <2> QED
      BY <2>1, <2>2
  <1> HIDE DEF val
  <1>5. \A h \in D : val(h) \in Hashes
    BY <1>3, <1>4, ChainHash
  <1>6. D \in SUBSET Heights
    BY <1>3
  <1> HIDE DEF D
  <1>7. new \in [D -> Hashes] /\ DOMAIN new = D /\ \A h \in D : new[h] = c[h]
    BY <1>4, <1>5
  <1> HIDE DEF new
  <1>8. new \in Tables
    BY <1>6, <1>7 DEF Tables
  <1>9. On(new, c, n)
    BY <1>3, <1>7, <1>8 DEF On
  <1> QED
    BY <1>1, <1>9

-----------------------------------------------------------------------------
(* The node *)

\* What was confirmed stays, and more may be.
Later ==
  /\ Confirmed \in 0..MaxHeight /\ Confirmed' \in 0..MaxHeight /\ Confirmed <= Confirmed'
  /\ best \in Chains /\ best' \in Chains
  /\ \A h \in 1..Confirmed : best'[h] = best[h]

\* How far blocks are confirmed, and what a server takes for it.
LEMMA ConfirmedParts ==
  ASSUME NodeType
  PROVE  /\ best \in Chains /\ Confirmed \in 0..MaxHeight /\ ConfirmedTip \in 0..Confirmed
         /\ ~lagged => ConfirmedTip = Confirmed
  BY Numbers DEF NodeType, Confirmed, ConfirmedTip, MaxOf

\* A step of a node that keeps its confirmed blocks.
LEMMA NodeMoves ==
  ASSUME NodeType, ChainStep, ~deep'
  PROVE  /\ NodeType' /\ Later
         /\ served' \subseteq served \cup {best'} /\ (~lagged' => ~lagged)
  <1>1. /\ best' \in Chains /\ tip' \in Heights /\ served' \subseteq Chains
        /\ best' \in served' /\ served' \subseteq served \cup {best'}
    <2>1. CASE Mine
      BY <2>1, Numbers DEF Mine, NodeType
    <2>2. CASE Reorganise
      BY <2>2 DEF Reorganise, NodeType
    <2> QED
      BY <2>1, <2>2 DEF ChainStep, NodeStep
  <1>2. /\ peak' = MaxOf(peak, tip') /\ lagged' = (lagged \/ tip' < peak)
        /\ \A h \in 1..Confirmed : best'[h] = best[h]
    BY DEF ChainStep, Observe
  <1>3. tip' \in Heights /\ peak \in Heights /\ tip \in Heights /\ tip <= peak /\ (~lagged => tip = peak)
    BY <1>1 DEF NodeType
  <1>4. /\ peak' \in Heights /\ tip' <= peak' /\ peak <= peak'
        /\ (~ (tip' < peak) => tip' = peak')
    BY <1>2, <1>3, Numbers DEF MaxOf
  <1>5. deep' = FALSE
    <2>1. deep' \in BOOLEAN
      BY DEF ChainStep, Observe, NodeType
    <2> QED
      BY <2>1
  <1>6. (~lagged' => ~lagged) /\ (~lagged' => tip' = peak')
    BY <1>2, <1>4
  <1>7. NodeType'
    BY <1>1, <1>3, <1>4, <1>5, <1>6 DEF NodeType
  <1>8. Confirmed = MaxOf(peak - Depth, 0) /\ Confirmed' = MaxOf(peak' - Depth, 0)
    BY DEF Confirmed
  <1>9. Confirmed \in 0..MaxHeight /\ Confirmed' \in 0..MaxHeight /\ Confirmed <= Confirmed'
    <2>1. /\ peak \in Nat /\ peak' \in Nat /\ peak <= peak' /\ peak' <= MaxHeight /\ peak <= MaxHeight
          /\ Depth \in Nat /\ MaxHeight \in Nat
      BY <1>3, <1>4, Numbers
    <2>2. \A a, b \in Nat : a <= b => MaxOf(a - Depth, 0) <= MaxOf(b - Depth, 0)
      BY <2>1 DEF MaxOf
    <2>3. \A a \in Nat : a <= MaxHeight => MaxOf(a - Depth, 0) \in 0..MaxHeight
      BY <2>1 DEF MaxOf
    <2> QED
      BY <1>8, <2>1, <2>2, <2>3
  <1>10. Later
    BY <1>1, <1>2, <1>9, ConfirmedParts DEF Later
  <1> QED
    BY <1>1, <1>6, <1>7, <1>10

\* A step of the server: the node stands, and at most answers a call.
LEMMA NodeStands ==
  ASSUME NodeType, UNCHANGED worldVars \/ (Answered /\ UNCHANGED observerVars)
  PROVE  /\ NodeType' /\ Later
         /\ best' = best /\ Confirmed' = Confirmed /\ lagged' = lagged
         /\ served' \subseteq served
  <1>1. /\ best' = best /\ tip' = tip /\ peak' = peak /\ deep' = deep /\ lagged' = lagged
        /\ served' \subseteq served /\ best \in served'
    <2>1. CASE UNCHANGED worldVars
      BY <2>1 DEF worldVars, nodeVars, observerVars, NodeType
    <2>2. CASE Answered /\ UNCHANGED observerVars
      BY <2>2 DEF Answered, observerVars, NodeType
    <2> QED
      BY <2>1, <2>2
  <1>2. Confirmed' = Confirmed
    BY <1>1 DEF Confirmed
  <1>3. NodeType'
    BY <1>1 DEF NodeType
  <1>4. Later
    BY <1>1, <1>2, ConfirmedParts DEF Later
  <1> QED
    BY <1>1, <1>2, <1>3, <1>4
-----------------------------------------------------------------------------
(* The files *)

\* The same for a table.
LEMMA FitLater ==
  ASSUME Later, NEW t, Fit(t, best, Confirmed)
  PROVE  Fit(t, best', Confirmed')
  <1>1. On(t, best', Confirmed')
    BY OnLater DEF Later, Fit
  <1> QED
    BY <1>1 DEF Fit

\* A file that is there has a content, and is one of the files the model speaks of.
LEMMA FileParts ==
  ASSUME NEW f \in Files
  PROVE  /\ f # NoFile => /\ f = File(f.data, f.where) /\ f.data # NoFile
                          /\ f.data \in Snapshots \cup {OldSnapshot, OurMarker, OtherMarker, Torn}
  BY FilesAssumption DEF Files, File

LEMMA FileIntro ==
  ASSUME NEW data \in Snapshots \cup {OldSnapshot, OurMarker, OtherMarker, Torn},
         NEW where \in {"disk", "cache"}
  PROVE  /\ File(data, where) \in Files /\ File(data, where) # NoFile
         /\ File(data, where).data = data
  BY FilesAssumption DEF Files, File

\* A content is none exactly if there is no file.
LEMMA ContentParts ==
  ASSUME NEW dir, Typed(dir), NEW f \in Names
  PROVE  /\ Content(dir, f) = NoFile <=> dir[f] = NoFile
         /\ dir[f] # NoFile => Content(dir, f) = dir[f].data
  BY FileParts DEF Typed, Content

\* The files while the disk and the server's place stand.
LEMMA StoredStays ==
  ASSUME Stored, Later, UNCHANGED diskVars,
         pc' = pc \/ {pc, pc'} \cap {"down", "refused", "label", "save"} = {}
  PROVE  Stored'
  <1>1. disk' = disk /\ settled' = settled /\ io' = io
    BY DEF diskVars
  <1>2. FilesInv'
    BY NextWhole DEF Stored
  <1>3. \A dir \in {disk, settled} : Typed(dir) /\ Sound(dir, best, Confirmed)
    BY DEF Stored
  <1>4. \A dir \in {disk', settled'} : Typed(dir) /\ Sound(dir, best', Confirmed')
    BY <1>1, <1>3, FitLater DEF Sound
  <1>5. Written'
    BY <1>1, FitLater DEF Stored, Written
  <1>6. Owned'
    BY <1>1 DEF Stored, Owned
  <1> QED
    BY <1>2, <1>4, <1>5, <1>6 DEF Stored

\* A write begins: of the marker in a directory of one's own, or of a fit table.
LEMMA BeginStores ==
  ASSUME Stored, NodeType, Later, best' = best, Confirmed' = Confirmed, NEW f, NEW data,
         StartWrite(f, data),
         \/ /\ f = "dataset.json" /\ data = OurMarker /\ Own(disk)
            /\ pc = "down" /\ pc' = "label"
         \/ /\ f = "snapshot.bin" /\ Fit(data, best, Confirmed)
            /\ pc \in {"sync", "follow"} /\ pc' = "save"
  PROVE  Stored'
  <1>1. /\ io.step = "idle" /\ disk' = disk /\ settled' = disk
        /\ io' = [step |-> "create", file |-> f, data |-> data]
    BY DEF StartWrite, BeginWrite
  <1>2. FilesNext
    <2>1. f = "snapshot.bin" => data \in Snapshots
      BY FitIsSnapshot, ConfirmedParts
    <2>2. BeginWrite(f, data) /\ settled' \in {disk, settled}
      BY DEF StartWrite
    <2>3. CASE f = "dataset.json" /\ data = OurMarker
      BY <2>2, <2>3 DEF FilesNext
    <2>4. CASE f = "snapshot.bin"
      BY <2>1, <2>2, <2>4 DEF FilesNext
    <2> QED
      BY <2>3, <2>4
  <1>3. FilesInv'
    BY <1>2, NextWhole DEF Stored
  <1>4. \A dir \in {disk', settled'} : Typed(dir) /\ Sound(dir, best', Confirmed')
    BY <1>1 DEF Stored
  <1>5. Written'
    BY <1>1 DEF Written
  <1>6. Owned'
    <2>1. Own(disk)
      BY DEF Stored, Owned
    <2>2. pc = "sync" \/ pc = "follow" => Content(disk, "dataset.json") = OurMarker
      BY DEF Stored, Owned
    <2> QED
      BY <1>1, <2>1, <2>2 DEF Owned
  <1> QED
    BY <1>3, <1>4, <1>5, <1>6 DEF Stored

\* A step of a write: only a temporary file changes.
LEMMA WriteStores ==
  ASSUME Stored, NodeType, Later, best' = best, Confirmed' = Confirmed, WriteStep, pc' = pc
  PROVE  Stored'
  <1>1. Writing /\ io.step # "idle" /\ io # Idle
    BY DEF Stored, FilesInv, WriteStep, CreateTmp, WriteTmp, SyncTmp, Idle
  <1>2. \/ io.file = "snapshot.bin" /\ io.data \in Snapshots
        \/ io.file = "dataset.json" /\ io.data = OurMarker
    BY <1>1 DEF Writing
  <1>3. /\ \E data \in {io.data, Torn}, where \in {"disk", "cache"} :
             disk' = [disk EXCEPT ![TmpOf(io.file)] = File(data, where)]
        /\ settled' = settled
        /\ io'.step # "idle" /\ io'.file = io.file /\ io'.data = io.data
    <2>1. CASE CreateTmp
      BY <1>1, <1>2, <2>1 DEF CreateTmp, Writing
    <2>2. CASE WriteTmp
      BY <1>1, <1>2, <2>2 DEF WriteTmp, Writing
    <2>3. CASE SyncTmp
      BY <1>1, <1>2, <2>3 DEF SyncTmp, Writing
    <2> QED
      BY <2>1, <2>2, <2>3 DEF WriteStep
  <1>4. PICK data \in {io.data, Torn}, where \in {"disk", "cache"} :
          disk' = [disk EXCEPT ![TmpOf(io.file)] = File(data, where)]
    BY <1>3
  <1>5. io.file = "snapshot.bin" => data # OldSnapshot
    BY <1>2, FilesAssumption
  <1>6. data \in Snapshots \cup {OldSnapshot, OurMarker, OtherMarker, Torn}
    BY <1>2
  <1>7. File(data, where) \in Files /\ File(data, where) # NoFile /\ File(data, where).data = data
    BY <1>6, FileIntro
  <1>8. DOMAIN disk = Names
    BY DEF Stored, FilesInv, Whole
  <1>9. FilesInv'
    <2>1. FilesNext
      BY DEF FilesNext
    <2> QED
      BY <2>1, NextWhole DEF Stored
  <1>10. /\ \A f \in Finals : disk'[f] = disk[f] /\ Content(disk', f) = Content(disk, f)
         /\ io.file = "dataset.json" =>
              /\ disk'["snapshot.bin.tmp"] = disk["snapshot.bin.tmp"]
              /\ Content(disk', "snapshot.bin.tmp") = Content(disk, "snapshot.bin.tmp")
         /\ io.file = "snapshot.bin" => Content(disk', "snapshot.bin.tmp") = data
    BY <1>2, <1>4, <1>7, <1>8 DEF TmpOf, Names, Finals, Tmps, Content
  <1>11. Typed(disk') /\ Typed(settled')
    BY <1>3, <1>4, <1>7, <1>8 DEF Stored, Typed
  <1>12. Sound(disk', best', Confirmed') /\ Sound(settled', best', Confirmed')
    BY <1>3, <1>10 DEF Stored, Sound, Finals
  <1>13. Written'
    BY <1>1, <1>3 DEF Stored, Written
  <1>14. Owned'
    <2>1. /\ Own(disk) /\ Own(settled) /\ pc \in {"label", "save"}
          /\ io.file = "snapshot.bin" => pc = "save" /\ Content(disk, "dataset.json") = OurMarker
      BY <1>1 DEF Stored, Written, Owned
    <2>2. io.file = "snapshot.bin" => disk["dataset.json"] # NoFile
      BY <2>1, FilesAssumption DEF Content
    <2>3. Content(disk', "dataset.json") = Content(disk, "dataset.json")
          /\ disk'["dataset.json"] = disk["dataset.json"]
          /\ disk'["snapshot.bin"] = disk["snapshot.bin"]
          /\ Content(disk', "snapshot.bin") = Content(disk, "snapshot.bin")
      BY <1>10 DEF Finals
    <2>4. Own(disk')
      <3>1. CASE io.file = "dataset.json"
        BY <1>10, <2>1, <2>3, <3>1 DEF Own
      <3>2. CASE io.file = "snapshot.bin"
        <4>1. data # OldSnapshot
          BY <1>5, <3>2
        <4> QED
          BY <1>10, <2>1, <2>2, <2>3, <3>2, <4>1 DEF Own
      <3> QED
        BY <1>2, <3>1, <3>2
    <2>5. Own(settled')
      BY <1>3, <2>1
    <2> QED
      BY <2>1, <2>3, <2>4, <2>5 DEF Stored, Owned
  <1> QED
    BY <1>9, <1>11, <1>12, <1>13, <1>14 DEF Stored

\* The last step of a write: the marker, or the fit table, has its final name.
LEMMA RenameStores ==
  ASSUME Stored, NodeType, Later, best' = best, Confirmed' = Confirmed, RenameTmp,
         IF pc = "label" THEN pc' = "tip" ELSE pc' \in {"follow", "connect"}
  PROVE  Stored'
  <1>1. Writing /\ io.step # "idle" /\ io # Idle /\ io.step = "rename"
    BY DEF Stored, FilesInv, RenameTmp, Idle
  <1>2. \/ io.file = "snapshot.bin" /\ io.data \in Snapshots
        \/ io.file = "dataset.json" /\ io.data = OurMarker
    BY <1>1 DEF Writing
  <1>3. /\ disk' = [disk EXCEPT ![io.file] = File(io.data, "disk"), ![TmpOf(io.file)] = NoFile]
        /\ settled' = settled /\ io' = Idle
    BY <1>1 DEF RenameTmp, Writing
  <1>4. /\ File(io.data, "disk") \in Files /\ File(io.data, "disk") # NoFile
        /\ File(io.data, "disk").data = io.data
    BY <1>2, FileIntro
  <1>5. DOMAIN disk = Names
    BY DEF Stored, FilesInv, Whole
  <1>6. FilesInv'
    <2>1. FilesNext
      BY DEF FilesNext
    <2> QED
      BY <2>1, NextWhole DEF Stored
  <1>7. NoFile \in Files
    BY DEF Files
  <1>8. Typed(disk') /\ Typed(settled')
    BY <1>3, <1>4, <1>5, <1>7 DEF Stored, Typed
  <1>9. /\ Own(disk) /\ Own(settled) /\ pc \in {"label", "save"}
        /\ io.file = "snapshot.bin" => pc = "save" /\ Content(disk, "dataset.json") = OurMarker
                                       /\ Fit(io.data, best, Confirmed)
        /\ io.file = "dataset.json" => pc = "label"
    BY <1>1 DEF Stored, Written, Owned
  <1>10. Written'
    BY <1>3, <1>9 DEF Written, Idle
  <1>11. CASE io.file = "snapshot.bin"
    <2>1. /\ disk'["snapshot.bin"] = File(io.data, "disk") /\ disk'["snapshot.bin.tmp"] = NoFile
          /\ disk'["dataset.json"] = disk["dataset.json"]
      BY <1>3, <1>5, <1>11 DEF TmpOf, Names, Finals, Tmps
    <2>2. /\ Content(disk', "snapshot.bin") = io.data /\ Content(disk', "snapshot.bin.tmp") = NoFile
          /\ Content(disk', "dataset.json") = OurMarker
      BY <1>4, <1>9, <1>11, <2>1 DEF Content
    <2>3. io.data # OldSnapshot /\ NoFile # OldSnapshot /\ OurMarker # NoFile
      BY <1>2, <1>11, FilesAssumption
    <2>4. disk'["dataset.json"] # NoFile
      BY <2>2, <2>3 DEF Content
    <2>5. Own(disk')
      BY <2>2, <2>3, <2>4 DEF Own
    <2>6. Sound(disk', best', Confirmed') /\ Sound(settled', best', Confirmed')
      BY <1>3, <1>9, <1>11, <2>2 DEF Stored, Sound
    <2>7. Owned'
      BY <1>3, <1>9, <1>11, <2>2, <2>5 DEF Owned
    <2> QED
      BY <1>6, <1>8, <1>10, <2>6, <2>7 DEF Stored
  <1>12. CASE io.file = "dataset.json"
    <2>1. /\ disk'["snapshot.bin"] = disk["snapshot.bin"]
          /\ disk'["snapshot.bin.tmp"] = disk["snapshot.bin.tmp"]
          /\ disk'["dataset.json"] = File(OurMarker, "disk")
      BY <1>2, <1>3, <1>5, <1>12 DEF TmpOf, Names, Finals, Tmps
    <2>2. /\ Content(disk', "snapshot.bin") = Content(disk, "snapshot.bin")
          /\ Content(disk', "snapshot.bin.tmp") = Content(disk, "snapshot.bin.tmp")
          /\ Content(disk', "dataset.json") = OurMarker /\ disk'["dataset.json"] # NoFile
      BY <1>2, <1>4, <1>12, <2>1 DEF Content
    <2>3. Own(disk')
      BY <1>9, <2>1, <2>2 DEF Own
    <2>4. Sound(disk', best', Confirmed') /\ Sound(settled', best', Confirmed')
      BY <1>3, <2>2 DEF Stored, Sound
    <2>5. Owned'
      BY <1>3, <1>9, <1>12, <2>2, <2>3 DEF Owned
    <2> QED
      BY <1>6, <1>8, <1>10, <2>4, <2>5 DEF Stored
  <1> QED
    BY <1>2, <1>11, <1>12

\* A power loss leaves a directory of one's own one.
LEMMA PowerLossOwn ==
  ASSUME NEW dir, Whole(dir), Typed(dir), Own(dir), NEW d2,
         NEW torn \in SUBSET {f \in Names : dir[f] # NoFile /\ dir[f].where = "cache"},
         d2 = [f \in Names |->
                 IF dir[f] = NoFile THEN NoFile
                 ELSE File(IF f \in torn THEN Torn ELSE dir[f].data, "disk")]
  PROVE  /\ Own(d2) /\ Typed(d2)
         /\ Content(d2, "snapshot.bin") = Content(dir, "snapshot.bin")
  <1>1. Content(d2, "snapshot.bin") = Content(dir, "snapshot.bin") /\ Whole(d2)
    BY PowerLossKeepsWhole
  <1>2. \A f \in Names : /\ d2[f] \in Files
                         /\ d2[f] = NoFile <=> dir[f] = NoFile
                         /\ Content(d2, f) \in {Torn, Content(dir, f)}
    <2> TAKE f \in Names
    <2>1. CASE dir[f] = NoFile
      <3>1. d2[f] = NoFile
        BY <2>1
      <3> QED
        BY <2>1, <3>1 DEF Files, Content
    <2>2. CASE dir[f] # NoFile
      <3>1. dir[f].data \in Snapshots \cup {OldSnapshot, OurMarker, OtherMarker, Torn}
        BY <2>2, FileParts DEF Typed
      <3>2. PICK data \in {Torn, dir[f].data} : d2[f] = File(data, "disk")
        BY <2>2
      <3>3. d2[f] \in Files /\ d2[f] # NoFile /\ d2[f].data = data
        BY <3>1, <3>2, FileIntro
      <3> QED
        BY <2>2, <3>2, <3>3 DEF Content
    <2> QED
      BY <2>1, <2>2
  <1>3. Content(d2, "dataset.json") # Torn
    <2>1. Content(d2, "dataset.json") \in {OurMarker, OtherMarker, NoFile}
      BY <1>1 DEF Whole, Content, MarkerContents
    <2> QED
      BY <2>1, FilesAssumption
  <1>4. {"dataset.json", "snapshot.bin", "snapshot.bin.tmp"} \subseteq Names
    BY DEF Names, Finals, Tmps
  <1>5. Torn # OldSnapshot
    BY FilesAssumption
  <1>6. Own(d2)
    BY <1>2, <1>3, <1>4, <1>5 DEF Own
  <1> QED
    BY <1>1, <1>2, <1>6 DEF Typed

\* The process ends.
LEMMA CrashStores ==
  ASSUME Stored, NodeType, Later, best' = best, Confirmed' = Confirmed,
         ProcessExit \/ PowerLoss, pc \notin {"down", "refused"}, pc' = "down"
  PROVE  Stored'
  <1>1. FilesInv' /\ io' = Idle
    <2>1. FilesNext
      BY DEF FilesNext
    <2> QED
      BY <2>1, NextWhole DEF Stored, ProcessExit, PowerLoss
  <1>2. /\ Own(disk) /\ Own(settled)
        /\ \A dir \in {disk, settled} : Whole(dir) /\ Typed(dir) /\ Sound(dir, best, Confirmed)
    BY DEF Stored, Owned, FilesInv
  <1>3. /\ Own(disk') /\ Own(settled')
        /\ \A dir \in {disk', settled'} : Typed(dir) /\ Sound(dir, best, Confirmed)
    <2>1. CASE ProcessExit
      BY <1>2, <2>1 DEF ProcessExit
    <2>2. CASE PowerLoss
      <3>1. PICK dir \in {disk, settled} :
              \E torn \in SUBSET {f \in Names : dir[f] # NoFile /\ dir[f].where = "cache"} :
                disk' = [f \in Names |->
                           IF dir[f] = NoFile THEN NoFile
                           ELSE File(IF f \in torn THEN Torn ELSE dir[f].data, "disk")]
        BY <2>2 DEF PowerLoss
      <3>2. Whole(dir) /\ Typed(dir) /\ Own(dir) /\ Sound(dir, best, Confirmed)
        BY <1>2
      <3>3. Own(disk') /\ Typed(disk') /\ Content(disk', "snapshot.bin") = Content(dir, "snapshot.bin")
        BY <3>1, <3>2, PowerLossOwn
      <3>4. Sound(disk', best, Confirmed)
        BY <3>2, <3>3 DEF Sound
      <3>5. settled' = disk'
        BY <2>2 DEF PowerLoss
      <3> QED
        BY <3>3, <3>4, <3>5
    <2> QED
      BY <2>1, <2>2
  <1>4. Written'
    BY <1>1 DEF Written, Idle
  <1>5. Owned'
    BY <1>3 DEF Owned
  <1> QED
    BY <1>1, <1>3, <1>4, <1>5 DEF Stored

-----------------------------------------------------------------------------
(* Steps that leave the memory of the server alone *)

\* The start of a chain is one of what it grew into.
LEMMA SameStart ==
  ASSUME Later, NEW n \in 0..MaxHeight, n <= Confirmed
  PROVE  SubSeq(best, 1, n) = SubSeq(best', 1, n)
  <1>1. \A i \in 1..n : best[i] = best'[i]
    BY DEF Later
  <1>2. /\ best \in Seq(Hashes) /\ best' \in Seq(Hashes)
        /\ Len(best) = MaxHeight /\ Len(best') = MaxHeight
    BY ChainHash DEF Later
  <1>3. /\ SubSeq(best, 1, n) = [i \in 1..n |-> best[i]]
        /\ SubSeq(best', 1, n) = [i \in 1..n |-> best'[i]]
    BY <1>2, Numbers
  <1> QED
    BY <1>1, <1>3

\* The invariant of the server's memory.
InMemory == Control /\ Agreed /\ Syncing /\ Following /\ Promised /\ FilledOrFloor

\* The node moves while the server's memory stands.
LEMMA MemoryStays ==
  ASSUME InMemory, NodeType, Later, UNCHANGED <<volatile, metadata>>,
         served' \subseteq served \cup {best'}, ~lagged' => ~lagged
  PROVE  InMemory'
  <1>1. /\ pc' = pc /\ goal' = goal /\ fromSnapshot' = fromSnapshot /\ range' = range
        /\ bottom' = bottom /\ table' = table /\ live' = live /\ unsaved' = unsaved
        /\ followed' = followed /\ metadata' = metadata
    BY DEF volatile, syncVars
  <1>2. /\ Confirmed \in 0..MaxHeight /\ Confirmed' \in 0..MaxHeight /\ Confirmed <= Confirmed'
        /\ MaxHeight \in Nat
        /\ \A h \in 1..Confirmed : best'[h] = best[h]
    BY Numbers DEF Later
  <1>3. goal \in 0..Confirmed /\ On(table, best, Confirmed)
    BY DEF InMemory, Control
  <1>4. Control'
    <2>1. goal' \in 0..Confirmed'
      BY <1>1, <1>2, <1>3
    <2>2. On(table, best', Confirmed')
      BY <1>2, <1>3, OnLater
    <2> QED
      BY <1>1, <2>1, <2>2 DEF InMemory, Control
  <1>5. Agreed'
    BY <1>1, <1>2, <1>3 DEF InMemory, Agreed
  <1>6. Syncing'
    BY <1>1 DEF InMemory, Syncing
  <1>7. Following'
    <2>1. CASE followed = <<>>
      BY <1>1, <2>1 DEF InMemory, Following
    <2>2. CASE followed # <<>>
      <3>1. Len(followed) \in 0..MaxHeight /\ Len(followed) <= Confirmed
        BY <1>2, <2>2 DEF InMemory, Following
      <3>2. SubSeq(best, 1, Len(followed)) = SubSeq(best', 1, Len(followed))
        BY <3>1, SameStart
      <3>3. Len(followed) <= Confirmed'
        BY <1>2, <3>1
      <3> QED
        BY <1>1, <2>2, <3>2, <3>3 DEF InMemory, Following
    <2> QED
      BY <2>1, <2>2
  <1>8. Promised'
    <2>1. ASSUME NEW span \in metadata PROVE span.latest <= Confirmed'
      <3>1. span.latest <= Confirmed /\ span.latest \in 0..MaxHeight
        BY DEF InMemory, Promised, Spans
      <3> QED
        BY <1>2, <3>1
    <2> QED
      BY <1>1, <2>1 DEF InMemory, Promised, Metadata
  <1>9. FilledOrFloor'
    <2>1. SUFFICES ASSUME pc = "save", followed = <<>>, ~fromSnapshot, DOMAIN table # {},
                          DOMAIN table = Oldest(table)..goal, MinSyncHeight(goal) <= Oldest(table),
                          Oldest(table) # MinSyncHeight(goal)
                   PROVE  best'[Oldest(table) - 1] = best[Oldest(table) - 1]
      BY <1>1 DEF InMemory, FilledOrFloor
    <2>2. Oldest(table) \in DOMAIN table /\ Oldest(table) \in 1..Confirmed
      BY <1>3, <2>1, Ends DEF On
    <2>3. MinSyncHeight(goal) \in Nat /\ MinSyncHeight(goal) >= 1
      BY Numbers DEF MinSyncHeight
    <2>4. Oldest(table) - 1 \in 1..Confirmed
      BY <1>2, <2>1, <2>2, <2>3
    <2> QED
      BY <1>2, <2>4
  <1> QED
    BY <1>4, <1>5, <1>6, <1>7, <1>8, <1>9 DEF InMemory

\* The node moves.
LEMMA NodeKeeps ==
  ASSUME IInv, ChainStep, ~deep', UNCHANGED <<serverVars, metadata>>
  PROVE  IInv'
  <1>1. /\ NodeType' /\ Later
        /\ served' \subseteq served \cup {best'} /\ (~lagged' => ~lagged)
    BY NodeMoves DEF IInv
  <1>2. InMemory'
    BY <1>1, MemoryStays DEF serverVars, IInv, InMemory
  <1>3. Stored'
    BY <1>1, StoredStays DEF serverVars, volatile, IInv
  <1> QED
    BY <1>1, <1>2, <1>3 DEF IInv, InMemory

\* A step of a write.
LEMMA WriteKeeps ==
  ASSUME IInv, Write, UNCHANGED metadata
  PROVE  IInv'
  <1>1. UNCHANGED worldVars /\ UNCHANGED volatile /\ WriteStep /\ pc' = pc
    BY DEF Write, volatile
  <1>2. /\ NodeType' /\ Later /\ best' = best /\ Confirmed' = Confirmed /\ lagged' = lagged
        /\ served' \subseteq served
    BY <1>1, NodeStands DEF IInv
  <1>3. InMemory'
    BY <1>1, <1>2, MemoryStays DEF IInv, InMemory
  <1>4. Stored'
    BY <1>1, <1>2, WriteStores DEF IInv
  <1> QED
    BY <1>2, <1>3, <1>4 DEF IInv, InMemory

\* Nothing moves.
LEMMA StutterKeeps ==
  ASSUME IInv, UNCHANGED vars
  PROVE  IInv'
  <1>1. UNCHANGED worldVars /\ UNCHANGED <<volatile, metadata>> /\ UNCHANGED diskVars /\ pc' = pc
    BY DEF vars, serverVars, volatile
  <1>2. /\ NodeType' /\ Later /\ best' = best /\ Confirmed' = Confirmed /\ lagged' = lagged
        /\ served' \subseteq served
    BY <1>1, NodeStands DEF IInv
  <1>3. InMemory'
    BY <1>1, <1>2, MemoryStays DEF IInv, InMemory
  <1>4. Stored'
    BY <1>1, <1>2, StoredStays DEF IInv
  <1> QED
    BY <1>2, <1>3, <1>4 DEF IInv, InMemory

-----------------------------------------------------------------------------
(* Starting, and ending *)

\* A directory of one's own is never refused; another's always is.
LEMMA RefusedForeign ==
  ASSUME NEW dir, Typed(dir), dir = disk
  PROVE  /\ Own(dir) => ~Refused
         /\ Foreign(dir) => Refused
  <1>1. {"dataset.json", "snapshot.bin", "snapshot.bin.tmp"} \subseteq Names
    BY DEF Names, Finals, Tmps
  <1>2. \A f \in Names : Content(dir, f) = NoFile <=> dir[f] = NoFile
    BY ContentParts
  <1>3. /\ OurMarker \notin {OtherMarker, Torn, NoFile} /\ OtherMarker # NoFile /\ Torn # NoFile
        /\ OldSnapshot # NoFile
    BY FilesAssumption
  <1>4. ASSUME Own(dir) PROVE ~Refused
    BY <1>3, <1>4 DEF Own, Refused
  <1>5. ASSUME Foreign(dir) PROVE Refused
    <2>1. CASE Content(dir, "dataset.json") = OtherMarker
      BY <2>1 DEF Refused
    <2>2. CASE Content(dir, "dataset.json") = NoFile
      <3>1. dir["dataset.json"] = NoFile
        BY <1>1, <1>2, <2>2
      <3>2. PICK f \in {"snapshot.bin", "snapshot.bin.tmp"} : Content(dir, f) = OldSnapshot
        BY <1>5 DEF Foreign
      <3>3. dir[f] # NoFile
        BY <1>1, <1>2, <1>3, <3>2
      <3> QED
        BY <3>1, <3>3 DEF Refused
    <2> QED
      BY <1>5, <2>1, <2>2 DEF Foreign
  <1> QED
    BY <1>4, <1>5

\* ensure_ironwood_dataset.
LEMMA StartKeeps ==
  ASSUME IInv, Start, UNCHANGED metadata
  PROVE  IInv'
  <1>1. UNCHANGED worldVars /\ pc = "down"
    BY DEF Start
  <1>2. /\ NodeType' /\ Later /\ best' = best /\ Confirmed' = Confirmed /\ lagged' = lagged
        /\ served' \subseteq served
    BY <1>1, NodeStands DEF IInv
  <1>3. /\ UNCHANGED <<syncVars, table, live, unsaved, followed, metadata>>
        /\ pc' \in {"refused", "tip", "label"}
    BY DEF Start
  <1>4. Control'
    BY <1>1, <1>2, <1>3 DEF IInv, Control, syncVars, Serving
  <1>5. Agreed' /\ Syncing' /\ FilledOrFloor'
    BY <1>3 DEF Agreed, Syncing, FilledOrFloor
  <1>6. Following'
    BY <1>1, <1>3 DEF IInv, Following
  <1>7. Promised'
    BY <1>2, <1>3 DEF IInv, Promised, Serving
  <1>8. Stored'
    <2>1. /\ Typed(disk) /\ ((Own(disk) /\ Own(settled)) \/ Foreign(disk))
      BY <1>1 DEF IInv, Stored, Owned
    <2>2. (Own(disk) => ~Refused) /\ (Foreign(disk) => Refused)
      BY <2>1, RefusedForeign
    <2>3. CASE Refused
      <3>1. UNCHANGED diskVars /\ pc' = "refused"
        BY <2>3 DEF Start
      <3>2. Foreign(disk)
        BY <2>1, <2>2, <2>3
      <3>3. disk' = disk /\ settled' = settled /\ io' = io
        BY <3>1 DEF diskVars
      <3>4. FilesInv'
        BY <3>1, NextWhole DEF IInv, Stored
      <3>5. \A dir \in {disk', settled'} : Typed(dir) /\ Sound(dir, best', Confirmed')
        BY <1>2, <3>3 DEF IInv, Stored
      <3>6. io.step = "idle"
        BY <1>1 DEF IInv, Stored, Written
      <3> QED
        BY <3>1, <3>2, <3>3, <3>4, <3>5, <3>6 DEF Stored, Written, Owned
    <2>4. CASE ~Refused /\ Labelled
      <3>1. UNCHANGED diskVars /\ pc' = "tip"
        BY <2>4 DEF Start
      <3>2. Own(disk) /\ Own(settled) /\ Content(disk, "dataset.json") = OurMarker
        BY <2>1, <2>2, <2>4 DEF Labelled
      <3>3. disk' = disk /\ settled' = settled /\ io' = io
        BY <3>1 DEF diskVars
      <3>4. FilesInv'
        BY <3>1, NextWhole DEF IInv, Stored
      <3>5. \A dir \in {disk', settled'} : Typed(dir) /\ Sound(dir, best', Confirmed')
        BY <1>2, <3>3 DEF IInv, Stored
      <3>6. io.step = "idle"
        BY <1>1 DEF IInv, Stored, Written
      <3> QED
        BY <3>1, <3>2, <3>3, <3>4, <3>5, <3>6 DEF Stored, Written, Owned
    <2>5. CASE ~Refused /\ ~Labelled
      <3>1. StartWrite("dataset.json", OurMarker) /\ pc' = "label"
        BY <2>5 DEF Start
      <3>2. Own(disk)
        BY <2>1, <2>2, <2>5
      <3> QED
        BY <1>1, <1>2, <3>1, <3>2, BeginStores DEF IInv
    <2> QED
      BY <2>3, <2>4, <2>5
  <1> QED
    BY <1>2, <1>4, <1>5, <1>6, <1>7, <1>8 DEF IInv

\* The process ends.
LEMMA CrashKeeps ==
  ASSUME IInv, Crash, UNCHANGED metadata
  PROVE  IInv'
  <1>1. UNCHANGED worldVars /\ pc \notin {"down", "refused"} /\ pc' = "down"
    BY DEF Crash
  <1>2. /\ NodeType' /\ Later /\ best' = best /\ Confirmed' = Confirmed /\ lagged' = lagged
        /\ served' \subseteq served
    BY <1>1, NodeStands DEF IInv
  <1>3. /\ goal' = 0 /\ fromSnapshot' = FALSE /\ range' = NoRange /\ bottom' = 0
        /\ table' = NoBlocks /\ live' = {} /\ unsaved' = 0 /\ followed' = <<>>
        /\ metadata' = metadata
    BY DEF Crash, ForgetSync
  <1>4. Control'
    <2>1. Confirmed \in 0..MaxHeight /\ Fit(NoBlocks, best, Confirmed)
      BY <1>2, NoBlocksFit DEF Later
    <2>2. range' \in [next : 0..(MaxHeight + 1), last : 0..MaxHeight, prev : Hashes \cup {NoHash}]
      BY <1>3, Numbers DEF NoRange
    <2> QED
      BY <1>1, <1>2, <1>3, <2>1, <2>2, Numbers DEF Control, Fit, Serving
  <1>5. Agreed' /\ Syncing' /\ FilledOrFloor' /\ Following'
    BY <1>1, <1>3 DEF Agreed, Syncing, FilledOrFloor, Following
  <1>6. Promised'
    BY <1>1, <1>2, <1>3 DEF IInv, Promised, Serving
  <1>7. Stored'
    <2>1. ProcessExit \/ PowerLoss
      BY DEF Crash
    <2> QED
      BY <1>1, <1>2, <2>1, CrashStores DEF IInv
  <1> QED
    BY <1>2, <1>4, <1>5, <1>6, <1>7 DEF IInv

\* get_latest_block.
LEMMA ReadTipKeeps ==
  ASSUME IInv, ReadTip, UNCHANGED metadata
  PROVE  IInv'
  <1>1. /\ Answered /\ UNCHANGED observerVars /\ pc = "tip" /\ pc' = "load"
        /\ served' = {best} /\ goal' = ConfirmedTip
        /\ UNCHANGED <<fromSnapshot, range, bottom, table, live, unsaved, followed, metadata>>
        /\ UNCHANGED diskVars
    BY DEF ReadTip, Answered
  <1>2. /\ NodeType' /\ Later /\ best' = best /\ Confirmed' = Confirmed /\ lagged' = lagged
        /\ served' \subseteq served
    BY <1>1, NodeStands DEF IInv
  <1>3. ConfirmedTip \in 0..Confirmed /\ (~lagged => ConfirmedTip = Confirmed)
        /\ Confirmed \in 0..MaxHeight
    BY ConfirmedParts DEF IInv
  <1>4. Control'
    BY <1>1, <1>2, <1>3 DEF IInv, Control, Serving
  <1>5. Agreed' /\ Syncing' /\ FilledOrFloor'
    BY <1>1, <1>2 DEF Agreed, Syncing, FilledOrFloor
  <1>6. Following'
    BY <1>1, <1>2 DEF IInv, Following
  <1>7. Promised'
    BY <1>1, <1>2, <1>3 DEF IInv, Promised, Serving
  <1>8. Stored'
    BY <1>1, <1>2, StoredStays DEF IInv
  <1> QED
    BY <1>2, <1>4, <1>5, <1>6, <1>7, <1>8 DEF IInv

-----------------------------------------------------------------------------
(* Syncing *)

\* min_sync_height is a height, and the target height reaches it unless there is no block.
LEMMA MinSync ==
  ASSUME NEW g \in Nat
  PROVE  MinSyncHeight(g) \in Nat /\ MinSyncHeight(g) >= 1 /\ (MinSyncHeight(g) <= g \/ g = 0)
  BY Numbers DEF MinSyncHeight

\* forward_start of a new table.
LEMMA NewStart ==
  ASSUME goal \in 0..MaxHeight
  PROVE  LET start == ForwardStart(NoBlocks, FALSE) IN
         /\ start \in 1..(goal + 1) /\ start \in 0..(MaxHeight + 1)
         /\ MinSyncHeight(goal) <= start
         /\ start <= goal \/ goal = 0
  <1>1. ForwardStart(NoBlocks, FALSE) = MaxOf(goal - BackfillBatch, MinSyncHeight(goal))
    BY DEF ForwardStart
  <1>2. goal \in Nat /\ goal <= MaxHeight /\ MaxHeight \in Nat /\ BackfillBatch \in Nat
        /\ BackfillBatch >= 1
    BY Numbers
  <1>3. /\ MinSyncHeight(goal) \in Nat /\ MinSyncHeight(goal) >= 1
        /\ MinSyncHeight(goal) <= goal \/ goal = 0
        /\ goal = 0 => MinSyncHeight(goal) = 1
    BY <1>2, MinSync, Numbers DEF MinSyncHeight
  <1> DEFINE m == MinSyncHeight(goal)
  <1>4. m \in Nat /\ m >= 1 /\ (m <= goal \/ goal = 0) /\ (goal = 0 => m = 1)
    BY <1>3
  <1> HIDE DEF m
  <1>5. LET start == MaxOf(goal - BackfillBatch, m) IN
        /\ start \in 1..(goal + 1) /\ start \in 0..(MaxHeight + 1)
        /\ m <= start
        /\ start <= goal \/ goal = 0
    BY <1>2, <1>4 DEF MaxOf
  <1> QED
    BY <1>1, <1>5 DEF m

\* load_snapshot.
LEMMA LoadKeeps ==
  ASSUME IInv, Load, UNCHANGED metadata
  PROVE  IInv'
  <1> DEFINE found == Content(disk, "snapshot.bin")
             t == IF found = NoFile THEN NoBlocks ELSE found
             loaded == (found # NoFile)
             start == ForwardStart(t, loaded)
  <1>1. UNCHANGED worldVars /\ pc = "load" /\ UNCHANGED <<live, unsaved, followed, metadata>>
        /\ UNCHANGED diskVars
    BY DEF Load
  <1>2. /\ NodeType' /\ Later /\ best' = best /\ Confirmed' = Confirmed /\ lagged' = lagged
        /\ served' \subseteq served
    BY <1>1, NodeStands DEF IInv
  <1>3. found \in Snapshots \cup {NoFile}
    <2>1. found \in CellValues
      BY ContentOfWhole DEF IInv, Stored, FilesInv
    <2>2. found # OldSnapshot
      BY <1>1 DEF IInv, Stored, Owned, Own
    <2> QED
      BY <2>1, <2>2 DEF CellValues
  <1>4. found # Torn
    BY <1>3, FilesAssumption
  <1>5. /\ table' = t /\ fromSnapshot' = loaded /\ bottom' = start /\ pc' = "sync" /\ goal' = goal
        /\ range' = [next |-> start, last |-> goal, prev |-> NoHash]
    BY <1>4 DEF Load
  <1>6. Confirmed \in 0..MaxHeight /\ goal \in 0..Confirmed /\ goal \in 0..MaxHeight /\ MaxHeight \in Nat
    BY <1>2, Numbers DEF IInv, Control, Later
  <1>7. Fit(t, best, Confirmed)
    <2>1. CASE found = NoFile
      <3>1. Fit(NoBlocks, best, Confirmed)
        BY <1>6, NoBlocksFit
      <3> QED
        BY <2>1, <3>1
    <2>2. CASE found # NoFile
      <3>1. found # OldSnapshot
        BY <1>3, FilesAssumption
      <3> QED
        BY <2>2, <3>1 DEF IInv, Stored, Sound
    <2> QED
      BY <2>1, <2>2
  <1>8. ASSUME found = NoFile PROVE start \in 0..(MaxHeight + 1) /\ Syncing'
    <2>1. t = NoBlocks /\ ~loaded /\ start = ForwardStart(NoBlocks, FALSE) /\ DOMAIN NoBlocks = {}
      BY <1>8 DEF NoBlocks
    <2>2. /\ start \in 1..(goal + 1) /\ start \in 0..(MaxHeight + 1)
          /\ MinSyncHeight(goal) <= start
          /\ start <= goal \/ goal = 0
      BY <1>6, <2>1, NewStart
    <2> HIDE DEF start
    <2>3. start..(start - 1) = {} /\ (goal + 1)..goal = {} /\ start <= start
      BY <1>6, <2>2
    <2>4. DOMAIN t = start..(start - 1) \cup (goal + 1)..goal
      BY <2>1, <2>3
    <2> HIDE DEF t, loaded
    <2>5. /\ ~fromSnapshot' /\ bottom' = start /\ goal' = goal /\ table' = t
          /\ range'.next = start /\ range'.last = goal
      BY <1>5, <2>1
    <2>6. start <= goal + 1 /\ goal <= goal
      BY <1>6, <2>2
    <2>7. Syncing'
      BY <2>2, <2>3, <2>4, <2>5, <2>6 DEF Syncing
    <2> QED
      BY <2>2, <2>7
  <1>9. ASSUME found # NoFile PROVE start \in 0..(MaxHeight + 1) /\ Syncing'
    <2>1. /\ loaded /\ t \in Tables /\ Gapless(t)
          /\ start = IF DOMAIN t = {} THEN goal ELSE Newest(t) + 1
      BY <1>7, <1>9 DEF ForwardStart, Fit, On
    <2>2. CASE DOMAIN t = {}
      <3>1. start = goal
        BY <2>1, <2>2
      <3>2. \E a \in 1..(MaxHeight + 1) : a..(goal - 1) = {}
        <4>1. goal + 1 \in 1..(MaxHeight + 1) /\ (goal + 1)..(goal - 1) = {}
          BY <1>6
        <4> QED
          BY <4>1
      <3>3. Run(t, start - 1)
        BY <2>2, <3>1, <3>2 DEF Run
      <3> HIDE DEF start, t, loaded
      <3>4. Syncing'
        BY <1>5, <2>1, <3>1, <3>3 DEF Syncing
      <3>5. start \in 0..(MaxHeight + 1)
        BY <1>6, <3>1
      <3> QED
        BY <3>4, <3>5
    <2>3. CASE DOMAIN t # {}
      <3>1. start = Newest(t) + 1 /\ Run(t, Newest(t)) /\ Newest(t) \in Heights
        BY <2>1, <2>3, RunGapless
      <3>2. start - 1 = Newest(t) /\ start \in 0..(MaxHeight + 1)
        BY <3>1, Numbers
      <3> HIDE DEF start, t, loaded
      <3>3. Syncing'
        BY <1>5, <2>1, <2>3, <3>1, <3>2 DEF Syncing
      <3> QED
        BY <3>2, <3>3
    <2> QED
      BY <2>2, <2>3
  <1>10. start \in 0..(MaxHeight + 1) /\ Syncing'
    BY <1>8, <1>9
  <1> HIDE DEF start, t, loaded, found
  <1>11. Control'
    <2>1. range' \in [next : 0..(MaxHeight + 1), last : 0..MaxHeight, prev : Hashes \cup {NoHash}]
      BY <1>5, <1>6, <1>10
    <2>2. On(table', best', Confirmed')
      BY <1>2, <1>5, <1>7 DEF Fit
    <2> QED
      BY <1>1, <1>2, <1>5, <1>10, <2>1, <2>2 DEF IInv, Control, Serving
  <1>12. Agreed' /\ FilledOrFloor'
    BY <1>1, <1>2, <1>5 DEF IInv, Agreed, FilledOrFloor
  <1>13. Following'
    BY <1>1, <1>2, <1>5 DEF IInv, Following
  <1>14. Promised'
    BY <1>1, <1>2, <1>5 DEF IInv, Promised, Serving
  <1>15. Stored'
    BY <1>1, <1>2, <1>5, StoredStays DEF IInv
  <1> QED
    BY <1>2, <1>10, <1>11, <1>12, <1>13, <1>14, <1>15 DEF IInv

\* What validate_range accepts of a stream up to the target height are the blocks of the
\* chain, from whichever chains the node has streamed them.
LEMMA StreamAgrees ==
  ASSUME IInv, pc = "sync", NEW lo \in Nat, NEW hi \in Nat, 1 <= lo, lo <= hi, hi <= goal,
         NEW blocks \in Streams(lo, hi), NEW prior, ValidRange(blocks, lo, hi, prior)
  PROVE  /\ Len(blocks) = hi - lo + 1 /\ DOMAIN blocks = 1..(hi - lo + 1)
         /\ \A i \in 1..(hi - lo + 1) : blocks[i].hash = best[lo + i - 1]
  <1>1. goal \in Nat /\ goal <= MaxHeight /\ MaxHeight \in Nat /\ tip \in Nat
    <2>1. goal \in 0..Confirmed /\ Confirmed \in 0..MaxHeight /\ tip \in Heights
      BY ConfirmedParts DEF IInv, Control, NodeType
    <2> QED
      BY <2>1, Numbers
  <1> DEFINE last == IF hi < tip THEN hi ELSE tip
  <1>2. PICK c \in served, cut \in lo..hi :
          blocks = [i \in 1..(last - lo + 1) |->
                      CompactBlock(IF lo + i - 1 < cut THEN c ELSE best, lo + i - 1)]
    BY DEF Streams
  <1>3. last \in Nat /\ last <= hi
    BY <1>1
  <1> HIDE DEF last
  <1>4. DOMAIN blocks = 1..(last - lo + 1) /\ Len(blocks) = hi - lo + 1
    BY <1>2 DEF ValidRange
  <1>5. last = hi
    <2>1. CASE last - lo + 1 \in Nat
      <3>1. Len(blocks) = last - lo + 1
        BY <1>2, <2>1
      <3> QED
        BY <1>3, <1>4, <3>1
    <2>2. CASE last - lo + 1 \notin Nat
      <3>1. 1..(last - lo + 1) = 1..0
        BY <1>3, <2>2
      <3>2. DOMAIN blocks = 1..0
        BY <1>4, <3>1
      <3>3. Len(blocks) = 0
        <4>1. blocks = [i \in 1..0 |-> blocks[i]]
          BY <1>2, <3>1
        <4> QED
          BY <4>1
      <3> QED
        BY <1>4, <3>3
    <2> QED
      BY <2>1, <2>2
  <1>6. ASSUME NEW i \in 1..(hi - lo + 1) PROVE blocks[i].hash = best[lo + i - 1]
    <2>1. lo + i - 1 \in 1..goal
      BY <1>1
    <2>2. c[lo + i - 1] = best[lo + i - 1]
      BY <2>1 DEF IInv, Agreed
    <2>3. blocks[i] = CompactBlock(IF lo + i - 1 < cut THEN c ELSE best, lo + i - 1)
      BY <1>2, <1>5
    <2> QED
      BY <2>2, <2>3 DEF CompactBlock
  <1> QED
    BY <1>4, <1>5, <1>6

\* The numbers of a sync.
LEMMA SyncNumbers ==
  ASSUME IInv
  PROVE  /\ MaxHeight \in Nat /\ Confirmed \in 0..MaxHeight /\ goal \in 0..MaxHeight
         /\ goal \in Nat /\ goal <= Confirmed /\ Confirmed \in Nat
         /\ range.next \in 0..(MaxHeight + 1) /\ range.last \in 0..MaxHeight
         /\ bottom \in 0..(MaxHeight + 1)
         /\ range = [next |-> range.next, last |-> range.last, prev |-> range.prev]
         /\ table \in Tables /\ On(table, best, Confirmed)
  <1>1. Confirmed \in 0..MaxHeight /\ MaxHeight \in Nat
    BY ConfirmedParts, Numbers DEF IInv
  <1>2. goal \in 0..Confirmed
        /\ range \in [next : 0..(MaxHeight + 1), last : 0..MaxHeight, prev : Hashes \cup {NoHash}]
        /\ bottom \in 0..(MaxHeight + 1) /\ On(table, best, Confirmed)
    BY DEF IInv, Control
  <1>3. table \in Tables
    BY <1>2 DEF On
  <1> QED
    BY <1>1, <1>2, <1>3

\* One batch of sync_blocks.
LEMMA SyncBatchKeeps ==
  ASSUME IInv, SyncBatch, UNCHANGED metadata
  PROVE  IInv'
  <1> DEFINE end == MinOf(range.next + BatchSize - 1, range.last)
  <1>1. /\ Answered /\ UNCHANGED observerVars /\ pc = "sync" /\ pc' = pc /\ goal' = goal
        /\ UNCHANGED <<fromSnapshot, bottom, live, unsaved, followed, metadata>>
        /\ UNCHANGED diskVars /\ served' = {best}
        /\ 1 <= range.next /\ range.next <= range.last
    BY DEF SyncBatch, Answered
  <1>2. /\ NodeType' /\ Later /\ best' = best /\ Confirmed' = Confirmed /\ lagged' = lagged
        /\ served' \subseteq served
    BY <1>1, NodeStands DEF IInv
  <1>3. PICK blocks \in Streams(range.next, end) :
          /\ ValidRange(blocks, range.next, end, range.prev)
          /\ table' = InsertAll(table, range.next, [i \in DOMAIN blocks |-> blocks[i].hash])
          /\ range' = [range EXCEPT !.next = end + 1, !.prev = Last(blocks).hash]
    BY DEF SyncBatch
  <1>4. /\ MaxHeight \in Nat /\ Confirmed \in 0..MaxHeight /\ goal \in 0..MaxHeight
        /\ goal \in Nat /\ goal <= Confirmed /\ Confirmed \in Nat
        /\ range.next \in 0..(MaxHeight + 1) /\ range.last \in 0..MaxHeight
        /\ bottom \in 0..(MaxHeight + 1)
        /\ range = [next |-> range.next, last |-> range.last, prev |-> range.prev]
        /\ table \in Tables /\ On(table, best, Confirmed)
    BY SyncNumbers
  <1>5. range.last <= goal
    BY <1>1, <1>4 DEF IInv, Syncing
  <1> DEFINE next == range.next
             last == range.last
  <1>6. next \in Nat /\ 1 <= next /\ next <= last /\ last \in Nat
    BY <1>1, <1>4
  <1>7. end \in Nat /\ next <= end /\ end <= last
    <2>1. BatchSize \in Nat /\ BatchSize >= 1
      BY Numbers
    <2>2. end = IF next + BatchSize - 1 < last THEN next + BatchSize - 1 ELSE last
      BY DEF MinOf
    <2> HIDE DEF next, last, end
    <2> QED
      BY <1>6, <2>1, <2>2
  <1> HIDE DEF end
  <1>8. end <= goal /\ end <= Confirmed /\ end <= MaxHeight
    BY <1>4, <1>5, <1>6, <1>7
  <1> DEFINE k == end - next + 1
             hashes == [i \in DOMAIN blocks |-> blocks[i].hash]
  <1>9. /\ Len(blocks) = k /\ DOMAIN blocks = 1..k
        /\ \A i \in 1..k : blocks[i].hash = best[next + i - 1]
    <2>1. 1 <= range.next /\ range.next <= end /\ range.next \in Nat /\ end <= goal /\ end \in Nat
      BY <1>6, <1>7, <1>8
    <2> QED
      BY <1>1, <1>3, <2>1, StreamAgrees
  <1>10. k \in Nat /\ k >= 1 /\ next + k - 1 = end /\ k \in 1..k
    BY <1>6, <1>7
  <1>11. Len(hashes) = k /\ \A i \in 1..k : hashes[i] = best[next + i - 1]
    <2>1. hashes = [i \in 1..k |-> blocks[i].hash]
      BY <1>9
    <2> QED
      BY <1>9, <1>10, <2>1
  <1>12. best \in Chains
    BY <1>2 DEF Later
  <1> HIDE DEF hashes, k
  <1>13. On(table', best, Confirmed) /\ DOMAIN table' = DOMAIN table \cup next..end
    <2>1. next + k - 1 <= Confirmed /\ next >= 1
      BY <1>6, <1>8, <1>10
    <2>2. table' = InsertAll(table, next, hashes)
      BY <1>3 DEF hashes
    <2> HIDE DEF next
    <2>3. /\ best \in Chains /\ Confirmed \in 0..MaxHeight /\ On(table, best, Confirmed)
          /\ next \in Nat /\ k \in Nat /\ Len(hashes) = k /\ next >= 1 /\ next + k - 1 <= Confirmed
          /\ \A i \in 1..k : hashes[i] = best[next + i - 1]
      BY <1>4, <1>6, <1>10, <1>11, <1>12, <2>1
    <2>4. On(table', best, Confirmed)
      BY <2>2, <2>3, InsertOn
    <2>5. DOMAIN table' = DOMAIN table \cup next..(next + Len(hashes) - 1)
      BY <2>2 DEF InsertAll
    <2> QED
      BY <1>10, <2>3, <2>4, <2>5
  <1>14. range'.next = end + 1 /\ range'.last = last /\ range'.prev \in Hashes
         /\ range' = [next |-> end + 1, last |-> last, prev |-> range'.prev]
    <2>1. Last(blocks).hash = best[next + k - 1]
      BY <1>9, <1>10 DEF Last
    <2>2. best[next + k - 1] \in Hashes
      BY <1>6, <1>7, <1>8, <1>10, <1>12, ChainHash, Numbers
    <2> QED
      BY <1>3, <1>4, <2>1, <2>2
  <1>15. Control'
    <2>1. end + 1 \in 0..(MaxHeight + 1) /\ last \in 0..MaxHeight
      BY <1>4, <1>7, <1>8
    <2>2. range' \in [next : 0..(MaxHeight + 1), last : 0..MaxHeight, prev : Hashes \cup {NoHash}]
      BY <1>14, <2>1
    <2>3. On(table', best', Confirmed')
      BY <1>2, <1>13
    <2> QED
      BY <1>1, <1>2, <2>2, <2>3 DEF IInv, Control, Serving
  <1>16. Agreed' /\ FilledOrFloor'
    BY <1>1, <1>2 DEF Agreed, FilledOrFloor
  <1>17. Syncing'
    <2>1. CASE fromSnapshot
      <3>1. /\ last = goal /\ Run(table, next - 1)
        BY <1>1, <2>1 DEF IInv, Syncing
      <3>2. PICK a \in 1..(MaxHeight + 1) : DOMAIN table = a..(next - 1)
        BY <3>1 DEF Run
      <3> DEFINE b == IF a <= next THEN a ELSE next
      <3>3. b \in 1..(MaxHeight + 1) /\ a..(next - 1) \cup next..end = b..end
        BY <1>4, <1>6, <1>7
      <3>4. DOMAIN table' = b..end
        BY <1>13, <3>2, <3>3
      <3>5. Run(table', end)
        BY <3>3, <3>4 DEF Run
      <3>6. range'.next - 1 = end
        BY <1>7, <1>14
      <3>7. DOMAIN table' # {}
        BY <1>6, <1>7, <1>13
      <3> HIDE DEF last
      <3> QED
        BY <1>1, <1>14, <2>1, <3>1, <3>5, <3>6, <3>7 DEF Syncing
    <2>2. CASE ~fromSnapshot
      <3>1. /\ MinSyncHeight(goal) <= bottom /\ bottom <= next
            /\ bottom <= goal \/ goal = 0
            /\ DOMAIN table = bottom..(next - 1) \cup (last + 1)..goal
        BY <1>1, <2>2 DEF IInv, Syncing
      <3>2. bottom..(next - 1) \cup next..end = bottom..end
        BY <1>4, <1>6, <1>7, <3>1
      <3>3. DOMAIN table' = bottom..end \cup (last + 1)..goal
        BY <1>13, <3>1, <3>2
      <3>4. range'.next - 1 = end /\ bottom <= range'.next /\ range'.next <= last + 1
        BY <1>4, <1>6, <1>7, <1>14, <3>1
      <3>5. last <= goal
        BY <1>5
      <3> HIDE DEF last, next
      <3> QED
        BY <1>1, <1>14, <2>2, <3>1, <3>3, <3>4, <3>5 DEF Syncing
    <2> QED
      BY <2>1, <2>2
  <1>18. Following'
    BY <1>1, <1>2 DEF IInv, Following
  <1>19. Promised'
    BY <1>1, <1>2 DEF IInv, Promised, Serving
  <1>20. Stored'
    BY <1>1, <1>2, StoredStays DEF IInv
  <1> QED
    BY <1>2, <1>15, <1>16, <1>17, <1>18, <1>19, <1>20 DEF IInv

\* The next batch downwards.
LEMMA BackfillKeeps ==
  ASSUME IInv, Backfill, UNCHANGED metadata
  PROVE  IInv'
  <1>1. /\ UNCHANGED worldVars /\ pc = "sync" /\ pc' = pc /\ goal' = goal
        /\ UNCHANGED <<fromSnapshot, table, live, unsaved, followed, metadata>>
        /\ UNCHANGED diskVars
        /\ range.next > range.last /\ ~fromSnapshot /\ BackfillEnd >= MinSyncHeight(goal)
        /\ range' = [next |-> BackfillStart, last |-> BackfillEnd, prev |-> NoHash]
        /\ bottom' = BackfillStart
    BY DEF Backfill
  <1>2. /\ NodeType' /\ Later /\ best' = best /\ Confirmed' = Confirmed /\ lagged' = lagged
        /\ served' \subseteq served
    BY <1>1, NodeStands DEF IInv
  <1>3. /\ MaxHeight \in Nat /\ goal \in 0..MaxHeight /\ goal \in Nat
        /\ range.next \in 0..(MaxHeight + 1) /\ range.last \in 0..MaxHeight
        /\ bottom \in 0..(MaxHeight + 1)
    BY SyncNumbers
  <1>4. /\ MinSyncHeight(goal) <= bottom /\ bottom <= range.next
        /\ range.next <= range.last + 1 /\ range.last <= goal
        /\ bottom <= goal \/ goal = 0
        /\ DOMAIN table = bottom..(range.next - 1) \cup (range.last + 1)..goal
    BY <1>1 DEF IInv, Syncing
  <1> DEFINE m == MinSyncHeight(goal)
             start == BackfillStart
             end == BackfillEnd
  <1>5. m \in Nat /\ m >= 1 /\ end >= m
    BY <1>1, <1>3, MinSync
  <1>6. end = bottom - 1 /\ bottom >= 2
    BY <1>3, <1>5 DEF BackfillEnd, MaxOf
  <1>7. start \in Nat /\ m <= start /\ start <= end
    <2>1. start = MaxOf(MaxOf(end - (BackfillBatch - 1), 0), m)
      BY DEF BackfillStart
    <2>2. end \in Nat /\ BackfillBatch \in Nat /\ BackfillBatch >= 1
      BY <1>3, <1>6, Numbers
    <2> HIDE DEF start, end, m
    <2> QED
      BY <1>5, <2>1, <2>2 DEF MaxOf
  <1> HIDE DEF start, end, m
  <1>8. range'.next = start /\ range'.last = end /\ bottom' = start
        /\ range' = [next |-> start, last |-> end, prev |-> NoHash]
    BY <1>1 DEF start, end
  <1>9. end <= goal /\ end \in 0..MaxHeight /\ start \in 0..(MaxHeight + 1)
    BY <1>3, <1>4, <1>6, <1>7
  <1>10. Control'
    <2>1. range' \in [next : 0..(MaxHeight + 1), last : 0..MaxHeight, prev : Hashes \cup {NoHash}]
      BY <1>8, <1>9
    <2> QED
      BY <1>1, <1>2, <1>8, <1>9, <2>1 DEF IInv, Control, Serving
  <1>11. Agreed' /\ FilledOrFloor'
    BY <1>1, <1>2 DEF IInv, Agreed, FilledOrFloor
  <1>12. Syncing'
    <2>1. range.next = range.last + 1
      BY <1>1, <1>3, <1>4
    <2>2. bottom..(range.next - 1) \cup (range.last + 1)..goal = bottom..goal
      BY <1>3, <1>4, <2>1
    <2>3. start..(start - 1) \cup (end + 1)..goal = bottom..goal
      BY <1>3, <1>6, <1>7
    <2>4. DOMAIN table = start..(start - 1) \cup (end + 1)..goal
      BY <1>4, <2>2, <2>3
    <2>5. start <= start /\ start <= end + 1 /\ start <= goal
      BY <1>3, <1>6, <1>7, <1>9
    <2>6. MinSyncHeight(goal) <= start
      BY <1>7 DEF m
    <2> QED
      BY <1>1, <1>8, <1>9, <2>4, <2>5, <2>6 DEF Syncing
  <1>13. Following'
    BY <1>1, <1>2 DEF IInv, Following
  <1>14. Promised'
    BY <1>1, <1>2 DEF IInv, Promised, Serving
  <1>15. Stored'
    BY <1>1, <1>2, StoredStays DEF IInv
  <1> QED
    BY <1>2, <1>10, <1>11, <1>12, <1>13, <1>14, <1>15 DEF IInv

\* Evict, publish, and begin to save.
LEMMA PublishKeeps ==
  ASSUME IInv, Publish, UNCHANGED metadata
  PROVE  IInv'
  <1> DEFINE e == Evict(table)
  <1>1. /\ UNCHANGED worldVars /\ pc = "sync" /\ pc' = "save"
        /\ UNCHANGED <<goal, fromSnapshot, range, bottom, unsaved, followed, metadata>>
        /\ table' = e /\ live' = {e} /\ StartWrite("snapshot.bin", e)
        /\ range.next > range.last
        /\ fromSnapshot \/ Size(table) >= TargetSize \/ BackfillEnd < MinSyncHeight(goal)
    BY DEF Publish, syncVars
  <1>2. /\ NodeType' /\ Later /\ best' = best /\ Confirmed' = Confirmed /\ lagged' = lagged
        /\ served' \subseteq served
    BY <1>1, NodeStands DEF IInv
  <1>3. /\ MaxHeight \in Nat /\ goal \in 0..MaxHeight /\ goal \in Nat
        /\ Confirmed \in 0..MaxHeight /\ goal <= Confirmed
        /\ range.next \in 0..(MaxHeight + 1) /\ range.last \in 0..MaxHeight
        /\ bottom \in 0..(MaxHeight + 1) /\ table \in Tables /\ On(table, best, Confirmed)
    BY SyncNumbers
  <1>4. MinSyncHeight(goal) \in Nat /\ MinSyncHeight(goal) >= 1
    BY <1>3, MinSync
  <1>5. ASSUME ~fromSnapshot
        PROVE  /\ DOMAIN table = bottom..goal /\ MinSyncHeight(goal) <= bottom
               /\ bottom <= goal \/ goal = 0
    <2>1. /\ MinSyncHeight(goal) <= bottom /\ bottom <= range.next
          /\ range.next <= range.last + 1 /\ range.last <= goal
          /\ bottom <= goal \/ goal = 0
          /\ DOMAIN table = bottom..(range.next - 1) \cup (range.last + 1)..goal
      BY <1>1, <1>5 DEF IInv, Syncing
    <2>2. range.next = range.last + 1
      BY <1>1, <1>3, <2>1
    <2>3. bottom..(range.next - 1) \cup (range.last + 1)..goal = bottom..goal
      BY <1>3, <2>1, <2>2
    <2> QED
      BY <2>1, <2>3
  <1>6. \E n \in Int : Run(table, n) /\ goal <= n /\ n <= MaxHeight /\ n >= 0
    <2>1. CASE fromSnapshot
      <3>1. range.last = goal /\ Run(table, range.next - 1)
        BY <1>1, <2>1 DEF IInv, Syncing
      <3>2. range.next - 1 \in Int /\ goal <= range.next - 1 /\ range.next - 1 <= MaxHeight
            /\ range.next - 1 >= 0
        BY <1>1, <1>3, <3>1
      <3> QED
        BY <3>1, <3>2
    <2>2. CASE ~fromSnapshot
      <3>1. bottom \in 1..(MaxHeight + 1)
        BY <1>3, <1>4, <1>5, <2>2
      <3>2. Run(table, goal)
        BY <1>5, <2>2, <3>1 DEF Run
      <3> QED
        BY <1>3, <3>2
    <2> QED
      BY <2>1, <2>2
  <1>7. PICK n \in Int : Run(table, n) /\ goal <= n /\ n <= MaxHeight /\ n >= 0
    BY <1>6
  <1>8. /\ e \in Tables /\ Run(e, n) /\ On(e, best, Confirmed)
        /\ DOMAIN table # {} => DOMAIN e # {}
    BY <1>3, <1>7, EvictRun
  <1>9. Gapless(e)
    <2>1. n \in 0..MaxHeight
      BY <1>3, <1>7
    <2> QED
      BY <1>8, <2>1, RunGapless
  <1>10. goal >= 1 => DOMAIN table # {}
    <2>1. CASE fromSnapshot
      <3>1. range.last = goal /\ (DOMAIN table # {} \/ range.next = goal)
        BY <1>1, <2>1 DEF IInv, Syncing
      <3> QED
        BY <1>1, <1>3, <3>1
    <2>2. CASE ~fromSnapshot
      <3>1. DOMAIN table = bottom..goal /\ (bottom <= goal \/ goal = 0)
        BY <1>5, <2>2
      <3>2. goal >= 1 => goal \in bottom..goal
        BY <1>3, <3>1
      <3> QED
        BY <3>1, <3>2
    <2> QED
      BY <2>1, <2>2
  <1>11. followed = <<>>
    BY <1>1 DEF IInv, Following
  <1>12. Stored'
    <2>1. Fit(e, best, Confirmed)
      BY <1>8, <1>9 DEF Fit
    <2> QED
      BY <1>1, <1>2, <2>1, BeginStores DEF IInv
  <1>13. FilledOrFloor'
    <2> DEFINE floor == MinSyncHeight(goal)
    <2>1. SUFFICES ASSUME ~fromSnapshot
                   PROVE  IF DOMAIN e = {} THEN goal < floor
                          ELSE /\ DOMAIN e = Oldest(e)..goal
                               /\ floor <= Oldest(e)
                               /\ \/ Oldest(e) = floor
                                  \/ Size(e) + NullifierCount[best[Oldest(e) - 1]] > EvictSize
                                  \/ Size(e) >= TargetSize
      BY <1>1, <1>2 DEF FilledOrFloor
    <2>2. DOMAIN table = bottom..goal /\ floor <= bottom
      BY <1>5, <2>1
    <2>3. CASE DOMAIN e = {}
      BY <1>3, <1>4, <1>8, <1>10, <2>3
    <2>4. CASE DOMAIN e # {}
      <3>1. Oldest(e) \in DOMAIN e /\ Newest(e) = n /\ DOMAIN e = Oldest(e)..n
            /\ Oldest(e) \in 1..n /\ \A h \in DOMAIN e : Oldest(e) <= h
        BY <1>8, <2>4, RunEnds, Ends
      <3>2. DOMAIN e \subseteq DOMAIN table /\ (\A h \in DOMAIN e : e[h] = table[h])
            /\ \A g \in DOMAIN table \ DOMAIN e :
                 (\A h \in DOMAIN table : h > g => h \in DOMAIN e) =>
                   Size(e) + NullifierCount[table[g]] > EvictSize
        BY <1>3, EvictParts
      <3> DEFINE lo == Oldest(e)
                 D == DOMAIN e
      <3>3. lo \in D /\ D = lo..n /\ lo \in 1..n /\ D \subseteq bottom..goal
        BY <2>2, <3>1, <3>2
      <3> HIDE DEF lo, D, e
      <3>4. n = goal /\ lo \in bottom..goal
        BY <1>3, <1>7, <3>3
      <3>5. lo = floor \/ Size(e) + NullifierCount[best[lo - 1]] > EvictSize \/ Size(e) >= TargetSize
        <4>1. CASE lo = bottom
          <5>1. D = DOMAIN table
            BY <2>2, <3>3, <3>4, <4>1
          <5>2. e = table
            <6>1. e = [h \in D |-> e[h]] /\ table = [h \in DOMAIN table |-> table[h]]
              BY <1>3, <1>8, TableParts DEF D
            <6> QED
              BY <3>2, <5>1, <6>1 DEF D
          <5>3. CASE Size(table) >= TargetSize
            BY <5>2, <5>3
          <5>4. CASE BackfillEnd < floor
            <6>1. floor = bottom
              BY <1>3, <1>4, <2>2, <5>4 DEF BackfillEnd, MaxOf
            <6> QED
              BY <4>1, <6>1
          <5> QED
            BY <1>1, <2>1, <5>3, <5>4
        <4>2. CASE lo # bottom
          <5>1. lo - 1 \in bottom..goal /\ lo - 1 \notin D
            BY <1>3, <3>3, <3>4, <4>2
          <5>2. \A h \in DOMAIN table : h > lo - 1 => h \in D
            BY <1>3, <2>2, <3>3, <3>4
          <5>3. Size(e) + NullifierCount[table[lo - 1]] > EvictSize
            BY <2>2, <3>2, <5>1, <5>2 DEF D
          <5>4. table[lo - 1] = best[lo - 1]
            BY <1>3, <2>2, <5>1 DEF On
          <5> QED
            BY <5>3, <5>4
        <4> QED
          BY <4>1, <4>2
      <3>6. floor <= lo
        BY <1>3, <1>4, <2>2, <3>4
      <3> QED
        BY <2>4, <3>3, <3>4, <3>5, <3>6 DEF lo, D
    <2> QED
      BY <2>3, <2>4
  <1> HIDE DEF e
  <1>14. Control'
    BY <1>1, <1>2, <1>8, <1>9 DEF IInv, Control, Serving
  <1>15. Agreed' /\ Syncing'
    BY <1>1 DEF Agreed, Syncing
  <1>16. Following'
    BY <1>1, <1>11 DEF Following, IInv
  <1>17. Promised'
    <2>1. ASSUME NEW span \in metadata, ~lagged PROVE span.latest <= Metadata(e).latest
      <3>1. span.latest <= goal /\ span.latest \in 0..MaxHeight
        BY <1>1, <2>1 DEF IInv, Promised, Spans
      <3>2. CASE goal = 0
        <4>1. Metadata(e).latest \in 0..MaxHeight
          BY <1>8, MetadataParts DEF Spans
        <4> QED
          BY <3>1, <3>2, <4>1
      <3>3. CASE goal >= 1
        <4>1. DOMAIN e # {}
          BY <1>8, <1>10, <3>3
        <4>2. Metadata(e).latest = n
          BY <1>8, <4>1, RunEnds, MetadataParts
        <4> QED
          BY <1>3, <1>7, <3>1, <4>2
      <3> QED
        BY <1>3, <3>2, <3>3
    <2> QED
      BY <1>1, <1>2, <2>1 DEF IInv, Promised, Serving
  <1> QED
    BY <1>2, <1>12, <1>13, <1>14, <1>15, <1>16, <1>17 DEF IInv

-----------------------------------------------------------------------------
(* Following *)

\* A write ends.
LEMMA EndWriteKeeps ==
  ASSUME IInv, EndWrite, UNCHANGED metadata
  PROVE  IInv'
  <1>1. /\ UNCHANGED worldVars /\ RenameTmp
        /\ UNCHANGED <<table, live, unsaved, followed, metadata>>
        /\ IF pc = "label" THEN pc' = "tip" /\ UNCHANGED syncVars
           ELSE IF followed # <<>> THEN pc' = "follow" /\ UNCHANGED syncVars
           ELSE pc' = "connect" /\ ForgetSync
    BY DEF EndWrite
  <1>2. /\ NodeType' /\ Later /\ best' = best /\ Confirmed' = Confirmed /\ lagged' = lagged
        /\ served' \subseteq served
    BY <1>1, NodeStands DEF IInv
  <1>3. pc \in {"label", "save"}
    <2>1. io.step # "idle"
      BY <1>1 DEF RenameTmp
    <2> QED
      BY <2>1 DEF IInv, Stored, Written
  <1>4. pc = "save" => pc' \in Serving
    BY <1>1, <1>3 DEF Serving
  <1>5. Control'
    <2>1. Confirmed \in 0..MaxHeight
      BY <1>2 DEF Later
    <2>2. NoRange \in [next : 0..(MaxHeight + 1), last : 0..MaxHeight, prev : Hashes \cup {NoHash}]
      BY Numbers DEF NoRange
    <2>3. /\ goal' \in 0..Confirmed /\ bottom' \in 0..(MaxHeight + 1)
          /\ range' \in [next : 0..(MaxHeight + 1), last : 0..MaxHeight, prev : Hashes \cup {NoHash}]
      BY <1>1, <2>1, <2>2, Numbers DEF IInv, Control, syncVars, ForgetSync
    <2> QED
      BY <1>1, <1>2, <1>3, <2>3 DEF IInv, Control, Serving
  <1>6. Agreed' /\ Syncing' /\ FilledOrFloor'
    BY <1>1, <1>3 DEF Agreed, Syncing, FilledOrFloor
  <1>7. Following'
    BY <1>1, <1>2, <1>3 DEF IInv, Following
  <1>8. Promised'
    BY <1>1, <1>2, <1>3, <1>4 DEF IInv, Promised, Serving
  <1>9. Stored'
    BY <1>1, <1>2, <1>3, RenameStores DEF IInv
  <1> QED
    BY <1>2, <1>5, <1>6, <1>7, <1>8, <1>9 DEF IInv

\* follow_blocks starts.
LEMMA ConnectKeeps ==
  ASSUME IInv, Connect, UNCHANGED metadata
  PROVE  IInv'
  <1> DEFINE n == Newest(table)
  <1>1. /\ Answered /\ UNCHANGED observerVars /\ pc = "connect" /\ pc' = "follow"
        /\ DOMAIN table # {} /\ followed' = SubSeq(best, 1, n)
        /\ UNCHANGED <<syncVars, table, live, unsaved, metadata>>
        /\ UNCHANGED diskVars
    BY DEF Connect
  <1>2. /\ NodeType' /\ Later /\ best' = best /\ Confirmed' = Confirmed /\ lagged' = lagged
        /\ served' \subseteq served
    BY <1>1, NodeStands DEF IInv
  <1>3. /\ MaxHeight \in Nat /\ Confirmed \in 0..MaxHeight /\ table \in Tables
        /\ On(table, best, Confirmed) /\ Gapless(table)
    BY <1>1, SyncNumbers DEF IInv, Control, Serving
  <1>4. Run(table, n) /\ n \in Heights /\ n \in DOMAIN table
    BY <1>1, <1>3, RunGapless, Ends
  <1> HIDE DEF n
  <1>5. n \in 1..Confirmed
    BY <1>3, <1>4 DEF On
  <1>6. /\ followed' \in Seq(Hashes) /\ Len(followed') = n /\ followed' # <<>>
    <2>1. best \in Seq(Hashes) /\ Len(best) = MaxHeight
      BY <1>2, ChainHash DEF Later
    <2>2. 1 \in 1..(MaxHeight + 1) /\ n \in 0..MaxHeight /\ n >= 1
      BY <1>3, <1>5
    <2>3. SubSeq(best, 1, n) \in Seq(Hashes) /\ Len(SubSeq(best, 1, n)) = n
      BY <2>1, <2>2
    <2>4. followed' = SubSeq(best, 1, n)
      BY <1>1 DEF n
    <2>5. followed' \in Seq(Hashes) /\ Len(followed') = n
      BY <2>3, <2>4
    <2>6. followed' # <<>>
      BY <2>2, <2>5
    <2> QED
      BY <2>5, <2>6
  <1>7. Control'
    BY <1>1, <1>2 DEF IInv, Control, Serving, syncVars
  <1>8. Agreed' /\ Syncing' /\ FilledOrFloor'
    BY <1>1 DEF Agreed, Syncing, FilledOrFloor
  <1>9. Following'
    BY <1>1, <1>2, <1>4, <1>5, <1>6 DEF Following
  <1>10. Promised'
    BY <1>1, <1>2 DEF IInv, Promised, Serving
  <1>11. Stored'
    BY <1>1, <1>2, StoredStays DEF IInv
  <1> QED
    BY <1>2, <1>7, <1>8, <1>9, <1>10, <1>11 DEF IInv

\* The end of the follow loop's body, for a table that is fit to be saved.
LEMMA HandledKeeps ==
  ASSUME IInv, UNCHANGED metadata, pc = "follow", NEW t, Handled(t), Fit(t, best, Confirmed),
         followed' \in Seq(Hashes), followed' # <<>>, Len(followed') <= Confirmed,
         followed' = SubSeq(best, 1, Len(followed')), Run(t, Len(followed')),
         ~lagged => \A span \in metadata : span.latest <= Metadata(t).latest
  PROVE  IInv'
  <1>1. /\ UNCHANGED worldVars /\ UNCHANGED syncVars /\ table' = t /\ live' = {t}
        /\ \/ unsaved' = 0 /\ pc' = "save" /\ StartWrite("snapshot.bin", t)
           \/ unsaved + 1 < SnapshotInterval /\ unsaved' = unsaved + 1
              /\ pc' = pc /\ UNCHANGED diskVars
    <2>1. /\ UNCHANGED worldVars /\ UNCHANGED syncVars /\ table' = t /\ live' = {t}
          /\ IF unsaved + 1 >= SnapshotInterval
             THEN unsaved' = 0 /\ pc' = "save" /\ StartWrite("snapshot.bin", t)
             ELSE unsaved' = unsaved + 1 /\ UNCHANGED <<pc, diskVars>>
      BY DEF Handled
    <2>2. unsaved \in 0..(SnapshotInterval - 1) /\ SnapshotInterval \in Nat
      BY Numbers DEF IInv, Control
    <2>3. CASE unsaved + 1 >= SnapshotInterval
      BY <2>1, <2>3
    <2>4. CASE ~(unsaved + 1 >= SnapshotInterval)
      <3>1. unsaved + 1 < SnapshotInterval
        BY <2>2, <2>4
      <3> QED
        BY <2>1, <2>4, <3>1
    <2> QED
      BY <2>3, <2>4
  <1>2. /\ NodeType' /\ Later /\ best' = best /\ Confirmed' = Confirmed /\ lagged' = lagged
        /\ served' \subseteq served
    BY <1>1, NodeStands DEF IInv
  <1>3. pc' \in {"save", "follow"}
    BY <1>1
  <1>4. unsaved' \in 0..(SnapshotInterval - 1)
    BY <1>1, Numbers DEF IInv, Control
  <1>5. Control'
    BY <1>1, <1>2, <1>3, <1>4 DEF IInv, Control, Serving, Fit, syncVars
  <1>6. Agreed' /\ Syncing' /\ FilledOrFloor'
    BY <1>3 DEF Agreed, Syncing, FilledOrFloor
  <1>7. Following'
    BY <1>1, <1>2, <1>3 DEF Following
  <1>8. Promised'
    BY <1>1, <1>2, <1>3 DEF IInv, Promised, Serving
  <1>9. Stored'
    <2>1. CASE pc' = "save" /\ StartWrite("snapshot.bin", t)
      BY <1>2, <2>1, BeginStores DEF IInv
    <2>2. CASE pc' = pc /\ UNCHANGED diskVars
      BY <1>2, <2>2, StoredStays DEF IInv
    <2> QED
      BY <1>1, <2>1, <2>2
  <1> QED
    BY <1>2, <1>5, <1>6, <1>7, <1>8, <1>9 DEF IInv

\* What the follower has handed over.
LEMMA FollowParts ==
  ASSUME IInv, pc = "follow"
  PROVE  /\ followed \in Seq(Hashes) /\ Len(followed) \in 1..Confirmed /\ Len(followed) \in Nat
         /\ followed = SubSeq(best, 1, Len(followed)) /\ Run(table, Len(followed))
         /\ table \in Tables /\ On(table, best, Confirmed)
         /\ Confirmed \in 0..MaxHeight /\ MaxHeight \in Nat /\ Confirmed \in Nat
         /\ best \in Chains /\ best \in Seq(Hashes) /\ Len(best) = MaxHeight
  <1>1. /\ followed \in Seq(Hashes) /\ followed # <<>> /\ Len(followed) <= Confirmed
        /\ followed = SubSeq(best, 1, Len(followed)) /\ Run(table, Len(followed))
    BY DEF IInv, Following
  <1>2. /\ table \in Tables /\ On(table, best, Confirmed)
        /\ Confirmed \in 0..MaxHeight /\ MaxHeight \in Nat /\ Confirmed \in Nat
    BY SyncNumbers
  <1>3. best \in Chains
    BY ConfirmedParts DEF IInv
  <1>4. best \in Seq(Hashes) /\ Len(best) = MaxHeight
    BY <1>3, ChainHash
  <1>5. Len(followed) \in Nat /\ Len(followed) # 0
    BY <1>1
  <1>6. Len(followed) \in 1..Confirmed
    BY <1>1, <1>2, <1>5
  <1> QED
    BY <1>1, <1>2, <1>3, <1>4, <1>5, <1>6

\* BlockEvent::NewBlock.
LEMMA BlockKeeps ==
  ASSUME IInv, HandleBlock, UNCHANGED metadata
  PROVE  IInv'
  <1> DEFINE m == Len(followed)
             n == m + 1
             hashes == <<Last(followed')>>
             longer == InsertAll(table, n, hashes)
             e == Evict(longer)
  <1>1. pc = "follow" /\ Follower!Extend /\ ConfirmedBlocks(followed')
    BY DEF HandleBlock
  <1>2. /\ followed \in Seq(Hashes) /\ m \in 1..Confirmed /\ m \in Nat
        /\ followed = SubSeq(best, 1, m) /\ Run(table, m)
        /\ table \in Tables /\ On(table, best, Confirmed)
        /\ Confirmed \in 0..MaxHeight /\ MaxHeight \in Nat /\ Confirmed \in Nat
        /\ best \in Chains /\ best \in Seq(Hashes) /\ Len(best) = MaxHeight
    BY <1>1, FollowParts
  <1>3. PICK c \in Chains : m < Len(c) /\ followed' = SubSeq(c, 1, m + 1)
    BY <1>1 DEF Follower!Extend
  <1>4. c \in Seq(Hashes) /\ Len(c) = MaxHeight
    BY ChainHash
  <1>5. /\ followed' \in Seq(Hashes) /\ Len(followed') = n /\ DOMAIN followed' = 1..n
        /\ n \in Nat /\ n >= 1 /\ n <= MaxHeight
    <2>1. n \in Nat /\ n >= 1 /\ n <= Len(c)
      BY <1>2, <1>3, <1>4
    <2>2. SubSeq(c, 1, n) \in Seq(Hashes) /\ Len(SubSeq(c, 1, n)) = n
      BY <1>4, <2>1
    <2> QED
      BY <1>3, <1>4, <2>1, <2>2
  <1>6. n <= Confirmed /\ \A h \in 1..n : followed'[h] = best[h]
    <2>1. n \in DOMAIN followed' /\ deep = FALSE
      BY <1>5 DEF IInv, NodeType
    <2> QED
      BY <1>1, <1>5, <2>1 DEF ConfirmedBlocks
  <1>7. followed' = SubSeq(best, 1, n)
    <2>1. followed' = [h \in 1..n |-> followed'[h]]
      BY <1>5
    <2>2. SubSeq(best, 1, n) = [h \in 1..n |-> best[h]]
      BY <1>2, <1>5
    <2> QED
      BY <1>6, <2>1, <2>2
  <1>8. /\ Len(hashes) = 1 /\ \A i \in 1..1 : hashes[i] = best[n + i - 1]
    <2>1. Last(followed') = best[n] /\ n + 1 - 1 = n
      BY <1>5, <1>6 DEF Last
    <2> QED
      BY <2>1
  <1> HIDE DEF hashes
  <1>9. DOMAIN longer = DOMAIN table \cup n..n
    <2>1. DOMAIN longer = DOMAIN table \cup n..(n + Len(hashes) - 1)
      BY DEF InsertAll
    <2> QED
      BY <1>5, <1>8, <2>1
  <1>10. On(longer, best, Confirmed)
    <2>1. 1 \in Nat /\ n + 1 - 1 <= Confirmed
      BY <1>5, <1>6
    <2> HIDE DEF n
    <2>2. longer = InsertAll(table, n, hashes)
      OBVIOUS
    <2> HIDE DEF longer
    <2> QED
      BY <1>2, <1>5, <1>8, <2>1, <2>2, InsertOn
  <1> HIDE DEF longer, e
  <1>11. longer \in Tables
    BY <1>10 DEF On
  <1>12. Run(longer, n) /\ DOMAIN longer # {}
    <2>1. PICK a \in 1..(MaxHeight + 1) : DOMAIN table = a..m
      BY <1>2 DEF Run
    <2> DEFINE b == IF a <= n THEN a ELSE n
    <2>2. b \in 1..(MaxHeight + 1) /\ a..m \cup n..n = b..n
      BY <1>2, <1>5
    <2>3. DOMAIN longer = b..n
      BY <1>9, <2>1, <2>2
    <2>4. n \in n..n
      BY <1>5
    <2> QED
      BY <1>9, <2>2, <2>3, <2>4 DEF Run
  <1>13. /\ e \in Tables /\ Run(e, n) /\ DOMAIN e # {} /\ On(e, best, Confirmed)
    <2>1. n \in Int
      BY <1>5
    <2> QED
      BY <1>10, <1>11, <1>12, <2>1, EvictRun DEF e
  <1>14. Fit(e, best, Confirmed)
    <2>1. n \in 0..MaxHeight
      BY <1>2, <1>5
    <2> QED
      BY <1>13, <2>1, RunGapless DEF Fit
  <1>15. Metadata(e).latest = n
    <2>1. n \in Int
      BY <1>5
    <2> QED
      BY <1>13, <2>1, RunEnds, MetadataParts
  <1>16. ASSUME NEW span \in metadata, ~lagged PROVE span.latest <= Metadata(e).latest
    <2>1. span.latest <= Metadata(table).latest /\ span.latest \in 0..MaxHeight
      BY <1>1, <1>16 DEF IInv, Promised, Spans, Serving
    <2>2. Metadata(table).latest \in 0..m
      <3>1. CASE DOMAIN table = {}
        BY <1>2, <3>1, MetadataParts
      <3>2. CASE DOMAIN table # {}
        <4>1. m \in Int
          BY <1>2
        <4>2. Metadata(table).latest = m
          BY <1>2, <3>2, <4>1, RunEnds, MetadataParts
        <4> QED
          BY <1>2, <4>2
      <3> QED
        BY <3>1, <3>2
    <2> QED
      BY <1>2, <1>15, <2>1, <2>2
  <1>17. Handled(e)
    <2>1. Handled(Evict(InsertAll(table, Len(followed'), <<Last(followed')>>)))
      BY DEF HandleBlock
    <2> QED
      BY <1>5, <2>1 DEF e, longer, hashes
  <1>18. followed' # <<>>
    BY <1>5
  <1> QED
    BY <1>1, <1>5, <1>6, <1>7, <1>13, <1>14, <1>16, <1>17, <1>18, HandledKeeps

\* BlockEvent::Reorg.
LEMMA ReorgKeeps ==
  ASSUME IInv, HandleReorg, UNCHANGED metadata
  PROVE  IInv'
  <1> DEFINE m == Len(followed)
             hs == {g \in DOMAIN table : g <= Len(followed')}
             cut == [h \in hs |-> table[h]]
             e == Evict(cut)
  <1>1. pc = "follow" /\ Follower!Retract /\ followed' \notin {<<>>, followed} /\ lagged
        /\ Handled(e)
    BY DEF HandleReorg
  <1>2. /\ followed \in Seq(Hashes) /\ m \in 1..Confirmed /\ m \in Nat
        /\ followed = SubSeq(best, 1, m) /\ Run(table, m)
        /\ table \in Tables /\ On(table, best, Confirmed)
        /\ Confirmed \in 0..MaxHeight /\ MaxHeight \in Nat /\ Confirmed \in Nat
        /\ best \in Chains /\ best \in Seq(Hashes) /\ Len(best) = MaxHeight
    BY <1>1, FollowParts
  <1>3. PICK n \in 0..m : followed' = SubSeq(followed, 1, n)
    BY <1>1 DEF Follower!Retract
  <1>4. /\ followed' \in Seq(Hashes) /\ Len(followed') = n /\ n \in Nat /\ n <= m /\ n >= 1
    <2>1. n \in 0..Len(followed) /\ n \in Nat
      BY <1>2, <1>3
    <2>2. SubSeq(followed, 1, n) \in Seq(Hashes) /\ Len(SubSeq(followed, 1, n)) = n
      BY <1>2, <2>1
    <2>3. n # 0
      BY <1>1, <1>3, <2>2
    <2> QED
      BY <1>3, <2>1, <2>2, <2>3
  <1>5. followed' = SubSeq(best, 1, n)
    <2>1. SubSeq(followed, 1, n) = [i \in 1..n |-> followed[i]]
      BY <1>2, <1>4
    <2>2. followed = [i \in 1..m |-> best[i]]
      <3>1. SubSeq(best, 1, m) = [i \in 1..m |-> best[i]]
        BY <1>2
      <3> QED
        BY <1>2, <3>1
    <2>3. SubSeq(best, 1, n) = [i \in 1..n |-> best[i]]
      BY <1>2, <1>4
    <2>4. \A i \in 1..n : i \in 1..m
      BY <1>2, <1>4
    <2>5. \A i \in 1..n : followed[i] = best[i]
      BY <2>2, <2>4
    <2> QED
      BY <1>3, <2>1, <2>3, <2>5
  <1>6. hs \in SUBSET DOMAIN table
    OBVIOUS
  <1>7. DOMAIN cut = hs /\ \A h \in hs : cut[h] = table[h]
    OBVIOUS
  <1>8. cut \in Tables
    BY <1>2, <1>6, TableParts
  <1>9. Run(cut, n)
    <2>1. PICK a \in 1..(MaxHeight + 1) : DOMAIN table = a..m
      BY <1>2 DEF Run
    <2>2. hs = a..n
      BY <1>2, <1>4, <2>1
    <2> HIDE DEF hs
    <2> QED
      BY <1>7, <2>2 DEF Run
  <1> HIDE DEF hs
  <1>10. On(cut, best, Confirmed)
    BY <1>2, <1>6, <1>7, <1>8 DEF On
  <1> HIDE DEF cut, e
  <1>11. e \in Tables /\ Run(e, n) /\ On(e, best, Confirmed)
    <2>1. n \in Int
      BY <1>4
    <2> QED
      BY <1>8, <1>9, <1>10, <2>1, EvictRun DEF e
  <1>12. Fit(e, best, Confirmed)
    <2>1. n \in 0..MaxHeight
      BY <1>2, <1>4
    <2> QED
      BY <1>11, <2>1, RunGapless DEF Fit
  <1>13. n <= Confirmed /\ followed' # <<>>
    BY <1>1, <1>2, <1>4
  <1> QED
    BY <1>1, <1>4, <1>5, <1>11, <1>12, <1>13, HandledKeeps

-----------------------------------------------------------------------------
(* The client, and the whole *)

\* The client reads the metadata of the published table.
LEMMA ReadKeeps ==
  ASSUME IInv, ReadMetadata
  PROVE  IInv'
  <1>1. UNCHANGED worldVars /\ UNCHANGED volatile /\ UNCHANGED diskVars
    BY DEF ReadMetadata, serverVars
  <1>2. /\ NodeType' /\ Later /\ best' = best /\ Confirmed' = Confirmed /\ lagged' = lagged
        /\ served' = served
    <2>1. served' = served
      BY <1>1 DEF worldVars, nodeVars
    <2> QED
      BY <1>1, <2>1, NodeStands DEF IInv
  <1>3. /\ pc' = pc /\ goal' = goal /\ fromSnapshot' = fromSnapshot /\ range' = range
        /\ bottom' = bottom /\ table' = table /\ live' = live /\ unsaved' = unsaved
        /\ followed' = followed
    BY <1>1 DEF volatile, syncVars
  <1>4. pc \in Serving /\ metadata' = {Metadata(table)}
    <2>1. PICK t \in live : metadata' = {Metadata(t)}
      BY DEF ReadMetadata
    <2> QED
      BY <2>1 DEF IInv, Control
  <1>5. Control'
    BY <1>2, <1>3 DEF IInv, Control
  <1>6. Agreed' /\ Syncing' /\ Following'
    BY <1>2, <1>3 DEF IInv, Agreed, Syncing, Following
  <1>7. FilledOrFloor'
    BY <1>2, <1>3 DEF IInv, FilledOrFloor
  <1>8. Promised'
    <2>1. /\ table \in Tables /\ On(table, best, Confirmed) /\ Confirmed \in 0..MaxHeight
      BY SyncNumbers
    <2>2. Metadata(table) \in Spans
      BY <2>1, MetadataParts
    <2>3. Metadata(table).latest <= Confirmed
      <3>1. CASE DOMAIN table = {}
        BY <2>1, <3>1, MetadataParts
      <3>2. CASE DOMAIN table # {}
        <4>1. Newest(table) \in DOMAIN table
          BY <2>1, <3>2, Ends
        <4> QED
          BY <2>1, <3>2, <4>1, MetadataParts DEF On
      <3> QED
        BY <3>1, <3>2
    <2>4. Metadata(table).latest <= Metadata(table).latest
      BY <2>2 DEF Spans
    <2>5. Cardinality(metadata') = 1
      BY <1>4, FS_Singleton
    <2>6. pc \notin {"load", "sync"}
      BY <1>4 DEF Serving
    <2> QED
      BY <1>2, <1>3, <1>4, <2>2, <2>3, <2>4, <2>5, <2>6 DEF Promised
  <1>9. Stored'
    BY <1>1, <1>2, <1>3, StoredStays DEF IInv
  <1> QED
    BY <1>2, <1>5, <1>6, <1>7, <1>8, <1>9 DEF IInv

\* A server starts in a directory of its own, or in another's.
LEMMA DirectoryParts ==
  ASSUME NEW dir \in Directories
  PROVE  /\ Own(dir) \/ Foreign(dir)
         /\ Typed(dir) /\ Content(dir, "snapshot.bin") \in {NoFile, OldSnapshot}
  <1> DEFINE Dir(marker, snap, tmp) ==
               [f \in Names |->
                  IF f = "dataset.json" THEN marker
                  ELSE IF f = "snapshot.bin" THEN snap
                  ELSE IF f = "snapshot.bin.tmp" THEN tmp
                  ELSE NoFile]
             old == File(OldSnapshot, "disk")
             other == File(OtherMarker, "disk")
  <1>0. other # NoFile
    BY FileIntro
  <1>1. PICK marker \in {NoFile, other}, snap \in {NoFile, old}, tmp \in {NoFile, old} :
          /\ dir = Dir(marker, snap, tmp)
          /\ marker = other => snap = old
    <2>1. CASE dir = Dir(NoFile, NoFile, NoFile)
      BY <1>0, <2>1
    <2>2. CASE dir = Dir(other, old, NoFile)
      BY <1>0, <2>2
    <2>3. CASE dir = Dir(NoFile, old, NoFile)
      BY <1>0, <2>3
    <2>4. CASE dir = Dir(NoFile, NoFile, old)
      BY <1>0, <2>4
    <2>5. dir \in {Dir(NoFile, NoFile, NoFile), Dir(other, old, NoFile),
                   Dir(NoFile, old, NoFile), Dir(NoFile, NoFile, old)}
      BY DEF Directories
    <2> HIDE DEF Dir
    <2> QED
      BY <2>1, <2>2, <2>3, <2>4, <2>5
  <1>2. /\ old \in Files /\ old # NoFile /\ old.data = OldSnapshot
        /\ other \in Files /\ other # NoFile /\ other.data = OtherMarker /\ NoFile \in Files
    BY FileIntro DEF Files
  <1>3. /\ dir["dataset.json"] = marker /\ dir["snapshot.bin"] = snap
        /\ dir["snapshot.bin.tmp"] = tmp /\ dir["dataset.json.tmp"] = NoFile
    BY <1>1 DEF Names, Finals, Tmps
  <1> HIDE DEF Dir, old, other
  <1>4. Typed(dir)
    BY <1>1, <1>2, <1>3 DEF Typed, Names, Finals, Tmps
  <1>5. /\ Content(dir, "dataset.json") = IF marker = NoFile THEN NoFile ELSE OtherMarker
        /\ Content(dir, "snapshot.bin") = IF snap = NoFile THEN NoFile ELSE OldSnapshot
        /\ Content(dir, "snapshot.bin.tmp") = IF tmp = NoFile THEN NoFile ELSE OldSnapshot
    BY <1>1, <1>2, <1>3 DEF Content
  <1>6. CASE snap = NoFile /\ tmp = NoFile
    <2>1. marker = NoFile
      BY <1>1, <1>2, <1>6
    <2>2. Own(dir)
      BY <1>3, <1>5, <1>6, <2>1, FilesAssumption DEF Own
    <2> QED
      BY <1>4, <1>5, <2>2
  <1>7. CASE snap # NoFile \/ tmp # NoFile
    <2>1. Foreign(dir)
      BY <1>1, <1>5, <1>7 DEF Foreign
    <2> QED
      BY <1>4, <1>5, <2>1
  <1> QED
    BY <1>6, <1>7

\* The invariant holds at the start.
LEMMA InitHolds == ASSUME Init PROVE IInv
  <1>1. /\ best \in Chains /\ tip \in Heights /\ served = {best}
        /\ peak = tip /\ lagged = FALSE /\ deep = FALSE /\ FilesInit /\ pc = "down"
        /\ goal = 0 /\ fromSnapshot = FALSE /\ range = NoRange /\ bottom = 0
        /\ table = NoBlocks /\ live = {} /\ unsaved = 0 /\ followed = <<>> /\ metadata = {}
    BY DEF Init, ServerInit, NodeInit, ObserverInit
  <1>2. NodeType
    BY <1>1, Numbers DEF NodeType
  <1>3. Confirmed \in 0..MaxHeight
    BY <1>2, ConfirmedParts
  <1>4. Control
    <2>1. Fit(NoBlocks, best, Confirmed)
      BY <1>3, NoBlocksFit
    <2>2. range \in [next : 0..(MaxHeight + 1), last : 0..MaxHeight, prev : Hashes \cup {NoHash}]
      BY <1>1, Numbers DEF NoRange
    <2> QED
      BY <1>1, <1>3, <2>1, <2>2, Numbers DEF Control, Fit, Serving
  <1>5. Agreed /\ Syncing /\ Following /\ FilledOrFloor
    BY <1>1 DEF Agreed, Syncing, Following, FilledOrFloor
  <1>6. Promised
    <2>1. Cardinality({}) = 0
      BY FS_EmptySet
    <2> QED
      BY <1>1, <2>1 DEF Promised
  <1>7. Stored
    <2>1. disk \in Directories /\ settled = disk /\ io = Idle
      BY <1>1 DEF FilesInit
    <2>2. FilesInv
      BY <1>1, InitWhole
    <2>3. /\ Own(disk) \/ Foreign(disk)
          /\ Typed(disk) /\ Content(disk, "snapshot.bin") \in {NoFile, OldSnapshot}
      BY <2>1, DirectoryParts
    <2>4. \A dir \in {disk, settled} : Typed(dir) /\ Sound(dir, best, Confirmed)
      BY <2>1, <2>3 DEF Sound
    <2>5. Written /\ Owned
      BY <1>1, <2>1, <2>3 DEF Written, Owned, Idle
    <2> QED
      BY <2>2, <2>4, <2>5 DEF Stored
  <1> QED
    BY <1>2, <1>4, <1>5, <1>6, <1>7 DEF IInv

\* Every step keeps the invariant.
LEMMA NextKeeps == IInv /\ [Next]_vars => IInv'
  <1> SUFFICES ASSUME IInv, [Next]_vars PROVE IInv'
    OBVIOUS
  <1>1. CASE ChainStep /\ ~deep' /\ UNCHANGED serverVars /\ UNCHANGED metadata
    BY <1>1, NodeKeeps
  <1>2. CASE ServerStep /\ UNCHANGED metadata
    BY <1>2, StartKeeps, ReadTipKeeps, LoadKeeps, SyncBatchKeeps, BackfillKeeps, PublishKeeps,
       WriteKeeps, EndWriteKeeps, ConnectKeeps, BlockKeeps, ReorgKeeps, CrashKeeps DEF ServerStep
  <1>3. CASE ReadMetadata
    BY <1>3, ReadKeeps
  <1>4. CASE UNCHANGED vars
    BY <1>4, StutterKeeps
  <1> QED
    BY <1>1, <1>2, <1>3, <1>4 DEF Next, ServerNext

\* The server's tables, its sync, its files and its client's metadata fit together in every
\* state: the inductive invariant.
THEOREM InvariantHolds == Spec => []IInv
  BY InitHolds, NextKeeps, PTL DEF Spec

-----------------------------------------------------------------------------
(* What follows from the invariant *)

\* Every variable holds a value of its type.
THEOREM TypeCorrect == Spec => []TypeOK
  <1>1. IInv => TypeOK
    <2> SUFFICES ASSUME IInv PROVE TypeOK
      OBVIOUS
    <2>1. /\ table \in Tables /\ {goal, range.last} \subseteq 0..MaxHeight
          /\ {range.next, bottom} \subseteq 0..(MaxHeight + 1)
      BY SyncNumbers
    <2>2. live \subseteq {table}
      BY DEF IInv, Control
    <2>3. \A dir \in {disk, settled} : \A f \in Names : dir[f] \in Files
      BY DEF IInv, Stored, Typed
    <2>4. io.step \in {"idle", "create", "write", "sync", "rename"}
      BY DEF IInv, Stored, FilesInv, Writing, Idle
    <2>5. (io.step # "idle") = (pc \in {"label", "save"})
      BY DEF IInv, Stored, Written
    <2>6. best \in served /\ served \subseteq Chains
      BY DEF IInv, NodeType
    <2>7. /\ pc \in {"down", "refused", "label", "tip", "load", "sync", "save", "connect", "follow"}
          /\ unsaved \in 0..(SnapshotInterval - 1)
      BY DEF IInv, Control, Serving
    <2>8. followed \in Seq(Hashes)
      BY DEF IInv, Following
    <2>9. metadata \subseteq Spans /\ Cardinality(metadata) <= 1
      BY DEF IInv, Promised
    <2> QED
      BY <2>1, <2>2, <2>3, <2>4, <2>5, <2>6, <2>7, <2>8, <2>9 DEF TypeOK
  <1> QED
    BY <1>1, InvariantHolds, PTL

\* What is fit to be saved consists of consecutive confirmed blocks.
LEMMA FitConfirmed ==
  ASSUME IInv, NEW t, On(t, best, Confirmed)
  PROVE  ConfirmedBlocks(t) /\ (Gapless(t) => Contiguous(t))
  <1>1. Confirmed \in 0..MaxHeight
    BY SyncNumbers
  <1>2. \A h \in DOMAIN t : h \in 1..Confirmed /\ t[h] = best[h]
    BY DEF On
  <1>3. ConfirmedBlocks(t)
    BY <1>1, <1>2 DEF ConfirmedBlocks
  <1>4. ASSUME Gapless(t) PROVE Contiguous(t)
    <2>1. PICK n \in 0..MaxHeight, a \in 1..(MaxHeight + 1) : DOMAIN t = a..n
      BY <1>4 DEF Gapless, Run
    <2>2. \A g, h \in a..n : g..h \subseteq a..n
      BY <2>1
    <2> QED
      BY <2>1, <2>2 DEF Contiguous
  <1> QED
    BY <1>3, <1>4

\* Every table the server has built, published or saved is a run of consecutive confirmed
\* blocks of the network's chain: sync_into, backfill, restarts and rollbacks keep it so,
\* whatever the sizes and intervals.
THEOREM TablesStayConfirmed == Spec => []ConfirmedForever
  <1>1. IInv => ConfirmedForever
    <2> SUFFICES ASSUME IInv PROVE ConfirmedForever
      OBVIOUS
    <2>1. On(table, best, Confirmed)
      BY SyncNumbers
    <2>2. \A t \in live : t = table /\ Gapless(table)
      BY DEF IInv, Control
    <2>3. ASSUME NEW dir \in {disk, settled}, Content(dir, "snapshot.bin") \notin {NoFile, OldSnapshot}
          PROVE  /\ ConfirmedBlocks(Content(dir, "snapshot.bin"))
                 /\ Contiguous(Content(dir, "snapshot.bin"))
      <3>1. Fit(Content(dir, "snapshot.bin"), best, Confirmed)
        BY <2>3 DEF IInv, Stored, Sound
      <3> QED
        BY <3>1, FitConfirmed DEF Fit
    <2>4. \A t \in {table} \cup live : ConfirmedBlocks(t)
      BY <2>1, <2>2, FitConfirmed
    <2>5. \A t \in live : Contiguous(t)
      BY <2>1, <2>2, FitConfirmed
    <2> QED
      BY <2>3, <2>4, <2>5 DEF ConfirmedForever
  <1> QED
    BY <1>1, InvariantHolds, PTL

\* A new table is published complete: it ends at the target height, and evict_to_target and
\* the loop of backfills have left out no block above the lowest one that the sizes allow.
THEOREM NewTablesFilled == Spec => []FilledOrFloor
  <1>1. IInv => FilledOrFloor
    BY DEF IInv
  <1> QED
    BY <1>1, InvariantHolds, PTL

\* ensure_ironwood_dataset never refuses a directory that was new when a server of this
\* dataset first started there, and a server never reads or writes in another's.
THEOREM DirectoriesStayApart == Spec => []OwnDirectoryOpens
  <1>1. IInv => OwnDirectoryOpens
    <2> SUFFICES ASSUME IInv PROVE OwnDirectoryOpens
      OBVIOUS
    <2>1. /\ \/ Own(disk) /\ pc # "refused"
             \/ Foreign(disk) /\ pc \in {"down", "refused"}
          /\ pc \in {"down", "refused"} => table = NoBlocks
      BY DEF IInv, Stored, Owned, Control, Serving
    <2> QED
      BY <2>1 DEF OwnDirectoryOpens, Own, Foreign
  <1> QED
    BY <1>1, InvariantHolds, PTL

\* A client that keeps the metadata it once read gets no wrong answer from any table
\* published since: a spent nullifier is one of a confirmed block, and an unspent one is in
\* no promised block that has not been evicted.
THEOREM AnswersStayTrue == Spec => []AnswersHold
  <1>1. IInv => AnswersHold
    <2> SUFFICES ASSUME IInv PROVE AnswersHold
      OBVIOUS
    <2>1. /\ table \in Tables /\ On(table, best, Confirmed) /\ MaxHeight \in Nat
          /\ Confirmed \in 0..MaxHeight
      BY SyncNumbers
    <2>2. \A t \in live : t = table /\ Gapless(table) /\ pc \in Serving
      BY DEF IInv, Control
    <2>3. ASSUME NEW x, IsSpent(table, x) PROVE \E h \in 1..Confirmed : best[h] = x
      BY <2>1, <2>3 DEF IsSpent, On
    <2>4. ASSUME NEW x, ~IsSpent(table, x), ~lagged, Gapless(table), pc \in Serving,
                 NEW span \in metadata, NEW h \in Heights \cap span.earliest..span.latest,
                 best[h] = x
          PROVE  h < Metadata(table).earliest
      <3>1. span.latest <= Metadata(table).latest /\ span.latest \in 0..MaxHeight
            /\ span.earliest \in 0..MaxHeight
        BY <2>4 DEF IInv, Promised, Spans
      <3>2. Metadata(table) \in Spans
        BY <2>1, MetadataParts
      <3>3. h \in Nat /\ h >= 1 /\ h <= Metadata(table).latest
        BY <3>1, <3>2, Numbers DEF Spans
      <3>4. DOMAIN table # {}
        <4>1. Metadata(table).latest # 0
          BY <3>2, <3>3 DEF Spans
        <4> QED
          BY <2>1, <4>1, MetadataParts
      <3>5. Run(table, Newest(table)) /\ Newest(table) \in Heights
        BY <2>1, <2>4, <3>4, RunGapless
      <3>6. DOMAIN table = Oldest(table)..Newest(table) /\ Oldest(table) \in Nat
            /\ Newest(table) \in Nat
        <4>1. Newest(table) \in Int /\ Newest(table) \in Nat
          BY <3>5, Numbers
        <4>2. DOMAIN table = Oldest(table)..Newest(table) /\ Oldest(table) \in 1..Newest(table)
          BY <2>1, <3>4, <3>5, <4>1, RunEnds
        <4> QED
          BY <4>1, <4>2
      <3>7. Metadata(table).latest = Newest(table) /\ Metadata(table).earliest = Oldest(table)
        BY <2>1, <3>4, MetadataParts
      <3>8. h \notin DOMAIN table
        <4>1. SUFFICES ASSUME h \in DOMAIN table PROVE FALSE
          OBVIOUS
        <4>2. table[h] = x
          BY <2>1, <2>4, <4>1 DEF On
        <4> QED
          BY <2>4, <4>1, <4>2 DEF IsSpent
      <3> QED
        BY <3>3, <3>6, <3>7, <3>8
    <2> QED
      BY <2>2, <2>3, <2>4 DEF AnswersHold
  <1> QED
    BY <1>1, InvariantHolds, PTL

\* What the server and its environment do to its files is what the files allow.
LEMMA StepOfFiles == IInv /\ IInv' /\ [Next]_vars => [FilesNext]_diskVars
  <1> SUFFICES ASSUME IInv, IInv', [Next]_vars PROVE [FilesNext]_diskVars
    OBVIOUS
  <1>1. ASSUME NEW f, NEW data, StartWrite(f, data),
               f = "snapshot.bin" \/ (f = "dataset.json" /\ data = OurMarker)
        PROVE  FilesNext
    <2>1. BeginWrite(f, data) /\ settled' \in {disk, settled}
      BY <1>1 DEF StartWrite
    <2>2. io' = [step |-> "create", file |-> f, data |-> data]
      BY <2>1 DEF BeginWrite
    <2>3. f = "snapshot.bin" => Fit(data, best', Confirmed')
      BY <2>2 DEF IInv, Stored, Written
    <2>4. best' \in Chains /\ Confirmed' \in 0..MaxHeight
      <3>1. NodeType'
        BY DEF IInv
      <3>2. best' \in Chains /\ peak' \in 1..MaxHeight
        BY <3>1, Numbers DEF NodeType
      <3>3. Confirmed' = MaxOf(peak' - Depth, 0)
        BY DEF Confirmed
      <3>4. \A a \in 1..MaxHeight : MaxOf(a - Depth, 0) \in 0..MaxHeight
        BY Numbers DEF MaxOf
      <3> QED
        BY <3>2, <3>3, <3>4
    <2>5. f = "snapshot.bin" => data \in Snapshots
      BY <2>3, <2>4, FitIsSnapshot
    <2> QED
      BY <1>1, <2>1, <2>5 DEF FilesNext
  <1>2. ASSUME NEW t, Handled(t) PROVE FilesNext \/ UNCHANGED diskVars
    BY <1>1, <1>2 DEF Handled
  <1>3. CASE UNCHANGED serverVars
    BY <1>3 DEF serverVars
  <1>4. CASE Start
    BY <1>1, <1>4 DEF Start
  <1>5. CASE ReadTip \/ Load \/ SyncBatch \/ Backfill \/ Connect
    BY <1>5 DEF ReadTip, Load, SyncBatch, Backfill, Connect
  <1>6. CASE Publish
    BY <1>1, <1>6 DEF Publish
  <1>7. CASE Write
    BY <1>7 DEF Write, FilesNext
  <1>8. CASE EndWrite
    BY <1>8 DEF EndWrite, FilesNext
  <1>9. CASE HandleBlock \/ HandleReorg
    BY <1>2, <1>9 DEF HandleBlock, HandleReorg
  <1>10. CASE Crash
    BY <1>10 DEF Crash, FilesNext
  <1> QED
    BY <1>3, <1>4, <1>5, <1>6, <1>7, <1>8, <1>9, <1>10
    DEF Next, ServerNext, ServerStep, ReadMetadata, vars

\* The snapshot file of a running server is an atomic cell: among all its steps, and those
\* of the node and the client, a load finds the old content or the new one, whole.
THEOREM SnapshotStaysAtomic == Spec => IsAtomicCell
  <1>1. Init => Cell!Init
    BY InitOfCell DEF Init, ServerInit
  <1>2. IInv => FilesInv
    BY DEF IInv, Stored
  <1> QED
    BY <1>1, <1>2, InitHolds, NextKeeps, StepOfFiles, StepOfCell, PTL DEF Spec, IsAtomicCell, Cell!Spec
=============================================================================
