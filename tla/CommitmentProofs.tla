-------------------------- MODULE CommitmentProofs --------------------------
(***************************************************************************)
(* The commitment tree, and the servers that keep one.                     *)
(*                                                                         *)
(* CommitmentStore: for every window geometry, every set of blocks and     *)
(* every sequence of appends, reorgs, rebuilds, saves and restarts the     *)
(* cached sub-shard roots are never stale, what is published is what the   *)
(* blocks determine, and the tree is a log of blocks.                      *)
(*                                                                         *)
(* WitnessServer: for every set of chains, with every distribution of      *)
(* commitments over their blocks, and every order in which the node moves, *)
(* answers and lags and the process ends, every tree the server saves or   *)
(* publishes is the network's tree after a confirmed block.                *)
(***************************************************************************)
EXTENDS CommitmentStore, WitnessServer, Induction, SequenceTheorems

-----------------------------------------------------------------------------
(* Division by the size of a sub-shard *)

\* A quotient and its remainder.
LEMMA Quotient ==
  ASSUME NEW a \in Nat, NEW d \in Nat \ {0}
  PROVE  a \div d \in Nat /\ (a \div d) * d <= a /\ a < (a \div d) * d + d
  OBVIOUS

\* The rows before one end where it begins, or earlier.
LEMMA RowsApart ==
  ASSUME NEW q \in Nat, NEW r \in Nat, q < r, NEW d \in Nat
  PROVE  q * d + d <= r * d
  <1>1. PICK k \in Nat : r = q + 1 + k
    <2>1. r - q - 1 \in Nat /\ r = q + 1 + (r - q - 1)
      OBVIOUS
    <2> QED
      BY <2>1
  <1>2. r * d = q * d + d + k * d
    BY <1>1
  <1>3. k * d \in Nat
    OBVIOUS
  <1> QED
    BY <1>2, <1>3

-----------------------------------------------------------------------------
(* LeavesUpTo *)

\* Block records, as far as the sums are concerned.
Counted(blocks) == Len(blocks) \in Nat /\ \A i \in 1..Len(blocks) : blocks[i].num \in Nat

\* The equations of the sums up to n.
Sums(f, blocks, n) == f[0] = 0 /\ \A k \in 1..n : f[k] = f[k - 1] + blocks[k].num

\* There are such sums, one block after the other.
LEMMA SumsExist ==
  ASSUME NEW blocks, Counted(blocks)
  PROVE  \E f \in [0..Len(blocks) -> Nat] : Sums(f, blocks, Len(blocks))
  <1> DEFINE T == {n \in 0..Len(blocks) : \E f \in [0..n -> Nat] : Sums(f, blocks, n)}
  <1>1. 0 \in T
    <2>1. [k \in 0..0 |-> 0] \in [0..0 -> Nat] /\ Sums([k \in 0..0 |-> 0], blocks, 0)
      BY DEF Sums
    <2> QED
      BY <2>1 DEF Counted
  <1>2. ASSUME NEW n \in 0..(Len(blocks) - 1), n \in T PROVE n + 1 \in T
    <2>1. PICK f \in [0..n -> Nat] : Sums(f, blocks, n)
      BY <1>2
    <2> DEFINE g == [k \in 0..(n + 1) |-> IF k = n + 1 THEN f[n] + blocks[n + 1].num ELSE f[k]]
    <2>2. n \in Nat /\ n + 1 \in 0..Len(blocks) /\ blocks[n + 1].num \in Nat /\ f[n] \in Nat
      BY <1>2, <2>1 DEF Counted
    <2>3. g \in [0..(n + 1) -> Nat]
      BY <2>2
    <2>4. g[0] = 0
      BY <2>1, <2>2 DEF Sums
    <2>5. ASSUME NEW k \in 1..(n + 1) PROVE g[k] = g[k - 1] + blocks[k].num
      <3>1. CASE k = n + 1
        BY <2>2, <3>1
      <3>2. CASE k # n + 1
        <4>1. k \in 1..n /\ k - 1 \in 0..n
          BY <2>2, <3>2
        <4> QED
          BY <2>1, <2>2, <4>1 DEF Sums
      <3> QED
        BY <3>1, <3>2
    <2> HIDE DEF g
    <2>6. Sums(g, blocks, n + 1)
      BY <2>4, <2>5 DEF Sums
    <2> QED
      BY <2>2, <2>3, <2>6
  <1> HIDE DEF T
  <1>3. Len(blocks) \in Nat
    BY DEF Counted
  <1>4. \A n \in 0..Len(blocks) : n \in T
    BY <1>1, <1>2, <1>3, UpTo
  <1>5. Len(blocks) \in T
    BY <1>3, <1>4
  <1> QED
    BY <1>5 DEF T

\* What the recursive function of the model is.
LEMMA LeavesUpToSums ==
  ASSUME NEW blocks, Counted(blocks)
  PROVE  /\ LeavesUpTo(blocks) \in [0..Len(blocks) -> Nat]
         /\ Sums(LeavesUpTo(blocks), blocks, Len(blocks))
  <1> DEFINE Eq(f) == f = [n \in 0..Len(blocks) |-> IF n = 0 THEN 0 ELSE f[n - 1] + blocks[n].num]
  <1>0. Len(blocks) \in Nat
    BY DEF Counted
  <1>1. PICK g \in [0..Len(blocks) -> Nat] : Sums(g, blocks, Len(blocks))
    BY SumsExist
  <1>2. Eq(g)
    BY <1>0, <1>1 DEF Sums
  <1>3. LeavesUpTo(blocks) = CHOOSE f : Eq(f)
    BY DEF LeavesUpTo
  <1>4. Eq(LeavesUpTo(blocks))
    <2> HIDE DEF Eq
    <2> QED
      BY <1>2, <1>3
  <1>5. Sums(LeavesUpTo(blocks), blocks, Len(blocks))
    BY <1>0, <1>4 DEF Sums
  <1> DEFINE T == {n \in 0..Len(blocks) : LeavesUpTo(blocks)[n] \in Nat}
  <1>6. 0 \in T
    BY <1>0, <1>5 DEF Sums
  <1>7. ASSUME NEW n \in 0..(Len(blocks) - 1), n \in T PROVE n + 1 \in T
    <2>1. n + 1 \in 1..Len(blocks) /\ (n + 1) - 1 = n /\ LeavesUpTo(blocks)[n] \in Nat
      BY <1>0, <1>7
    <2>2. LeavesUpTo(blocks)[n + 1] = LeavesUpTo(blocks)[n] + blocks[n + 1].num
      BY <1>5, <2>1 DEF Sums
    <2>3. blocks[n + 1].num \in Nat
      BY <2>1 DEF Counted
    <2> QED
      BY <1>0, <2>1, <2>2, <2>3
  <1>8. \A n \in 0..Len(blocks) : LeavesUpTo(blocks)[n] \in Nat
    <2>1. \A n \in 0..Len(blocks) : n \in T
      <3> HIDE DEF T
      <3> QED
        BY <1>0, <1>6, <1>7, UpTo
    <2> QED
      BY <2>1
  <1> QED
    BY <1>4, <1>5, <1>8

\* The sums of two sequences of blocks agree as far as the sequences do.
LEMMA SumsAgree ==
  ASSUME NEW blocks, NEW others, Counted(blocks), Counted(others),
         NEW m \in Nat, m <= Len(blocks), m <= Len(others),
         \A i \in 1..m : blocks[i] = others[i]
  PROVE  \A n \in 0..m : LeavesUpTo(blocks)[n] = LeavesUpTo(others)[n]
  <1> DEFINE u == LeavesUpTo(blocks)
             w == LeavesUpTo(others)
             T == {n \in 0..m : u[n] = w[n]}
  <1>1. /\ Sums(u, blocks, Len(blocks)) /\ Sums(w, others, Len(others))
        /\ Len(blocks) \in Nat /\ Len(others) \in Nat
    BY LeavesUpToSums DEF Counted
  <1> HIDE DEF u, w
  <1>2. 0 \in T
    BY <1>1 DEF Sums
  <1>3. ASSUME NEW n \in 0..(m - 1), n \in T PROVE n + 1 \in T
    <2>1. n + 1 \in 1..m /\ (n + 1) - 1 = n /\ n + 1 \in 1..Len(blocks) /\ n + 1 \in 1..Len(others)
      BY <1>1, <1>3
    <2>2. u[n + 1] = u[n] + blocks[n + 1].num /\ w[n + 1] = w[n] + others[n + 1].num
      BY <1>1, <2>1 DEF Sums
    <2> QED
      BY <1>3, <2>1, <2>2
  <1>4. \A n \in 0..m : n \in T
    <2> HIDE DEF T
    <2> QED
      BY <1>2, <1>3, UpTo
  <1> QED
    BY <1>4 DEF u, w

\* Sums grow with the number of blocks.
LEMMA SumsGrow ==
  ASSUME NEW blocks, Counted(blocks), NEW m \in 0..Len(blocks), NEW n \in m..Len(blocks)
  PROVE  LeavesUpTo(blocks)[m] <= LeavesUpTo(blocks)[n]
  <1> DEFINE u == LeavesUpTo(blocks)
             T == {k \in 0..(Len(blocks) - m) : u[m] <= u[m + k]}
  <1>1. u \in [0..Len(blocks) -> Nat] /\ Sums(u, blocks, Len(blocks)) /\ Len(blocks) \in Nat
    BY LeavesUpToSums DEF Counted
  <1> HIDE DEF u
  <1>2. 0 \in T
    BY <1>1
  <1>3. ASSUME NEW k \in 0..(Len(blocks) - m - 1), k \in T PROVE k + 1 \in T
    <2>1. /\ m + k + 1 \in 1..Len(blocks) /\ (m + k + 1) - 1 = m + k /\ m + k \in 0..Len(blocks)
          /\ k + 1 \in 0..(Len(blocks) - m)
      BY <1>1, <1>3
    <2>2. u[m + k + 1] = u[m + k] + blocks[m + k + 1].num
      BY <1>1, <2>1 DEF Sums
    <2>3. blocks[m + k + 1].num \in Nat
      BY <2>1 DEF Counted
    <2>4. u[m] \in Nat /\ u[m + k] \in Nat /\ u[m] <= u[m + k]
      BY <1>1, <1>3, <2>1
    <2>5. m + (k + 1) = m + k + 1
      BY <1>1, <1>3
    <2>6. u[m] <= u[m + (k + 1)]
      BY <2>2, <2>3, <2>4, <2>5
    <2> QED
      BY <2>1, <2>6
  <1>4. Len(blocks) - m \in Nat
    BY <1>1
  <1>5. \A k \in 0..(Len(blocks) - m) : k \in T
    <2> HIDE DEF T
    <2> QED
      BY <1>2, <1>3, <1>4, UpTo
  <1>6. n - m \in 0..(Len(blocks) - m) /\ m + (n - m) = n
    BY <1>1
  <1> QED
    BY <1>5, <1>6 DEF u

-----------------------------------------------------------------------------
(* The operations of CommitmentTree *)

BlockRecords == [height : Nat, hash : {b.hash : b \in Blocks}, num : Nat]

\* Every leaf belongs to a block, and no cached root is stale.
Accounted(t) == LeavesUpTo(t.blocks)[Len(t.blocks)] = Len(t.leaves)
Coherent(t) == \A r \in Rows : t.cache[r] # None => t.cache[r] = Root(0, Row(t.leaves, r))
Sound(t) == TreeOK(t) /\ Accounted(t) /\ Coherent(t)

\* The constants of the geometry are numbers.
LEMMA Geometry ==
  /\ SubshardLeaves \in Nat \ {0} /\ SubshardsPerShard \in Nat \ {0} /\ MaxShards \in Nat \ {0}
  /\ Rows \subseteq Nat
  <1>1. \A x \in {SubshardLeaves, SubshardsPerShard, MaxShards} : x \in Nat \ {0}
    BY TreeAssumption
  <1> QED
    BY <1>1 DEF Rows

\* The parts of a well-typed tree.
LEMMA TreeParts ==
  ASSUME NEW t, TreeOK(t)
  PROVE  /\ t.prefetched \in SubtreeRoots \cup {<<>>}
         /\ t.leaves \in Seq(Leaves) /\ Len(t.leaves) \in Nat
         /\ t.blocks \in Seq(BlockRecords) /\ Len(t.blocks) \in Nat
         /\ t.cache \in [Rows -> Roots \cup {None}]
         /\ Counted(t.blocks)
  <1>1. /\ t.prefetched \in SubtreeRoots \cup {<<>>}
        /\ t.leaves \in Seq(Leaves) /\ Len(t.leaves) \in Nat
        /\ t.blocks \in Seq(BlockRecords) /\ Len(t.blocks) \in Nat
        /\ t.cache \in [Rows -> Roots \cup {None}]
    BY DEF TreeOK, BlockRecords
  <1>2. \A i \in 1..Len(t.blocks) : t.blocks[i] \in BlockRecords
    BY <1>1
  <1> QED
    BY <1>1, <1>2 DEF Counted, BlockRecords

\* A row of well-typed leaves has a root.
LEMMA RowRoot ==
  ASSUME NEW leaves \in Seq(Leaves), NEW r \in Nat
  PROVE  Root(0, Row(leaves, r)) \in Roots
  <1>1. \A p \in Nat \ {0} : p <= Len(leaves) => leaves[p] \in Leaves
    OBVIOUS
  <1>2. \A j \in 1..SubshardLeaves : r * SubshardLeaves + j \in Nat \ {0}
    BY Geometry
  <1>3. Row(leaves, r) \in [1..SubshardLeaves -> Leaves \cup {EmptyLeaf}]
    BY <1>1, <1>2 DEF Row
  <1> QED
    BY <1>3 DEF Roots, Root

\* A row depends on the leaves under it.
LEMMA RowAgrees ==
  ASSUME NEW s, NEW w, NEW r \in Nat,
         \A p \in (r * SubshardLeaves + 1)..(r * SubshardLeaves + SubshardLeaves) :
           \/ p <= Len(s) /\ p <= Len(w) /\ s[p] = w[p]
           \/ ~ (p <= Len(s)) /\ ~ (p <= Len(w))
  PROVE  Row(s, r) = Row(w, r)
  <1>1. \A j \in 1..SubshardLeaves :
          r * SubshardLeaves + j
            \in (r * SubshardLeaves + 1)..(r * SubshardLeaves + SubshardLeaves)
    BY Geometry
  <1> QED
    BY <1>1 DEF Row

\* The parts of a concatenation.
LEMMA ConcatParts ==
  ASSUME NEW S, NEW s \in Seq(S), NEW w \in Seq(S)
  PROVE  /\ \A p \in 1..Len(s) : (s \o w)[p] = s[p]
         /\ SubSeq(s \o w, Len(s) + 1, Len(s) + Len(w)) = w
  <1>1. /\ s \o w \in Seq(S) /\ Len(s \o w) = Len(s) + Len(w)
        /\ Len(s) \in Nat /\ Len(w) \in Nat
        /\ \A i \in 1..(Len(s) + Len(w)) : (s \o w)[i] = IF i <= Len(s) THEN s[i] ELSE w[i - Len(s)]
    BY ConcatProperties
  <1>2. \A p \in 1..Len(s) : (s \o w)[p] = s[p]
    BY <1>1
  <1> DEFINE tail == SubSeq(s \o w, Len(s) + 1, Len(s) + Len(w))
  <1>3. /\ tail \in Seq(S) /\ Len(tail) = Len(w)
        /\ \A i \in 1..Len(w) : tail[i] = (s \o w)[Len(s) + i]
    BY <1>1, SubSeqProperties
  <1>4. \A i \in 1..Len(w) : tail[i] = w[i]
    BY <1>1, <1>3
  <1>5. tail = w
    BY <1>3, <1>4, SeqEqual
  <1> QED
    BY <1>2, <1>5

\* The first n elements of a sequence.
LEMMA PrefixParts ==
  ASSUME NEW S, NEW s \in Seq(S), NEW n \in 0..Len(s)
  PROVE  /\ SubSeq(s, 1, n) \in Seq(S) /\ Len(SubSeq(s, 1, n)) = n
         /\ \A i \in 1..n : SubSeq(s, 1, n)[i] = s[i]
  <1>1. n \in Nat /\ Len(s) \in Nat /\ n <= Len(s) /\ \A i \in 1..n : s[i] \in S
    OBVIOUS
  <1>2. /\ SubSeq(s, 1, n) \in Seq(S)
        /\ Len(SubSeq(s, 1, n)) = IF 1 <= n THEN n - 1 + 1 ELSE 0
        /\ \A i \in 1..(n - 1 + 1) : SubSeq(s, 1, n)[i] = s[1 + i - 1]
    BY <1>1, SubSeqProperties
  <1>3. Len(SubSeq(s, 1, n)) = n
    BY <1>1, <1>2
  <1>4. \A i \in 1..n : SubSeq(s, 1, n)[i] = s[i]
    BY <1>1, <1>2
  <1> QED
    BY <1>2, <1>3, <1>4

\* A new tree.
LEMMA EmptySound ==
  ASSUME NEW roots \in SubtreeRoots \cup {<<>>}
  PROVE  Sound(EmptyTree(roots))
  <1> DEFINE t == EmptyTree(roots)
  <1>1. <<>> \in Seq(Leaves) /\ <<>> \in Seq(BlockRecords) /\ Len(<<>>) = 0
    OBVIOUS
  <1>2. /\ t.prefetched = roots /\ t.leaves = <<>> /\ t.blocks = <<>>
        /\ t.cache = [r \in Rows |-> None]
    BY DEF EmptyTree
  <1>3. TreeOK(t)
    BY <1>1 DEF EmptyTree, TreeOK, BlockRecords
  <1>4. Accounted(t)
    BY <1>1, <1>2, <1>3, TreeParts, LeavesUpToSums DEF Accounted, Sums
  <1>5. Coherent(t)
    BY <1>2 DEF Coherent
  <1> QED
    BY <1>3, <1>4, <1>5 DEF Sound

\* append_commitments: the rows that it does not forget are as before.
LEMMA AppendSound ==
  ASSUME NEW t, Sound(t), NEW height \in Nat, NEW b \in Blocks
  PROVE  LET after == AppendCommitments(t, height, b.hash, b.cms)
             record == [height |-> height, hash |-> b.hash, num |-> Len(b.cms)]
         IN  /\ Sound(after)
             /\ after.leaves = t.leaves \o b.cms /\ after.blocks = Append(t.blocks, record)
             /\ after.prefetched = t.prefetched
  <1> DEFINE after == AppendCommitments(t, height, b.hash, b.cms)
             record == [height |-> height, hash |-> b.hash, num |-> Len(b.cms)]
             old == Len(t.leaves)
             dirty == IF b.cms = <<>> THEN {}
                      ELSE old \div SubshardLeaves..(old + Len(b.cms) - 1) \div SubshardLeaves
             leaves == t.leaves \o b.cms
  <1>1. /\ t.leaves \in Seq(Leaves) /\ old \in Nat
        /\ t.blocks \in Seq(BlockRecords) /\ Len(t.blocks) \in Nat
        /\ t.cache \in [Rows -> Roots \cup {None}] /\ Counted(t.blocks)
        /\ t.prefetched \in SubtreeRoots \cup {<<>>}
    BY TreeParts DEF Sound
  <1>2. b.cms \in Seq(Leaves) /\ Len(b.cms) \in Nat
    BY StoreAssumption
  <1>3. record \in BlockRecords
    BY <1>2 DEF BlockRecords
  <1>4. /\ leaves \in Seq(Leaves) /\ Len(leaves) = old + Len(b.cms)
        /\ \A p \in 1..old : leaves[p] = t.leaves[p]
    <2>1. t.leaves \o b.cms \in Seq(Leaves) /\ Len(t.leaves \o b.cms) = Len(t.leaves) + Len(b.cms)
      BY <1>1, <1>2, ConcatProperties
    <2>2. \A p \in 1..Len(t.leaves) : (t.leaves \o b.cms)[p] = t.leaves[p]
      BY <1>1, <1>2, ConcatParts
    <2> QED
      BY <2>1, <2>2
  <1>5. /\ Append(t.blocks, record) \in Seq(BlockRecords)
        /\ Len(Append(t.blocks, record)) = Len(t.blocks) + 1
        /\ \A i \in 1..Len(t.blocks) : Append(t.blocks, record)[i] = t.blocks[i]
        /\ Append(t.blocks, record)[Len(t.blocks) + 1] = record
    BY <1>1, <1>3
  <1>6. /\ after.prefetched = t.prefetched /\ after.leaves = leaves
        /\ after.blocks = Append(t.blocks, record)
        /\ after.cache = Forget(t.cache, dirty)
        /\ DOMAIN after = {"prefetched", "leaves", "blocks", "cache"}
    BY DEF AppendCommitments, Sound, TreeOK
  <1>7. Forget(t.cache, dirty) \in [Rows -> Roots \cup {None}]
    BY <1>1 DEF Forget
  <1>8. TreeOK(after)
    BY <1>1, <1>4, <1>5, <1>7 DEF AppendCommitments, Sound, TreeOK, BlockRecords
  <1> HIDE DEF after, leaves, record, dirty, old
  <1>9. Accounted(after)
    <2>1. Counted(after.blocks)
      BY <1>8, TreeParts
    <2> DEFINE m == Len(t.blocks)
    <2>2. LeavesUpTo(after.blocks)[m] = LeavesUpTo(t.blocks)[m]
      <3>1. m \in Nat /\ m <= Len(t.blocks) /\ m <= Len(after.blocks) /\ m \in 0..m
        BY <1>1, <1>5, <1>6
      <3>2. \A i \in 1..m : after.blocks[i] = t.blocks[i]
        BY <1>5, <1>6
      <3>3. \A n \in 0..m : LeavesUpTo(after.blocks)[n] = LeavesUpTo(t.blocks)[n]
        <4> HIDE DEF m
        <4>1. Counted(t.blocks)
          BY <1>1
        <4> QED
          BY <2>1, <3>1, <3>2, <4>1, SumsAgree
      <3> QED
        BY <3>1, <3>3
    <2>3. Sums(LeavesUpTo(after.blocks), after.blocks, m + 1)
      BY <1>5, <1>6, <2>1, LeavesUpToSums
    <2>4. LeavesUpTo(after.blocks)[m + 1] = LeavesUpTo(after.blocks)[m] + record.num
      <3>1. m + 1 \in 1..(m + 1) /\ (m + 1) - 1 = m
        BY <1>1
      <3>2. after.blocks[m + 1] = record
        BY <1>5, <1>6
      <3> QED
        BY <2>3, <3>1, <3>2 DEF Sums
    <2>5. record.num = Len(b.cms) /\ LeavesUpTo(t.blocks)[Len(t.blocks)] = old
      BY DEF record, old, Sound, Accounted
    <2> QED
      BY <1>4, <1>5, <1>6, <2>2, <2>4, <2>5 DEF Accounted
  <1>10. Coherent(after)
    <2> SUFFICES ASSUME NEW r \in Rows, after.cache[r] # None
                 PROVE  after.cache[r] = Root(0, Row(leaves, r))
      BY <1>6 DEF Coherent
    <2>1. r \notin dirty /\ after.cache[r] = t.cache[r]
      BY <1>6 DEF Forget
    <2>2. t.cache[r] = Root(0, Row(t.leaves, r))
      BY <2>1 DEF Sound, Coherent
    <2>3. Row(t.leaves, r) = Row(leaves, r)
      <3>1. r \in Nat /\ SubshardLeaves \in Nat \ {0}
        BY Geometry
      <3>2. CASE b.cms = <<>>
        BY <1>1, <3>2 DEF leaves
      <3>3. CASE b.cms # <<>>
        <4> DEFINE first == old \div SubshardLeaves
                   last == (old + Len(b.cms) - 1) \div SubshardLeaves
        <4>1. Len(b.cms) >= 1
          BY <1>2, <3>3
        <4>2. first \in Nat /\ old < first * SubshardLeaves + SubshardLeaves
                            /\ first * SubshardLeaves <= old
          BY <1>1, <3>1, Quotient
        <4>3. old + Len(b.cms) - 1 \in Nat
          BY <1>1, <1>2, <4>1
        <4>4. last \in Nat /\ old + Len(b.cms) - 1 < last * SubshardLeaves + SubshardLeaves
          BY <3>1, <4>3, Quotient
        <4>5. r < first \/ r > last
          BY <2>1, <3>1, <3>3, <4>2, <4>4 DEF dirty
        <4> DEFINE base == r * SubshardLeaves
        <4> HIDE DEF first, last
        <4>6. /\ base \in Nat /\ old + Len(b.cms) \in Nat /\ old <= old + Len(b.cms)
              /\ Len(t.leaves) = old /\ Len(leaves) = old + Len(b.cms)
          <5>1. base \in Nat
            BY <3>1
          <5>2. Len(t.leaves) = old /\ Len(leaves) = old + Len(b.cms)
            BY <1>4 DEF old
          <5> HIDE DEF base
          <5> QED
            BY <1>1, <1>2, <5>1, <5>2
        <4>7. CASE r < first
          <5>1. base + SubshardLeaves <= old
            <6>1. base + SubshardLeaves <= first * SubshardLeaves
              BY <3>1, <4>2, <4>7, RowsApart
            <6>2. first * SubshardLeaves \in Nat
              BY <3>1, <4>2
            <6> HIDE DEF base
            <6> QED
              BY <1>1, <3>1, <4>2, <4>6, <6>1, <6>2
          <5> HIDE DEF base
          <5>2. \A p \in (base + 1)..(base + SubshardLeaves) : p \in 1..old /\ p <= old + Len(b.cms)
            BY <1>1, <3>1, <4>6, <5>1
          <5>3. \A p \in (base + 1)..(base + SubshardLeaves) :
                  p <= Len(t.leaves) /\ p <= Len(leaves) /\ t.leaves[p] = leaves[p]
            BY <1>4, <4>6, <5>2
          <5> QED
            BY <3>1, <5>3, RowAgrees DEF base
        <4>8. CASE r > last
          <5>1. old + Len(b.cms) <= base
            <6>1. last * SubshardLeaves + SubshardLeaves <= base
              BY <3>1, <4>4, <4>8, RowsApart
            <6>2. last * SubshardLeaves \in Nat
              BY <3>1, <4>4
            <6> HIDE DEF base
            <6> QED
              BY <1>1, <1>2, <3>1, <4>4, <4>6, <6>1, <6>2
          <5> HIDE DEF base
          <5>2. \A p \in (base + 1)..(base + SubshardLeaves) :
                  ~ (p <= Len(t.leaves)) /\ ~ (p <= Len(leaves))
            BY <1>1, <3>1, <4>6, <5>1
          <5> QED
            BY <3>1, <5>2, RowAgrees DEF base
        <4> QED
          BY <4>5, <4>7, <4>8
      <3> QED
        BY <3>2, <3>3
    <2> QED
      BY <2>1, <2>2, <2>3
  <1> QED
    BY <1>6, <1>8, <1>9, <1>10 DEF Sound, after, leaves, record

\* rollback_to leaves the first n blocks and exactly their leaves.
LEMMA RollbackParts ==
  ASSUME NEW t, Sound(t), NEW target
  PROVE  LET after == RollbackTo(t, target)
             n == BlocksKept(t.blocks, target)
             len == LeavesUpTo(t.blocks)[n]
         IN  /\ n \in 0..Len(t.blocks) /\ len \in 0..Len(t.leaves)
             /\ after.prefetched = t.prefetched
             /\ after.blocks = SubSeq(t.blocks, 1, n)
             /\ after.leaves = SubSeq(t.leaves, 1, len)
             /\ after.cache = Forget(t.cache, {r \in Rows :
                                r >= (IF len = 0 THEN 0 ELSE (len - 1) \div SubshardLeaves)})
             /\ TreeOK(after)
  <1> DEFINE after == RollbackTo(t, target)
             n == BlocksKept(t.blocks, target)
             u == LeavesUpTo(t.blocks)
             len == u[n]
             stale == {r \in Rows : r >= (IF len = 0 THEN 0 ELSE (len - 1) \div SubshardLeaves)}
  <1>1. /\ t.leaves \in Seq(Leaves) /\ Len(t.leaves) \in Nat
        /\ t.blocks \in Seq(BlockRecords) /\ Len(t.blocks) \in Nat
        /\ t.cache \in [Rows -> Roots \cup {None}] /\ Counted(t.blocks)
        /\ t.prefetched \in SubtreeRoots \cup {<<>>}
    BY TreeParts DEF Sound
  <1>2. n \in 0..Len(t.blocks)
    <2> DEFINE fits == {0} \cup {i \in DOMAIN t.blocks : t.blocks[i].height <= target}
    <2>1. DOMAIN t.blocks = 1..Len(t.blocks)
      BY <1>1
    <2>2. fits \in SUBSET (0..Len(t.blocks)) /\ fits # {}
      BY <1>1, <2>1
    <2> HIDE DEF fits
    <2>3. Max(fits) \in fits
      BY <1>1, <2>2, MaxIsGreatest
    <2> QED
      BY <2>2, <2>3 DEF BlocksKept, fits
  <1>3. u \in [0..Len(t.blocks) -> Nat]
    BY <1>1, LeavesUpToSums
  <1>4. u[Len(t.blocks)] = Len(t.leaves)
    BY DEF Sound, Accounted
  <1>5. len \in 0..Len(t.leaves)
    <2>1. n \in 0..Len(t.blocks) /\ Len(t.blocks) \in n..Len(t.blocks)
      BY <1>1, <1>2
    <2> HIDE DEF n
    <2>2. u[n] <= u[Len(t.blocks)]
      BY <1>1, <2>1, SumsGrow
    <2> HIDE DEF u
    <2> QED
      BY <1>1, <1>3, <1>4, <2>1, <2>2
  <1> HIDE DEF n, u
  <1>6. Len(t.leaves) - (u[Len(t.blocks)] - u[n]) = len
    BY <1>1, <1>4, <1>5
  <1>7. after = [t EXCEPT !.blocks = SubSeq(t.blocks, 1, n), !.leaves = SubSeq(t.leaves, 1, len),
                          !.cache = Forget(t.cache, stale)]
    BY <1>6 DEF RollbackTo, n, u
  <1>8. /\ after.prefetched = t.prefetched
        /\ after.blocks = SubSeq(t.blocks, 1, n)
        /\ after.leaves = SubSeq(t.leaves, 1, len)
        /\ after.cache = Forget(t.cache, stale)
    BY <1>7 DEF Sound, TreeOK
  <1>9. SubSeq(t.blocks, 1, n) \in Seq(BlockRecords) /\ SubSeq(t.leaves, 1, len) \in Seq(Leaves)
    BY <1>1, <1>2, <1>5, PrefixParts
  <1>10. Forget(t.cache, stale) \in [Rows -> Roots \cup {None}]
    BY <1>1 DEF Forget
  <1> HIDE DEF stale, len
  <1>11. TreeOK(after)
    BY <1>1, <1>7, <1>9, <1>10 DEF Sound, TreeOK, BlockRecords
  <1> QED
    BY <1>2, <1>5, <1>8, <1>11 DEF n, u, len, stale

\* rollback_to keeps the tree sound: the rows it does not forget lost no leaf.
LEMMA RollbackSound ==
  ASSUME NEW t, Sound(t), NEW target
  PROVE  Sound(RollbackTo(t, target))
  <1> DEFINE after == RollbackTo(t, target)
             n == BlocksKept(t.blocks, target)
             len == LeavesUpTo(t.blocks)[n]
             stale == {r \in Rows : r >= (IF len = 0 THEN 0 ELSE (len - 1) \div SubshardLeaves)}
  <1>1. /\ t.leaves \in Seq(Leaves) /\ Len(t.leaves) \in Nat
        /\ t.blocks \in Seq(BlockRecords) /\ Len(t.blocks) \in Nat
        /\ Counted(t.blocks)
    BY TreeParts DEF Sound
  <1>2. /\ n \in 0..Len(t.blocks) /\ len \in 0..Len(t.leaves)
        /\ after.blocks = SubSeq(t.blocks, 1, n) /\ after.leaves = SubSeq(t.leaves, 1, len)
        /\ after.cache = Forget(t.cache, stale) /\ TreeOK(after)
    BY RollbackParts
  <1> HIDE DEF after, stale, len, n
  <1>3. Len(after.blocks) = n /\ \A i \in 1..n : after.blocks[i] = t.blocks[i]
    BY <1>1, <1>2, PrefixParts
  <1>4. Len(after.leaves) = len /\ \A p \in 1..len : after.leaves[p] = t.leaves[p]
    BY <1>1, <1>2, PrefixParts
  <1>5. Accounted(after)
    <2>1. Counted(after.blocks)
      BY <1>2, TreeParts
    <2>2. n \in Nat /\ n <= Len(t.blocks) /\ n <= Len(after.blocks) /\ n \in 0..n
      BY <1>1, <1>2, <1>3
    <2>3. LeavesUpTo(after.blocks)[n] = LeavesUpTo(t.blocks)[n]
      BY <1>1, <1>3, <2>1, <2>2, SumsAgree
    <2> QED
      BY <1>3, <1>4, <2>3 DEF Accounted, len
  <1>6. Coherent(after)
    <2> SUFFICES ASSUME NEW r \in Rows, after.cache[r] # None
                 PROVE  after.cache[r] = Root(0, Row(after.leaves, r))
      BY DEF Coherent
    <2>1. r \notin stale /\ after.cache[r] = t.cache[r]
      BY <1>2 DEF Forget
    <2>2. t.cache[r] = Root(0, Row(t.leaves, r))
      BY <2>1 DEF Sound, Coherent
    <2>3. Row(t.leaves, r) = Row(after.leaves, r)
      <3>1. r \in Nat /\ SubshardLeaves \in Nat \ {0}
        BY Geometry
      <3> DEFINE last == (len - 1) \div SubshardLeaves
                 base == r * SubshardLeaves
      <3>2. len # 0
        BY <2>1, <3>1 DEF stale
      <3>3. last \in Nat /\ last * SubshardLeaves <= len - 1
        <4>1. len - 1 \in Nat
          BY <1>1, <1>2, <3>2
        <4> QED
          BY <3>1, <4>1, Quotient
      <3>4. r < last
        BY <2>1, <3>1, <3>2, <3>3 DEF stale
      <3> HIDE DEF last
      <3>5. base + SubshardLeaves <= len - 1 /\ base \in Nat
        <4>1. base + SubshardLeaves <= last * SubshardLeaves
          BY <3>1, <3>3, <3>4, RowsApart
        <4>2. base \in Nat /\ last * SubshardLeaves \in Nat
          BY <3>1, <3>3
        <4> HIDE DEF base
        <4> QED
          BY <1>1, <1>2, <3>1, <3>3, <4>1, <4>2
      <3> HIDE DEF base
      <3>6. \A p \in (base + 1)..(base + SubshardLeaves) : p \in 1..len /\ p <= Len(t.leaves)
        BY <1>1, <1>2, <3>1, <3>5
      <3>7. \A p \in (base + 1)..(base + SubshardLeaves) :
              p <= Len(t.leaves) /\ p <= Len(after.leaves) /\ t.leaves[p] = after.leaves[p]
        BY <1>4, <3>6
      <3> QED
        BY <3>1, <3>7, RowAgrees DEF base
    <2> QED
      BY <2>1, <2>2, <2>3
  <1> QED
    BY <1>2, <1>5, <1>6 DEF Sound, after

\* A rebuild fills the cache with what it computed or found there.
LEMMA FillSound ==
  ASSUME NEW t, Sound(t)
  PROVE  /\ Sound(FillCache(t))
         /\ FillCache(t).blocks = t.blocks /\ FillCache(t).leaves = t.leaves
  <1> DEFINE after == FillCache(t)
             cache == [r \in Rows |-> IF r \in LiveRows(t) THEN SubshardRoot(t, r) ELSE t.cache[r]]
  <1>1. /\ t.leaves \in Seq(Leaves) /\ Len(t.leaves) \in Nat
        /\ t.blocks \in Seq(BlockRecords)
        /\ t.cache \in [Rows -> Roots \cup {None}]
        /\ t.prefetched \in SubtreeRoots \cup {<<>>}
    BY TreeParts DEF Sound
  <1>2. after = [t EXCEPT !.cache = cache]
    BY DEF FillCache
  <1>3. ASSUME NEW r \in Rows, r \in LiveRows(t)
        PROVE  SubshardRoot(t, r) = Root(0, Row(t.leaves, r))
    BY <1>3 DEF SubshardRoot, Sound, Coherent
  <1>4. cache \in [Rows -> Roots \cup {None}]
    <2>1. \A r \in Rows : Root(0, Row(t.leaves, r)) \in Roots
      BY <1>1, Geometry, RowRoot
    <2> QED
      BY <1>1, <1>3, <2>1
  <1>5. Coherent(after)
    <2>1. after.cache = cache /\ after.leaves = t.leaves
      BY <1>2 DEF Sound, TreeOK
    <2> QED
      BY <1>3, <2>1 DEF Coherent, Sound
  <1> HIDE DEF cache
  <1>6. TreeOK(after) /\ after.blocks = t.blocks /\ after.leaves = t.leaves
    BY <1>2, <1>4 DEF Sound, TreeOK
  <1>7. Accounted(after)
    BY <1>6 DEF Sound, Accounted
  <1> QED
    BY <1>5, <1>6, <1>7 DEF Sound

-----------------------------------------------------------------------------
(* The log of a tree *)

LogRecords == [height : Nat, hash : {b.hash : b \in Blocks}, cms : Seq(Leaves)]

\* Where the leaves of a block are.
LEMMA BlockBounds ==
  ASSUME NEW t, Sound(t), NEW i \in 1..Len(t.blocks)
  PROVE  LET u == LeavesUpTo(t.blocks) IN
         /\ u[i - 1] \in Nat /\ u[i] \in Nat /\ u[i - 1] <= u[i] /\ u[i] <= Len(t.leaves)
         /\ BlockLeaves(t, i) \in Seq(Leaves)
  <1> DEFINE u == LeavesUpTo(t.blocks)
  <1>1. /\ t.leaves \in Seq(Leaves) /\ Len(t.leaves) \in Nat /\ Len(t.blocks) \in Nat
        /\ Counted(t.blocks)
    BY TreeParts DEF Sound
  <1>2. u \in [0..Len(t.blocks) -> Nat] /\ u[Len(t.blocks)] = Len(t.leaves)
    BY <1>1, LeavesUpToSums DEF Sound, Accounted
  <1>3. /\ i - 1 \in 0..Len(t.blocks) /\ i \in 0..Len(t.blocks) /\ i \in (i - 1)..Len(t.blocks)
        /\ Len(t.blocks) \in i..Len(t.blocks)
    BY <1>1
  <1>4. u[i - 1] <= u[i] /\ u[i] <= u[Len(t.blocks)]
    BY <1>1, <1>3, SumsGrow
  <1> HIDE DEF u
  <1>5. u[i - 1] \in Nat /\ u[i] \in Nat /\ u[i] <= Len(t.leaves)
    BY <1>2, <1>3, <1>4
  <1>6. \A p \in (u[i - 1] + 1)..u[i] : t.leaves[p] \in Leaves
    BY <1>1, <1>5
  <1>7. SubSeq(t.leaves, u[i - 1] + 1, u[i]) \in Seq(Leaves)
    BY <1>5, <1>6, SubSeqProperties
  <1> QED
    BY <1>4, <1>5, <1>7 DEF BlockLeaves, u

\* The log is a sequence with one record per block.
LEMMA LogParts ==
  ASSUME NEW t, Sound(t)
  PROVE  /\ LogOf(t) \in Seq(LogRecords) /\ Len(LogOf(t)) = Len(t.blocks)
         /\ \A i \in 1..Len(t.blocks) :
              LogOf(t)[i] = [height |-> t.blocks[i].height, hash |-> t.blocks[i].hash,
                             cms |-> BlockLeaves(t, i)]
  <1>1. t.blocks \in Seq(BlockRecords) /\ Len(t.blocks) \in Nat
    BY TreeParts DEF Sound
  <1>2. \A i \in 1..Len(t.blocks) : t.blocks[i] \in BlockRecords
    BY <1>1
  <1>3. \A i \in 1..Len(t.blocks) :
          [height |-> t.blocks[i].height, hash |-> t.blocks[i].hash, cms |-> BlockLeaves(t, i)]
            \in LogRecords
    BY <1>2, BlockBounds DEF BlockRecords, LogRecords
  <1>4. DOMAIN t.blocks = 1..Len(t.blocks)
    BY <1>1
  <1> QED
    BY <1>1, <1>3, <1>4 DEF LogOf

\* Slices agree where the sequences do.
LEMMA SlicesAgree ==
  ASSUME NEW S, NEW s, NEW w, NEW m \in Nat, NEW n \in Nat,
         \A p \in m..n : s[p] \in S /\ s[p] = w[p]
  PROVE  SubSeq(s, m, n) = SubSeq(w, m, n)
  <1>1. /\ SubSeq(s, m, n) \in Seq(S) /\ Len(SubSeq(s, m, n)) = IF m <= n THEN n - m + 1 ELSE 0
        /\ \A i \in 1..(n - m + 1) : SubSeq(s, m, n)[i] = s[m + i - 1]
    BY SubSeqProperties
  <1>2. /\ SubSeq(w, m, n) \in Seq(S) /\ Len(SubSeq(w, m, n)) = IF m <= n THEN n - m + 1 ELSE 0
        /\ \A i \in 1..(n - m + 1) : SubSeq(w, m, n)[i] = w[m + i - 1]
    BY SubSeqProperties
  <1>3. \A i \in 1..(n - m + 1) : m + i - 1 \in m..n
    OBVIOUS
  <1>4. \A i \in 1..Len(SubSeq(s, m, n)) : SubSeq(s, m, n)[i] = SubSeq(w, m, n)[i]
    BY <1>1, <1>2, <1>3
  <1> QED
    BY <1>1, <1>2, <1>4, SeqEqual

\* A block has the same leaves in two trees that agree up to it.
LEMMA BlockLeavesAgree ==
  ASSUME NEW t, Sound(t), NEW w, Sound(w), NEW m \in 0..Len(t.blocks), m <= Len(w.blocks),
         \A i \in 1..m : t.blocks[i] = w.blocks[i],
         \A p \in 1..LeavesUpTo(t.blocks)[m] : t.leaves[p] = w.leaves[p]
  PROVE  \A i \in 1..m : BlockLeaves(t, i) = BlockLeaves(w, i)
  <1> DEFINE u == LeavesUpTo(t.blocks)
  <1>1. /\ Counted(t.blocks) /\ Counted(w.blocks) /\ Len(t.blocks) \in Nat /\ Len(w.blocks) \in Nat
        /\ t.leaves \in Seq(Leaves) /\ m \in Nat /\ m <= Len(t.blocks)
    BY TreeParts DEF Sound
  <1>2. \A n \in 0..m : u[n] = LeavesUpTo(w.blocks)[n]
    BY <1>1, SumsAgree
  <1>3. ASSUME NEW i \in 1..m PROVE BlockLeaves(t, i) = BlockLeaves(w, i)
    <2>1. /\ i \in 1..Len(t.blocks) /\ i - 1 \in 0..m /\ i \in 0..m
          /\ i \in 0..Len(t.blocks) /\ m \in i..Len(t.blocks)
      BY <1>1
    <2>2. u[i - 1] \in Nat /\ u[i] \in Nat /\ u[i] <= Len(t.leaves)
      BY <2>1, BlockBounds
    <2>3. u[i] <= u[m]
      BY <1>1, <2>1, SumsGrow
    <2>4. u[m] \in Nat
      BY <1>1, LeavesUpToSums
    <2>5. u[i - 1] = LeavesUpTo(w.blocks)[i - 1] /\ u[i] = LeavesUpTo(w.blocks)[i]
      BY <1>2, <2>1
    <2> HIDE DEF u
    <2>6. \A p \in (u[i - 1] + 1)..u[i] : p \in 1..u[m] /\ p \in 1..Len(t.leaves)
      BY <1>1, <2>2, <2>3, <2>4
    <2>7. \A p \in (u[i - 1] + 1)..u[i] : t.leaves[p] \in Leaves /\ t.leaves[p] = w.leaves[p]
      BY <1>1, <2>6 DEF u
    <2>8. SubSeq(t.leaves, u[i - 1] + 1, u[i]) = SubSeq(w.leaves, u[i - 1] + 1, u[i])
      <3> DEFINE first == u[i - 1] + 1
                 last == u[i]
      <3>1. /\ first \in Nat /\ last \in Nat
            /\ \A p \in first..last : t.leaves[p] \in Leaves /\ t.leaves[p] = w.leaves[p]
        BY <2>2, <2>7
      <3> HIDE DEF first, last
      <3>2. SubSeq(t.leaves, first, last) = SubSeq(w.leaves, first, last)
        BY <3>1, SlicesAgree
      <3> QED
        BY <3>2 DEF first, last
    <2> QED
      BY <2>5, <2>8 DEF BlockLeaves, u
  <1> QED
    BY <1>3

\* append_commitments adds the block and its commitments to the log.
LEMMA AppendLog ==
  ASSUME NEW t, Sound(t), NEW height \in Nat, NEW b \in Blocks
  PROVE  LogOf(AppendCommitments(t, height, b.hash, b.cms))
           = Append(LogOf(t), [height |-> height, hash |-> b.hash, cms |-> b.cms])
  <1> DEFINE after == AppendCommitments(t, height, b.hash, b.cms)
             record == [height |-> height, hash |-> b.hash, num |-> Len(b.cms)]
             new == [height |-> height, hash |-> b.hash, cms |-> b.cms]
             m == Len(t.blocks)
  <1>1. /\ t.leaves \in Seq(Leaves) /\ Len(t.leaves) \in Nat /\ m \in Nat
        /\ t.blocks \in Seq(BlockRecords)
    BY TreeParts DEF Sound
  <1>2. /\ Sound(after) /\ after.leaves = t.leaves \o b.cms
        /\ after.blocks = Append(t.blocks, record)
    BY AppendSound
  <1>3. b.cms \in Seq(Leaves) /\ new \in LogRecords /\ record \in BlockRecords
    BY StoreAssumption DEF LogRecords, BlockRecords
  <1> HIDE DEF after
  <1>4. /\ Len(after.blocks) = m + 1 /\ after.blocks[m + 1] = record
        /\ \A i \in 1..m : after.blocks[i] = t.blocks[i]
    BY <1>1, <1>2, <1>3
  <1>5. /\ LogOf(t) \in Seq(LogRecords) /\ Len(LogOf(t)) = m
        /\ \A i \in 1..m : LogOf(t)[i] = [height |-> t.blocks[i].height, hash |-> t.blocks[i].hash,
                                           cms |-> BlockLeaves(t, i)]
    BY LogParts
  <1>6. /\ LogOf(after) \in Seq(LogRecords) /\ Len(LogOf(after)) = m + 1
        /\ \A i \in 1..(m + 1) :
             LogOf(after)[i] = [height |-> after.blocks[i].height, hash |-> after.blocks[i].hash,
                                cms |-> BlockLeaves(after, i)]
    BY <1>2, <1>4, LogParts
  <1>7. /\ Append(LogOf(t), new) \in Seq(LogRecords) /\ Len(Append(LogOf(t), new)) = m + 1
        /\ \A i \in 1..m : Append(LogOf(t), new)[i] = LogOf(t)[i]
        /\ Append(LogOf(t), new)[m + 1] = new
    BY <1>1, <1>3, <1>5
  <1>8. LeavesUpTo(t.blocks)[m] = Len(t.leaves)
    BY DEF Sound, Accounted
  <1>9. \A i \in 1..m : BlockLeaves(t, i) = BlockLeaves(after, i)
    <2>1. \A p \in 1..LeavesUpTo(t.blocks)[m] : t.leaves[p] = after.leaves[p]
      <3>1. \A p \in 1..Len(t.leaves) : (t.leaves \o b.cms)[p] = t.leaves[p]
        BY <1>1, <1>3, ConcatParts
      <3> QED
        BY <1>2, <1>8, <3>1
    <2>2. m \in 0..Len(t.blocks) /\ m <= Len(after.blocks)
      BY <1>1, <1>4
    <2> QED
      BY <1>2, <1>4, <2>1, <2>2, BlockLeavesAgree
  <1>10. BlockLeaves(after, m + 1) = b.cms
    <2>1. LeavesUpTo(after.blocks)[m + 1] = Len(t.leaves) + Len(b.cms)
      <3>1. LeavesUpTo(after.blocks)[Len(after.blocks)] = Len(after.leaves)
        BY <1>2 DEF Sound, Accounted
      <3>2. Len(t.leaves \o b.cms) = Len(t.leaves) + Len(b.cms)
        BY <1>1, <1>3, ConcatProperties
      <3> QED
        BY <1>2, <1>4, <3>1, <3>2
    <2>2. LeavesUpTo(after.blocks)[m] = Len(t.leaves)
      <3>1. Counted(after.blocks) /\ Counted(t.blocks)
        BY <1>2, TreeParts DEF Sound
      <3>2. m <= Len(t.blocks) /\ m <= Len(after.blocks) /\ m \in 0..m
        BY <1>1, <1>4
      <3>3. \A n \in 0..m : LeavesUpTo(after.blocks)[n] = LeavesUpTo(t.blocks)[n]
        <4>1. m \in Nat /\ \A i \in 1..m : after.blocks[i] = t.blocks[i]
          BY <1>1, <1>4
        <4> HIDE DEF m
        <4> QED
          BY <3>1, <3>2, <4>1, SumsAgree
      <3> QED
        BY <1>8, <3>2, <3>3
    <2>3. BlockLeaves(after, m + 1)
            = SubSeq(t.leaves \o b.cms, Len(t.leaves) + 1, Len(t.leaves) + Len(b.cms))
      <3>1. (m + 1) - 1 = m
        BY <1>1
      <3> QED
        BY <1>2, <2>1, <2>2, <3>1 DEF BlockLeaves
    <2> QED
      BY <1>1, <1>3, <2>3, ConcatParts
  <1>11. \A i \in 1..(m + 1) : LogOf(after)[i] = Append(LogOf(t), new)[i]
    <2> SUFFICES ASSUME NEW i \in 1..(m + 1) PROVE LogOf(after)[i] = Append(LogOf(t), new)[i]
      OBVIOUS
    <2>1. CASE i \in 1..m
      BY <1>4, <1>5, <1>6, <1>7, <1>9, <2>1
    <2>2. CASE i = m + 1
      BY <1>4, <1>6, <1>7, <1>10, <2>2
    <2>3. i \in 1..m \/ i = m + 1
      <3>1. m \in Nat
        BY <1>1
      <3> HIDE DEF m
      <3> QED
        BY <3>1
    <2> QED
      BY <2>1, <2>2, <2>3
  <1>12. LogOf(after) = Append(LogOf(t), new)
    BY <1>6, <1>7, <1>11, SeqEqual
  <1> QED
    BY <1>12 DEF after

\* rollback_to cuts the log.
LEMMA RollbackLog ==
  ASSUME NEW t, Sound(t), NEW target
  PROVE  \E n \in 0..Len(LogOf(t)) : LogOf(RollbackTo(t, target)) = SubSeq(LogOf(t), 1, n)
  <1> DEFINE after == RollbackTo(t, target)
             n == BlocksKept(t.blocks, target)
             len == LeavesUpTo(t.blocks)[n]
  <1>1. /\ t.leaves \in Seq(Leaves) /\ Len(t.leaves) \in Nat /\ Len(t.blocks) \in Nat
        /\ t.blocks \in Seq(BlockRecords)
    BY TreeParts DEF Sound
  <1>2. /\ n \in 0..Len(t.blocks) /\ len \in 0..Len(t.leaves)
        /\ after.blocks = SubSeq(t.blocks, 1, n) /\ after.leaves = SubSeq(t.leaves, 1, len)
    BY RollbackParts
  <1>3. Sound(after)
    BY RollbackSound
  <1> HIDE DEF after, n
  <1>4. Len(after.blocks) = n /\ \A i \in 1..n : t.blocks[i] = after.blocks[i]
    BY <1>1, <1>2, PrefixParts
  <1>5. \A p \in 1..len : t.leaves[p] = after.leaves[p]
    <2> HIDE DEF len
    <2> QED
      BY <1>1, <1>2, PrefixParts
  <1>6. \A i \in 1..n : BlockLeaves(t, i) = BlockLeaves(after, i)
    <2>1. n <= Len(after.blocks)
      BY <1>1, <1>2, <1>4
    <2> QED
      BY <1>2, <1>3, <1>4, <1>5, <2>1, BlockLeavesAgree
  <1>7. /\ LogOf(t) \in Seq(LogRecords) /\ Len(LogOf(t)) = Len(t.blocks)
        /\ \A i \in 1..Len(t.blocks) :
             LogOf(t)[i] = [height |-> t.blocks[i].height, hash |-> t.blocks[i].hash,
                            cms |-> BlockLeaves(t, i)]
    BY LogParts
  <1>8. /\ LogOf(after) \in Seq(LogRecords) /\ Len(LogOf(after)) = n
        /\ \A i \in 1..n :
             LogOf(after)[i] = [height |-> after.blocks[i].height, hash |-> after.blocks[i].hash,
                                cms |-> BlockLeaves(after, i)]
    BY <1>3, <1>4, LogParts
  <1>9. /\ SubSeq(LogOf(t), 1, n) \in Seq(LogRecords) /\ Len(SubSeq(LogOf(t), 1, n)) = n
        /\ \A i \in 1..n : SubSeq(LogOf(t), 1, n)[i] = LogOf(t)[i]
    BY <1>2, <1>7, PrefixParts
  <1>10. \A i \in 1..n : i \in 1..Len(t.blocks)
    BY <1>1, <1>2
  <1>11. \A i \in 1..n : LogOf(after)[i] = SubSeq(LogOf(t), 1, n)[i]
    BY <1>4, <1>6, <1>7, <1>8, <1>9, <1>10
  <1>12. LogOf(after) = SubSeq(LogOf(t), 1, n)
    BY <1>8, <1>9, <1>11, SeqEqual
  <1> QED
    BY <1>2, <1>7, <1>12 DEF after

\* A rebuild leaves the log alone.
LEMMA FillLog == ASSUME NEW t, Sound(t) PROVE LogOf(FillCache(t)) = LogOf(t)
  BY FillSound DEF LogOf, BlockLeaves

\* The log's commitments, one block after the other, are the leaves of the tree.
LEMMA Flattened ==
  ASSUME NEW t, Sound(t)
  PROVE  FlattenSeq([i \in DOMAIN t.blocks |-> LogOf(t)[i].cms]) = t.leaves
  <1> DEFINE N == Len(t.blocks)
             u == LeavesUpTo(t.blocks)
             s == [i \in 1..N |-> BlockLeaves(t, i)]
             g == [i \in 1..N |-> SubSeq(t.leaves, 1, u[i])]
             Eq(f) == f = [i \in 1..Len(s) |-> IF i = 1 THEN s[i] ELSE f[i - 1] \o s[i]]
             h == CHOOSE f : Eq(f)
  <1>1. /\ t.leaves \in Seq(Leaves) /\ Len(t.leaves) \in Nat /\ N \in Nat
        /\ t.blocks \in Seq(BlockRecords) /\ Counted(t.blocks)
    BY TreeParts DEF Sound
  <1>2. [i \in DOMAIN t.blocks |-> LogOf(t)[i].cms] = s
    <2>1. DOMAIN t.blocks = 1..N
      BY <1>1
    <2>2. \A i \in 1..Len(t.blocks) :
            LogOf(t)[i] = [height |-> t.blocks[i].height, hash |-> t.blocks[i].hash,
                           cms |-> BlockLeaves(t, i)]
      BY LogParts
    <2>3. ASSUME NEW i \in 1..N PROVE LogOf(t)[i].cms = BlockLeaves(t, i)
      <3>1. LogOf(t)[i] = [height |-> t.blocks[i].height, hash |-> t.blocks[i].hash,
                           cms |-> BlockLeaves(t, i)]
        BY <2>2
      <3> QED
        BY <3>1
    <2> QED
      BY <2>1, <2>3
  <1>3. s \in Seq(Seq(Leaves)) /\ Len(s) = N /\ \A i \in 1..N : s[i] = BlockLeaves(t, i)
    <2>1. \A i \in 1..N : BlockLeaves(t, i) \in Seq(Leaves)
      BY BlockBounds
    <2> QED
      BY <1>1, <2>1
  <1>4. u[0] = 0 /\ u[N] = Len(t.leaves)
    BY <1>1, LeavesUpToSums DEF Sums, Sound, Accounted
  <1>5. \A i \in 1..N : /\ u[i - 1] \in Nat /\ u[i] \in Nat /\ u[i - 1] <= u[i]
                        /\ u[i] <= Len(t.leaves)
    BY BlockBounds
  <1>6. CASE N = 0
    <2>1. FlattenSeq(s) = s
      BY <1>3, <1>6 DEF FlattenSeq
    <2> HIDE DEF s, u
    <2>2. s = <<>>
      BY <1>3, <1>6
    <2>3. t.leaves = <<>>
      BY <1>1, <1>4, <1>6
    <2> QED
      BY <1>2, <2>1, <2>2, <2>3
  <1>7. CASE N # 0
    <2>1. \A i \in 1..N : s[i] = SubSeq(t.leaves, u[i - 1] + 1, u[i])
      BY <1>3 DEF BlockLeaves
    <2> HIDE DEF s
    <2>2. ASSUME NEW i \in 1..N, i # 1 PROVE g[i - 1] \o s[i] = g[i]
      <3>1. i - 1 \in 1..N /\ u[i - 1] \in Nat /\ u[i] \in Nat /\ u[i - 1] <= u[i]
            /\ u[i] <= Len(t.leaves)
        BY <1>1, <1>5, <2>2
      <3> DEFINE k == u[i - 1]
                 n == u[i]
      <3>2. 1 \in 1..(Len(t.leaves) + 1) /\ k \in (1 - 1)..Len(t.leaves) /\ n \in k..Len(t.leaves)
        <4>1. k \in Nat /\ n \in Nat /\ k <= n /\ n <= Len(t.leaves)
          BY <3>1
        <4> HIDE DEF k, n
        <4> QED
          BY <1>1, <4>1
      <3>3. g[i - 1] = SubSeq(t.leaves, 1, k) /\ g[i] = SubSeq(t.leaves, 1, n)
            /\ s[i] = SubSeq(t.leaves, k + 1, n)
        BY <2>1, <3>1
      <3> HIDE DEF k, n, g
      <3>4. SubSeq(t.leaves, 1, k) \o SubSeq(t.leaves, k + 1, n) = SubSeq(t.leaves, 1, n)
        BY <1>1, <3>2, ConcatAdjacentSubSeq
      <3> QED
        BY <3>3, <3>4
    <2>3. 1 \in 1..N /\ s[1] = g[1]
      <3>1. 1 \in 1..N
        BY <1>1, <1>7
      <3>2. s[1] = SubSeq(t.leaves, u[1 - 1] + 1, u[1])
        BY <2>1, <3>1
      <3>3. u[1 - 1] + 1 = 1
        BY <1>4
      <3> QED
        BY <3>1, <3>2, <3>3
    <2>4. Eq(g)
      <3>1. \A i \in 1..N : g[i] = IF i = 1 THEN s[i] ELSE g[i - 1] \o s[i]
        <4> HIDE DEF g
        <4> QED
          BY <2>2, <2>3
      <3>2. g = [i \in 1..N |-> g[i]]
        OBVIOUS
      <3> HIDE DEF g
      <3>3. g = [i \in 1..N |-> IF i = 1 THEN s[i] ELSE g[i - 1] \o s[i]]
        BY <3>1, <3>2
      <3> QED
        BY <1>3, <3>3
    <2>5. Eq(h)
      <3> HIDE DEF Eq, g
      <3> QED
        BY <2>4
    <2>6. FlattenSeq(s) = h[N]
      BY <1>3, <1>7 DEF FlattenSeq
    <2>7. \A i \in 1..N : h[i] = IF i = 1 THEN s[i] ELSE h[i - 1] \o s[i]
      <3> HIDE DEF h
      <3> QED
        BY <1>3, <2>5
    <2> HIDE DEF h, g
    <2> DEFINE T == {n \in 0..(N - 1) : h[n + 1] = g[n + 1]}
    <2>8. 0 \in T
      BY <1>1, <1>7, <2>3, <2>7
    <2>9. ASSUME NEW n \in 0..(N - 1 - 1), n \in T PROVE n + 1 \in T
      <3>1. /\ n + 1 \in 1..N /\ (n + 1) + 1 \in 1..N /\ ((n + 1) + 1) - 1 = n + 1 /\ (n + 1) + 1 # 1
            /\ n + 1 \in 0..(N - 1)
        BY <1>1, <2>9
      <3>2. h[(n + 1) + 1] = h[n + 1] \o s[(n + 1) + 1]
        BY <2>7, <3>1
      <3>3. g[(n + 1) + 1] = g[n + 1] \o s[(n + 1) + 1]
        BY <2>2, <3>1
      <3>4. h[n + 1] = g[n + 1]
        BY <2>9
      <3> QED
        BY <3>1, <3>2, <3>3, <3>4
    <2>10. \A n \in 0..(N - 1) : n \in T
      <3>1. N - 1 \in Nat
        BY <1>1, <1>7
      <3> HIDE DEF T
      <3> QED
        BY <2>8, <2>9, <3>1, UpTo
    <2>11. h[N] = g[N]
      <3>1. N - 1 \in 0..(N - 1) /\ (N - 1) + 1 = N
        BY <1>1, <1>7
      <3> QED
        BY <2>10, <3>1
    <2>12. g[N] = t.leaves
      <3>1. N \in 1..N
        BY <1>1, <1>7
      <3> QED
        BY <1>1, <1>4, <3>1, SubSeqFull DEF g
    <2> QED
      BY <1>2, <2>6, <2>11, <2>12
  <1> QED
    BY <1>6, <1>7

-----------------------------------------------------------------------------
(* What a rebuild publishes *)

\* The rows of the populated shards of the window.
LEMMA WindowRow ==
  ASSUME NEW t, Sound(t), NEW i \in 1..WindowShards(t), NEW k \in 1..SubshardsPerShard
  PROVE  LET r == (i - 1) * SubshardsPerShard + k - 1
         IN  r \in Rows /\ r < WindowShards(t) * SubshardsPerShard
  <1> DEFINE S == SubshardsPerShard
             W == WindowShards(t)
             before == (i - 1) * S
             r == before + k - 1
  <1>1. S \in Nat \ {0} /\ MaxShards \in Nat \ {0} /\ SubshardLeaves \in Nat \ {0}
    BY Geometry
  <1>2. W \in 0..MaxShards
    <2>1. CASE t.leaves = <<>>
      BY <1>1, <2>1 DEF WindowShards
    <2>2. CASE t.leaves # <<>>
      <3> DEFINE local == (Len(t.leaves) - 1) \div ShardLeaves + 1
      <3>1. Len(t.leaves) - 1 \in Nat
        BY <2>2, TreeParts DEF Sound
      <3>2. ShardLeaves \in Nat \ {0}
        <4>1. SubshardLeaves * SubshardsPerShard \in Nat
          BY <1>1
        <4>2. 0 * SubshardsPerShard + SubshardsPerShard <= SubshardLeaves * SubshardsPerShard
          BY <1>1, RowsApart
        <4>3. 0 * SubshardsPerShard = 0
          BY <1>1
        <4> DEFINE product == SubshardLeaves * SubshardsPerShard
                   none == 0 * SubshardsPerShard
        <4> HIDE DEF product, none
        <4>4. product # 0
          BY <1>1, <4>1, <4>2, <4>3 DEF product, none
        <4> QED
          BY <4>1, <4>4 DEF ShardLeaves, product
      <3>3. local \in Nat
        <4> DEFINE last == Len(t.leaves) - 1
        <4> HIDE DEF last
        <4>1. last \in Nat
          BY <3>1 DEF last
        <4>2. last \div ShardLeaves \in Nat
          BY <3>2, <4>1, Quotient
        <4> QED
          BY <4>2 DEF last
      <3>4. W = IF local <= MaxShards THEN local ELSE MaxShards
        BY <2>2 DEF WindowShards
      <3> HIDE DEF local, W
      <3> QED
        BY <1>1, <3>3, <3>4
    <2> QED
      BY <2>1, <2>2
  <1>3. i \in Nat /\ i - 1 \in Nat /\ i - 1 < W /\ W \in Nat /\ W <= MaxShards
    <2> HIDE DEF W
    <2>1. i \in 1..W
      BY DEF W
    <2> QED
      BY <1>1, <1>2, <2>1
  <1> HIDE DEF W
  <1>4. before + S <= W * S
    BY <1>1, <1>3, RowsApart
  <1>5. W * S <= MaxShards * S
    <2>1. CASE W = MaxShards
      BY <1>1, <2>1
    <2>2. CASE W < MaxShards
      <3>1. W * S + S <= MaxShards * S
        BY <1>1, <1>3, <2>2, RowsApart
      <3>2. W * S \in Nat /\ MaxShards * S \in Nat
        BY <1>1, <1>3
      <3> DEFINE x == W * S
                 y == MaxShards * S
      <3> HIDE DEF x, y
      <3>3. x <= y
        BY <1>1, <3>1, <3>2 DEF x, y
      <3> QED
        BY <3>3 DEF x, y
    <2> QED
      BY <1>3, <1>1, <2>1, <2>2
  <1>6. before \in Nat /\ W * S \in Nat /\ MaxShards * S \in Nat
    BY <1>1, <1>3
  <1>7. Rows = 0..(MaxShards * S - 1)
    BY DEF Rows
  <1> DEFINE x == W * S
             y == MaxShards * S
  <1>8. /\ before + S <= x /\ x <= y /\ before \in Nat /\ x \in Nat /\ y \in Nat
        /\ k \in 1..S /\ Rows = 0..(y - 1)
    BY <1>4, <1>5, <1>6, <1>7
  <1> HIDE DEF x, y, before, S
  <1>9. r \in Rows /\ r < x
    BY <1>1, <1>8
  <1> QED
    BY <1>9 DEF r, x, before, S, W

\* A row beyond the frontier is an empty sub-shard.
LEMMA EmptyRow ==
  ASSUME NEW t, Sound(t), NEW r \in Nat, ~ (r * SubshardLeaves < Len(t.leaves))
  PROVE  Root(0, Row(t.leaves, r)) = EmptySubshardRoot
  <1> DEFINE base == r * SubshardLeaves
  <1>1. base \in Nat /\ 0 * SubshardLeaves = 0 /\ Len(<<>>) = 0 /\ Len(t.leaves) \in Nat
    BY Geometry, TreeParts DEF Sound
  <1>2. \A j \in 1..SubshardLeaves : ~ (base + j <= Len(t.leaves)) /\ ~ (0 + j <= 0)
    <2>1. base >= Len(t.leaves)
      BY <1>1
    <2> HIDE DEF base
    <2> QED
      BY <1>1, <2>1, Geometry
  <1>3. Row(t.leaves, r) = [j \in 1..SubshardLeaves |-> EmptyLeaf]
    BY <1>2 DEF Row
  <1>4. Row(<<>>, 0) = [j \in 1..SubshardLeaves |-> EmptyLeaf]
    BY <1>1, <1>2 DEF Row
  <1> QED
    BY <1>3, <1>4 DEF EmptySubshardRoot

\* Cached, computed or empty: what is published for a row is the root of its leaves.
LEMMA PublishedRow ==
  ASSUME NEW t, Sound(t), NEW r \in Rows, r < WindowShards(t) * SubshardsPerShard
  PROVE  SubshardRoot(t, r) = Root(0, Row(t.leaves, r))
  <1>1. r \in Nat
    BY Geometry
  <1>2. CASE r \in LiveRows(t)
    BY <1>2 DEF SubshardRoot, Sound, Coherent
  <1>3. CASE r \notin LiveRows(t)
    <2>1. ~ (r * SubshardLeaves < Len(t.leaves))
      BY <1>3 DEF LiveRows
    <2> QED
      BY <1>1, <1>3, <2>1, EmptyRow DEF SubshardRoot
  <1> QED
    BY <1>2, <1>3

\* The published roots of a sound tree.
LEMMA PublishedExact == Sound(tree) => BroadcastExact
  <1> SUFFICES ASSUME Sound(tree) PROVE BroadcastExact
    OBVIOUS
  <1> DEFINE all == FlattenSeq([i \in DOMAIN tree.blocks |-> LogOf(tree)[i].cms])
             sub(r) == Root(0, Row(all, r))
             shard(i) == [k \in 1..SubshardsPerShard |-> sub((i - 1) * SubshardsPerShard + k - 1)]
             subs == [i \in 1..WindowShards(tree) |-> shard(i)]
             published == [i \in 1..WindowShards(tree) |-> SubRoots(tree, i - 1)]
  <1>1. all = tree.leaves
    BY Flattened
  <1>2. ASSUME NEW i \in 1..WindowShards(tree), NEW k \in 1..SubshardsPerShard
        PROVE  SubshardRoot(tree, (i - 1) * SubshardsPerShard + k - 1)
                 = sub((i - 1) * SubshardsPerShard + k - 1)
    <2> DEFINE r == (i - 1) * SubshardsPerShard + k - 1
    <2>1. r \in Rows /\ r < WindowShards(tree) * SubshardsPerShard
      BY WindowRow
    <2> HIDE DEF r, all
    <2>2. SubshardRoot(tree, r) = Root(0, Row(tree.leaves, r))
      BY <2>1, PublishedRow
    <2> QED
      BY <1>1, <2>2 DEF r
  <1> HIDE DEF all
  <1>3. \A i \in 1..WindowShards(tree) : SubRoots(tree, i - 1) = shard(i)
    BY <1>2 DEF SubRoots
  <1>4. published = subs
    BY <1>3
  <1>5. /\ Broadcast(tree).subshard_roots = published
        /\ Broadcast(tree).cap
             = tree.prefetched \o [i \in 1..WindowShards(tree) |-> Root(1, published[i])]
    BY DEF Broadcast
  <1> HIDE DEF published, subs
  <1>6. /\ Broadcast(tree).subshard_roots = subs
        /\ Broadcast(tree).cap
             = tree.prefetched \o [i \in 1..WindowShards(tree) |-> Root(1, subs[i])]
    BY <1>4, <1>5
  <1> QED
    BY <1>6 DEF BroadcastExact, subs, all

-----------------------------------------------------------------------------
(* The store *)

\* The running tree and the saved one are sound.
StoreInv == \A t \in {tree} \cup saved : Sound(t)

\* The trees that prepare_tree makes.
LEMMA PreparedSound == ASSUME NEW t \in Prepared PROVE Sound(t)
  <1>1. CASE t = EmptyTree(<<>>)
    BY <1>1, EmptySound
  <1>2. CASE \E roots \in SubtreeRoots \ {<<>>}, b \in Blocks :
               t = AppendCommitments(EmptyTree(roots), 1, b.hash, b.cms)
    <2>1. PICK roots \in SubtreeRoots \ {<<>>}, b \in Blocks :
            t = AppendCommitments(EmptyTree(roots), 1, b.hash, b.cms)
      BY <1>2
    <2>2. Sound(EmptyTree(roots))
      BY <2>1, EmptySound
    <2>3. Sound(AppendCommitments(EmptyTree(roots), 1, b.hash, b.cms))
      <3> DEFINE empty == EmptyTree(roots)
      <3> HIDE DEF empty
      <3>1. Sound(empty)
        BY <2>2 DEF empty
      <3>2. Sound(AppendCommitments(empty, 1, b.hash, b.cms))
        BY <2>1, <3>1, AppendSound
      <3> QED
        BY <3>2 DEF empty
    <2> QED
      BY <2>1, <2>3
  <1> QED
    BY <1>1, <1>2 DEF Prepared

\* The height of the next block.
LEMMA HeightNat == ASSUME NEW t, Sound(t) PROVE LastHeight(t) + 1 \in Nat
  <1>1. t.blocks \in Seq(BlockRecords) /\ Len(t.blocks) \in Nat
    BY TreeParts DEF Sound
  <1>2. CASE t.blocks = <<>>
    BY <1>2 DEF LastHeight
  <1>3. CASE t.blocks # <<>>
    <2>1. Len(t.blocks) \in 1..Len(t.blocks)
      BY <1>1, <1>3
    <2>2. t.blocks[Len(t.blocks)] \in BlockRecords
      BY <1>1, <2>1
    <2> QED
      BY <1>3, <2>2 DEF LastHeight, Last, BlockRecords
  <1> QED
    BY <1>2, <1>3

\* A bootstrap makes a sound tree, and there is no snapshot yet.
LEMMA InitSound == StoreInit => StoreInv
  BY PreparedSound DEF StoreInit, StoreInv

\* Every operation keeps both sound.
LEMMA NextSound == StoreInv /\ [StoreNext]_storeVars => StoreInv'
  <1> SUFFICES ASSUME StoreInv, [StoreNext]_storeVars PROVE StoreInv'
    OBVIOUS
  <1>1. Sound(tree) /\ \A t \in saved : Sound(t)
    BY DEF StoreInv
  <1>2. ASSUME NEW b \in Blocks, AppendBlock(b) PROVE StoreInv'
    <2>1. Sound(tree')
      BY <1>1, <1>2, HeightNat, AppendSound DEF AppendBlock
    <2> QED
      BY <1>1, <1>2, <2>1 DEF AppendBlock, StoreInv
  <1>3. ASSUME NEW target \in 0..LastHeight(tree), Rollback(target) PROVE StoreInv'
    <2>1. Sound(tree')
      BY <1>1, <1>3, RollbackSound DEF Rollback
    <2> QED
      BY <1>1, <1>3, <2>1 DEF Rollback, StoreInv
  <1>4. CASE Rebuild
    <2>1. Sound(tree')
      BY <1>1, <1>4, FillSound DEF Rebuild
    <2> QED
      BY <1>1, <1>4, <2>1 DEF Rebuild, StoreInv
  <1>5. CASE SaveTree
    BY <1>1, <1>5 DEF SaveTree, StoreInv
  <1>6. CASE Restart
    BY <1>1, <1>6, PreparedSound DEF Restart, StoreInv
  <1>7. CASE UNCHANGED storeVars
    BY <1>1, <1>7 DEF storeVars, StoreInv
  <1> QED
    BY <1>2, <1>3, <1>4, <1>5, <1>6, <1>7 DEF StoreNext

\* At all times, in memory and on disk, each leaf belongs to a block and each cached
\* root is the root of the leaves that are under it (append_commitments, rollback_to,
\* build_pir_db_and_broadcast, from_snapshot).
THEOREM StoreInvariantHolds == StoreSpec => []StoreInv
  <1> QED
    BY InitSound, NextSound, PTL DEF StoreSpec

\* Tree and snapshot are well typed, and the block records account for every leaf.
THEOREM StoreTypeCorrect == StoreSpec => []StoreTypeOK
  <1>1. StoreInv => StoreTypeOK
    BY DEF StoreInv, StoreTypeOK, Sound, Accounted
  <1> QED
    BY <1>1, StoreInvariantHolds, PTL

\* Appends and rollbacks drop every cached root that they make stale, whatever the
\* size of a sub-shard and wherever the frontier lies in it.
THEOREM CacheNeverStale == StoreSpec => []CacheCoherent
  <1>1. StoreInv => CacheCoherent
    BY DEF StoreInv, CacheCoherent, Sound, Coherent
  <1> QED
    BY <1>1, StoreInvariantHolds, PTL

\* A rebuild publishes what the blocks of the log determine, with any part of the
\* cache filled.
THEOREM PublishedIsExact == StoreSpec => []BroadcastExact
  <1>1. StoreInv => BroadcastExact
    BY PublishedExact DEF StoreInv
  <1> QED
    BY <1>1, StoreInvariantHolds, PTL

-----------------------------------------------------------------------------
(* The tree as a log of blocks *)

\* The next block of the log has the height that append_block gives it.
LEMMA LogHeight ==
  ASSUME NEW t, Sound(t)
  PROVE  LastHeight(t) + 1 = IF LogOf(t) = <<>> THEN 1 ELSE Last(LogOf(t)).height + 1
  <1>1. /\ t.blocks \in Seq(BlockRecords) /\ Len(t.blocks) \in Nat
        /\ LogOf(t) \in Seq(LogRecords) /\ Len(LogOf(t)) = Len(t.blocks)
    BY TreeParts, LogParts DEF Sound
  <1>2. CASE t.blocks = <<>>
    BY <1>1, <1>2 DEF LastHeight
  <1>3. CASE t.blocks # <<>>
    <2>1. Len(t.blocks) \in 1..Len(t.blocks) /\ LogOf(t) # <<>>
      BY <1>1, <1>3
    <2>2. LogOf(t)[Len(t.blocks)]
            = [height |-> t.blocks[Len(t.blocks)].height, hash |-> t.blocks[Len(t.blocks)].hash,
               cms |-> BlockLeaves(t, Len(t.blocks))]
      BY <2>1, LogParts
    <2>3. Last(LogOf(t)).height = Last(t.blocks).height
      BY <1>1, <2>2 DEF Last
    <2> QED
      BY <1>3, <2>1, <2>3 DEF LastHeight
  <1> QED
    BY <1>2, <1>3

\* The log a bootstrap leaves is fresh.
LEMMA InitIsLog == StoreInit => Log!Init
  BY DEF StoreInit, Log!Init

\* Every step of the store is a step of the log, or leaves it alone.
LEMMA NextIsLog ==
  StoreInv /\ [StoreNext]_storeVars => [Log!Next]_<<LogOf(tree), {LogOf(t) : t \in saved}>>
  <1> SUFFICES ASSUME StoreInv, [StoreNext]_storeVars
               PROVE  [Log!Next]_<<LogOf(tree), {LogOf(t) : t \in saved}>>
    OBVIOUS
  <1>1. Sound(tree)
    BY DEF StoreInv
  <1>2. ASSUME NEW b \in Blocks, AppendBlock(b) PROVE Log!AddBlock
    <2>1. LastHeight(tree) + 1 \in Nat
      BY <1>1, HeightNat
    <2>2. tree' = AppendCommitments(tree, LastHeight(tree) + 1, b.hash, b.cms) /\ saved' = saved
      BY <1>2 DEF AppendBlock
    <2>3. LogOf(tree') = Append(LogOf(tree), [height |-> LastHeight(tree) + 1, hash |-> b.hash,
                                              cms |-> b.cms])
      BY <1>1, <2>1, <2>2, AppendLog
    <2>4. LastHeight(tree) + 1 = Log!NextHeight
      <3>1. LastHeight(tree) + 1
              = IF LogOf(tree) = <<>> THEN 1 ELSE Last(LogOf(tree)).height + 1
        BY <1>1, LogHeight
      <3> QED
        BY <3>1 DEF Log!NextHeight, Last, Log!Last
    <2> QED
      BY <2>2, <2>3, <2>4 DEF Log!AddBlock
  <1>3. ASSUME NEW target \in 0..LastHeight(tree), Rollback(target) PROVE Log!Cut
    <2>1. tree' = RollbackTo(tree, target) /\ saved' = saved
      BY <1>3 DEF Rollback
    <2>2. \E n \in 0..Len(LogOf(tree)) : LogOf(tree') = SubSeq(LogOf(tree), 1, n)
      BY <1>1, <2>1, RollbackLog
    <2> QED
      BY <2>1, <2>2 DEF Log!Cut
  <1>4. CASE Rebuild
    BY <1>1, <1>4, FillLog DEF Rebuild
  <1>5. CASE SaveTree
    BY <1>5 DEF SaveTree, Log!Next, Log!Save
  <1>6. CASE Restart
    BY <1>6 DEF Restart, Log!Next, Log!Restart
  <1>7. CASE UNCHANGED storeVars
    BY <1>7 DEF storeVars
  <1> QED
    BY <1>2, <1>3, <1>4, <1>5, <1>6, <1>7 DEF StoreNext, Log!Next

\* Through reorgs, rebuilds, saves and restarts the tree is a log of blocks, each with
\* the commitments it arrived with.
THEOREM ImplementsLog == StoreSpec => IsCommitmentLog
  <1> QED
    BY InitIsLog, NextIsLog, StoreInvariantHolds, PTL DEF StoreSpec, IsCommitmentLog, Log!Spec

-----------------------------------------------------------------------------
(* The tree of a chain, and the server that makes it *)

\* The leaves of the tree of the chain c after its first h blocks.
LeavesAt(c, h) == IF h = 0 THEN <<>> ELSE TreeOf[c[h]]
SizeAt(c, h) == Len(LeavesAt(c, h))

\* The constants that are numbers.
LEMMA Numbers ==
  /\ MaxHeight \in Nat /\ MaxHeight >= 1 /\ Heights = 1..MaxHeight
  /\ Depth \in Nat /\ BatchSize \in Nat /\ BatchSize >= 1
  /\ Activation \in Heights /\ SnapshotInterval \in Nat /\ SnapshotInterval >= 1
  /\ ShardLeaves \in Nat /\ ShardLeaves >= 1
  <1>1. /\ MaxHeight \in Nat /\ MaxHeight >= 1 /\ Heights = 1..MaxHeight
        /\ Depth \in Nat /\ BatchSize \in Nat /\ BatchSize >= 1
        /\ Activation \in Heights /\ SnapshotInterval \in Nat /\ SnapshotInterval >= 1
    BY ChainAssumption, RangeAssumption, WitnessServerAssumption DEF Heights
  <1>2. SubshardLeaves \in Nat /\ SubshardLeaves >= 1
        /\ SubshardsPerShard \in Nat /\ SubshardsPerShard >= 1
    BY Geometry
  <1>3. \A i, j \in Nat : i >= 1 /\ j >= 1 => i * j \in Nat /\ i * j >= 1
    <2>1. SUFFICES ASSUME NEW i \in Nat, NEW j \in Nat, i >= 1, j >= 1
                   PROVE  i * j \in Nat /\ i * j >= 1
      OBVIOUS
    <2>2. PICK k \in Nat : i = k + 1
      <3>1. i - 1 \in Nat /\ i = (i - 1) + 1
        BY <2>1
      <3> QED
        BY <3>1
    <2>3. i * j = k * j + j /\ k * j \in Nat
      BY <2>2
    <2> QED
      BY <2>1, <2>3
  <1> QED
    BY <1>1, <1>2, <1>3 DEF ShardLeaves

\* The hashes of a chain.
LEMMA ChainHash ==
  ASSUME NEW c \in Chains
  PROVE  c \in Seq(Hashes) /\ Len(c) = MaxHeight /\ \A h \in Heights : c[h] \in Hashes
  BY ChainAssumption DEF Hashes

-----------------------------------------------------------------------------
(* Flattening a sequence of sequences *)

\* What FlattenSeq puts together, one sequence after the other.
Flattens(h, s, n, S) ==
  /\ h \in [1..(n + 1) -> Seq(S)]
  /\ h[1] = s[1] /\ FlattenSeq(s) = h[n + 1]
  /\ \A i \in 1..n : h[i + 1] = h[i] \o s[i + 1]

\* FlattenSeq is the last of the sequences it puts together.
LEMMA FlattenIs ==
  ASSUME NEW S, NEW s \in Seq(Seq(S)), NEW n \in Nat, Len(s) = n + 1
  PROVE  \E h : Flattens(h, s, n, S)
  <1> DEFINE step == [x \in Inputs(n, Seq(S)) |-> x[2] \o s[x[1] + 1]]
             Eq(f) == f = [i \in 1..Len(s) |-> IF i = 1 THEN s[i] ELSE f[i - 1] \o s[i]]
             h == CHOOSE f : Eq(f)
  <1>1. \A i \in 1..(n + 1) : s[i] \in Seq(S)
    OBVIOUS
  <1>2. step \in [Inputs(n, Seq(S)) -> Seq(S)]
    <2>1. \A x \in Inputs(n, Seq(S)) : x[2] \in Seq(S) /\ x[1] + 1 \in 1..(n + 1)
      BY DEF Inputs
    <2>2. \A x \in Inputs(n, Seq(S)) : x[2] \o s[x[1] + 1] \in Seq(S)
      BY <1>1, <2>1
    <2> QED
      BY <2>2
  <1>3. PICK f : Runs(f, n, Seq(S), s[1], step)
    <2>1. s[1] \in Seq(S)
      BY <1>1
    <2> HIDE DEF step
    <2> QED
      BY <1>2, <2>1, Recursion
  <1>4. /\ f \in [0..n -> Seq(S)] /\ f[0] = s[1]
        /\ \A k \in 1..n : f[k] = f[k - 1] \o s[k + 1]
    <2>1. f \in [0..n -> Seq(S)] /\ f[0] = s[1] /\ \A k \in 1..n : f[k] = step[<<k, f[k - 1]>>]
      BY <1>3 DEF Runs
    <2>2. ASSUME NEW k \in 1..n PROVE step[<<k, f[k - 1]>>] = f[k - 1] \o s[k + 1]
      <3>1. k - 1 \in 0..n
        OBVIOUS
      <3>2. <<k, f[k - 1]>> \in Inputs(n, Seq(S))
        BY <2>1, <3>1 DEF Inputs
      <3> QED
        BY <3>2
    <2> QED
      BY <2>1, <2>2
  <1> DEFINE g == [i \in 1..(n + 1) |-> f[i - 1]]
  <1>5. g[1] = s[1] /\ \A i \in 2..(n + 1) : g[i] = g[i - 1] \o s[i]
    <2>1. g[1] = s[1]
      BY <1>4
    <2>2. ASSUME NEW i \in 2..(n + 1) PROVE g[i] = g[i - 1] \o s[i]
      <3>1. i - 1 \in 1..n /\ i - 1 \in 1..(n + 1) /\ i \in 1..(n + 1) /\ (i - 1) + 1 = i
        OBVIOUS
      <3>2. f[i - 1] = f[(i - 1) - 1] \o s[i]
        BY <1>4, <3>1
      <3> QED
        BY <3>1, <3>2
    <2> QED
      BY <2>1, <2>2
  <1>6. g = [i \in 1..(n + 1) |-> IF i = 1 THEN s[i] ELSE g[i - 1] \o s[i]]
    <2>1. g = [i \in 1..(n + 1) |-> g[i]]
      OBVIOUS
    <2> HIDE DEF g
    <2>2. ASSUME NEW i \in 1..(n + 1)
          PROVE  g[i] = IF i = 1 THEN s[i] ELSE g[i - 1] \o s[i]
      <3>1. i = 1 \/ i \in 2..(n + 1)
        OBVIOUS
      <3> QED
        BY <1>5, <3>1
    <2> QED
      BY <2>1, <2>2
  <1>7. Eq(h)
    <2>1. Eq(g)
      <3> HIDE DEF g
      <3> QED
        BY <1>6
    <2> HIDE DEF Eq, g
    <2> QED
      BY <2>1
  <1>8. FlattenSeq(s) = h[n + 1]
    BY DEF FlattenSeq
  <1> HIDE DEF h, g, step
  <1>9. DOMAIN h = 1..(n + 1) /\ h[1] = s[1] /\ \A i \in 1..n : h[i + 1] = h[i] \o s[i + 1]
    <2>1. h = [i \in 1..(n + 1) |-> IF i = 1 THEN s[i] ELSE h[i - 1] \o s[i]]
      BY <1>7
    <2>2. ASSUME NEW i \in 1..n PROVE h[i + 1] = h[i] \o s[i + 1]
      <3>1. i + 1 \in 1..(n + 1) /\ i + 1 # 1 /\ (i + 1) - 1 = i
        OBVIOUS
      <3> QED
        BY <2>1, <3>1
    <2>3. 1 \in 1..(n + 1)
      OBVIOUS
    <2> QED
      BY <2>1, <2>2, <2>3
  <1> DEFINE T == {k \in 0..n : h[k + 1] \in Seq(S)}
  <1>10. 0 \in T
    BY <1>1, <1>9
  <1>11. ASSUME NEW k \in 0..(n - 1), k \in T PROVE k + 1 \in T
    <2>1. k + 1 \in 1..n /\ k + 1 \in 0..n /\ (k + 1) + 1 \in 1..(n + 1)
      OBVIOUS
    <2>2. h[(k + 1) + 1] = h[k + 1] \o s[(k + 1) + 1] /\ h[k + 1] \in Seq(S)
          /\ s[(k + 1) + 1] \in Seq(S)
      BY <1>1, <1>9, <1>11, <2>1
    <2>3. h[k + 1] \o s[(k + 1) + 1] \in Seq(S)
      BY <2>2
    <2> QED
      BY <2>1, <2>2, <2>3
  <1>12. \A k \in 0..n : k \in T
    <2> HIDE DEF T
    <2> QED
      BY <1>10, <1>11, UpTo
  <1>13. \A i \in 1..(n + 1) : h[i] \in Seq(S)
    <2>1. \A i \in 1..(n + 1) : i - 1 \in 0..n /\ (i - 1) + 1 = i
      OBVIOUS
    <2>2. \A k \in 0..n : h[k + 1] \in Seq(S)
      BY <1>12
    <2> QED
      BY <2>1, <2>2
  <1>14. h \in [1..(n + 1) -> Seq(S)]
    <2>1. h = [i \in 1..(n + 1) |-> h[i]]
      BY <1>7, <1>9
    <2> QED
      BY <1>13, <2>1
  <1> QED
    BY <1>8, <1>9, <1>14 DEF Flattens

\* One sequence more adds its elements at the end.
LEMMA FlattenOneMore ==
  ASSUME NEW S, NEW n \in Nat, NEW s \in Seq(Seq(S)), NEW w \in Seq(Seq(S)),
         Len(s) = n, Len(w) = n + 1, \A i \in 1..n : s[i] = w[i]
  PROVE  FlattenSeq(s) \in Seq(S) /\ FlattenSeq(w) = FlattenSeq(s) \o w[n + 1]
  <1>1. PICK h \in [1..(n + 1) -> Seq(S)] :
          /\ h[1] = w[1] /\ FlattenSeq(w) = h[n + 1]
          /\ \A i \in 1..n : h[i + 1] = h[i] \o w[i + 1]
    <2>1. \E h : Flattens(h, w, n, S)
      BY FlattenIs
    <2> QED
      BY <2>1 DEF Flattens
  <1>2. CASE n = 0
    <2>1. FlattenSeq(s) = s /\ s = <<>>
      BY <1>2 DEF FlattenSeq
    <2>2. w[1] \in Seq(S)
      BY <1>2
    <2>3. <<>> \o w[1] = w[1] /\ <<>> \in Seq(S)
      BY <2>2
    <2> QED
      BY <1>1, <1>2, <2>1, <2>3
  <1>3. CASE n # 0
    <2>1. n - 1 \in Nat /\ (n - 1) + 1 = n
      BY <1>3
    <2>2. PICK g \in [1..n -> Seq(S)] :
            /\ g[1] = s[1] /\ FlattenSeq(s) = g[n]
            /\ \A i \in 1..(n - 1) : g[i + 1] = g[i] \o s[i + 1]
      <3>1. Len(s) = (n - 1) + 1
        BY <2>1
      <3>2. \E g : Flattens(g, s, n - 1, S)
        BY <2>1, <3>1, FlattenIs
      <3> QED
        BY <2>1, <3>2 DEF Flattens
    <2> DEFINE T == {k \in 0..(n - 1) : g[k + 1] = h[k + 1]}
    <2>3. 0 \in T
      BY <1>1, <1>3, <2>2
    <2>4. ASSUME NEW k \in 0..(n - 1 - 1), k \in T PROVE k + 1 \in T
      <3>1. k + 1 \in 1..(n - 1) /\ k + 1 \in 0..(n - 1) /\ k + 1 \in 1..n /\ (k + 1) + 1 \in 1..n
        BY <1>3
      <3>2. /\ g[(k + 1) + 1] = g[k + 1] \o s[(k + 1) + 1]
            /\ h[(k + 1) + 1] = h[k + 1] \o w[(k + 1) + 1]
        BY <1>1, <2>2, <3>1
      <3> QED
        BY <2>4, <3>1, <3>2
    <2>5. \A k \in 0..(n - 1) : k \in T
      <3> HIDE DEF T
      <3> QED
        BY <2>1, <2>3, <2>4, UpTo
    <2>6. g[n] = h[n]
      <3>1. n - 1 \in 0..(n - 1)
        BY <2>1
      <3> QED
        BY <2>1, <2>5, <3>1
    <2>7. n \in 1..n
      BY <1>3
    <2> QED
      BY <1>1, <2>2, <2>6, <2>7
  <1> QED
    BY <1>2, <1>3

-----------------------------------------------------------------------------
(* The chain's tree *)

\* A block hash stands for one place on one chain, up to that place.
LEMMA TreeOfBlock ==
  ASSUME NEW c \in Chains, NEW h \in Heights
  PROVE  TreeOf[c[h]] = FlattenSeq([k \in 1..h |-> Commitments[c[k]]])
  <1> DEFINE x == c[h]
             d == CHOOSE e \in Chains : x \in Range(e)
             g == CHOOSE k \in Heights : d[k] = x
  <1>1. x \in Hashes
    BY ChainHash
  <1>2. \A e \in Chains : Range(e) = {e[k] : k \in Heights}
    <2>1. \A e \in Chains : DOMAIN e = Heights
      BY ChainHash, Numbers
    <2> QED
      BY <2>1 DEF Range
  <1>3. d \in Chains /\ x \in Range(d)
    <2>1. x \in Range(c)
      BY <1>2
    <2> QED
      BY <2>1
  <1>4. g \in Heights /\ d[g] = x
    <2>1. \E k \in Heights : d[k] = x
      <3> HIDE DEF d, x
      <3> QED
        BY <1>2, <1>3
    <2> QED
      BY <2>1
  <1>5. TreeOf[x] = FlattenSeq([k \in 1..g |-> Commitments[d[k]]])
    BY <1>1 DEF TreeOf
  <1> HIDE DEF d, g
  <1>6. g = h /\ \A k \in 1..h : d[k] = c[k]
    BY <1>3, <1>4, ChainAssumption
  <1>7. [k \in 1..g |-> Commitments[d[k]]] = [k \in 1..h |-> Commitments[c[k]]]
    BY <1>6
  <1> QED
    BY <1>5, <1>7

\* The commitments of the first blocks of a chain.
LEMMA CommitmentsOfChain ==
  ASSUME NEW c \in Chains, NEW h \in 0..MaxHeight
  PROVE  /\ [k \in 1..h |-> Commitments[c[k]]] \in Seq(Seq(Leaves))
         /\ Len([k \in 1..h |-> Commitments[c[k]]]) = h
  <1>1. \A k \in 1..h : k \in Heights
    BY Numbers
  <1>2. \A k \in 1..h : Commitments[c[k]] \in Seq(Leaves)
    BY <1>1, ChainHash, WitnessServerAssumption
  <1>3. h \in Nat
    BY Numbers
  <1> QED
    BY <1>2, <1>3

\* A block adds its commitments to the leaves.
LEMMA LeavesGrow ==
  ASSUME NEW c \in Chains, NEW h \in Heights
  PROVE  /\ LeavesAt(c, h - 1) \in Seq(Leaves) /\ LeavesAt(c, h) \in Seq(Leaves)
         /\ Commitments[c[h]] \in Seq(Leaves)
         /\ LeavesAt(c, h) = LeavesAt(c, h - 1) \o Commitments[c[h]]
  <1> DEFINE s == [k \in 1..(h - 1) |-> Commitments[c[k]]]
             w == [k \in 1..h |-> Commitments[c[k]]]
  <1>1. h \in Nat /\ h >= 1 /\ h - 1 \in 0..MaxHeight /\ h \in 0..MaxHeight /\ (h - 1) + 1 = h
    BY Numbers
  <1>2. s \in Seq(Seq(Leaves)) /\ Len(s) = h - 1 /\ w \in Seq(Seq(Leaves)) /\ Len(w) = h
    BY <1>1, CommitmentsOfChain
  <1>3. (\A i \in 1..(h - 1) : s[i] = w[i]) /\ w[h] = Commitments[c[h]]
    BY <1>1
  <1> HIDE DEF s, w
  <1>4. FlattenSeq(s) \in Seq(Leaves) /\ FlattenSeq(w) = FlattenSeq(s) \o w[h]
    <2>1. h - 1 \in Nat /\ Len(w) = (h - 1) + 1
      BY <1>1, <1>2
    <2>2. FlattenSeq(s) \in Seq(Leaves) /\ FlattenSeq(w) = FlattenSeq(s) \o w[(h - 1) + 1]
      BY <1>2, <1>3, <2>1, FlattenOneMore
    <2> QED
      BY <1>1, <2>2
  <1>5. LeavesAt(c, h - 1) = FlattenSeq(s)
    <2>1. CASE h = 1
      <3>1. s = <<>>
        BY <1>2, <2>1
      <3> QED
        BY <2>1, <3>1 DEF LeavesAt, FlattenSeq
    <2>2. CASE h # 1
      <3>1. h - 1 \in Heights /\ h - 1 # 0
        BY <1>1, <2>2, Numbers
      <3> QED
        BY <3>1, TreeOfBlock DEF LeavesAt, s
    <2> QED
      BY <2>1, <2>2
  <1>6. LeavesAt(c, h) = FlattenSeq(w)
    BY <1>1, TreeOfBlock DEF LeavesAt, w
  <1>7. Commitments[c[h]] \in Seq(Leaves)
    BY ChainHash, WitnessServerAssumption
  <1>8. FlattenSeq(s) \o Commitments[c[h]] \in Seq(Leaves)
    BY <1>4, <1>7
  <1> QED
    BY <1>3, <1>4, <1>5, <1>6, <1>7, <1>8

\* The leaves after any block, and their number.
LEMMA LeavesTyped ==
  ASSUME NEW c \in Chains, NEW h \in 0..MaxHeight
  PROVE  LeavesAt(c, h) \in Seq(Leaves) /\ SizeAt(c, h) \in Nat
  <1>1. LeavesAt(c, h) \in Seq(Leaves)
    <2>1. CASE h = 0
      BY <2>1 DEF LeavesAt
    <2>2. CASE h # 0
      <3>1. h \in Heights
        BY <2>2, Numbers
      <3> QED
        BY <3>1, LeavesGrow
    <2> QED
      BY <2>1, <2>2
  <1> QED
    BY <1>1 DEF SizeAt

\* The sizes that the server computes for a block.
LEMMA SizeSteps ==
  ASSUME NEW c \in Chains, NEW h \in Heights
  PROVE  /\ h \in Nat /\ h - 1 \in 0..MaxHeight
         /\ SizeAt(c, h - 1) \in Nat /\ SizeAt(c, h) \in Nat /\ Len(Commitments[c[h]]) \in Nat
         /\ SizeAt(c, h) = SizeAt(c, h - 1) + Len(Commitments[c[h]])
         /\ SizeAfter(c[h]) = SizeAt(c, h) /\ PriorSize(c[h]) = SizeAt(c, h - 1)
         /\ \A p \in 1..SizeAt(c, h - 1) : LeavesAt(c, h)[p] = LeavesAt(c, h - 1)[p]
         /\ \A p \in 1..Len(Commitments[c[h]]) :
              Commitments[c[h]][p] = LeavesAt(c, h)[SizeAt(c, h - 1) + p]
  <1> DEFINE a == LeavesAt(c, h - 1)
             b == Commitments[c[h]]
  <1>1. a \in Seq(Leaves) /\ b \in Seq(Leaves) /\ LeavesAt(c, h) = a \o b
    BY LeavesGrow
  <1>2. h \in Nat /\ h # 0 /\ h - 1 \in 0..MaxHeight
    BY Numbers
  <1>3. SizeAfter(c[h]) = SizeAt(c, h)
    BY <1>2 DEF SizeAfter, SizeAt, LeavesAt
  <1> HIDE DEF a, b
  <1>4. /\ Len(a \o b) = Len(a) + Len(b) /\ Len(a) \in Nat /\ Len(b) \in Nat
        /\ \A p \in 1..Len(a) : (a \o b)[p] = a[p]
        /\ \A p \in 1..Len(b) : (a \o b)[Len(a) + p] = b[p]
    BY <1>1
  <1>5. PriorSize(c[h]) = SizeAt(c, h - 1)
    BY <1>1, <1>3, <1>4 DEF PriorSize, SizeAt, a, b
  <1>6. Len(LeavesAt(c, h)) = Len(a) + Len(b)
    BY <1>1, <1>4
  <1>7. \A p \in 1..Len(a) : LeavesAt(c, h)[p] = a[p]
    BY <1>1, <1>4
  <1>8. \A p \in 1..Len(b) : LeavesAt(c, h)[Len(a) + p] = b[p]
    BY <1>1, <1>4
  <1>9. SizeAt(c, h - 1) = Len(a) /\ SizeAt(c, h) = Len(LeavesAt(c, h))
    BY DEF SizeAt, a
  <1>10. /\ SizeAt(c, h - 1) \in Nat /\ SizeAt(c, h) \in Nat /\ Len(b) \in Nat
         /\ SizeAt(c, h) = SizeAt(c, h - 1) + Len(b)
    <2>1. Len(a) \in Nat /\ Len(b) \in Nat
      BY <1>4
    <2> QED
      BY <1>6, <1>9, <2>1
  <1>11. \A p \in 1..SizeAt(c, h - 1) : LeavesAt(c, h)[p] = LeavesAt(c, h - 1)[p]
    BY <1>7, <1>9 DEF a
  <1>12. \A p \in 1..Len(b) : b[p] = LeavesAt(c, h)[SizeAt(c, h - 1) + p]
    BY <1>8, <1>9
  <1> QED
    BY <1>2, <1>3, <1>5, <1>10, <1>11, <1>12 DEF b

\* The leaves of a block stay where they are as the chain grows.
LEMMA LeavesStay ==
  ASSUME NEW c \in Chains, NEW h \in 0..MaxHeight, NEW g \in 0..h
  PROVE  /\ SizeAt(c, g) <= SizeAt(c, h)
         /\ \A p \in 1..SizeAt(c, g) : LeavesAt(c, h)[p] = LeavesAt(c, g)[p]
  <1> DEFINE Stays(k) == /\ SizeAt(c, g) <= SizeAt(c, g + k)
                         /\ \A p \in 1..SizeAt(c, g) : LeavesAt(c, g + k)[p] = LeavesAt(c, g)[p]
             T == {k \in 0..(h - g) : Stays(k)}
  <1>1. g \in Nat /\ h \in Nat /\ h <= MaxHeight /\ MaxHeight \in Nat /\ h - g \in Nat
    BY Numbers
  <1>2. 0 \in T
    <2>1. g + 0 = g /\ 0 \in 0..(h - g) /\ g \in 0..MaxHeight
      BY <1>1
    <2>2. SizeAt(c, g) \in Nat
      BY <2>1, LeavesTyped
    <2> QED
      BY <2>1, <2>2
  <1>3. ASSUME NEW k \in 0..(h - g - 1), k \in T PROVE k + 1 \in T
    <2> DEFINE m == g + k + 1
    <2>1. m \in Heights /\ m - 1 = g + k /\ g + (k + 1) = m /\ k + 1 \in 0..(h - g)
          /\ g \in 0..MaxHeight
      BY <1>1, Numbers
    <2>2. Stays(k)
      BY <1>3
    <2> HIDE DEF m
    <2>3. /\ SizeAt(c, m - 1) \in Nat /\ SizeAt(c, m) \in Nat /\ Len(Commitments[c[m]]) \in Nat
          /\ SizeAt(c, m) = SizeAt(c, m - 1) + Len(Commitments[c[m]])
          /\ \A p \in 1..SizeAt(c, m - 1) : LeavesAt(c, m)[p] = LeavesAt(c, m - 1)[p]
      BY <2>1, SizeSteps
    <2>4. SizeAt(c, g) \in Nat
      BY <2>1, LeavesTyped
    <2>5. SizeAt(c, g) <= SizeAt(c, m - 1)
          /\ \A p \in 1..SizeAt(c, g) : LeavesAt(c, m - 1)[p] = LeavesAt(c, g)[p]
      BY <2>1, <2>2
    <2>6. SizeAt(c, g) <= SizeAt(c, m)
      BY <2>3, <2>4, <2>5
    <2>7. \A p \in 1..SizeAt(c, g) : p \in 1..SizeAt(c, m - 1)
      BY <2>3, <2>4, <2>5
    <2>8. \A p \in 1..SizeAt(c, g) : LeavesAt(c, m)[p] = LeavesAt(c, g)[p]
      BY <2>3, <2>5, <2>7
    <2>9. Stays(k + 1)
      BY <2>1, <2>6, <2>8
    <2> QED
      BY <2>1, <2>9
  <1>4. \A k \in 0..(h - g) : k \in T
    <2> HIDE DEF T
    <2> QED
      BY <1>1, <1>2, <1>3, UpTo
  <1>5. h - g \in 0..(h - g) /\ g + (h - g) = h
    BY <1>1
  <1>6. Stays(h - g)
    BY <1>4, <1>5
  <1> QED
    BY <1>5, <1>6

\* Before the activation height a chain has no leaves.
LEMMA NoLeavesYet ==
  ASSUME NEW c \in Chains, NEW h \in 0..MaxHeight, h < Activation
  PROVE  SizeAt(c, h) = 0
  <1> DEFINE T == {k \in 0..h : SizeAt(c, k) = 0}
  <1>1. h \in Nat /\ h <= MaxHeight /\ Activation \in Nat
    BY Numbers
  <1>2. 0 \in T
    BY <1>1 DEF SizeAt, LeavesAt
  <1>3. ASSUME NEW k \in 0..(h - 1), k \in T PROVE k + 1 \in T
    <2>1. k + 1 \in Heights /\ (k + 1) - 1 = k /\ k + 1 < Activation /\ k + 1 \in 0..h
      BY <1>1, Numbers
    <2>2. Commitments[c[k + 1]] = <<>>
      BY <2>1, WitnessServerAssumption
    <2>3. SizeAt(c, k + 1) = SizeAt(c, (k + 1) - 1) + Len(Commitments[c[k + 1]])
      BY <2>1, SizeSteps
    <2>4. SizeAt(c, k) = 0 /\ Len(<<>>) = 0
      BY <1>3
    <2> QED
      BY <2>1, <2>2, <2>3, <2>4
  <1>4. \A k \in 0..h : k \in T
    <2> HIDE DEF T
    <2> QED
      BY <1>1, <1>2, <1>3, UpTo
  <1> QED
    BY <1>1, <1>4

\* The leaves depend on the block.
LEMMA SameLeaves ==
  ASSUME NEW c, NEW d, NEW h, h # 0 => c[h] = d[h]
  PROVE  LeavesAt(c, h) = LeavesAt(d, h) /\ SizeAt(c, h) = SizeAt(d, h)
  BY DEF LeavesAt, SizeAt

-----------------------------------------------------------------------------
(* The roots of completed shards *)

\* A shard is complete when its leaves are there.
LEMMA ShardsIn ==
  ASSUME NEW n \in Nat, NEW size \in Nat
  PROVE  /\ n * ShardLeaves \in Nat /\ size \div ShardLeaves \in Nat
         /\ n <= size \div ShardLeaves <=> n * ShardLeaves <= size
  <1> DEFINE q == size \div ShardLeaves
  <1>1. ShardLeaves \in Nat \ {0}
    BY Numbers
  <1>2. q \in Nat /\ q * ShardLeaves <= size /\ size < q * ShardLeaves + ShardLeaves
    BY <1>1, Quotient
  <1>3. n * ShardLeaves \in Nat /\ q * ShardLeaves \in Nat
    BY <1>1, <1>2
  <1> HIDE DEF q
  <1>4. CASE n < q
    <2>1. n * ShardLeaves + ShardLeaves <= q * ShardLeaves
      BY <1>1, <1>2, <1>4, RowsApart
    <2> DEFINE x == n * ShardLeaves
               y == q * ShardLeaves
    <2> HIDE DEF x, y
    <2>2. x <= size
      BY <1>1, <1>2, <1>3, <2>1 DEF x, y
    <2> QED
      BY <1>2, <1>3, <1>4, <2>2 DEF x, q
  <1>5. CASE n = q
    BY <1>2, <1>3, <1>5 DEF q
  <1>6. CASE q < n
    <2>1. q * ShardLeaves + ShardLeaves <= n * ShardLeaves
      BY <1>1, <1>2, <1>6, RowsApart
    <2> DEFINE x == n * ShardLeaves
               y == q * ShardLeaves
    <2> HIDE DEF x, y
    <2>2. ~ (x <= size)
      BY <1>1, <1>2, <1>3, <2>1 DEF x, y
    <2> QED
      BY <1>2, <1>3, <1>6, <2>2 DEF x, q
  <1> QED
    BY <1>2, <1>4, <1>5, <1>6

\* The root of a shard.
ShardRoot(leaves, i) ==
  Root(1, [k \in 1..SubshardsPerShard |-> Root(0, Row(leaves, (i - 1) * SubshardsPerShard + k - 1))])

\* A shard's root depends on its leaves.
LEMMA ShardRootAgrees ==
  ASSUME NEW s \in Seq(Leaves), NEW w \in Seq(Leaves), Len(s) <= Len(w),
         \A p \in 1..Len(s) : s[p] = w[p],
         NEW i \in Nat, i >= 1, i * ShardLeaves <= Len(s)
  PROVE  ShardRoot(s, i) = ShardRoot(w, i)
  <1> DEFINE S == SubshardsPerShard
             D == SubshardLeaves
             before == (i - 1) * S
  <1>1. S \in Nat \ {0} /\ D \in Nat \ {0} /\ before \in Nat
    BY Geometry
  <1>2. before + S = i * S
    BY <1>1
  <1>3. i * ShardLeaves = (i * S) * D
    BY <1>1 DEF ShardLeaves
  <1>4. ASSUME NEW k \in 1..S PROVE Row(s, before + k - 1) = Row(w, before + k - 1)
    <2> DEFINE r == before + k - 1
               base == r * D
    <2>1. r \in Nat /\ r < i * S /\ i * S \in Nat
      <3> HIDE DEF before
      <3> DEFINE x == i * S
      <3>1. x = before + S
        BY <1>2
      <3> HIDE DEF x, S
      <3>2. r \in Nat /\ r < x /\ x \in Nat
        BY <1>1, <3>1
      <3> QED
        BY <3>2 DEF x
    <2> HIDE DEF r
    <2>2. base + D <= (i * S) * D /\ base \in Nat /\ (i * S) * D \in Nat
      BY <1>1, <2>1, RowsApart
    <2>3. (i * S) * D <= Len(s) /\ Len(s) \in Nat /\ Len(w) \in Nat
      BY <1>3
    <2> DEFINE y == (i * S) * D
    <2> HIDE DEF base, y
    <2>4. base + D <= y /\ y \in Nat /\ y <= Len(s) /\ base \in Nat
      BY <2>2, <2>3 DEF y
    <2>5. base + D <= Len(s)
      BY <1>1, <2>3, <2>4
    <2>6. \A p \in (base + 1)..(base + D) : p \in 1..Len(s) /\ p <= Len(s) /\ p <= Len(w)
      BY <1>1, <2>3, <2>4, <2>5
    <2>7. \A p \in (base + 1)..(base + D) : p <= Len(s) /\ p <= Len(w) /\ s[p] = w[p]
      BY <2>6
    <2>8. Row(s, r) = Row(w, r)
      BY <2>1, <2>7, RowAgrees DEF base
    <2> QED
      BY <2>8 DEF r
  <1> QED
    BY <1>4 DEF ShardRoot

\* The roots of the shards that are complete in two trees of one chain.
LEMMA RootsAgree ==
  ASSUME NEW s \in Seq(Leaves), NEW w \in Seq(Leaves), Len(s) <= Len(w),
         \A p \in 1..Len(s) : s[p] = w[p],
         NEW n \in Nat, n * ShardLeaves <= Len(s)
  PROVE  /\ SubSeq(ShardRoots(s), 1, n) = SubSeq(ShardRoots(w), 1, n)
         /\ Len(SubSeq(ShardRoots(s), 1, n)) = n
  <1>1. /\ Len(s) \div ShardLeaves \in Nat /\ n <= Len(s) \div ShardLeaves
        /\ Len(w) \div ShardLeaves \in Nat /\ n <= Len(w) \div ShardLeaves
    <2>1. Len(s) \in Nat /\ Len(w) \in Nat /\ n * ShardLeaves \in Nat /\ n * ShardLeaves <= Len(w)
      <3>1. Len(s) \in Nat /\ Len(w) \in Nat
        OBVIOUS
      <3>2. n * ShardLeaves \in Nat
        BY Numbers
      <3> DEFINE x == n * ShardLeaves
      <3> HIDE DEF x
      <3>3. x <= Len(w)
        BY <3>1, <3>2 DEF x
      <3> QED
        BY <3>1, <3>2, <3>3 DEF x
    <2> QED
      BY <2>1, ShardsIn
  <1>2. /\ ShardRoots(s) = [i \in 1..(Len(s) \div ShardLeaves) |-> ShardRoot(s, i)]
        /\ ShardRoots(w) = [i \in 1..(Len(w) \div ShardLeaves) |-> ShardRoot(w, i)]
    BY DEF ShardRoots, ShardRoot
  <1>3. ASSUME NEW i \in 1..n PROVE ShardRoot(s, i) = ShardRoot(w, i)
    <2>1. i \in Nat /\ i >= 1 /\ n * ShardLeaves \in Nat /\ i * ShardLeaves \in Nat
      BY Numbers
    <2>2. i * ShardLeaves <= Len(s)
      <3>1. Len(s) \in Nat /\ i <= Len(s) \div ShardLeaves
        BY <1>1, <2>1
      <3> QED
        BY <2>1, <3>1, ShardsIn
    <2> QED
      BY <2>1, <2>2, ShardRootAgrees
  <1> DEFINE a == Len(s) \div ShardLeaves
             b == Len(w) \div ShardLeaves
             f == [i \in 1..a |-> ShardRoot(s, i)]
             g == [i \in 1..b |-> ShardRoot(w, i)]
  <1>4. /\ \A i \in 1..n : f[i] = ShardRoot(s, i) /\ g[i] = ShardRoot(w, i)
        /\ a \in Nat /\ b \in Nat /\ Len(f) = a /\ Len(g) = b /\ n <= a /\ n <= b
    <2>1. a \in Nat /\ b \in Nat /\ n <= a /\ n <= b
      BY <1>1
    <2> HIDE DEF a, b
    <2> QED
      BY <2>1
  <1>5. SubSeq(f, 1, n) = [i \in 1..n |-> f[i]] /\ SubSeq(g, 1, n) = [i \in 1..n |-> g[i]]
    <2> HIDE DEF f, g, a, b
    <2> QED
      BY <1>4
  <1> HIDE DEF f, g
  <1>6. SubSeq(f, 1, n) = SubSeq(g, 1, n) /\ Len(SubSeq(f, 1, n)) = n
    BY <1>3, <1>4, <1>5
  <1> QED
    BY <1>2, <1>6 DEF f, g

-----------------------------------------------------------------------------
(* Trees of a chain *)

\* leaf_offset
FirstLeaf(t) == WindowStart(t) * ShardLeaves

\* A tree whose window starts with a leaf of block base + 1 of the chain c, or a full
\* tree that starts with that block, below which the chain has no leaves.
Started(t, c, base) ==
  /\ base \in 0..MaxHeight /\ WindowStart(t) \in Nat
  /\ WindowStart(t) = 0 => t.prefetched = <<>> /\ SizeAt(c, base) = 0
  /\ WindowStart(t) # 0 =>
       /\ base < MaxHeight
       /\ SizeAt(c, base) < FirstLeaf(t) /\ FirstLeaf(t) <= SizeAt(c, base + 1)
       /\ t.prefetched = SubSeq(ShardRoots(LeavesAt(c, base + 1)), 1, WindowStart(t))

\* Its blocks are the next ones of the chain c, and its leaves are theirs.
Ingested == [height : Heights, hash : Hashes, num : Nat]
Grown(t, c, base) ==
  /\ t.blocks \in Seq(Ingested) /\ base + Len(t.blocks) <= MaxHeight
  /\ \A i \in 1..Len(t.blocks) :
       /\ t.blocks[i].height = base + i /\ t.blocks[i].hash = c[base + i]
       /\ FirstLeaf(t) + LeavesUpTo(t.blocks)[i] = SizeAt(c, base + i)
  /\ t.leaves \in Seq(Leaves) /\ Len(t.leaves) = LeavesUpTo(t.blocks)[Len(t.blocks)]
  /\ \A p \in 1..Len(t.leaves) :
       t.leaves[p] = LeavesAt(c, base + Len(t.blocks))[FirstLeaf(t) + p]

\* A tree of the chain c; without blocks it has nothing cached.
Of(t, c, base) ==
  /\ t = [prefetched |-> t.prefetched, leaves |-> t.leaves, blocks |-> t.blocks, cache |-> t.cache]
  /\ Started(t, c, base) /\ Grown(t, c, base)
  /\ t.blocks = <<>> => t.cache = [r \in Rows |-> None]

\* The parts of such a tree.
LEMMA OfParts ==
  ASSUME NEW c \in Chains, NEW base, NEW t, Of(t, c, base)
  PROVE  /\ base \in Nat /\ base <= MaxHeight /\ WindowStart(t) \in Nat /\ FirstLeaf(t) \in Nat
         /\ t.blocks \in Seq(Ingested) /\ Len(t.blocks) \in Nat /\ Counted(t.blocks)
         /\ base + Len(t.blocks) \in 0..MaxHeight
         /\ t.leaves \in Seq(Leaves) /\ Len(t.leaves) \in Nat
         /\ LeavesUpTo(t.blocks) \in [0..Len(t.blocks) -> Nat]
         /\ LeavesUpTo(t.blocks)[0] = 0 /\ Len(t.leaves) = LeavesUpTo(t.blocks)[Len(t.blocks)]
         /\ t.blocks = <<>> => Len(t.blocks) = 0 /\ t.leaves = <<>>
         /\ t.blocks # <<>> => Len(t.blocks) >= 1 /\ base + Len(t.blocks) \in Heights
  <1>1. base \in Nat /\ base <= MaxHeight /\ WindowStart(t) \in Nat /\ MaxHeight \in Nat
        /\ FirstLeaf(t) \in Nat
    BY Numbers DEF Of, Started, FirstLeaf
  <1>2. t.blocks \in Seq(Ingested) /\ Len(t.blocks) \in Nat /\ base + Len(t.blocks) <= MaxHeight
        /\ t.leaves \in Seq(Leaves) /\ Len(t.leaves) \in Nat
        /\ Len(t.leaves) = LeavesUpTo(t.blocks)[Len(t.blocks)]
    BY DEF Of, Grown
  <1>3. Counted(t.blocks)
    <2>1. \A i \in 1..Len(t.blocks) : t.blocks[i] \in Ingested
      BY <1>2
    <2> QED
      BY <1>2, <2>1 DEF Counted, Ingested
  <1>4. LeavesUpTo(t.blocks) \in [0..Len(t.blocks) -> Nat] /\ LeavesUpTo(t.blocks)[0] = 0
    BY <1>3, LeavesUpToSums DEF Sums
  <1>5. t.blocks = <<>> => Len(t.blocks) = 0 /\ t.leaves = <<>>
    BY <1>2, <1>4
  <1>6. t.blocks # <<>> => Len(t.blocks) >= 1 /\ base + Len(t.blocks) \in Heights
    <2>1. t.blocks # <<>> => Len(t.blocks) >= 1
      BY <1>2
    <2> QED
      BY <1>1, <1>2, <2>1, Numbers
  <1> QED
    BY <1>1, <1>2, <1>3, <1>4, <1>5, <1>6

\* How many leaves it has.
LEMMA OfSize ==
  ASSUME NEW c \in Chains, NEW base, NEW t, Of(t, c, base), WindowStart(t) # 0 => t.blocks # <<>>
  PROVE  /\ TreeSize(t) = SizeAt(c, base + Len(t.blocks))
         /\ FirstLeaf(t) + Len(t.leaves) = SizeAt(c, base + Len(t.blocks))
  <1>1. /\ base \in Nat /\ Len(t.blocks) \in Nat
        /\ t.blocks = <<>> => Len(t.blocks) = 0 /\ t.leaves = <<>>
        /\ t.blocks # <<>> => Len(t.blocks) >= 1
        /\ Len(t.leaves) = LeavesUpTo(t.blocks)[Len(t.blocks)]
    BY OfParts
  <1>2. TreeSize(t) = FirstLeaf(t) + Len(t.leaves)
    BY DEF TreeSize, FirstLeaf
  <1>3. CASE t.blocks = <<>>
    <2>1. WindowStart(t) = 0 /\ SizeAt(c, base) = 0
      BY <1>3 DEF Of, Started
    <2>2. FirstLeaf(t) = 0 /\ Len(t.leaves) = 0 /\ base + Len(t.blocks) = base
      BY <1>1, <1>3, <2>1, Numbers DEF FirstLeaf
    <2> QED
      BY <1>2, <2>1, <2>2
  <1>4. CASE t.blocks # <<>>
    <2>1. Len(t.blocks) \in 1..Len(t.blocks)
      BY <1>1, <1>4
    <2>2. FirstLeaf(t) + LeavesUpTo(t.blocks)[Len(t.blocks)] = SizeAt(c, base + Len(t.blocks))
      BY <2>1 DEF Of, Grown
    <2> QED
      BY <1>1, <1>2, <2>2
  <1> QED
    BY <1>3, <1>4

\* An empty tree is well formed.
LEMMA EmptyGrown ==
  ASSUME NEW c \in Chains, NEW base \in 0..MaxHeight, NEW roots
  PROVE  LET t == EmptyTree(roots)
         IN  /\ t.prefetched = roots /\ t.blocks = <<>> /\ t.leaves = <<>>
             /\ t.cache = [r \in Rows |-> None]
             /\ t = [prefetched |-> t.prefetched, leaves |-> t.leaves, blocks |-> t.blocks,
                     cache |-> t.cache]
             /\ Grown(t, c, base)
  <1> DEFINE t == EmptyTree(roots)
  <1>1. t = [prefetched |-> roots, leaves |-> <<>>, blocks |-> <<>>, cache |-> [r \in Rows |-> None]]
    BY DEF EmptyTree
  <1>2. t.prefetched = roots /\ t.blocks = <<>> /\ t.leaves = <<>> /\ t.cache = [r \in Rows |-> None]
    BY <1>1
  <1>3. Counted(<<>>) /\ Len(<<>>) = 0
    BY DEF Counted
  <1>4. LeavesUpTo(<<>>)[0] = 0
    BY <1>3, LeavesUpToSums DEF Sums
  <1>5. base + 0 <= MaxHeight /\ base + 0 = base
    BY Numbers
  <1>6. Grown(t, c, base)
    BY <1>2, <1>3, <1>4, <1>5 DEF Grown
  <1> HIDE DEF t
  <1>7. t = [prefetched |-> t.prefetched, leaves |-> t.leaves, blocks |-> t.blocks, cache |-> t.cache]
    BY <1>1, <1>2
  <1> QED
    BY <1>2, <1>6, <1>7 DEF t

\* new: a full tree, begun below the first leaf.
LEMMA EmptyFull ==
  ASSUME NEW c \in Chains, NEW base \in 0..MaxHeight, SizeAt(c, base) = 0
  PROVE  Of(EmptyTree(<<>>), c, base) /\ WindowStart(EmptyTree(<<>>)) = 0
  <1> DEFINE t == EmptyTree(<<>>)
  <1>1. /\ t.prefetched = <<>> /\ t.cache = [r \in Rows |-> None]
        /\ t = [prefetched |-> t.prefetched, leaves |-> t.leaves, blocks |-> t.blocks, cache |-> t.cache]
        /\ Grown(t, c, base)
    BY EmptyGrown
  <1> HIDE DEF t
  <1>2. WindowStart(t) = 0
    BY <1>1 DEF WindowStart
  <1>3. Started(t, c, base)
    BY <1>1, <1>2 DEF Started
  <1> QED
    BY <1>1, <1>2, <1>3 DEF Of, t

\* with_offset: a window that starts with a leaf of the next block.
LEMMA EmptyWindow ==
  ASSUME NEW c \in Chains, NEW base, NEW roots, Started(EmptyTree(roots), c, base)
  PROVE  Of(EmptyTree(roots), c, base)
  <1>1. base \in 0..MaxHeight
    BY DEF Started
  <1> QED
    BY <1>1, EmptyGrown DEF Of

\* An empty full tree may start anywhere below the first leaf.
LEMMA FullIsEmpty ==
  ASSUME NEW c \in Chains, NEW base, NEW t, Of(t, c, base), t.blocks = <<>>, WindowStart(t) = 0
  PROVE  t = EmptyTree(<<>>)
  <1>1. t.leaves = <<>>
    BY OfParts
  <1>2. t = [prefetched |-> t.prefetched, leaves |-> t.leaves, blocks |-> t.blocks, cache |-> t.cache]
        /\ t.prefetched = <<>> /\ t.cache = [r \in Rows |-> None]
    BY DEF Of, Started
  <1> QED
    BY <1>1, <1>2 DEF EmptyTree

\* build_pir_db_and_broadcast changes nothing but the cache, which an empty tree leaves empty.
LEMMA FillOf ==
  ASSUME NEW c \in Chains, NEW base, NEW t, Of(t, c, base)
  PROVE  /\ Of(FillCache(t), c, base) /\ FillCache(t).blocks = t.blocks
         /\ WindowStart(FillCache(t)) = WindowStart(t)
  <1> DEFINE cache == [r \in Rows |-> IF r \in LiveRows(t) THEN SubshardRoot(t, r) ELSE t.cache[r]]
             w == FillCache(t)
  <1>1. w = [t EXCEPT !.cache = cache]
    BY DEF FillCache
  <1>2. t = [prefetched |-> t.prefetched, leaves |-> t.leaves, blocks |-> t.blocks, cache |-> t.cache]
    BY DEF Of
  <1>3. t.blocks = <<>> => cache = [r \in Rows |-> None]
    <2>1. SUFFICES ASSUME t.blocks = <<>> PROVE cache = [r \in Rows |-> None]
      OBVIOUS
    <2>2. t.leaves = <<>> /\ t.cache = [r \in Rows |-> None]
      BY <2>1, OfParts DEF Of
    <2>3. ASSUME NEW r \in Rows PROVE r \notin LiveRows(t)
      <3>1. Len(t.leaves) = 0
        BY <2>2
      <3>2. r * SubshardLeaves \in Nat
        BY Geometry
      <3> QED
        BY <3>1, <3>2 DEF LiveRows
    <2> QED
      BY <2>2, <2>3
  <1> HIDE DEF cache, w
  <1>4. /\ w.prefetched = t.prefetched /\ w.leaves = t.leaves /\ w.blocks = t.blocks /\ w.cache = cache
        /\ w = [prefetched |-> w.prefetched, leaves |-> w.leaves, blocks |-> w.blocks, cache |-> w.cache]
    BY <1>1, <1>2
  <1>5. WindowStart(w) = WindowStart(t) /\ FirstLeaf(w) = FirstLeaf(t)
    BY <1>4 DEF WindowStart, FirstLeaf
  <1>6. Started(w, c, base)
    BY <1>4, <1>5 DEF Of, Started
  <1>7. Grown(w, c, base)
    BY <1>4, <1>5 DEF Of, Grown
  <1> QED
    BY <1>3, <1>4, <1>5, <1>6, <1>7 DEF Of, w

\* One sequence after another.
LEMMA TwoSequences ==
  ASSUME NEW S, NEW a \in Seq(S), NEW b \in Seq(S)
  PROVE  /\ a \o b \in Seq(S) /\ Len(a \o b) = Len(a) + Len(b)
         /\ \A p \in 1..Len(a) : (a \o b)[p] = a[p]
         /\ \A p \in 1..Len(b) : (a \o b)[Len(a) + p] = b[p]
  <1>1. Len(a) \in Nat /\ Len(b) \in Nat
    OBVIOUS
  <1> QED
    BY <1>1, ConcatProperties

\* The leaves of block h that follow those of the tree t.
NextLeaves(cms, t, c, h) ==
  /\ cms \in Seq(Leaves) /\ FirstLeaf(t) + Len(t.leaves) + Len(cms) = SizeAt(c, h)
  /\ \A p \in 1..Len(cms) : cms[p] = LeavesAt(c, h)[FirstLeaf(t) + Len(t.leaves) + p]

\* A tree of the same window with n more blocks.
Longer(w, t, c, base, n) ==
  Of(w, c, base) /\ Len(w.blocks) = Len(t.blocks) + n /\ WindowStart(w) = WindowStart(t)

\* append_commitments: the part of the next block's commitments that the window holds.
LEMMA AppendOf ==
  ASSUME NEW c \in Chains, NEW base, NEW t, Of(t, c, base),
         NEW h, h = base + Len(t.blocks) + 1, h <= MaxHeight, NEW cms, NextLeaves(cms, t, c, h)
  PROVE  Longer(AppendCommitments(t, h, c[h], cms), t, c, base, 1)
  <1> DEFINE w == AppendCommitments(t, h, c[h], cms)
             record == [height |-> h, hash |-> c[h], num |-> Len(cms)]
             m == Len(t.blocks)
             old == Len(t.leaves)
             first == FirstLeaf(t)
  <1>0. /\ cms \in Seq(Leaves) /\ FirstLeaf(t) + Len(t.leaves) + Len(cms) = SizeAt(c, h)
        /\ \A p \in 1..Len(cms) : cms[p] = LeavesAt(c, h)[FirstLeaf(t) + Len(t.leaves) + p]
    BY DEF NextLeaves
  <1>1. /\ base \in Nat /\ base <= MaxHeight /\ first \in Nat /\ t.blocks \in Seq(Ingested)
        /\ m \in Nat /\ Counted(t.blocks) /\ t.leaves \in Seq(Leaves) /\ old \in Nat
        /\ old = LeavesUpTo(t.blocks)[m] /\ MaxHeight \in Nat /\ base + m \in 0..MaxHeight
    BY OfParts, Numbers
  <1>2. h \in Heights /\ h - 1 = base + m /\ c[h] \in Hashes /\ Len(cms) \in Nat
    <2>1. h \in Heights /\ h - 1 = base + m
      BY <1>1, Numbers
    <2> QED
      BY <1>0, <2>1, ChainHash
  <1>3. record \in Ingested
    BY <1>2 DEF Ingested
  <1>4. /\ t = [prefetched |-> t.prefetched, leaves |-> t.leaves, blocks |-> t.blocks, cache |-> t.cache]
        /\ Started(t, c, base) /\ Grown(t, c, base)
    BY DEF Of
  <1>5. /\ w.prefetched = t.prefetched /\ w.leaves = t.leaves \o cms
        /\ w.blocks = Append(t.blocks, record)
        /\ w = [prefetched |-> w.prefetched, leaves |-> w.leaves, blocks |-> w.blocks, cache |-> w.cache]
    <2> DEFINE cache == Forget(t.cache, IF cms = <<>> THEN {}
                                        ELSE old \div SubshardLeaves
                                               ..(old + Len(cms) - 1) \div SubshardLeaves)
    <2>1. w = [t EXCEPT !.leaves = t.leaves \o cms, !.blocks = Append(t.blocks, record),
                        !.cache = cache]
      BY DEF AppendCommitments
    <2> HIDE DEF w, record, cache
    <2>2. w = [prefetched |-> t.prefetched, leaves |-> t.leaves \o cms,
               blocks |-> Append(t.blocks, record), cache |-> cache]
      BY <1>4, <2>1
    <2> QED
      BY <2>2
  <1> HIDE DEF w, record
  <1>6. /\ Append(t.blocks, record) \in Seq(Ingested) /\ Len(Append(t.blocks, record)) = m + 1
        /\ \A i \in 1..m : Append(t.blocks, record)[i] = t.blocks[i]
        /\ Append(t.blocks, record)[m + 1] = record
    BY <1>1, <1>3
  <1>7. /\ t.leaves \o cms \in Seq(Leaves) /\ Len(t.leaves \o cms) = old + Len(cms)
        /\ \A p \in 1..old : (t.leaves \o cms)[p] = t.leaves[p]
        /\ \A p \in 1..Len(cms) : (t.leaves \o cms)[old + p] = cms[p]
    <2>1. cms \in Seq(Leaves) /\ t.leaves \in Seq(Leaves)
      BY <1>0, <1>1
    <2> QED
      BY <2>1, TwoSequences
  <1>8. WindowStart(w) = WindowStart(t) /\ FirstLeaf(w) = first
    BY <1>5 DEF WindowStart, FirstLeaf
  <1>9. Started(w, c, base)
    BY <1>4, <1>5, <1>8 DEF Started
  <1>10. Counted(w.blocks) /\ w.blocks \in Seq(Ingested) /\ Len(w.blocks) = m + 1
    <2>1. w.blocks \in Seq(Ingested) /\ Len(w.blocks) = m + 1
      BY <1>5, <1>6
    <2>2. \A i \in 1..Len(w.blocks) : w.blocks[i] \in Ingested
      BY <2>1
    <2>3. \A i \in 1..Len(w.blocks) : w.blocks[i].num \in Nat
      BY <2>2 DEF Ingested
    <2>4. Len(w.blocks) \in Nat
      BY <2>1
    <2> QED
      BY <2>1, <2>3, <2>4 DEF Counted
  <1>11. /\ \A i \in 0..m : LeavesUpTo(w.blocks)[i] = LeavesUpTo(t.blocks)[i]
         /\ LeavesUpTo(w.blocks)[m + 1] = old + Len(cms)
    <2>1. m <= Len(t.blocks) /\ m <= Len(w.blocks) /\ \A i \in 1..m : w.blocks[i] = t.blocks[i]
      BY <1>1, <1>5, <1>6, <1>10
    <2> DEFINE a == t.blocks
               b == w.blocks
    <2>2. \A i \in 0..m : LeavesUpTo(b)[i] = LeavesUpTo(a)[i]
      <3>1. Counted(a) /\ Counted(b) /\ m \in Nat /\ m <= Len(a) /\ m <= Len(b)
            /\ \A i \in 1..m : b[i] = a[i]
        BY <1>1, <1>10, <2>1
      <3> HIDE DEF a, b, m
      <3> QED
        BY <3>1, SumsAgree
    <2>3. Sums(LeavesUpTo(w.blocks), w.blocks, m + 1)
      BY <1>10, LeavesUpToSums
    <2>4. m + 1 \in 1..(m + 1) /\ (m + 1) - 1 = m /\ m \in 0..m
      BY <1>1
    <2>5. LeavesUpTo(w.blocks)[m + 1] = LeavesUpTo(w.blocks)[m] + w.blocks[m + 1].num
      BY <2>3, <2>4 DEF Sums
    <2>6. w.blocks[m + 1].num = Len(cms)
      BY <1>5, <1>6 DEF record
    <2> QED
      BY <1>1, <2>2, <2>4, <2>5, <2>6
  <1>12. Len(w.leaves) = old + Len(cms) /\ w.leaves \in Seq(Leaves)
    BY <1>5, <1>7
  <1>13. ASSUME NEW i \in 1..(m + 1)
         PROVE  /\ w.blocks[i].height = base + i /\ w.blocks[i].hash = c[base + i]
                /\ first + LeavesUpTo(w.blocks)[i] = SizeAt(c, base + i)
    <2>1. CASE i \in 1..m
      <3>1. w.blocks[i] = t.blocks[i] /\ i \in 0..m
        BY <1>1, <1>5, <1>6, <2>1
      <3>2. LeavesUpTo(w.blocks)[i] = LeavesUpTo(t.blocks)[i]
        BY <1>11, <3>1
      <3> QED
        BY <1>4, <2>1, <3>1, <3>2 DEF Grown
    <2>2. CASE i = m + 1
      <3>1. w.blocks[i] = record /\ base + i = h
        BY <1>1, <1>5, <1>6, <2>2
      <3>2. first + LeavesUpTo(w.blocks)[i] = first + old + Len(cms)
        BY <1>1, <1>2, <1>11, <2>2
      <3> QED
        BY <1>0, <3>1, <3>2 DEF record
    <2>3. i \in 1..m \/ i = m + 1
      <3>1. m \in Nat
        BY <1>1
      <3> HIDE DEF m
      <3> QED
        BY <3>1
    <2> QED
      BY <2>1, <2>2, <2>3
  <1>14. ASSUME NEW p \in 1..(old + Len(cms))
         PROVE  w.leaves[p] = LeavesAt(c, h)[first + p]
    <2>1. CASE p \in 1..old
      <3>1. w.leaves[p] = t.leaves[p]
        BY <1>5, <1>7, <2>1
      <3>2. t.leaves[p] = LeavesAt(c, base + m)[first + p]
        BY <1>4, <2>1 DEF Grown
      <3>3. m # 0
        <4>1. m = 0 => old = 0
          BY <1>1, LeavesUpToSums DEF Sums
        <4> QED
          BY <1>1, <2>1, <4>1
      <3>4. first + old = SizeAt(c, base + m)
        <4>1. m \in 1..m
          BY <1>1, <3>3
        <4> QED
          BY <1>1, <1>4, <4>1 DEF Grown
      <3>5. first + p \in 1..SizeAt(c, h - 1)
        <4>1. first + old = SizeAt(c, h - 1)
          BY <1>2, <3>4
        <4>2. first \in Nat /\ old \in Nat
          BY <1>1
        <4> HIDE DEF first, old
        <4> QED
          BY <2>1, <4>1, <4>2
      <3>6. LeavesAt(c, h)[first + p] = LeavesAt(c, h - 1)[first + p]
        BY <1>2, <3>5, SizeSteps
      <3> QED
        BY <1>2, <3>1, <3>2, <3>6
    <2>2. CASE p \notin 1..old
      <3> DEFINE q == p - old
      <3>1. q \in 1..Len(cms) /\ p = old + q /\ first + p = first + old + q
        <4> DEFINE k == Len(cms)
        <4>1. old \in Nat /\ k \in Nat /\ first \in Nat /\ p \in 1..(old + k) /\ p \notin 1..old
          BY <1>1, <1>2, <2>2
        <4> HIDE DEF old, k, first
        <4>2. q \in 1..k /\ p = old + q /\ first + p = first + old + q
          BY <4>1
        <4> QED
          BY <4>2 DEF k
      <3> HIDE DEF q
      <3>2. w.leaves[p] = cms[q]
        BY <1>5, <1>7, <3>1
      <3> QED
        BY <1>0, <3>1, <3>2
    <2> QED
      BY <2>1, <2>2
  <1>15. Grown(w, c, base)
    <2>1. base + Len(w.blocks) = h
      BY <1>1, <1>10
    <2> QED
      BY <1>2, <1>8, <1>10, <1>11, <1>12, <1>13, <1>14, <2>1 DEF Grown
  <1>16. w.blocks # <<>>
    BY <1>1, <1>10
  <1> QED
    BY <1>5, <1>8, <1>9, <1>10, <1>15, <1>16 DEF Of, Longer, w

\* rollback_to: the blocks up to the target height remain.
LEMMA RollbackOf ==
  ASSUME NEW c \in Chains, NEW base, NEW t, Of(t, c, base), NEW target \in Nat
  PROVE  LET w == RollbackTo(t, target)
             n == Len(w.blocks)
         IN  /\ Of(w, c, base) /\ WindowStart(w) = WindowStart(t)
             /\ n \in 0..Len(t.blocks)
             /\ n # 0 => base + n <= target
             /\ n # Len(t.blocks) => base + n + 1 > target
  <1> DEFINE w == RollbackTo(t, target)
             m == Len(t.blocks)
             n == BlocksKept(t.blocks, target)
             u == LeavesUpTo(t.blocks)
             len == u[n]
             stale == {r \in Rows : r >= (IF len = 0 THEN 0 ELSE (len - 1) \div SubshardLeaves)}
  <1>1. /\ base \in Nat /\ base <= MaxHeight /\ t.blocks \in Seq(Ingested)
        /\ m \in Nat /\ Counted(t.blocks) /\ t.leaves \in Seq(Leaves) /\ Len(t.leaves) \in Nat
        /\ Len(t.leaves) = u[m] /\ MaxHeight \in Nat /\ base + m \in 0..MaxHeight
        /\ u \in [0..m -> Nat] /\ u[0] = 0
    BY OfParts, Numbers
  <1>2. /\ t = [prefetched |-> t.prefetched, leaves |-> t.leaves, blocks |-> t.blocks, cache |-> t.cache]
        /\ Started(t, c, base) /\ Grown(t, c, base)
    BY DEF Of
  <1>3. /\ n \in 0..m /\ (n # 0 => base + n <= target)
        /\ (n # m => base + n + 1 > target)
    <2> DEFINE fits == {0} \cup {i \in DOMAIN t.blocks : t.blocks[i].height <= target}
    <2>1. DOMAIN t.blocks = 1..m /\ \A i \in 1..m : t.blocks[i].height = base + i
      BY <1>1, <1>2 DEF Grown
    <2>2. fits \in SUBSET (0..m) /\ fits # {} /\ n = Max(fits)
      BY <1>1, <2>1 DEF BlocksKept
    <2>3. \A i \in 1..m : i \in fits <=> base + i <= target
      <3>1. TAKE i \in 1..m
      <3>2. i # 0 /\ i \in DOMAIN t.blocks /\ t.blocks[i].height = base + i
        BY <1>1, <2>1, <3>1
      <3>3. i \in fits <=> t.blocks[i].height <= target
        BY <3>2
      <3> QED
        BY <3>2, <3>3
    <2> HIDE DEF fits, n, m
    <2>4. n \in fits /\ \A i \in fits : i <= n
      BY <1>1, <2>2, MaxIsGreatest
    <2>5. n \in 0..m
      BY <2>2, <2>4
    <2>6. n # 0 => base + n <= target
      BY <1>1, <2>3, <2>4, <2>5
    <2>7. n # m => base + n + 1 > target
      <3>1. SUFFICES ASSUME n # m, base + (n + 1) <= target PROVE FALSE
        BY <1>1, <2>5
      <3>2. n + 1 \in 1..m
        BY <1>1, <2>5, <3>1
      <3>3. n + 1 \in fits
        BY <2>3, <3>1, <3>2
      <3> QED
        BY <1>1, <2>4, <2>5, <3>3
    <2> QED
      BY <2>5, <2>6, <2>7
  <1>4. len \in 0..Len(t.leaves)
    <2>1. m \in n..m /\ n \in 0..m
      BY <1>1, <1>3
    <2> HIDE DEF n
    <2>2. u[n] <= u[m]
      BY <1>1, <2>1, SumsGrow
    <2> HIDE DEF u
    <2> QED
      BY <1>1, <2>1, <2>2
  <1> HIDE DEF n, u
  <1>5. Len(t.leaves) - (u[m] - u[n]) = len
    BY <1>1, <1>4
  <1>6. w = [t EXCEPT !.blocks = SubSeq(t.blocks, 1, n), !.leaves = SubSeq(t.leaves, 1, len),
                      !.cache = Forget(t.cache, stale)]
    BY <1>5 DEF RollbackTo, n, u
  <1> HIDE DEF w, stale, len
  <1>7. /\ w.prefetched = t.prefetched /\ w.blocks = SubSeq(t.blocks, 1, n)
        /\ w.leaves = SubSeq(t.leaves, 1, len) /\ w.cache = Forget(t.cache, stale)
        /\ w = [prefetched |-> w.prefetched, leaves |-> w.leaves, blocks |-> w.blocks, cache |-> w.cache]
    <2>1. w = [prefetched |-> t.prefetched, leaves |-> SubSeq(t.leaves, 1, len),
               blocks |-> SubSeq(t.blocks, 1, n), cache |-> Forget(t.cache, stale)]
      BY <1>2, <1>6
    <2> QED
      BY <2>1
  <1>8. WindowStart(w) = WindowStart(t) /\ FirstLeaf(w) = FirstLeaf(t)
    BY <1>7 DEF WindowStart, FirstLeaf
  <1>9. Started(w, c, base)
    BY <1>2, <1>7, <1>8 DEF Started
  <1>10. /\ w.blocks \in Seq(Ingested) /\ Len(w.blocks) = n
         /\ \A i \in 1..n : w.blocks[i] = t.blocks[i]
    <2>1. t.blocks \in Seq(Ingested) /\ n \in 0..Len(t.blocks) /\ w.blocks = SubSeq(t.blocks, 1, n)
      BY <1>1, <1>3, <1>7
    <2> QED
      BY <2>1, PrefixParts
  <1>11. /\ w.leaves \in Seq(Leaves) /\ Len(w.leaves) = len
         /\ \A p \in 1..len : w.leaves[p] = t.leaves[p]
    BY <1>1, <1>4, <1>7, PrefixParts
  <1>12. Counted(w.blocks)
    <2>1. \A i \in 1..Len(w.blocks) : w.blocks[i] \in Ingested
      BY <1>10
    <2>2. \A i \in 1..Len(w.blocks) : w.blocks[i].num \in Nat
      BY <2>1 DEF Ingested
    <2>3. Len(w.blocks) \in Nat
      BY <1>10
    <2> QED
      BY <2>2, <2>3 DEF Counted
  <1>13. \A i \in 0..n : LeavesUpTo(w.blocks)[i] = u[i]
    <2> DEFINE a == t.blocks
               b == w.blocks
    <2>1. Counted(a) /\ Counted(b) /\ n \in Nat /\ n <= Len(a) /\ n <= Len(b)
          /\ \A i \in 1..n : b[i] = a[i]
      <3>1. n \in Nat /\ n <= m
        BY <1>1, <1>3
      <3>2. Len(b) = n /\ \A i \in 1..n : b[i] = a[i]
        BY <1>10
      <3>3. n <= Len(b)
        BY <3>1, <3>2
      <3> QED
        BY <1>1, <1>12, <3>1, <3>2, <3>3
    <2>2. \A i \in 0..n : LeavesUpTo(b)[i] = LeavesUpTo(a)[i]
      <3> HIDE DEF a, b
      <3> QED
        BY <2>1, SumsAgree
    <2> QED
      BY <2>2 DEF u
  <1>14. ASSUME NEW i \in 1..n
         PROVE  /\ w.blocks[i].height = base + i /\ w.blocks[i].hash = c[base + i]
                /\ FirstLeaf(t) + LeavesUpTo(w.blocks)[i] = SizeAt(c, base + i)
    <2>1. w.blocks[i] = t.blocks[i] /\ i \in 0..n /\ i \in 1..m
      BY <1>1, <1>3, <1>10
    <2>2. LeavesUpTo(w.blocks)[i] = LeavesUpTo(t.blocks)[i]
      BY <1>13, <2>1 DEF u
    <2> QED
      BY <1>2, <2>1, <2>2 DEF Grown
  <1>15. ASSUME NEW p \in 1..len
         PROVE  w.leaves[p] = LeavesAt(c, base + n)[FirstLeaf(t) + p]
    <2>1. w.leaves[p] = t.leaves[p] /\ p \in 1..Len(t.leaves)
      BY <1>1, <1>4, <1>11
    <2>2. t.leaves[p] = LeavesAt(c, base + m)[FirstLeaf(t) + p]
      BY <1>2, <2>1 DEF Grown
    <2>3. n # 0
      BY <1>1, <1>4 DEF len
    <2>4. n \in 1..m
      BY <1>1, <1>3, <2>3
    <2>5. FirstLeaf(t) + len = SizeAt(c, base + n)
      BY <1>2, <2>4 DEF Grown, len, u
    <2>6. FirstLeaf(t) \in Nat /\ FirstLeaf(t) + p \in 1..SizeAt(c, base + n)
      <3>1. FirstLeaf(t) \in Nat
        BY OfParts
      <3> QED
        BY <1>1, <1>4, <2>5, <3>1
    <2>7. base + m \in 0..MaxHeight /\ base + n \in 0..(base + m)
      BY <1>1, <2>4
    <2>8. LeavesAt(c, base + m)[FirstLeaf(t) + p] = LeavesAt(c, base + n)[FirstLeaf(t) + p]
      BY <2>6, <2>7, LeavesStay
    <2> QED
      BY <2>1, <2>2, <2>8
  <1>16. Grown(w, c, base)
    <2>1. base + n <= MaxHeight
      BY <1>1, <1>3
    <2>2. Len(w.leaves) = LeavesUpTo(w.blocks)[Len(w.blocks)]
      <3>1. n \in 0..n
        BY <1>1, <1>3
      <3> QED
        BY <1>10, <1>11, <1>13, <3>1 DEF len
    <2> QED
      BY <1>8, <1>10, <1>11, <1>14, <1>15, <2>1, <2>2 DEF Grown
  <1>17. w.blocks = <<>> => w.cache = [r \in Rows |-> None]
    <2>1. SUFFICES ASSUME w.blocks = <<>> PROVE w.cache = [r \in Rows |-> None]
      OBVIOUS
    <2>2. n = 0 /\ len = 0
      BY <1>1, <1>10, <2>1 DEF len
    <2>3. \A r \in Rows : r >= 0
      BY DEF Rows
    <2>4. stale = Rows
      BY <2>2, <2>3 DEF stale
    <2> QED
      BY <1>7, <2>4 DEF Forget
  <1>18. Of(w, c, base)
    BY <1>7, <1>9, <1>16, <1>17 DEF Of
  <1> QED
    BY <1>3, <1>8, <1>10, <1>18 DEF w

\* A tree of one chain is a tree of every chain that has the same blocks.
LEMMA OfSame ==
  ASSUME NEW c \in Chains, NEW d \in Chains, NEW base, NEW t, Of(t, c, base),
         NEW n \in 0..MaxHeight, \A h \in 1..n : c[h] = d[h],
         base + Len(t.blocks) <= n, WindowStart(t) # 0 => base < n
  PROVE  Of(t, d, base)
  <1>1. base \in Nat /\ Len(t.blocks) \in Nat /\ n \in Nat /\ WindowStart(t) \in Nat
    BY OfParts, Numbers
  <1>2. \A h \in 0..n : LeavesAt(c, h) = LeavesAt(d, h) /\ SizeAt(c, h) = SizeAt(d, h)
    <2>1. \A h \in 0..n : h # 0 => c[h] = d[h]
      BY <1>1
    <2> QED
      BY <2>1, SameLeaves
  <1>3. Started(t, d, base)
    <2>1. base \in 0..n /\ (WindowStart(t) # 0 => base + 1 \in 0..n)
      BY <1>1
    <2> QED
      BY <1>2, <2>1 DEF Of, Started
  <1>4. Grown(t, d, base)
    <2>1. \A i \in 1..Len(t.blocks) : base + i \in 1..n /\ base + i \in 0..n
      BY <1>1
    <2>2. base + Len(t.blocks) \in 0..n
      BY <1>1
    <2>3. LeavesAt(c, base + Len(t.blocks)) = LeavesAt(d, base + Len(t.blocks))
      BY <1>2, <2>2
    <2>4. \A i \in 1..Len(t.blocks) : c[base + i] = d[base + i] /\ SizeAt(c, base + i) = SizeAt(d, base + i)
      BY <1>2, <2>1
    <2> QED
      BY <2>3, <2>4 DEF Of, Grown
  <1> QED
    BY <1>3, <1>4 DEF Of

\* What a tree with blocks is a tree of.
LEMMA OfExact ==
  ASSUME NEW c \in Chains, NEW base, NEW t, Of(t, c, base), t.blocks # <<>>
  PROVE  /\ LastHeight(t) = base + Len(t.blocks) /\ base + Len(t.blocks) \in Heights
         /\ Last(t.blocks).hash = c[base + Len(t.blocks)]
         /\ IsTreeOf(t, Last(t.blocks).hash)
  <1> DEFINE m == Len(t.blocks)
             h == base + m
             s == LeavesAt(c, h)
             ws == WindowStart(t)
             f == FirstLeaf(t)
  <1>1. /\ base \in Nat /\ m \in Nat /\ m >= 1 /\ h \in Heights /\ ws \in Nat /\ f \in Nat
        /\ t.leaves \in Seq(Leaves) /\ Len(t.leaves) \in Nat
    BY OfParts
  <1>2. Started(t, c, base) /\ Grown(t, c, base)
    BY DEF Of
  <1>3. Last(t.blocks) = t.blocks[m] /\ m \in 1..m
    BY <1>1 DEF Last
  <1>4. Last(t.blocks).hash = c[h] /\ LastHeight(t) = h
    BY <1>2, <1>3 DEF Grown, LastHeight
  <1>5. TreeOf[c[h]] = s /\ SizeAfter(c[h]) = Len(s) /\ h # 0 /\ h \in Nat /\ h \in 0..MaxHeight
    <2>1. h # 0 /\ h \in Nat /\ h \in 0..MaxHeight
      BY <1>1, Numbers
    <2> QED
      BY <2>1 DEF LeavesAt, SizeAfter
  <1>6. s \in Seq(Leaves) /\ Len(s) \in Nat
    BY <1>5, LeavesTyped
  <1>7. f + Len(t.leaves) = Len(s)
    BY <1>1, OfSize DEF SizeAt
  <1>8. ws <= Len(s) \div ShardLeaves
    <2>1. ws * ShardLeaves = f /\ f <= Len(s)
      BY <1>1, <1>6, <1>7 DEF FirstLeaf
    <2> QED
      BY <1>1, <1>6, <2>1, ShardsIn
  <1>9. t.prefetched = SubSeq(ShardRoots(s), 1, ws)
    <2>1. CASE ws = 0
      <3>1. t.prefetched = <<>>
        BY <1>2, <2>1 DEF Started
      <3>2. SubSeq(ShardRoots(s), 1, 0) = <<>>
        BY DEF ShardRoots
      <3> QED
        BY <2>1, <3>1, <3>2
    <2>2. CASE ws # 0
      <3> DEFINE r == LeavesAt(c, base + 1)
      <3>1. f <= Len(r) /\ t.prefetched = SubSeq(ShardRoots(r), 1, ws)
        BY <1>2, <2>2 DEF Started, SizeAt
      <3>2. base + 1 \in 0..MaxHeight /\ base + 1 \in 0..h
        <4>1. h = base + m /\ h <= MaxHeight /\ MaxHeight \in Nat
          BY <1>5, Numbers
        <4> HIDE DEF m, h
        <4> QED
          BY <1>1, <1>5, <4>1
      <3>3. r \in Seq(Leaves) /\ Len(r) <= Len(s) /\ \A p \in 1..Len(r) : r[p] = s[p]
        BY <1>5, <3>2, LeavesTyped, LeavesStay DEF SizeAt
      <3>4. ws * ShardLeaves <= Len(r)
        BY <3>1 DEF FirstLeaf
      <3> HIDE DEF r, s
      <3>5. SubSeq(ShardRoots(r), 1, ws) = SubSeq(ShardRoots(s), 1, ws)
        BY <1>1, <1>6, <3>3, <3>4, RootsAgree
      <3> QED
        BY <3>1, <3>5
    <2> QED
      BY <2>1, <2>2
  <1>10. t.leaves = SubSeq(s, f + 1, Len(s))
    <2>1. \A p \in 1..Len(t.leaves) : t.leaves[p] = s[f + p]
      BY <1>2 DEF Grown
    <2> HIDE DEF s, f
    <2>2. \A i \in (f + 1)..Len(s) : s[i] \in Leaves
      BY <1>1, <1>6
    <2> DEFINE w == SubSeq(s, f + 1, Len(s))
    <2>3. /\ w \in Seq(Leaves) /\ Len(w) = Len(t.leaves)
          /\ \A p \in 1..Len(t.leaves) : w[p] = s[f + 1 + p - 1]
      <3>1. f + 1 \in Int /\ Len(s) \in Int
        BY <1>1, <1>6
      <3>2. /\ w \in Seq(Leaves)
            /\ Len(w) = IF f + 1 <= Len(s) THEN Len(s) - (f + 1) + 1 ELSE 0
            /\ \A p \in 1..(Len(s) - (f + 1) + 1) : w[p] = s[f + 1 + p - 1]
        BY <1>6, <2>2, <3>1, SubSeqProperties
      <3>3. Len(w) = Len(t.leaves) /\ Len(s) - (f + 1) + 1 = Len(t.leaves)
        BY <1>1, <1>6, <1>7, <3>2
      <3> QED
        BY <3>2, <3>3
    <2>4. \A p \in 1..Len(t.leaves) : f + 1 + p - 1 = f + p
      BY <1>1
    <2>5. \A p \in 1..Len(t.leaves) : w[p] = t.leaves[p]
      BY <2>1, <2>3, <2>4
    <2> HIDE DEF w
    <2>6. w = t.leaves
      BY <1>1, <2>3, <2>5, SeqEqual
    <2> QED
      BY <2>6 DEF w
  <1>11. IsTreeOf(t, c[h])
    BY <1>5, <1>8, <1>9, <1>10 DEF IsTreeOf, FirstLeaf
  <1> QED
    BY <1>1, <1>4, <1>11

\* The shard-completing block: its leaves that lie in the window.
LEMMA SpilloverOf ==
  ASSUME NEW c \in Chains, NEW h \in Heights, NEW t, Of(t, c, h - 1),
         WindowStart(t) # 0, t.blocks = <<>>
  PROVE  Longer(AppendCommitments(t, h, c[h], Spillover(c[h], TreeSize(t))), t, c, h - 1, 1)
  <1> DEFINE x == c[h]
             f == FirstLeaf(t)
             cms == Commitments[x]
             size == SizeAt(c, h)
             prior == SizeAt(c, h - 1)
             skip == MaxOf(Len(cms) - (size - f), 0)
             kept == Spillover(x, TreeSize(t))
  <1>1. f \in Nat /\ t.leaves = <<>> /\ Len(t.leaves) = 0 /\ Len(t.blocks) = 0
    BY OfParts
  <1>2. /\ h \in Nat /\ prior \in Nat /\ size \in Nat /\ Len(cms) \in Nat
        /\ size = prior + Len(cms) /\ SizeAfter(x) = size
        /\ \A p \in 1..Len(cms) : cms[p] = LeavesAt(c, h)[prior + p]
    BY SizeSteps
  <1>3. prior < f /\ f <= size
    <2>1. SizeAt(c, h - 1) < FirstLeaf(t) /\ FirstLeaf(t) <= SizeAt(c, (h - 1) + 1)
      BY DEF Of, Started
    <2>2. (h - 1) + 1 = h
      BY <1>2
    <2> QED
      BY <2>1, <2>2
  <1>4. TreeSize(t) = f
    BY <1>1 DEF TreeSize, FirstLeaf
  <1>5. cms \in Seq(Leaves)
    BY LeavesGrow
  <1>6. kept = IF size <= f THEN <<>> ELSE SubSeq(cms, skip + 1, Len(cms))
    BY <1>2, <1>4 DEF Spillover
  <1> HIDE DEF x, f, cms, size, prior, kept
  <1>7. skip = f - prior /\ skip \in Nat
    BY <1>1, <1>2, <1>3 DEF MaxOf
  <1> HIDE DEF skip
  <1>8. /\ kept \in Seq(Leaves) /\ Len(kept) = size - f
        /\ \A p \in 1..Len(kept) : kept[p] = LeavesAt(c, h)[f + p]
    <2>1. CASE size <= f
      <3>1. kept = <<>> /\ size - f = 0
        BY <1>1, <1>2, <1>3, <1>6, <2>1
      <3> QED
        BY <3>1
    <2>2. CASE ~ (size <= f)
      <3>1. kept = SubSeq(cms, skip + 1, Len(cms))
        BY <1>6, <2>2
      <3>2. \A i \in (skip + 1)..Len(cms) : cms[i] \in Leaves
        BY <1>5, <1>7
      <3>3. /\ kept \in Seq(Leaves)
            /\ Len(kept) = IF skip + 1 <= Len(cms) THEN Len(cms) - (skip + 1) + 1 ELSE 0
            /\ \A p \in 1..(Len(cms) - (skip + 1) + 1) : kept[p] = cms[skip + 1 + p - 1]
        <4>1. skip + 1 \in Int /\ Len(cms) \in Int
          BY <1>2, <1>7
        <4> QED
          BY <1>5, <3>1, <3>2, <4>1, SubSeqProperties
      <3>4. Len(kept) = size - f /\ Len(cms) - (skip + 1) + 1 = size - f
        BY <1>1, <1>2, <1>3, <1>7, <2>2, <3>3
      <3>5. ASSUME NEW p \in 1..Len(kept) PROVE kept[p] = LeavesAt(c, h)[f + p]
        <4>1. skip + 1 + p - 1 = skip + p /\ skip + p \in 1..Len(cms) /\ prior + (skip + p) = f + p
          BY <1>1, <1>2, <1>3, <1>7, <2>2, <3>4
        <4>2. kept[p] = cms[skip + p]
          BY <3>3, <3>4, <4>1
        <4>3. cms[skip + p] = LeavesAt(c, h)[prior + (skip + p)]
          BY <1>2, <4>1
        <4> QED
          BY <4>1, <4>2, <4>3
      <3> QED
        BY <3>3, <3>4, <3>5
    <2> QED
      BY <2>1, <2>2
  <1>9. /\ h = (h - 1) + Len(t.blocks) + 1 /\ h <= MaxHeight
        /\ FirstLeaf(t) + Len(t.leaves) + Len(kept) = SizeAt(c, h)
        /\ \A p \in 1..Len(kept) : kept[p] = LeavesAt(c, h)[FirstLeaf(t) + Len(t.leaves) + p]
    <2>1. h = (h - 1) + Len(t.blocks) + 1 /\ h <= MaxHeight
      BY <1>1, <1>2, Numbers
    <2>2. f + 0 + Len(kept) = size
      BY <1>1, <1>2, <1>8
    <2>3. \A p \in 1..Len(kept) : f + 0 + p = f + p
      BY <1>1
    <2> QED
      BY <1>1, <1>8, <2>1, <2>2, <2>3 DEF f, size
  <1>10. Longer(AppendCommitments(t, h, c[h], kept), t, c, h - 1, 1)
    <2> DEFINE b == h - 1
    <2>1. Of(t, c, b) /\ h = b + Len(t.blocks) + 1 /\ h <= MaxHeight /\ NextLeaves(kept, t, c, h)
      BY <1>8, <1>9 DEF NextLeaves
    <2> HIDE DEF b
    <2> QED
      BY <2>1, AppendOf DEF b
  <1> QED
    BY <1>10 DEF kept, x

\* A window has its first block.
Whole(t) == WindowStart(t) # 0 => t.blocks # <<>>

\* The next block of the chain starts where such a tree ends.
LEMMA NextFits ==
  ASSUME NEW c \in Chains, NEW base, NEW t, Of(t, c, base), Whole(t),
         NEW h, h = base + Len(t.blocks) + 1, h <= MaxHeight
  PROVE  /\ h \in Heights /\ PriorSize(c[h]) = TreeSize(t)
         /\ NextLeaves(Commitments[c[h]], t, c, h)
         /\ Longer(AppendCommitments(t, h, c[h], Commitments[c[h]]), t, c, base, 1)
  <1> DEFINE cms == Commitments[c[h]]
             ends == FirstLeaf(t) + Len(t.leaves)
  <1>1. base \in Nat /\ Len(t.blocks) \in Nat
    BY OfParts
  <1>2. h \in Heights /\ h - 1 = base + Len(t.blocks)
    BY <1>1, Numbers
  <1>3. TreeSize(t) = SizeAt(c, h - 1) /\ ends = SizeAt(c, h - 1)
    BY <1>2, OfSize DEF Whole
  <1>4. /\ SizeAt(c, h) = SizeAt(c, h - 1) + Len(cms) /\ PriorSize(c[h]) = SizeAt(c, h - 1)
        /\ \A p \in 1..Len(cms) : cms[p] = LeavesAt(c, h)[SizeAt(c, h - 1) + p]
    BY <1>2, SizeSteps
  <1>5. cms \in Seq(Leaves)
    BY <1>2, LeavesGrow
  <1>6. NextLeaves(cms, t, c, h)
    <2> HIDE DEF cms
    <2> QED
      BY <1>3, <1>4, <1>5 DEF NextLeaves
  <1>7. Longer(AppendCommitments(t, h, c[h], cms), t, c, base, 1)
    <2> HIDE DEF cms
    <2> QED
      BY <1>6, AppendOf
  <1> QED
    BY <1>2, <1>3, <1>4, <1>6, <1>7

\* The value of AppendAll after n blocks: the steps of its recursion.
Steps(f, t, blocks) ==
  /\ f[0] = [tree |-> t, ok |-> TRUE]
  /\ \A n \in 1..Len(blocks) :
       f[n] = LET s == f[n - 1]
                  b == blocks[n]
              IN  IF s.ok /\ PriorSize(b.hash) = TreeSize(s.tree)
                  THEN [s EXCEPT !.tree = AppendCommitments(s.tree, b.height, b.hash, Commitments[b.hash])]
                  ELSE [s EXCEPT !.ok = FALSE]

\* The trees that appending to t may make.
TreesFrom(t) ==
  [prefetched : {t.prefetched}, leaves : Seq(Leaves), blocks : Seq(Ingested),
   cache : {t.cache} \cup [Rows -> {t.cache[r] : r \in Rows} \cup {None}]]

LEMMA ChangedTree ==
  ASSUME NEW t, NEW v, NEW leaves, NEW blocks, NEW cache,
         t = [prefetched |-> t.prefetched, leaves |-> t.leaves, blocks |-> t.blocks, cache |-> t.cache],
         v = [t EXCEPT !.leaves = leaves, !.blocks = blocks, !.cache = cache]
  PROVE  v = [prefetched |-> t.prefetched, leaves |-> leaves, blocks |-> blocks, cache |-> cache]
  OBVIOUS

LEMMA AppendFrom ==
  ASSUME NEW t, NEW w \in TreesFrom(t), NEW h \in Heights, NEW x \in Hashes
  PROVE  AppendCommitments(w, h, x, Commitments[x]) \in TreesFrom(t)
  <1> DEFINE cms == Commitments[x]
             record == [height |-> h, hash |-> x, num |-> Len(cms)]
             old == Len(w.leaves)
             stale == IF cms = <<>> THEN {}
                      ELSE old \div SubshardLeaves..(old + Len(cms) - 1) \div SubshardLeaves
             cache == Forget(w.cache, stale)
             values == {t.cache[r] : r \in Rows} \cup {None}
  <1>1. cms \in Seq(Leaves) /\ Len(cms) \in Nat
    <2>1. cms \in Seq(Leaves)
      BY WitnessServerAssumption
    <2> QED
      BY <2>1
  <1>2. record \in Ingested
    BY <1>1 DEF Ingested
  <1>3. /\ w = [prefetched |-> t.prefetched, leaves |-> w.leaves, blocks |-> w.blocks, cache |-> w.cache]
        /\ w.leaves \in Seq(Leaves) /\ w.blocks \in Seq(Ingested)
        /\ w.cache \in {t.cache} \cup [Rows -> values]
    BY DEF TreesFrom
  <1>4. AppendCommitments(w, h, x, cms)
          = [w EXCEPT !.leaves = w.leaves \o cms, !.blocks = Append(w.blocks, record), !.cache = cache]
    BY DEF AppendCommitments
  <1>5. \A r \in Rows : w.cache[r] \in values
    BY <1>3
  <1>6. cache \in [Rows -> values]
    <2> HIDE DEF stale, values
    <2>1. None \in values
      BY DEF values
    <2> QED
      BY <1>5, <2>1 DEF Forget
  <1> HIDE DEF cache, record, values, cms
  <1>7. w.leaves \o cms \in Seq(Leaves) /\ Append(w.blocks, record) \in Seq(Ingested)
    <2>1. w.leaves \o cms \in Seq(Leaves)
      BY <1>1, <1>3, TwoSequences
    <2> QED
      BY <1>2, <1>3, <2>1
  <1>8. AppendCommitments(w, h, x, cms)
          = [prefetched |-> t.prefetched, leaves |-> w.leaves \o cms, blocks |-> Append(w.blocks, record),
             cache |-> cache]
    <2> DEFINE leaves == w.leaves \o cms
               blocks == Append(w.blocks, record)
    <2>1. AppendCommitments(w, h, x, cms) = [w EXCEPT !.leaves = leaves, !.blocks = blocks, !.cache = cache]
      BY <1>4
    <2>2. w = [prefetched |-> w.prefetched, leaves |-> w.leaves, blocks |-> w.blocks, cache |-> w.cache]
          /\ w.prefetched = t.prefetched
      BY <1>3
    <2> HIDE DEF leaves, blocks, stale, old
    <2> DEFINE v == AppendCommitments(w, h, x, cms)
    <2> HIDE DEF v
    <2>3. v = [prefetched |-> w.prefetched, leaves |-> leaves, blocks |-> blocks, cache |-> cache]
      BY <2>1, <2>2, ChangedTree DEF v
    <2> QED
      BY <2>2, <2>3 DEF leaves, blocks, v
  <1> QED
    BY <1>6, <1>7, <1>8 DEF TreesFrom, values, cms

\* There are such values, and AppendAll is the last of them.
LEMMA AppendAllSteps ==
  ASSUME NEW t, t \in TreesFrom(t),
         NEW blocks, Len(blocks) \in Nat,
         \A i \in 1..Len(blocks) : blocks[i].height \in Heights /\ blocks[i].hash \in Hashes
  PROVE  \E f : Steps(f, t, blocks) /\ AppendAll(t, blocks) = f[Len(blocks)]
  <1> DEFINE N == Len(blocks)
             S == [tree : TreesFrom(t), ok : BOOLEAN]
             a == [tree |-> t, ok |-> TRUE]
             After(s, b) ==
               IF s.ok /\ PriorSize(b.hash) = TreeSize(s.tree)
               THEN [s EXCEPT !.tree = AppendCommitments(s.tree, b.height, b.hash, Commitments[b.hash])]
               ELSE [s EXCEPT !.ok = FALSE]
             step == [x \in Inputs(N, S) |-> After(x[2], blocks[x[1]])]
             Eq(f) == f = [n \in 0..N |-> IF n = 0 THEN a ELSE After(f[n - 1], blocks[n])]
             g == CHOOSE f : Eq(f)
  <1>1. a \in S
    OBVIOUS
  <1>2. ASSUME NEW s \in S, NEW n \in 1..N PROVE After(s, blocks[n]) \in S
    <2> DEFINE b == blocks[n]
               w == AppendCommitments(s.tree, b.height, b.hash, Commitments[b.hash])
    <2>1. w \in TreesFrom(t)
      <3>1. s.tree \in TreesFrom(t) /\ b.height \in Heights /\ b.hash \in Hashes
        OBVIOUS
      <3> HIDE DEF b
      <3> QED
        BY <3>1, AppendFrom
    <2> HIDE DEF w
    <2>2. [s EXCEPT !.tree = w] \in S /\ [s EXCEPT !.ok = FALSE] \in S
      BY <2>1
    <2> QED
      BY <2>2 DEF w
  <1>3. step \in [Inputs(N, S) -> S]
    <2>1. \A x \in Inputs(N, S) : x[2] \in S /\ x[1] \in 1..N
      BY DEF Inputs
    <2> HIDE DEF S, After
    <2>2. \A x \in Inputs(N, S) : After(x[2], blocks[x[1]]) \in S
      BY <1>2, <2>1
    <2> QED
      BY <2>2
  <1>4. PICK f : Runs(f, N, S, a, step)
    <2> HIDE DEF step, S, a
    <2> QED
      BY <1>1, <1>3, Recursion
  <1>5. f \in [0..N -> S] /\ f[0] = a /\ \A n \in 1..N : f[n] = After(f[n - 1], blocks[n])
    <2>1. f \in [0..N -> S] /\ f[0] = a /\ \A n \in 1..N : f[n] = step[<<n, f[n - 1]>>]
      <3> HIDE DEF step, S, a
      <3> QED
        BY <1>4 DEF Runs
    <2> HIDE DEF S, a, After
    <2>2. ASSUME NEW n \in 1..N PROVE step[<<n, f[n - 1]>>] = After(f[n - 1], blocks[n])
      <3>1. n - 1 \in 0..N
        OBVIOUS
      <3>2. <<n, f[n - 1]>> \in Inputs(N, S)
        BY <2>1, <3>1 DEF Inputs
      <3> QED
        BY <3>2
    <2> QED
      BY <2>1, <2>2
  <1> HIDE DEF S, a, After, step
  <1>6. Eq(f)
    <2>1. f = [n \in 0..N |-> f[n]]
      BY <1>5
    <2>2. \A n \in 0..N : n = 0 \/ n \in 1..N
      OBVIOUS
    <2> QED
      BY <1>5, <2>1, <2>2
  <1>7. Eq(g)
    <2> HIDE DEF Eq
    <2> QED
      BY <1>6
  <1>8. AppendAll(t, blocks) = g[N]
    BY DEF AppendAll, a, After
  <1> HIDE DEF g
  <1>9. g[0] = a /\ \A n \in 1..N : g[n] = After(g[n - 1], blocks[n])
    BY <1>7
  <1>10. Steps(g, t, blocks)
    BY <1>9 DEF Steps, a, After
  <1> QED
    BY <1>8, <1>10

\* A tree of a chain is one of those that appending to it starts from.
LEMMA OfFrom == ASSUME NEW c \in Chains, NEW base, NEW t, Of(t, c, base) PROVE t \in TreesFrom(t)
  <1>1. t.leaves \in Seq(Leaves) /\ t.blocks \in Seq(Ingested)
    BY OfParts
  <1>2. t = [prefetched |-> t.prefetched, leaves |-> t.leaves, blocks |-> t.blocks, cache |-> t.cache]
    BY DEF Of
  <1> QED
    BY <1>1, <1>2 DEF TreesFrom

\* A batch of the chain's next blocks is appended to the last.
LEMMA AppendAllOf ==
  ASSUME NEW c \in Chains, NEW base, NEW t, Of(t, c, base), Whole(t),
         NEW blocks, Len(blocks) \in Nat, base + Len(t.blocks) + Len(blocks) <= MaxHeight,
         \A i \in 1..Len(blocks) : /\ blocks[i].height = base + Len(t.blocks) + i
                                   /\ blocks[i].hash = c[base + Len(t.blocks) + i]
  PROVE  AppendAll(t, blocks).ok /\ Longer(AppendAll(t, blocks).tree, t, c, base, Len(blocks))
  <1> DEFINE N == Len(blocks)
             top == base + Len(t.blocks)
  <1>1. base \in Nat /\ Len(t.blocks) \in Nat /\ top \in Nat /\ N \in Nat /\ t.blocks \in Seq(Ingested)
    BY OfParts
  <1>2. \A i \in 1..N : top + i \in Heights
    <2>1. top + N <= MaxHeight /\ MaxHeight \in Nat /\ Heights = 1..MaxHeight
      BY Numbers
    <2> HIDE DEF top, N
    <2> QED
      BY <1>1, <2>1
  <1>3. \A i \in 1..N : blocks[i].height \in Heights /\ blocks[i].hash \in Hashes
    BY <1>2, ChainHash
  <1>4. PICK f : Steps(f, t, blocks) /\ AppendAll(t, blocks) = f[N]
    BY <1>1, <1>3, OfFrom, AppendAllSteps
  <1> DEFINE Right(n) == f[n] = [tree |-> f[n].tree, ok |-> TRUE] /\ Longer(f[n].tree, t, c, base, n)
             T == {n \in 0..N : Right(n)}
  <1>5. 0 \in T
    <2>1. f[0] = [tree |-> t, ok |-> TRUE]
      BY <1>4 DEF Steps
    <2>2. Len(t.blocks) = Len(t.blocks) + 0
      BY <1>1
    <2>3. f[0].tree = t /\ f[0] = [tree |-> f[0].tree, ok |-> TRUE] /\ 0 \in 0..N
      BY <1>1, <2>1
    <2>4. Longer(t, t, c, base, 0)
      BY <2>2 DEF Longer
    <2>5. Right(0)
      BY <2>3, <2>4
    <2> HIDE DEF Right
    <2> QED
      BY <2>3, <2>5
  <1>6. ASSUME NEW n \in 0..(N - 1), n \in T PROVE n + 1 \in T
    <2> DEFINE s == f[n]
               b == blocks[n + 1]
               h == top + (n + 1)
    <2>1. n + 1 \in 1..N /\ (n + 1) - 1 = n /\ n + 1 \in 0..N /\ n \in Nat
      BY <1>1
    <2>2. s = [tree |-> s.tree, ok |-> TRUE] /\ s.ok = TRUE /\ Of(s.tree, c, base) /\ WindowStart(s.tree) = WindowStart(t)
          /\ Len(s.tree.blocks) = Len(t.blocks) + n
      BY <1>6 DEF Longer
    <2>3. b.height = h /\ b.hash = c[h] /\ h = base + Len(s.tree.blocks) + 1 /\ h <= MaxHeight
      <3>1. b.height = h /\ b.hash = c[h]
        BY <1>1, <2>1
      <3>2. h = base + Len(s.tree.blocks) + 1
        <4> DEFINE m == Len(t.blocks)
                   k == Len(s.tree.blocks)
        <4>1. k = m + n /\ m \in Nat /\ h = base + m + (n + 1)
          BY <1>1, <2>2
        <4> HIDE DEF m, k, h
        <4>2. h = base + k + 1
          BY <1>1, <2>1, <4>1
        <4> QED
          BY <4>2 DEF k
      <3>3. h \in Heights
        BY <1>2, <2>1
      <3> QED
        BY <3>1, <3>2, <3>3, Numbers
    <2>4. Whole(s.tree)
      <3>1. t.blocks # <<>> => Len(t.blocks) # 0
        BY <1>1
      <3>2. t.blocks # <<>> => Len(s.tree.blocks) # 0
        BY <1>1, <2>1, <2>2, <3>1
      <3>3. s.tree.blocks = <<>> => Len(s.tree.blocks) = 0
        BY <2>2, OfParts
      <3> QED
        BY <2>2, <3>2, <3>3 DEF Whole
    <2>5. f[n + 1] = LET v == f[n]
                     IN  IF v.ok /\ PriorSize(b.hash) = TreeSize(v.tree)
                         THEN [v EXCEPT !.tree = AppendCommitments(v.tree, b.height, b.hash, Commitments[b.hash])]
                         ELSE [v EXCEPT !.ok = FALSE]
      BY <1>4, <2>1 DEF Steps
    <2> HIDE DEF h, b
    <2> DEFINE w == AppendCommitments(s.tree, h, c[h], Commitments[c[h]])
    <2>6. PriorSize(c[h]) = TreeSize(s.tree) /\ Longer(w, s.tree, c, base, 1)
      <3> DEFINE v == s.tree
      <3>1. Of(v, c, base) /\ Whole(v) /\ h = base + Len(v.blocks) + 1
        BY <2>2, <2>3, <2>4
      <3> HIDE DEF v
      <3>2. PriorSize(c[h]) = TreeSize(v) /\ Longer(AppendCommitments(v, h, c[h], Commitments[c[h]]), v, c, base, 1)
        BY <2>3, <3>1, NextFits
      <3> QED
        BY <3>2 DEF v
    <2>7. f[n + 1] = [s EXCEPT !.tree = w]
      BY <2>2, <2>3, <2>5, <2>6
    <2>8. f[n + 1].tree = w /\ f[n + 1] = [tree |-> w, ok |-> TRUE]
      <3> HIDE DEF w, s
      <3>1. f[n + 1] = [tree |-> w, ok |-> TRUE]
        BY <2>2, <2>7
      <3> QED
        BY <3>1
    <2>9. Longer(w, t, c, base, n + 1)
      <3>1. Len(w.blocks) = Len(t.blocks) + (n + 1)
        BY <1>1, <2>1, <2>2, <2>6 DEF Longer
      <3> QED
        BY <2>2, <2>6, <3>1 DEF Longer
    <2> QED
      BY <2>1, <2>8, <2>9
  <1>7. \A n \in 0..N : n \in T
    <2> HIDE DEF T
    <2> QED
      BY <1>1, <1>5, <1>6, UpTo
  <1>8. Right(N)
    <2>1. N \in T
      <3>1. N \in 0..N
        BY <1>1
      <3> HIDE DEF T
      <3> QED
        BY <1>7, <3>1
    <2> HIDE DEF Right
    <2> QED
      BY <2>1
  <1>9. f[N].ok = TRUE
    BY <1>8
  <1> QED
    BY <1>4, <1>8, <1>9

-----------------------------------------------------------------------------
(* The completed shards *)

\* The block that completes a shard is the first to reach its end.
LEMMA CompletedParts ==
  ASSUME best \in Chains, NEW i \in Nat, i # 0,
         NEW h \in Heights, i * ShardLeaves <= SizeAt(best, h)
  PROVE  /\ CompletedAt(i) \in 1..h
         /\ i * ShardLeaves <= SizeAt(best, CompletedAt(i))
         /\ SizeAt(best, CompletedAt(i) - 1) < i * ShardLeaves
  <1> DEFINE full == {k \in Heights : SizeAfter(best[k]) >= i * ShardLeaves}
             x == i * ShardLeaves
             m == CompletedAt(i)
  <1>1. \A k \in Heights : SizeAfter(best[k]) = SizeAt(best, k) /\ SizeAt(best, k) \in Nat
    BY SizeSteps
  <1>2. x \in Nat /\ x # 0
    <2>1. ShardLeaves \in Nat /\ ShardLeaves >= 1
      BY Numbers
    <2>2. i * ShardLeaves = (i - 1) * ShardLeaves + ShardLeaves /\ (i - 1) * ShardLeaves \in Nat
      BY <2>1
    <2> QED
      BY <2>1, <2>2
  <1> HIDE DEF x
  <1>3. full = {k \in Heights : SizeAt(best, k) >= x}
    BY <1>1 DEF x
  <1>4. h \in full /\ full \in SUBSET Nat /\ Heights \subseteq Nat
    <2>1. SizeAt(best, h) >= x /\ Heights \subseteq Nat
      BY <1>1, <1>2, Numbers DEF x
    <2> QED
      BY <1>3, <2>1
  <1>5. m = Min(full)
    BY DEF CompletedAt
  <1> HIDE DEF full, m
  <1>6. m \in full /\ \A k \in full : m <= k
    <2>1. PICK j \in full : \A k \in full : j <= k
      BY <1>4, LeastNatural
    <2>2. \E n \in full : \A k \in full : n <= k
      BY <2>1
    <2> QED
      BY <1>5, <2>2 DEF Min
  <1>7. m \in Heights /\ m \in Nat /\ m >= 1 /\ x <= SizeAt(best, m) /\ m <= h /\ h \in Nat
    BY <1>1, <1>2, <1>3, <1>4, <1>6, Numbers
  <1>8. SizeAt(best, m - 1) < x
    <2>1. CASE m = 1
      <3>1. SizeAt(best, m - 1) = 0
        BY <2>1 DEF SizeAt, LeavesAt
      <3> QED
        BY <1>2, <3>1
    <2>2. CASE m # 1
      <3>1. m - 1 \in Heights /\ ~ (m <= m - 1)
        BY <1>7, <2>2, Numbers
      <3>2. m - 1 \notin full
        BY <1>6, <3>1
      <3>3. SizeAt(best, m - 1) \in Nat /\ ~ (SizeAt(best, m - 1) >= x)
        BY <1>1, <1>3, <3>1, <3>2
      <3> QED
        BY <1>2, <3>3
    <2> QED
      BY <2>1, <2>2
  <1> QED
    BY <1>7, <1>8 DEF m, x

\* The roots that the node has, and which of them are kept.
AllRoots == ShardRoots(LeavesAt(best, tip))
Complete == SizeAt(best, tip) \div ShardLeaves
Kept == {i \in 1..Complete : CompletedAt(i) <= goal}

LEMMA KeptAre ==
  ASSUME best \in Chains, tip \in Heights
  PROVE  /\ Complete \in Nat /\ \A i \in 1..Complete : i * ShardLeaves <= SizeAt(best, tip)
         /\ AllRoots \in Seq(Range(AllRoots)) /\ Len(AllRoots) = Complete
         /\ IsFiniteSet(Kept) /\ Cardinality(Kept) \in 0..Complete
         /\ KeptRoots = SubSeq(AllRoots, 1, Cardinality(Kept))
         /\ Len(KeptRoots) = Cardinality(Kept) /\ Len(KeptRoots) \in Nat
  <1> DEFINE all == LeavesAt(best, tip)
             k == Cardinality(Kept)
  <1>1. SizeAt(best, tip) \in Nat /\ Len(all) = SizeAt(best, tip) /\ TreeOf[best[tip]] = all
    <2>1. tip \in 0..MaxHeight /\ tip # 0
      BY Numbers
    <2> QED
      BY <2>1, LeavesTyped DEF LeavesAt, SizeAt
  <1>2. Complete \in Nat /\ \A i \in 1..Complete : i * ShardLeaves <= SizeAt(best, tip)
    <2>1. Complete \in Nat
      BY <1>1, ShardsIn DEF Complete
    <2>2. \A i \in 1..Complete : i \in Nat /\ i <= Complete
      BY <2>1
    <2> QED
      BY <1>1, <2>1, <2>2, ShardsIn DEF Complete
  <1>3. AllRoots = [i \in 1..Complete |-> ShardRoot(all, i)]
    BY <1>1 DEF AllRoots, Complete, ShardRoots, ShardRoot
  <1> HIDE DEF all
  <1>4. DOMAIN AllRoots = 1..Complete
    BY <1>3
  <1>5. AllRoots \in Seq(Range(AllRoots)) /\ Len(AllRoots) = Complete
    <2>1. AllRoots = [i \in 1..Complete |-> AllRoots[i]]
      BY <1>3, <1>4
    <2>2. \A i \in 1..Complete : AllRoots[i] \in Range(AllRoots)
      BY <1>4 DEF Range
    <2> QED
      BY <1>2, <2>1, <2>2
  <1>6. KeptRoots = SubSeq(AllRoots, 1, k)
    BY <1>1, <1>4 DEF KeptRoots, Kept, AllRoots, all
  <1>7. IsFiniteSet(Kept) /\ k \in 0..Complete
    <2>1. IsFiniteSet(1..Complete) /\ Cardinality(1..Complete) = Complete
      BY <1>2, FS_Interval
    <2>2. Kept \subseteq 1..Complete
      BY DEF Kept
    <2>3. IsFiniteSet(Kept) /\ k <= Complete
      BY <2>1, <2>2, FS_Subset
    <2>4. k \in Nat
      BY <2>3, FS_CardinalityType
    <2> QED
      BY <1>2, <2>3, <2>4
  <1> HIDE DEF k
  <1>8. Len(KeptRoots) = k
    BY <1>5, <1>6, <1>7, PrefixParts
  <1> QED
    BY <1>2, <1>5, <1>6, <1>7, <1>8 DEF k

\* The first of the shards that are complete at some height are complete there.
LEMMA KeptParts ==
  ASSUME best \in Chains, tip \in Heights, goal \in Nat,
         NEW start \in Nat, start # 0, start <= Len(KeptRoots)
  PROVE  /\ CompletedAt(start) \in Heights /\ CompletedAt(start) <= goal
         /\ Of(EmptyTree(SubSeq(KeptRoots, 1, start)), best, CompletedAt(start) - 1)
         /\ WindowStart(EmptyTree(SubSeq(KeptRoots, 1, start))) = start
  <1> DEFINE all == LeavesAt(best, tip)
             roots == AllRoots
             N == Complete
             S == Kept
             k == Cardinality(S)
             h == CompletedAt(start)
             Roots1 == Range(roots)
  <1>1. tip \in 0..MaxHeight /\ all \in Seq(Leaves) /\ Len(all) \in Nat
    <2>1. tip \in 0..MaxHeight
      BY Numbers
    <2> QED
      BY <2>1, LeavesTyped
  <1>2. N \in Nat /\ \A i \in 1..N : i \in Nat /\ i # 0 /\ i * ShardLeaves <= SizeAt(best, tip)
    BY KeptAre
  <1>7. /\ k \in 0..N /\ Len(KeptRoots) = k /\ KeptRoots = SubSeq(roots, 1, k)
        /\ roots \in Seq(Roots1) /\ Len(roots) = N
    BY KeptAre
  <1> HIDE DEF N, S, roots, Roots1, k
  <1>8. SubSeq(KeptRoots, 1, start) = SubSeq(roots, 1, start) /\ start \in 1..N
    <2>2. /\ KeptRoots \in Seq(Roots1) /\ \A i \in 1..k : KeptRoots[i] = roots[i]
      BY <1>7, PrefixParts
    <2>3. start \in 0..Len(KeptRoots) /\ start \in 0..N /\ start \in 1..N
      BY <1>2, <1>7
    <2> DEFINE a == SubSeq(KeptRoots, 1, start)
               b == SubSeq(roots, 1, start)
    <2>4. a \in Seq(Roots1) /\ Len(a) = start /\ \A i \in 1..start : a[i] = KeptRoots[i]
      BY <2>2, <2>3, PrefixParts
    <2>5. b \in Seq(Roots1) /\ Len(b) = start /\ \A i \in 1..start : b[i] = roots[i]
      BY <1>7, <2>3, PrefixParts
    <2>6. \A i \in 1..start : a[i] = b[i]
      BY <1>7, <2>2, <2>3, <2>4, <2>5
    <2> HIDE DEF a, b
    <2>7. a = b
      BY <2>4, <2>5, <2>6, SeqEqual
    <2> QED
      BY <2>3, <2>7 DEF a, b
  <1>9. start \in S
    <2>1. SUFFICES ASSUME start \notin S PROVE FALSE
      OBVIOUS
    <2>2. ASSUME NEW j \in S PROVE j < start
      <3>1. SUFFICES ASSUME start <= j PROVE FALSE
        BY <1>2 DEF S, Kept, N
      <3>2. j \in 1..N /\ CompletedAt(j) <= goal /\ j \in Nat /\ start \in Nat
        BY <1>2 DEF S, Kept, N
      <3>3. CompletedAt(j) \in 1..tip /\ j * ShardLeaves <= SizeAt(best, CompletedAt(j))
        BY <1>2, <3>2, CompletedParts
      <3> DEFINE g == CompletedAt(j)
      <3>4. g \in Heights
        BY <3>3, Numbers
      <3>5. start * ShardLeaves <= SizeAt(best, g)
        <4>1. SizeAt(best, g) \in Nat
          BY <3>4, SizeSteps
        <4>2. j <= SizeAt(best, g) \div ShardLeaves /\ SizeAt(best, g) \div ShardLeaves \in Nat
          BY <3>2, <3>3, <4>1, ShardsIn
        <4>3. start <= SizeAt(best, g) \div ShardLeaves
          BY <3>1, <3>2, <4>2
        <4> QED
          BY <4>1, <4>3, ShardsIn
      <3>6. CompletedAt(start) \in 1..g
        BY <3>4, <3>5, CompletedParts
      <3>7. CompletedAt(start) <= goal
        BY <3>2, <3>4, <3>6, Numbers
      <3> QED
        BY <1>8, <2>1, <3>7 DEF S, Kept, N
    <2>3. S \subseteq 1..(start - 1)
      BY <1>2, <2>2 DEF S, Kept, N
    <2>4. start - 1 \in Nat
      OBVIOUS
    <2>5. Cardinality(S) <= start - 1
      <3> DEFINE J == 1..(start - 1)
      <3>1. IsFiniteSet(J) /\ Cardinality(J) = start - 1 /\ S \subseteq J
        BY <2>3, <2>4, FS_Interval
      <3> HIDE DEF J
      <3>2. Cardinality(S) <= Cardinality(J)
        BY <3>1, FS_Subset
      <3> QED
        BY <3>1, <3>2
    <2> QED
      BY <1>7, <1>8, <2>4, <2>5 DEF k
  <1>10. /\ h \in 1..tip /\ start * ShardLeaves <= SizeAt(best, h)
         /\ SizeAt(best, h - 1) < start * ShardLeaves
    <2>1. start \in 1..N
      BY <1>8
    <2> QED
      BY <1>2, <2>1, CompletedParts
  <1> HIDE DEF h
  <1>11. h \in Heights /\ h \in Nat /\ h - 1 \in 0..(MaxHeight - 1) /\ (h - 1) + 1 = h
         /\ h \in 0..tip /\ h \in 0..MaxHeight
    BY <1>10, Numbers
  <1> DEFINE part == LeavesAt(best, h)
  <1>12. part \in Seq(Leaves) /\ Len(part) = SizeAt(best, h) /\ Len(part) <= Len(all)
         /\ \A p \in 1..Len(part) : part[p] = all[p]
    BY <1>1, <1>11, LeavesTyped, LeavesStay DEF SizeAt
  <1> HIDE DEF part, all
  <1>13. SubSeq(roots, 1, start) = SubSeq(ShardRoots(part), 1, start)
         /\ Len(SubSeq(roots, 1, start)) = start
    <2>1. start * ShardLeaves <= Len(part) /\ all \in Seq(Leaves)
      BY <1>1, <1>10, <1>12
    <2>2. /\ SubSeq(ShardRoots(part), 1, start) = SubSeq(ShardRoots(all), 1, start)
          /\ Len(SubSeq(ShardRoots(part), 1, start)) = start
      BY <1>12, <2>1, RootsAgree
    <2> QED
      BY <2>2 DEF roots, AllRoots, all
  <1>14. /\ Of(EmptyTree(SubSeq(roots, 1, start)), best, h - 1)
         /\ WindowStart(EmptyTree(SubSeq(roots, 1, start))) = start
    <2> DEFINE b == h - 1
               r == SubSeq(roots, 1, start)
    <2>1. /\ b \in 0..(MaxHeight - 1) /\ SizeAt(best, b) < start * ShardLeaves
          /\ start * ShardLeaves <= SizeAt(best, b + 1) /\ Len(r) = start
          /\ r = SubSeq(ShardRoots(LeavesAt(best, b + 1)), 1, start)
      BY <1>10, <1>11, <1>13 DEF part
    <2> HIDE DEF b, r
    <2> DEFINE t == EmptyTree(r)
    <2>2. t.prefetched = r
      BY DEF EmptyTree
    <2>3. WindowStart(t) = start /\ FirstLeaf(t) = start * ShardLeaves
      BY <2>1, <2>2 DEF WindowStart, FirstLeaf
    <2> HIDE DEF t
    <2>4. b \in 0..MaxHeight /\ b < MaxHeight
      BY <2>1, Numbers
    <2>5. Started(t, best, b)
      BY <2>1, <2>2, <2>3, <2>4 DEF Started
    <2>6. Of(t, best, b)
      BY <2>5, EmptyWindow DEF t
    <2> QED
      BY <2>3, <2>6 DEF b, r, t
  <1>15. h <= goal
    BY <1>9 DEF S, Kept, h
  <1>17. /\ Of(EmptyTree(SubSeq(KeptRoots, 1, start)), best, h - 1)
         /\ WindowStart(EmptyTree(SubSeq(KeptRoots, 1, start))) = start
    BY <1>8, <1>14
  <1> QED
    BY <1>11, <1>15, <1>17 DEF h

-----------------------------------------------------------------------------
(* The inductive invariant of the witness server *)

NodeType ==
  /\ best \in served /\ served \subseteq Chains
  /\ tip \in Heights /\ peak \in Heights /\ tip <= peak
  /\ deep = FALSE

\* A tree of the first n blocks of the chain c.
On(t, c, n, base) ==
  Of(t, c, base) /\ base + Len(t.blocks) <= n /\ (WindowStart(t) # 0 => base < n)

\* One that has lost the start of its window only if the node may have lagged.
Held(t, c, n, lag) == \E base \in 0..MaxHeight : On(t, c, n, base) /\ (Whole(t) \/ lag)

\* One that goes on with the block at this height.
Ready(t, c, n, height) ==
  \E base \in 0..MaxHeight :
    On(t, c, n, base) /\ Whole(t) /\ base + Len(t.blocks) = height - 1

\* One that ends with the newest block handed over, or before which that block lies.
Behind(t, c, n, handed, lag) ==
  \E base \in 0..MaxHeight :
    /\ On(t, c, n, base) /\ (Whole(t) \/ lag)
    /\ t.blocks # <<>> => Len(handed) = base + Len(t.blocks)
    /\ t.blocks = <<>> => Len(handed) <= base

\* A start has not begun with its tree.
Unbegun == {"down", "load", "roots"}
Control ==
  /\ pc \in Unbegun \cup {"completing", "sync", "save", "connect", "follow", "mismatch"}
  /\ goal \in 0..Confirmed /\ next \in 0..(MaxHeight + 1) /\ prev \in Hashes \cup {NoHash}
  /\ unsaved \in 0..(SnapshotInterval - 1)
  /\ pc \in Unbegun => tree = EmptyTree(<<>>)

\* Chains that a call may have been answered from agree on the blocks to be synced.
Agreed == \A c \in served : \A h \in 1..goal : c[h] = best[h]

\* Every tree that is published or saved, or that a power loss may bring back.
Stored ==
  /\ \A t \in saved \cup durable : Held(t, best, Confirmed, FALSE)
  /\ \A t \in live : Held(t, best, Confirmed, lagged)

\* The tree that is started and synced.
Syncing ==
  /\ pc = "completing" =>
       /\ next - 1 \in 1..goal
       /\ Of(tree, best, next - 2) /\ WindowStart(tree) # 0 /\ tree.blocks = <<>>
  /\ pc \in {"sync", "save", "connect"} => Held(tree, best, Confirmed, FALSE)
  /\ pc = "sync" /\ next <= goal => Ready(tree, best, Confirmed, next)

\* The tree that follows the chain.
Following ==
  /\ followed \in Seq(Hashes) /\ Len(followed) <= Confirmed
  /\ followed = SubSeq(best, 1, Len(followed))
  /\ pc \notin {"save", "follow", "mismatch"} => followed = <<>>
  /\ pc = "follow" => followed # <<>>
  /\ pc \in {"save", "follow"} /\ followed # <<>> =>
       Behind(tree, best, Confirmed, followed, lagged)
  /\ pc = "mismatch" => lagged /\ Held(tree, best, Confirmed, TRUE)

IInv == NodeType /\ Control /\ Agreed /\ Stored /\ Syncing /\ Following

-----------------------------------------------------------------------------
(* The node *)

\* What was confirmed stays, and more may be.
Later ==
  /\ Confirmed \in 0..MaxHeight /\ Confirmed' \in 0..MaxHeight /\ Confirmed <= Confirmed'
  /\ best \in Chains /\ best' \in Chains
  /\ \A h \in 1..Confirmed : best'[h] = best[h]

\* How far blocks are confirmed, and what the server takes for it.
LEMMA ConfirmedParts ==
  ASSUME NodeType
  PROVE  best \in Chains /\ Confirmed \in 0..MaxHeight /\ ConfirmedTip \in 0..Confirmed
  BY Numbers DEF NodeType, Confirmed, ConfirmedTip, MaxOf

\* A step of a node that keeps its confirmed blocks.
LEMMA NodeMoves ==
  ASSUME NodeType, ChainStep, ~deep'
  PROVE  NodeType' /\ Later /\ served' \subseteq served \cup {best'} /\ (lagged => lagged')
  <1>1. /\ best' \in Chains /\ tip' \in Heights /\ served' \subseteq Chains
        /\ best' \in served' /\ served' \subseteq served \cup {best'}
    <2>1. CASE Mine
      BY <2>1, Numbers DEF Mine, NodeType
    <2>2. CASE Reorganise
      BY <2>2 DEF Reorganise, NodeType
    <2> QED
      BY <2>1, <2>2 DEF ChainStep, NodeStep
  <1>2. /\ peak' = MaxOf(peak, tip') /\ lagged' = (lagged \/ tip' < peak)
        /\ \A h \in 1..Confirmed : best'[h] = best[h]
    BY DEF ChainStep, Observe
  <1>3. tip' \in Heights /\ peak \in Heights /\ tip \in Heights
    BY <1>1 DEF NodeType
  <1>4. peak' \in Heights /\ tip' <= peak' /\ peak <= peak'
    BY <1>2, <1>3, Numbers DEF MaxOf
  <1>5. deep' = FALSE
    <2>1. deep' \in BOOLEAN
      BY DEF ChainStep, Observe, NodeType
    <2> QED
      BY <2>1
  <1>6. NodeType'
    BY <1>1, <1>3, <1>4, <1>5 DEF NodeType
  <1>7. Confirmed = MaxOf(peak - Depth, 0) /\ Confirmed' = MaxOf(peak' - Depth, 0)
    BY DEF Confirmed
  <1>8. Confirmed \in 0..MaxHeight /\ Confirmed' \in 0..MaxHeight /\ Confirmed <= Confirmed'
    <2>1. /\ peak \in Nat /\ peak' \in Nat /\ peak <= peak' /\ peak' <= MaxHeight /\ peak <= MaxHeight
          /\ Depth \in Nat /\ MaxHeight \in Nat
      BY <1>3, <1>4, Numbers
    <2>2. \A a, b \in Nat : a <= b => MaxOf(a - Depth, 0) <= MaxOf(b - Depth, 0)
      BY <2>1 DEF MaxOf
    <2>3. \A a \in Nat : a <= MaxHeight => MaxOf(a - Depth, 0) \in 0..MaxHeight
      BY <2>1 DEF MaxOf
    <2> QED
      BY <1>7, <2>1, <2>2, <2>3
  <1>9. Later
    BY <1>1, <1>2, <1>8, ConfirmedParts DEF Later
  <1> QED
    BY <1>1, <1>2, <1>6, <1>9

\* A step of the server: the node stands, and at most answers a call.
Stands ==
  /\ NodeType' /\ best' = best /\ Confirmed' = Confirmed /\ lagged' = lagged
  /\ served' \subseteq served

LEMMA NodeStands ==
  ASSUME NodeType, UNCHANGED worldVars \/ (Answered /\ UNCHANGED observerVars)
  PROVE  Stands
  <1>1. /\ best' = best /\ tip' = tip /\ peak' = peak /\ deep' = deep /\ lagged' = lagged
        /\ served' \subseteq served /\ best \in served'
    <2>1. CASE UNCHANGED worldVars
      BY <2>1 DEF worldVars, nodeVars, observerVars, NodeType
    <2>2. CASE Answered /\ UNCHANGED observerVars
      BY <2>2 DEF Answered, observerVars, NodeType
    <2> QED
      BY <2>1, <2>2
  <1>2. Confirmed' = Confirmed
    BY <1>1 DEF Confirmed
  <1>3. NodeType'
    BY <1>1 DEF NodeType
  <1> QED
    BY <1>1, <1>2, <1>3 DEF Stands

\* What the chains a call may be answered from agree on.
LEMMA AgreedStays == ASSUME Agreed, Stands, goal' = goal PROVE Agreed'
  BY DEF Agreed, Stands

-----------------------------------------------------------------------------
(* Trees of a chain that grows *)

\* Two chains of which the first is confirmed as far as n, the second as far as m.
Extends(c, n, d, m) ==
  /\ c \in Chains /\ d \in Chains /\ n \in 0..MaxHeight /\ m \in 0..MaxHeight /\ n <= m
  /\ \A h \in 1..n : c[h] = d[h]

LEMMA OnMore ==
  ASSUME NEW c, NEW d, NEW n, NEW m, Extends(c, n, d, m), NEW t, NEW base, On(t, c, n, base)
  PROVE  On(t, d, m, base)
  <1>1. c \in Chains /\ d \in Chains /\ n \in 0..MaxHeight /\ \A h \in 1..n : c[h] = d[h]
    BY DEF Extends
  <1>2. /\ Of(t, c, base) /\ base + Len(t.blocks) <= n
        /\ WindowStart(t) # 0 => base < n
    BY DEF On
  <1>3. Of(t, d, base)
    BY <1>1, <1>2, OfSame
  <1>4. base \in Nat /\ Len(t.blocks) \in Nat /\ n \in Nat /\ m \in Nat /\ n <= m
    BY <1>1, <1>2, OfParts, Numbers DEF Extends
  <1> QED
    BY <1>2, <1>3, <1>4 DEF On

LEMMA HeldMore ==
  ASSUME NEW c, NEW d, NEW n, NEW m, Extends(c, n, d, m),
         NEW t, NEW lag, NEW more, lag => more, Held(t, c, n, lag)
  PROVE  Held(t, d, m, more)
  <1>1. PICK base \in 0..MaxHeight : On(t, c, n, base) /\ (Whole(t) \/ lag)
    BY DEF Held
  <1>2. On(t, d, m, base)
    BY <1>1, OnMore
  <1> QED
    BY <1>1, <1>2 DEF Held

LEMMA ReadyMore ==
  ASSUME NEW c, NEW d, NEW n, NEW m, Extends(c, n, d, m),
         NEW t, NEW height, Ready(t, c, n, height)
  PROVE  Ready(t, d, m, height)
  <1>1. PICK base \in 0..MaxHeight :
          On(t, c, n, base) /\ Whole(t) /\ base + Len(t.blocks) = height - 1
    BY DEF Ready
  <1>2. On(t, d, m, base)
    BY <1>1, OnMore
  <1> QED
    BY <1>1, <1>2 DEF Ready

LEMMA BehindMore ==
  ASSUME NEW c, NEW d, NEW n, NEW m, Extends(c, n, d, m),
         NEW t, NEW handed, NEW lag, NEW more, lag => more, Behind(t, c, n, handed, lag)
  PROVE  Behind(t, d, m, handed, more)
  <1>1. PICK base \in 0..MaxHeight :
          /\ On(t, c, n, base) /\ (Whole(t) \/ lag)
          /\ t.blocks # <<>> => Len(handed) = base + Len(t.blocks)
          /\ t.blocks = <<>> => Len(handed) <= base
    BY DEF Behind
  <1>2. On(t, d, m, base)
    BY <1>1, OnMore
  <1> QED
    BY <1>1, <1>2 DEF Behind

\* A tree that is ready, or that has followed, is one that may be live.
LEMMA ReadyHeld ==
  ASSUME NEW t, NEW c, NEW n, NEW height, Ready(t, c, n, height)
  PROVE  Held(t, c, n, FALSE)
  BY DEF Ready, Held

LEMMA BehindHeld ==
  ASSUME NEW t, NEW c, NEW n, NEW handed, NEW lag, Behind(t, c, n, handed, lag)
  PROVE  Held(t, c, n, lag)
  BY DEF Behind, Held

\* The empty tree is ready for the block at the activation height, or at none.
LEMMA EmptyHeld ==
  ASSUME NEW c \in Chains, NEW n \in 0..MaxHeight
  PROVE  Held(EmptyTree(<<>>), c, n, FALSE)
  <1> DEFINE t == EmptyTree(<<>>)
  <1>1. SizeAt(c, 0) = 0 /\ 0 \in 0..MaxHeight
    BY Numbers DEF SizeAt, LeavesAt
  <1>2. Of(t, c, 0) /\ WindowStart(t) = 0
    BY <1>1, EmptyFull
  <1>3. t.blocks = <<>> /\ Len(<<>>) = 0
    BY DEF EmptyTree
  <1> HIDE DEF t
  <1>4. On(t, c, n, 0) /\ Whole(t)
    BY <1>2, <1>3, Numbers DEF On, Whole
  <1> QED
    BY <1>1, <1>4 DEF Held, t

LEMMA EmptyReady ==
  ASSUME NEW c \in Chains, NEW n \in 0..MaxHeight, Activation <= n
  PROVE  Ready(EmptyTree(<<>>), c, n, Activation)
  <1> DEFINE t == EmptyTree(<<>>)
             b == Activation - 1
  <1>1. b \in 0..MaxHeight /\ b < Activation /\ b < n /\ b \in Nat
    BY Numbers
  <1>2. SizeAt(c, b) = 0
    BY <1>1, NoLeavesYet
  <1> HIDE DEF b
  <1>3. Of(t, c, b) /\ WindowStart(t) = 0
    BY <1>1, <1>2, EmptyFull
  <1>4. t.blocks = <<>> /\ Len(<<>>) = 0
    BY DEF EmptyTree
  <1> HIDE DEF t
  <1>5. On(t, c, n, b) /\ Whole(t)
    BY <1>1, <1>3, <1>4, Numbers DEF On, Whole
  <1>6. b + Len(t.blocks) = Activation - 1
    BY <1>1, <1>4 DEF b
  <1> QED
    BY <1>1, <1>5, <1>6 DEF Ready, t

-----------------------------------------------------------------------------
(* The steps of the node *)

\* The start of a chain is one of what it grew into.
LEMMA SameStart ==
  ASSUME Later, NEW n \in 0..MaxHeight, n <= Confirmed
  PROVE  SubSeq(best, 1, n) = SubSeq(best', 1, n)
  <1>1. \A i \in 1..n : best[i] = best'[i]
    BY DEF Later
  <1>2. /\ best \in Seq(Hashes) /\ best' \in Seq(Hashes)
        /\ Len(best) = MaxHeight /\ Len(best') = MaxHeight
    BY ChainHash DEF Later
  <1>3. /\ SubSeq(best, 1, n) = [i \in 1..n |-> best[i]]
        /\ SubSeq(best', 1, n) = [i \in 1..n |-> best'[i]]
    BY <1>2, Numbers
  <1> QED
    BY <1>1, <1>3

\* The node moves while the server stands.
LEMMA ServerStays ==
  ASSUME Control, Agreed, Stored, Syncing, Following, NodeType', Later, UNCHANGED serverVars,
         served' \subseteq served \cup {best'}, lagged => lagged'
  PROVE  IInv'
  <1>1. /\ pc' = pc /\ goal' = goal /\ next' = next /\ prev' = prev /\ tree' = tree
        /\ live' = live /\ unsaved' = unsaved /\ followed' = followed
        /\ saved' = saved /\ durable' = durable
    BY DEF serverVars, syncVars, fileVars
  <1>2. Extends(best, Confirmed, best', Confirmed')
    BY DEF Later, Extends
  <1>3. goal \in 0..Confirmed /\ Confirmed \in Nat /\ Confirmed' \in Nat /\ Confirmed <= Confirmed'
    BY Numbers DEF Control, Later
  <1>4. Control'
    <2>1. goal \in 0..Confirmed'
      BY <1>3
    <2> QED
      BY <1>1, <2>1 DEF Control, Unbegun
  <1>5. Agreed'
    <2>1. \A h \in 1..goal : h \in 1..Confirmed
      BY <1>3
    <2>2. \A h \in 1..goal : best'[h] = best[h]
      BY <2>1 DEF Later
    <2>3. ASSUME NEW c \in served', NEW h \in 1..goal PROVE c[h] = best'[h]
      <3>1. CASE c \in served
        BY <2>2, <3>1 DEF Agreed
      <3>2. CASE c = best'
        BY <3>2
      <3> QED
        BY <3>1, <3>2
    <2> QED
      BY <1>1, <2>3 DEF Agreed
  <1>6. Stored'
    <2>1. ASSUME NEW t \in saved \cup durable PROVE Held(t, best', Confirmed', FALSE)
      BY <1>2, HeldMore DEF Stored
    <2>2. ASSUME NEW t \in live PROVE Held(t, best', Confirmed', lagged')
      BY <1>2, HeldMore DEF Stored
    <2> QED
      BY <1>1, <2>1, <2>2 DEF Stored
  <1>7. Syncing'
    <2>1. ASSUME pc = "completing" PROVE Of(tree, best', next - 2)
      <3> DEFINE b == next - 2
      <3>1. Of(tree, best, b) /\ b + 1 \in 1..goal /\ tree.blocks = <<>> /\ b \in Nat
            /\ WindowStart(tree) # 0
        <4>1. Of(tree, best, b) /\ next - 1 \in 1..goal /\ tree.blocks = <<>> /\ WindowStart(tree) # 0
          BY <2>1 DEF Syncing
        <4>2. next \in 0..(MaxHeight + 1)
          BY DEF Control
        <4> QED
          BY <1>3, <4>1, <4>2, Numbers
      <3> HIDE DEF b
      <3>2. Len(tree.blocks) = 0 /\ b + Len(tree.blocks) <= Confirmed /\ b < Confirmed
        BY <1>3, <3>1
      <3>3. On(tree, best, Confirmed, b)
        BY <3>1, <3>2 DEF On
      <3>4. On(tree, best', Confirmed', b)
        BY <1>2, <3>3, OnMore
      <3> QED
        BY <3>4 DEF On, b
    <2>2. pc \in {"sync", "save", "connect"} => Held(tree, best', Confirmed', FALSE)
      BY <1>2, HeldMore DEF Syncing
    <2>3. pc = "sync" /\ next <= goal => Ready(tree, best', Confirmed', next)
      BY <1>2, ReadyMore DEF Syncing
    <2> QED
      BY <1>1, <2>1, <2>2, <2>3 DEF Syncing
  <1>8. Following'
    <2>1. Len(followed) \in Nat /\ Len(followed) <= Confirmed
      BY DEF Following
    <2>2. Len(followed) \in 0..MaxHeight /\ Len(followed) <= Confirmed'
      BY <1>3, <2>1, Numbers DEF Later
    <2>3. followed = SubSeq(best', 1, Len(followed))
      BY <2>1, <2>2, SameStart DEF Following
    <2>4. pc \in {"save", "follow"} /\ followed # <<>> =>
            Behind(tree, best', Confirmed', followed, lagged')
      BY <1>2, BehindMore DEF Following
    <2>5. pc = "mismatch" => lagged' /\ Held(tree, best', Confirmed', TRUE)
      BY <1>2, HeldMore DEF Following
    <2> QED
      BY <1>1, <2>2, <2>3, <2>4, <2>5 DEF Following
  <1> QED
    BY <1>4, <1>5, <1>6, <1>7, <1>8 DEF IInv

LEMMA NodeKeeps ==
  ASSUME IInv, ChainStep, ~deep', UNCHANGED serverVars
  PROVE  IInv'
  BY NodeMoves, ServerStays DEF IInv

LEMMA StutterKeeps ==
  ASSUME IInv, UNCHANGED vars
  PROVE  IInv'
  <1>1. UNCHANGED worldVars /\ UNCHANGED serverVars
    BY DEF vars
  <1>2. Stands
    BY <1>1, NodeStands DEF IInv
  <1>3. Later
    BY <1>2, ConfirmedParts DEF IInv, Stands, Later
  <1> QED
    BY <1>1, <1>2, <1>3, ServerStays DEF IInv, Stands

\* The invariant holds at the start.
LEMMA InitHolds == ASSUME Init PROVE IInv
  <1>1. /\ best \in Chains /\ tip \in Heights /\ served = {best}
        /\ peak = tip /\ deep = FALSE /\ pc = "down" /\ goal = 0 /\ next = 0 /\ prev = NoHash
        /\ tree = EmptyTree(<<>>) /\ live = {} /\ unsaved = 0 /\ followed = <<>>
        /\ saved = {} /\ durable = {}
    BY DEF Init, NodeInit, ObserverInit
  <1>2. NodeType
    BY <1>1, Numbers DEF NodeType
  <1>3. Confirmed \in 0..MaxHeight
    BY <1>2, ConfirmedParts
  <1>4. Control
    BY <1>1, <1>3, Numbers DEF Control, Unbegun
  <1>5. Agreed /\ Stored /\ Syncing
    BY <1>1 DEF Agreed, Stored, Syncing
  <1>6. Following
    <2>1. <<>> \in Seq(Hashes) /\ Len(<<>>) = 0
      OBVIOUS
    <2>2. best \in Seq(Hashes)
      BY <1>1, ChainHash
    <2>3. SubSeq(best, 1, 0) = <<>>
      BY <2>2
    <2> QED
      BY <1>1, <1>3, <2>1, <2>3, Numbers DEF Following
  <1> QED
    BY <1>2, <1>4, <1>5, <1>6 DEF IInv

-----------------------------------------------------------------------------
(* The start of the server *)

\* A tree that is saved.
LEMMA HeldParts ==
  ASSUME NEW c \in Chains, NEW n \in 0..MaxHeight, NEW t, Held(t, c, n, FALSE)
  PROVE  /\ t.blocks = <<>> => t = EmptyTree(<<>>)
         /\ t.blocks # <<>> =>
              /\ LastHeight(t) \in 1..n /\ Last(t.blocks).hash = c[LastHeight(t)]
              /\ Ready(t, c, n, LastHeight(t) + 1) /\ IsTreeOf(t, Last(t.blocks).hash)
  <1>1. PICK base \in 0..MaxHeight : On(t, c, n, base) /\ Whole(t)
    BY DEF Held
  <1>2. Of(t, c, base) /\ base + Len(t.blocks) <= n
    BY <1>1 DEF On
  <1>3. t.blocks = <<>> => t = EmptyTree(<<>>)
    BY <1>1, <1>2, FullIsEmpty DEF Whole
  <1>4. ASSUME t.blocks # <<>>
        PROVE  /\ LastHeight(t) \in 1..n /\ Last(t.blocks).hash = c[LastHeight(t)]
               /\ Ready(t, c, n, LastHeight(t) + 1) /\ IsTreeOf(t, Last(t.blocks).hash)
    <2>1. /\ LastHeight(t) = base + Len(t.blocks) /\ base + Len(t.blocks) \in Heights
          /\ Last(t.blocks).hash = c[base + Len(t.blocks)]
          /\ IsTreeOf(t, Last(t.blocks).hash)
      BY <1>2, <1>4, OfExact
    <2> DEFINE h == base + Len(t.blocks)
    <2>2. h \in 1..n /\ h = (h + 1) - 1
      BY <1>2, <2>1, Numbers
    <2> HIDE DEF h
    <2>3. Ready(t, c, n, h + 1)
      <3>1. base + Len(t.blocks) = (h + 1) - 1
        BY <2>2 DEF h
      <3> QED
        BY <1>1, <3>1 DEF Ready
    <2> QED
      BY <2>1, <2>2, <2>3 DEF h
  <1> QED
    BY <1>3, <1>4

\* Files that stand.
LEMMA StoredStays ==
  ASSUME Stored, Stands, saved' \cup durable' \subseteq saved \cup durable, live' \subseteq live
  PROVE  Stored'
  BY DEF Stored, Stands

\* get_latest_block.
LEMMA ReadTipKeeps == ASSUME IInv, ReadTip PROVE IInv'
  <1>1. /\ pc = "down" /\ goal' = ConfirmedTip /\ pc' = "load" /\ Answered
        /\ UNCHANGED <<observerVars, next, prev, tree, live, unsaved, followed, fileVars, crashes>>
    BY DEF ReadTip
  <1>2. /\ next' = next /\ prev' = prev /\ tree' = tree /\ live' = live /\ unsaved' = unsaved
        /\ followed' = followed /\ saved' = saved /\ durable' = durable /\ served' = {best}
    BY <1>1 DEF fileVars, Answered
  <1>3. Stands
    BY <1>1, NodeStands DEF IInv
  <1>4. goal' \in 0..Confirmed'
    BY <1>1, <1>3, ConfirmedParts DEF IInv, Stands
  <1>5. Control'
    BY <1>1, <1>2, <1>4 DEF IInv, Control, Unbegun
  <1>6. Agreed'
    BY <1>2, <1>3 DEF Agreed, Stands
  <1>7. Stored'
    BY <1>2, <1>3, StoredStays DEF IInv
  <1>8. Syncing'
    BY <1>1 DEF Syncing
  <1>9. Following'
    BY <1>1, <1>2, <1>3 DEF IInv, Following, Stands
  <1> QED
    BY <1>3, <1>5, <1>6, <1>7, <1>8, <1>9 DEF IInv, Stands

\* load_snapshot.
LEMMA LoadKeeps == ASSUME IInv, Load PROVE IInv'
  <1>1. /\ pc = "load" /\ UNCHANGED worldVars /\ goal' = goal /\ prev' = prev /\ live' = live
        /\ unsaved' = unsaved /\ followed' = followed /\ saved' = saved /\ durable' = durable
    BY DEF Load, fileVars
  <1>2. Stands
    BY <1>1, NodeStands DEF IInv
  <1>3. best \in Chains /\ Confirmed \in 0..MaxHeight /\ goal \in 0..Confirmed
        /\ Confirmed \in Nat /\ MaxHeight \in Nat
    BY ConfirmedParts, Numbers DEF IInv, Control
  <1>4. Agreed' /\ Stored'
    BY <1>1, <1>2, AgreedStays, StoredStays DEF IInv
  <1>5. Following'
    <2>1. followed = <<>> /\ pc' \in {"roots", "sync"}
      BY <1>1 DEF IInv, Following, Load
    <2> QED
      BY <1>1, <1>2, <2>1 DEF IInv, Following, Stands
  <1>6. Control' /\ Syncing'
    <2>1. CASE saved = {} /\ pc' = "roots" /\ UNCHANGED <<tree, next>>
      <3>1. Control'
        BY <1>1, <1>2, <2>1 DEF IInv, Control, Unbegun, Stands
      <3>2. Syncing'
        BY <2>1 DEF Syncing
      <3> QED
        BY <3>1, <3>2
    <2>2. CASE /\ tree' \in saved /\ pc' = "sync"
               /\ next' = IF tree'.blocks = <<>> THEN Activation ELSE LastHeight(tree') + 1
      <3>1. Held(tree', best, Confirmed, FALSE)
        BY <2>2 DEF IInv, Stored
      <3>2. /\ next' \in 0..(MaxHeight + 1)
            /\ next' <= goal => Ready(tree', best, Confirmed, next')
        <4>1. CASE tree'.blocks = <<>>
          <5>1. tree' = EmptyTree(<<>>)
            BY <1>3, <3>1, <4>1, HeldParts
          <5>2. next' = Activation /\ next' \in 0..(MaxHeight + 1)
            BY <2>2, <4>1, Numbers
          <5>3. next' <= goal => Activation <= Confirmed
            BY <1>3, <5>2, Numbers
          <5> QED
            BY <1>3, <5>1, <5>2, <5>3, EmptyReady
        <4>2. CASE tree'.blocks # <<>>
          <5>1. LastHeight(tree') \in 1..Confirmed /\ Ready(tree', best, Confirmed, LastHeight(tree') + 1)
            BY <1>3, <3>1, <4>2, HeldParts
          <5>2. next' = LastHeight(tree') + 1
            BY <2>2, <4>2
          <5> QED
            BY <1>3, <5>1, <5>2
        <4> QED
          BY <4>1, <4>2
      <3>3. Control'
        BY <1>1, <1>2, <2>2, <3>2 DEF IInv, Control, Unbegun, Stands
      <3>4. Syncing'
        BY <1>1, <1>2, <2>2, <3>1, <3>2 DEF Syncing, Stands
      <3> QED
        BY <3>3, <3>4
    <2> QED
      BY <2>1, <2>2 DEF Load
  <1> QED
    BY <1>2, <1>4, <1>5, <1>6 DEF IInv, Stands

\* get_subtree_roots.
LEMMA FetchRootsKeeps == ASSUME IInv, FetchRoots PROVE IInv'
  <1>1. /\ pc = "roots" /\ Answered /\ UNCHANGED observerVars /\ goal' = goal /\ prev' = prev
        /\ live' = live /\ unsaved' = unsaved /\ followed' = followed /\ saved' = saved
        /\ durable' = durable
    BY DEF FetchRoots, fileVars
  <1>2. Stands
    BY <1>1, NodeStands DEF IInv
  <1>3. best \in Chains /\ tip \in Heights /\ Confirmed \in 0..MaxHeight /\ goal \in 0..Confirmed
        /\ Confirmed \in Nat /\ MaxHeight \in Nat
    <2>1. best \in Chains /\ Confirmed \in 0..MaxHeight
      BY ConfirmedParts DEF IInv
    <2>2. tip \in Heights /\ goal \in 0..Confirmed
      BY DEF IInv, Control, NodeType
    <2> QED
      BY <2>1, <2>2, Numbers
  <1>4. Agreed' /\ Stored'
    BY <1>1, <1>2, AgreedStays, StoredStays DEF IInv
  <1>5. pc' \in {"completing", "sync"}
    BY DEF FetchRoots
  <1>6. Following'
    <2>1. followed = <<>>
      BY <1>1 DEF IInv, Following
    <2> QED
      BY <1>1, <1>2, <1>5, <2>1 DEF IInv, Following, Stands
  <1>7. PICK limit \in WindowLimits :
          IF Len(KeptRoots) >= limit
          THEN LET start == Len(KeptRoots) - (limit - 1)
               IN  /\ tree' = EmptyTree(SubSeq(KeptRoots, 1, start))
                   /\ next' = CompletedAt(start) + 1
                   /\ pc' = "completing"
          ELSE /\ tree' = EmptyTree(<<>>)
               /\ next' = Activation
               /\ pc' = "sync"
    BY DEF FetchRoots
  <1>8. next' \in 0..(MaxHeight + 1) /\ Syncing'
    <2>1. CASE Len(KeptRoots) >= limit
      <3> DEFINE start == Len(KeptRoots) - (limit - 1)
                 h == CompletedAt(start)
                 t == EmptyTree(SubSeq(KeptRoots, 1, start))
      <3>1. Len(KeptRoots) \in Nat /\ limit \in Nat /\ limit >= 1
        <4>1. limit \in Nat /\ limit >= 1
          BY WitnessServerAssumption, TreeAssumption
        <4> QED
          BY <1>3, <4>1, KeptAre
      <3>2. start \in Nat /\ start # 0 /\ start <= Len(KeptRoots)
        BY <2>1, <3>1
      <3>3. tree' = t /\ next' = h + 1 /\ pc' = "completing"
        BY <1>7, <2>1
      <3> HIDE DEF start
      <3>4. h \in Heights /\ h <= goal /\ Of(t, best, h - 1) /\ WindowStart(t) = start
        BY <1>3, <3>2, KeptParts
      <3>5. t.blocks = <<>>
        BY DEF EmptyTree
      <3> HIDE DEF h, t
      <3>6. h \in Nat /\ next' - 1 = h /\ next' - 2 = h - 1 /\ h \in 1..goal
            /\ next' \in 0..(MaxHeight + 1)
        BY <1>3, <3>3, <3>4, Numbers
      <3> QED
        BY <1>1, <1>2, <3>2, <3>3, <3>4, <3>5, <3>6 DEF Syncing, Stands
    <2>2. CASE ~ (Len(KeptRoots) >= limit)
      <3>1. tree' = EmptyTree(<<>>) /\ next' = Activation /\ pc' = "sync"
        BY <1>7, <2>2
      <3>2. Held(tree', best, Confirmed, FALSE)
        BY <1>3, <3>1, EmptyHeld
      <3>3. next' <= goal => Ready(tree', best, Confirmed, next')
        <4>1. next' <= goal => Activation <= Confirmed
          BY <1>3, <3>1, Numbers
        <4> QED
          BY <1>3, <3>1, <4>1, EmptyReady
      <3>4. next' \in 0..(MaxHeight + 1)
        BY <3>1, Numbers
      <3>5. Syncing'
        BY <1>1, <1>2, <3>1, <3>2, <3>3 DEF Syncing, Stands
      <3> QED
        BY <3>4, <3>5
    <2> QED
      BY <2>1, <2>2
  <1>9. Control'
    BY <1>1, <1>2, <1>5, <1>8 DEF IInv, Control, Unbegun, Stands
  <1> QED
    BY <1>2, <1>4, <1>6, <1>8, <1>9 DEF IInv, Stands

\* Whatever stream the node answers with, its blocks up to the target height are the
\* network's.
LEMMA StreamAgrees ==
  ASSUME IInv, NEW lo \in Nat, NEW hi \in Nat, 1 <= lo, lo <= hi, hi <= goal,
         NEW blocks \in Streams(lo, hi)
  PROVE  \E n \in 0..(hi - lo + 1) :
           /\ blocks = [i \in 1..n |-> blocks[i]] /\ Len(blocks) = n
           /\ \A i \in 1..n : blocks[i].hash = best[lo + i - 1]
  <1>1. goal \in Nat /\ goal <= MaxHeight /\ MaxHeight \in Nat /\ tip \in Nat
    <2>1. goal \in 0..Confirmed /\ Confirmed \in 0..MaxHeight /\ tip \in Heights
      BY ConfirmedParts DEF IInv, Control, NodeType
    <2> QED
      BY <2>1, Numbers
  <1> DEFINE last == IF hi < tip THEN hi ELSE tip
             n == IF last < lo THEN 0 ELSE last - lo + 1
  <1>2. PICK c \in served, cut \in lo..hi :
          blocks = [i \in 1..(last - lo + 1) |->
                      CompactBlock(IF lo + i - 1 < cut THEN c ELSE best, lo + i - 1)]
    BY DEF Streams
  <1>3. last \in Nat /\ last <= hi
    BY <1>1
  <1> HIDE DEF last
  <1>4. n \in 0..(hi - lo + 1) /\ 1..(last - lo + 1) = 1..n /\ n \in Nat
    BY <1>3
  <1> HIDE DEF n
  <1>5. blocks = [i \in 1..n |-> CompactBlock(IF lo + i - 1 < cut THEN c ELSE best, lo + i - 1)]
    BY <1>2, <1>4
  <1>6. blocks = [i \in 1..n |-> blocks[i]] /\ Len(blocks) = n
    BY <1>4, <1>5
  <1>7. ASSUME NEW i \in 1..n PROVE blocks[i].hash = best[lo + i - 1]
    <2>1. lo + i - 1 \in 1..goal
      BY <1>1, <1>4
    <2>2. c[lo + i - 1] = best[lo + i - 1]
      BY <2>1 DEF IInv, Agreed
    <2>3. blocks[i] = CompactBlock(IF lo + i - 1 < cut THEN c ELSE best, lo + i - 1)
      BY <1>5
    <2> QED
      BY <2>2, <2>3 DEF CompactBlock
  <1> QED
    BY <1>4, <1>6, <1>7

\* The numbers of a sync.
LEMMA SyncNumbers ==
  ASSUME IInv
  PROVE  /\ best \in Chains /\ MaxHeight \in Nat /\ Confirmed \in 0..MaxHeight
         /\ goal \in 0..Confirmed /\ goal \in Nat /\ Confirmed \in Nat /\ goal <= MaxHeight
         /\ next \in 0..(MaxHeight + 1) /\ next \in Nat
  <1>1. best \in Chains /\ Confirmed \in 0..MaxHeight
    BY ConfirmedParts DEF IInv
  <1>2. goal \in 0..Confirmed /\ next \in 0..(MaxHeight + 1)
    BY DEF IInv, Control
  <1> QED
    BY <1>1, <1>2, Numbers

\* The shard-completing block.
LEMMA FetchCompletingKeeps == ASSUME IInv, FetchCompleting PROVE IInv'
  <1>1. /\ pc = "completing" /\ pc' = "sync" /\ Answered /\ UNCHANGED observerVars
        /\ goal' = goal /\ next' = next /\ prev' = prev /\ live' = live /\ unsaved' = unsaved
        /\ followed' = followed /\ saved' = saved /\ durable' = durable
    BY DEF FetchCompleting, syncVars, fileVars
  <1>2. Stands
    BY <1>1, NodeStands DEF IInv
  <1>3. /\ best \in Chains /\ MaxHeight \in Nat /\ Confirmed \in 0..MaxHeight
        /\ goal \in 0..Confirmed /\ goal \in Nat /\ Confirmed \in Nat /\ goal <= MaxHeight
        /\ next \in Nat
    BY SyncNumbers
  <1>4. Agreed' /\ Stored'
    BY <1>1, <1>2, AgreedStays, StoredStays DEF IInv
  <1>5. Control'
    BY <1>1, <1>2 DEF IInv, Control, Unbegun, Stands
  <1>6. Following'
    <2>1. followed = <<>>
      BY <1>1 DEF IInv, Following
    <2> QED
      BY <1>1, <1>2, <2>1 DEF IInv, Following, Stands
  <1> DEFINE h == next - 1
             b == next - 2
  <1>7. /\ h \in 1..goal /\ h \in Heights /\ h - 1 = b /\ b \in Nat /\ h \in Nat /\ b + 1 = h
        /\ Of(tree, best, b) /\ WindowStart(tree) # 0 /\ tree.blocks = <<>>
    <2>1. h \in 1..goal /\ Of(tree, best, b) /\ WindowStart(tree) # 0 /\ tree.blocks = <<>>
      BY <1>1 DEF IInv, Syncing
    <2> QED
      BY <1>3, <2>1, Numbers
  <1>8. PICK blocks \in Streams(next - 1, next - 1) :
          /\ blocks # <<>>
          /\ tree' = AppendCommitments(tree, next - 1, Head(blocks).hash,
                                       Spillover(Head(blocks).hash, TreeSize(tree)))
    BY DEF FetchCompleting
  <1> HIDE DEF b
  <1>9. Head(blocks).hash = best[h]
    <2> HIDE DEF h
    <2>1. blocks \in Streams(h, h)
      BY <1>8 DEF h
    <2>2. PICK n \in 0..(h - h + 1) :
            /\ blocks = [i \in 1..n |-> blocks[i]] /\ Len(blocks) = n
            /\ \A i \in 1..n : blocks[i].hash = best[h + i - 1]
      BY <1>7, <2>1, StreamAgrees
    <2>3. n # 0
      BY <1>8, <2>2
    <2>4. h \in Nat /\ h - h + 1 = 1 /\ h + 1 - 1 = h
      BY <1>7
    <2>5. n \in 0..1
      BY <2>2, <2>4
    <2>6. n = 1
      BY <2>3, <2>5
    <2>7. Head(blocks) = blocks[1] /\ blocks[1].hash = best[h + 1 - 1]
      BY <2>2, <2>6
    <2> QED
      BY <2>4, <2>7
  <1>10. Longer(tree', tree, best, b, 1)
    <2>1. tree' = AppendCommitments(tree, h, best[h], Spillover(best[h], TreeSize(tree)))
      BY <1>8, <1>9
    <2> HIDE DEF h
    <2>2. Of(tree, best, h - 1)
      BY <1>7
    <2> QED
      BY <1>3, <1>7, <2>1, <2>2, SpilloverOf
  <1>11. Ready(tree', best, Confirmed, next)
    <2>1. Of(tree', best, b) /\ Len(tree'.blocks) = 1
      <3>1. Len(tree.blocks) = 0
        BY <1>7
      <3> QED
        BY <1>10, <3>1 DEF Longer
    <2>2. b + Len(tree'.blocks) = next - 1 /\ b + Len(tree'.blocks) <= Confirmed /\ b < Confirmed
      BY <1>3, <1>7, <2>1
    <2>3. Whole(tree')
      <3>1. tree'.blocks # <<>>
        <4> HIDE DEF Longer
        <4>1. Len(tree'.blocks) # 0 /\ Len(<<>>) = 0
          BY <2>1
        <4> QED
          BY <4>1
      <3> QED
        BY <3>1 DEF Whole
    <2>4. b \in 0..MaxHeight
      BY <1>3, <1>7
    <2> QED
      BY <2>1, <2>2, <2>3, <2>4 DEF Ready, On
  <1>12. Syncing'
    BY <1>1, <1>2, <1>11, ReadyHeld DEF Syncing, Stands
  <1> QED
    BY <1>2, <1>4, <1>5, <1>6, <1>12 DEF IInv, Stands

\* One batch of sync_range: its blocks are the next ones of the chain, so none of them
\* starts anywhere but where the tree ends.
LEMMA SyncBatchKeeps == ASSUME IInv, SyncBatch PROVE IInv'
  <1> DEFINE end == MinOf(next + BatchSize - 1, goal)
  <1>1. /\ pc = "sync" /\ next <= goal /\ Answered /\ UNCHANGED observerVars
        /\ goal' = goal /\ live' = live /\ unsaved' = unsaved
        /\ followed' = followed /\ saved' = saved /\ durable' = durable
    BY DEF SyncBatch, fileVars
  <1>2. Stands
    BY <1>1, NodeStands DEF IInv
  <1>3. /\ best \in Chains /\ MaxHeight \in Nat /\ Confirmed \in 0..MaxHeight
        /\ goal \in 0..Confirmed /\ goal \in Nat /\ Confirmed \in Nat /\ goal <= MaxHeight
        /\ next \in Nat
    BY SyncNumbers
  <1>4. Agreed' /\ Stored'
    BY <1>1, <1>2, AgreedStays, StoredStays DEF IInv
  <1>5. PICK base \in 0..MaxHeight :
          On(tree, best, Confirmed, base) /\ Whole(tree) /\ base + Len(tree.blocks) = next - 1
    BY <1>1 DEF IInv, Syncing, Ready
  <1>6. Of(tree, best, base) /\ base \in Nat /\ Len(tree.blocks) \in Nat
    BY <1>3, <1>5, OfParts DEF On
  <1>7. end \in Nat /\ next <= end /\ end <= goal /\ 1 <= next
    BY <1>1, <1>3, <1>5, <1>6, Numbers DEF MinOf
  <1>8. PICK blocks \in Streams(next, end) :
          /\ ValidRange(blocks, next, end, prev)
          /\ tree' = AppendAll(tree, blocks).tree
          /\ pc' = IF AppendAll(tree, blocks).ok THEN "sync" ELSE "mismatch"
          /\ next' = end + 1 /\ prev' = Last(blocks).hash
    BY DEF SyncBatch
  <1> HIDE DEF end
  <1> DEFINE k == end - next + 1
  <1>9. k \in Nat /\ k >= 1 /\ next + k = end + 1
    BY <1>3, <1>7
  <1> HIDE DEF k
  <1>10. /\ Len(blocks) = k
         /\ \A i \in 1..k : blocks[i].hash = best[next + i - 1] /\ blocks[i].height = next + i - 1
    <2>1. PICK n \in 0..(end - next + 1) :
            /\ blocks = [i \in 1..n |-> blocks[i]] /\ Len(blocks) = n
            /\ \A i \in 1..n : blocks[i].hash = best[next + i - 1]
      BY <1>3, <1>7, StreamAgrees
    <2>2. Len(blocks) = k /\ \A i \in DOMAIN blocks : blocks[i].height = next + i - 1
      BY <1>8 DEF ValidRange, k
    <2>3. n = k /\ DOMAIN blocks = 1..k
      BY <2>1, <2>2
    <2> QED
      BY <2>1, <2>2, <2>3
  <1>11. AppendAll(tree, blocks).ok /\ Longer(AppendAll(tree, blocks).tree, tree, best, base, k)
    <2> DEFINE top == base + Len(tree.blocks)
    <2>1. top = next - 1 /\ top + k <= MaxHeight
      BY <1>3, <1>5, <1>7, <1>9
    <2>2. \A i \in 1..k : next + i - 1 = top + i
      BY <1>3, <1>9, <2>1
    <2>3. \A i \in 1..k : blocks[i].height = top + i /\ blocks[i].hash = best[top + i]
      BY <1>10, <2>2
    <2>4. Len(blocks) \in Nat /\ top + Len(blocks) <= MaxHeight
          /\ \A i \in 1..Len(blocks) : blocks[i].height = top + i /\ blocks[i].hash = best[top + i]
      BY <1>9, <1>10, <2>1, <2>3
    <2> QED
      BY <1>3, <1>5, <1>6, <1>10, <2>4, AppendAllOf
  <1>12. pc' = "sync" /\ Of(tree', best, base) /\ Len(tree'.blocks) = Len(tree.blocks) + k
    BY <1>8, <1>11 DEF Longer
  <1>13. next' = end + 1 /\ next' \in 0..(MaxHeight + 1)
    BY <1>3, <1>7, <1>8
  <1>14. Ready(tree', best, Confirmed, next')
    <2> DEFINE m == Len(tree.blocks)
               w == Len(tree'.blocks)
    <2>1. w = m + k /\ base + m = next - 1 /\ m \in Nat
      BY <1>5, <1>6, <1>12
    <2> HIDE DEF m, w
    <2>2. base + w = next' - 1 /\ base + w = end /\ base + w <= Confirmed /\ base < Confirmed /\ w # 0
      BY <1>3, <1>6, <1>7, <1>9, <1>13, <2>1
    <2>3. Whole(tree')
      <3>1. tree'.blocks # <<>>
        BY <2>2 DEF w
      <3> QED
        BY <3>1 DEF Whole
    <2> QED
      BY <1>12, <2>2, <2>3 DEF Ready, On, w
  <1>15. prev' \in Hashes
    <2>1. Last(blocks) = blocks[k] /\ k \in 1..k
      BY <1>9, <1>10 DEF Last
    <2>2. next + k - 1 = end /\ end \in Heights
      BY <1>3, <1>7, <1>9, Numbers
    <2> QED
      BY <1>3, <1>8, <1>10, <2>1, <2>2, ChainHash
  <1>16. Control'
    BY <1>1, <1>2, <1>12, <1>13, <1>15 DEF IInv, Control, Unbegun, Stands
  <1>17. Syncing'
    BY <1>1, <1>2, <1>12, <1>14, ReadyHeld DEF Syncing, Stands
  <1>18. Following'
    <2>1. followed = <<>>
      BY <1>1 DEF IInv, Following
    <2> QED
      BY <1>1, <1>2, <1>12, <2>1 DEF IInv, Following, Stands
  <1> QED
    BY <1>2, <1>4, <1>16, <1>17, <1>18 DEF IInv, Stands

-----------------------------------------------------------------------------
(* Publishing and saving *)

\* build_pir_db_and_broadcast leaves the tree the tree it is.
LEMMA FilledOn ==
  ASSUME NEW c \in Chains, NEW n, NEW base, NEW t, On(t, c, n, base)
  PROVE  /\ On(FillCache(t), c, n, base) /\ FillCache(t).blocks = t.blocks
         /\ Whole(t) <=> Whole(FillCache(t))
  <1> DEFINE w == FillCache(t)
  <1>1. Of(w, c, base) /\ w.blocks = t.blocks /\ WindowStart(w) = WindowStart(t)
    BY FillOf DEF On
  <1> HIDE DEF w
  <1>2. On(w, c, n, base) /\ w.blocks = t.blocks /\ (Whole(t) <=> Whole(w))
    BY <1>1 DEF On, Whole
  <1> QED
    BY <1>2 DEF w

LEMMA FilledHeld ==
  ASSUME NEW c \in Chains, NEW n, NEW t, NEW lag, Held(t, c, n, lag)
  PROVE  Held(FillCache(t), c, n, lag)
  <1>1. PICK base \in 0..MaxHeight : On(t, c, n, base) /\ (Whole(t) \/ lag)
    BY DEF Held
  <1>2. On(FillCache(t), c, n, base) /\ (Whole(t) <=> Whole(FillCache(t)))
    BY <1>1, FilledOn
  <1> QED
    BY <1>1, <1>2 DEF Held

LEMMA FilledBehind ==
  ASSUME NEW c \in Chains, NEW n, NEW t, NEW handed, NEW lag, Behind(t, c, n, handed, lag)
  PROVE  Behind(FillCache(t), c, n, handed, lag)
  <1>1. PICK base \in 0..MaxHeight :
          /\ On(t, c, n, base) /\ (Whole(t) \/ lag)
          /\ t.blocks # <<>> => Len(handed) = base + Len(t.blocks)
          /\ t.blocks = <<>> => Len(handed) <= base
    BY DEF Behind
  <1>2. On(FillCache(t), c, n, base) /\ FillCache(t).blocks = t.blocks
        /\ (Whole(t) <=> Whole(FillCache(t)))
    BY <1>1, FilledOn
  <1> QED
    BY <1>1, <1>2 DEF Behind

\* rebuild_pir after a sync.
LEMMA PublishKeeps == ASSUME IInv, Publish PROVE IInv'
  <1>1. /\ pc = "sync" /\ pc' = "save" /\ UNCHANGED worldVars /\ tree' = FillCache(tree)
        /\ live' = {tree'} /\ durable' = saved /\ goal' = goal /\ next' = next /\ prev' = prev
        /\ unsaved' = unsaved /\ followed' = followed /\ saved' = saved
    BY DEF Publish, syncVars
  <1>2. Stands
    BY <1>1, NodeStands DEF IInv
  <1>3. best \in Chains
    BY ConfirmedParts DEF IInv
  <1>4. Held(tree', best, Confirmed, FALSE)
    BY <1>1, <1>3, FilledHeld DEF IInv, Syncing
  <1>5. Held(tree', best, Confirmed, lagged)
    BY <1>4 DEF Held
  <1>6. Agreed'
    BY <1>1, <1>2, AgreedStays DEF IInv
  <1>7. Control'
    BY <1>1, <1>2 DEF IInv, Control, Unbegun, Stands
  <1>8. Stored'
    BY <1>1, <1>2, <1>5 DEF IInv, Stored, Stands
  <1>9. Syncing'
    BY <1>1, <1>2, <1>4 DEF Syncing, Stands
  <1>10. Following'
    <2>1. followed = <<>>
      BY <1>1 DEF IInv, Following
    <2> QED
      BY <1>1, <1>2, <2>1 DEF IInv, Following, Stands
  <1> QED
    BY <1>2, <1>6, <1>7, <1>8, <1>9, <1>10 DEF IInv, Stands

\* save_snapshot.
LEMMA SaveKeeps == ASSUME IInv, Save PROVE IInv'
  <1>1. /\ pc = "save" /\ UNCHANGED worldVars /\ saved' = {tree} /\ tree' = tree /\ live' = live
        /\ unsaved' = unsaved /\ followed' = followed /\ durable' = durable
        /\ \/ followed = <<>> /\ pc' = "connect" /\ goal' = 0 /\ next' = 0 /\ prev' = NoHash
           \/ followed # <<>> /\ pc' = "follow" /\ goal' = goal /\ next' = next /\ prev' = prev
    BY DEF Save, syncVars
  <1>2. Stands
    BY <1>1, NodeStands DEF IInv
  <1>3. /\ Confirmed \in 0..MaxHeight /\ MaxHeight \in Nat /\ Held(tree, best, Confirmed, FALSE)
    BY <1>1, ConfirmedParts, Numbers DEF IInv, Syncing
  <1>4. Agreed'
    <2>1. CASE goal' = 0
      BY <2>1 DEF Agreed
    <2>2. CASE goal' = goal
      BY <1>2, <2>2, AgreedStays DEF IInv
    <2> QED
      BY <1>1, <2>1, <2>2
  <1>5. Control'
    <2>1. 0 \in 0..Confirmed /\ 0 \in 0..(MaxHeight + 1)
      BY <1>3
    <2> QED
      BY <1>1, <1>2, <2>1 DEF IInv, Control, Unbegun, Stands
  <1>6. Stored'
    BY <1>1, <1>2, <1>3 DEF IInv, Stored, Stands
  <1>7. Syncing'
    BY <1>1, <1>2, <1>3 DEF Syncing, Stands
  <1>8. Following'
    BY <1>1, <1>2 DEF IInv, Following, Stands
  <1> QED
    BY <1>2, <1>4, <1>5, <1>6, <1>7, <1>8 DEF IInv, Stands

\* follow_blocks starts above the newest block of the tree.
LEMMA ConnectKeeps == ASSUME IInv, Connect PROVE IInv'
  <1>1. /\ pc = "connect" /\ pc' = "follow" /\ Answered /\ UNCHANGED observerVars
        /\ LastHeight(tree) \in 1..tip /\ followed' = SubSeq(best, 1, LastHeight(tree))
        /\ goal' = goal /\ next' = next /\ prev' = prev /\ tree' = tree /\ live' = live
        /\ unsaved' = unsaved /\ saved' = saved /\ durable' = durable
    BY DEF Connect, syncVars, fileVars
  <1>2. Stands
    BY <1>1, NodeStands DEF IInv
  <1>3. /\ best \in Chains /\ Confirmed \in 0..MaxHeight /\ MaxHeight \in Nat
        /\ Held(tree, best, Confirmed, FALSE)
    BY <1>1, ConfirmedParts, Numbers DEF IInv, Syncing
  <1>4. tree.blocks # <<>>
    <2>1. LastHeight(tree) # 0
      BY <1>1
    <2> QED
      BY <2>1 DEF LastHeight
  <1> DEFINE h == LastHeight(tree)
  <1>5. h \in 1..Confirmed /\ Ready(tree, best, Confirmed, h + 1)
    BY <1>3, <1>4, HeldParts
  <1> HIDE DEF h
  <1>6. h \in Nat /\ h <= MaxHeight /\ h >= 1 /\ h <= Confirmed /\ (h + 1) - 1 = h
    BY <1>3, <1>5
  <1>7. followed' \in Seq(Hashes) /\ Len(followed') = h /\ followed' # <<>>
        /\ followed' = SubSeq(best, 1, h)
    <2>1. best \in Seq(Hashes) /\ Len(best) = MaxHeight
      BY <1>3, ChainHash
    <2>2. followed' = SubSeq(best, 1, h)
      BY <1>1 DEF h
    <2> QED
      BY <1>3, <1>6, <2>1, <2>2
  <1>8. Behind(tree, best, Confirmed, followed', lagged)
    <2>1. PICK base \in 0..MaxHeight :
            On(tree, best, Confirmed, base) /\ Whole(tree) /\ base + Len(tree.blocks) = (h + 1) - 1
      BY <1>5 DEF Ready
    <2> QED
      BY <1>4, <1>6, <1>7, <2>1 DEF Behind
  <1>9. Agreed' /\ Stored'
    BY <1>1, <1>2, AgreedStays, StoredStays DEF IInv
  <1>10. Control'
    BY <1>1, <1>2 DEF IInv, Control, Unbegun, Stands
  <1>11. Syncing'
    BY <1>1 DEF Syncing
  <1>12. Following'
    BY <1>1, <1>2, <1>6, <1>7, <1>8 DEF Following, Stands
  <1> QED
    BY <1>2, <1>9, <1>10, <1>11, <1>12 DEF IInv, Stands

-----------------------------------------------------------------------------
(* The follow mode *)

\* A tree of which the start of the next block is known.
LEMMA FirstOf ==
  ASSUME NEW c \in Chains, NEW base, NEW t, Of(t, c, base), t.blocks = <<>>,
         NEW k \in Nat, k <= base
  PROVE  /\ WindowStart(t) = 0 => Of(t, c, k) /\ Whole(t)
         /\ WindowStart(t) # 0 => ~Whole(t) /\ SizeAt(c, k) < TreeSize(t)
  <1>1. /\ base \in Nat /\ base <= MaxHeight /\ base \in 0..MaxHeight /\ t.leaves = <<>>
        /\ FirstLeaf(t) \in Nat /\ MaxHeight \in Nat
    BY OfParts, Numbers
  <1>2. k \in 0..base /\ k \in 0..MaxHeight
    BY <1>1
  <1>3. SizeAt(c, k) <= SizeAt(c, base) /\ SizeAt(c, k) \in Nat /\ SizeAt(c, base) \in Nat
    BY <1>1, <1>2, LeavesStay, LeavesTyped
  <1>4. ASSUME WindowStart(t) = 0 PROVE Of(t, c, k) /\ Whole(t)
    <2>1. SizeAt(c, base) = 0
      BY <1>4 DEF Of, Started
    <2>2. SizeAt(c, k) = 0
      BY <1>3, <2>1
    <2>3. t = EmptyTree(<<>>)
      BY <1>4, FullIsEmpty
    <2>4. Of(EmptyTree(<<>>), c, k)
      BY <1>2, <2>2, EmptyFull
    <2> QED
      BY <1>4, <2>3, <2>4 DEF Whole
  <1>5. ASSUME WindowStart(t) # 0 PROVE ~Whole(t) /\ SizeAt(c, k) < TreeSize(t)
    <2>1. SizeAt(c, base) < FirstLeaf(t)
      BY <1>5 DEF Of, Started
    <2>2. TreeSize(t) = FirstLeaf(t)
      <3>1. TreeSize(t) = FirstLeaf(t) + Len(t.leaves) /\ Len(t.leaves) = 0
        BY <1>1 DEF TreeSize, FirstLeaf
      <3> QED
        BY <1>1, <3>1
    <2>3. SizeAt(c, k) < TreeSize(t)
      BY <1>1, <1>3, <2>1, <2>2
    <2> QED
      BY <1>5, <2>3 DEF Whole
  <1> QED
    BY <1>4, <1>5

\* The next block of the chain fits the tree, unless it has lost the start of its window.
LEMMA NextOne ==
  ASSUME NEW c \in Chains, NEW n \in 0..MaxHeight, NEW t, NEW handed, NEW lag,
         Behind(t, c, n, handed, lag), NEW k \in Nat, Len(handed) = k, k < n
  PROVE  LET x == c[k + 1]
             w == AppendCommitments(t, k + 1, x, Commitments[x])
         IN  /\ PriorSize(x) = TreeSize(t) =>
                  /\ Whole(w)
                  /\ \A longer : Len(longer) = k + 1 => Behind(w, c, n, longer, lag)
             /\ PriorSize(x) # TreeSize(t) => lag
  <1> DEFINE h == k + 1
             x == c[h]
             w == AppendCommitments(t, h, x, Commitments[x])
  <1>1. PICK base \in 0..MaxHeight :
          /\ On(t, c, n, base) /\ (Whole(t) \/ lag)
          /\ t.blocks # <<>> => k = base + Len(t.blocks)
          /\ t.blocks = <<>> => k <= base
    BY DEF Behind
  <1>2. /\ base \in Nat /\ n \in Nat /\ n <= MaxHeight /\ MaxHeight \in Nat /\ Len(t.blocks) \in Nat
        /\ Of(t, c, base) /\ h <= MaxHeight /\ h <= n /\ h \in Heights /\ h \in Nat /\ h - 1 = k
    BY <1>1, Numbers, OfParts DEF On
  <1>3. ASSUME NEW b \in 0..MaxHeight, Of(t, c, b), Whole(t), h = b + Len(t.blocks) + 1,
               WindowStart(t) # 0 => b < n
        PROVE  /\ PriorSize(x) = TreeSize(t) /\ Whole(w)
               /\ \A longer : Len(longer) = h => Behind(w, c, n, longer, lag)
    <2>1. PriorSize(x) = TreeSize(t) /\ Longer(w, t, c, b, 1)
      BY <1>2, <1>3, NextFits
    <2> HIDE DEF w, h
    <2>2. Len(w.blocks) = Len(t.blocks) + 1 /\ Of(w, c, b) /\ WindowStart(w) = WindowStart(t)
      BY <2>1 DEF Longer
    <2>3. b + Len(w.blocks) = h /\ Len(w.blocks) # 0 /\ b \in Nat
      BY <1>2, <1>3, <2>2
    <2>4. w.blocks # <<>>
      <3>1. Len(<<>>) = 0
        OBVIOUS
      <3> QED
        BY <2>3, <3>1
    <2>5. Whole(w) /\ On(w, c, n, b)
      BY <1>2, <1>3, <2>2, <2>3, <2>4 DEF Whole, On
    <2>6. ASSUME NEW longer, Len(longer) = h PROVE Behind(w, c, n, longer, lag)
      BY <2>3, <2>4, <2>5, <2>6 DEF Behind
    <2> QED
      BY <2>1, <2>5, <2>6
  <1>4. CASE t.blocks # <<>>
    <2>1. Whole(t) /\ h = base + Len(t.blocks) + 1 /\ (WindowStart(t) # 0 => base < n)
      BY <1>1, <1>2, <1>4 DEF Whole, On
    <2> HIDE DEF w, h
    <2> QED
      BY <1>2, <1>3, <2>1 DEF w, h
  <1>5. CASE t.blocks = <<>> /\ WindowStart(t) = 0
    <2>1. Of(t, c, k) /\ Whole(t) /\ Len(t.blocks) = 0 /\ k \in 0..MaxHeight
      BY <1>1, <1>2, <1>5, FirstOf
    <2>2. h = k + Len(t.blocks) + 1
      BY <2>1
    <2> HIDE DEF w, h
    <2> QED
      BY <1>3, <1>5, <2>1, <2>2 DEF w, h
  <1>6. CASE t.blocks = <<>> /\ WindowStart(t) # 0
    <2>1. ~Whole(t) /\ SizeAt(c, k) < TreeSize(t)
      BY <1>1, <1>2, <1>6, FirstOf
    <2>2. PriorSize(x) = SizeAt(c, k)
      BY <1>2, SizeSteps
    <2>3. SizeAt(c, k) \in Nat /\ TreeSize(t) \in Int
      <3>1. TreeSize(t) = FirstLeaf(t) + Len(t.leaves) /\ FirstLeaf(t) \in Nat /\ Len(t.leaves) \in Nat
        BY <1>2, OfParts DEF TreeSize, FirstLeaf
      <3>2. k \in 0..MaxHeight
        BY <1>2
      <3> QED
        BY <3>1, <3>2, LeavesTyped
    <2>4. PriorSize(x) # TreeSize(t) /\ lag
      BY <1>1, <2>1, <2>2, <2>3
    <2> QED
      BY <2>4
  <1> QED
    BY <1>4, <1>5, <1>6

\* After a rollback the tree ends with the newest block that remains, or starts above it.
LEMMA ShorterOne ==
  ASSUME NEW c \in Chains, NEW n \in 0..MaxHeight, NEW t, NEW handed, NEW lag,
         Behind(t, c, n, handed, lag), NEW k \in Nat, k < Len(handed), Len(handed) \in Nat,
         NEW shorter, Len(shorter) = k
  PROVE  Behind(RollbackTo(t, k), c, n, shorter, TRUE)
  <1> DEFINE w == RollbackTo(t, k)
             m == Len(t.blocks)
             l == Len(w.blocks)
  <1>1. PICK base \in 0..MaxHeight :
          /\ On(t, c, n, base)
          /\ t.blocks # <<>> => Len(handed) = base + Len(t.blocks)
          /\ t.blocks = <<>> => Len(handed) <= base
    BY DEF Behind
  <1>2. /\ base \in Nat /\ n \in Nat /\ m \in Nat /\ Of(t, c, base) /\ base + m <= n
        /\ (t.blocks = <<>> => m = 0) /\ (t.blocks # <<>> => m >= 1)
        /\ WindowStart(t) # 0 => base < n
    BY <1>1, Numbers, OfParts DEF On
  <1>3. /\ Of(w, c, base) /\ WindowStart(w) = WindowStart(t) /\ l \in 0..m
        /\ l # 0 => base + l <= k
        /\ l # m => base + l + 1 > k
    BY <1>2, RollbackOf
  <1>4. (w.blocks = <<>> => l = 0) /\ (w.blocks # <<>> => l >= 1)
    BY <1>3, OfParts
  <1>5. (m # 0 => Len(handed) = base + m) /\ (m = 0 => Len(handed) <= base)
    BY <1>1, <1>2
  <1> HIDE DEF w, m, l
  <1>6. (l # 0 => k = base + l) /\ (l = 0 => k <= base) /\ base + l <= n
    BY <1>2, <1>3, <1>5
  <1>7. On(w, c, n, base)
    BY <1>2, <1>3, <1>6 DEF On, l
  <1>8. Behind(w, c, n, shorter, TRUE)
    BY <1>4, <1>6, <1>7 DEF Behind, l
  <1> QED
    BY <1>8 DEF w

\* The blocks handed over are the start of the chain.
Handed(c, n, blocks) ==
  /\ blocks \in Seq(Hashes) /\ blocks # <<>> /\ Len(blocks) <= n
  /\ blocks = SubSeq(c, 1, Len(blocks))

\* The end of the loop's body.
LEMMA HandledKeeps ==
  ASSUME IInv, pc = "follow", NEW t, NEW n \in Nat, n <= SnapshotInterval, Handled(t, n),
         Handed(best, Confirmed, followed'), Behind(t, best, Confirmed, followed', lagged),
         n = SnapshotInterval => Whole(t)
  PROVE  IInv'
  <1>1. /\ UNCHANGED worldVars /\ tree' = FillCache(t) /\ live' = {tree'}
        /\ goal' = goal /\ next' = next /\ prev' = prev /\ saved' = saved
    BY DEF Handled, syncVars
  <1>2. \/ n = SnapshotInterval /\ unsaved' = 0 /\ pc' = "save" /\ durable' = saved
        \/ n < SnapshotInterval /\ unsaved' = n /\ pc' = "follow" /\ durable' = durable
    BY Numbers DEF Handled
  <1>3. Stands
    BY <1>1, NodeStands DEF IInv
  <1>4. best \in Chains /\ Confirmed \in 0..MaxHeight
    BY ConfirmedParts DEF IInv
  <1>5. Behind(tree', best, Confirmed, followed', lagged)
    BY <1>1, <1>4, FilledBehind
  <1>6. Held(tree', best, Confirmed, lagged)
    BY <1>5, BehindHeld
  <1>7. ASSUME n = SnapshotInterval PROVE Held(tree', best, Confirmed, FALSE)
    <2>1. PICK base \in 0..MaxHeight : On(t, best, Confirmed, base)
      BY DEF Behind
    <2>2. On(tree', best, Confirmed, base) /\ Whole(tree')
      BY <1>1, <1>4, <1>7, <2>1, FilledOn
    <2> QED
      BY <2>2 DEF Held
  <1>8. Agreed'
    BY <1>1, <1>3, AgreedStays DEF IInv
  <1>9. Control'
    <2>1. unsaved' \in 0..(SnapshotInterval - 1)
      BY <1>2, Numbers
    <2>2. pc' \in {"save", "follow"}
      BY <1>2
    <2> QED
      BY <1>1, <1>3, <2>1, <2>2 DEF IInv, Control, Unbegun, Stands
  <1>10. Stored'
    BY <1>1, <1>2, <1>3, <1>6 DEF IInv, Stored, Stands
  <1>11. Syncing'
    BY <1>2, <1>3, <1>7 DEF Syncing, Stands
  <1>12. Following'
    BY <1>2, <1>3, <1>5 DEF Following, Stands, Handed
  <1> QED
    BY <1>3, <1>8, <1>9, <1>10, <1>11, <1>12 DEF IInv, Stands

\* BlockEvent::NewBlock hands over the next confirmed block of the chain.
LEMMA NextHanded ==
  ASSUME IInv, pc = "follow", Follower!Extend, ConfirmedBlocks(followed')
  PROVE  /\ Handed(best, Confirmed, followed') /\ Len(followed) \in Nat /\ Len(followed) < Confirmed
         /\ Len(followed') = Len(followed) + 1 /\ Last(followed') = best[Len(followed) + 1]
  <1> DEFINE k == Len(followed)
             m == k + 1
  <1>1. /\ best \in Chains /\ Confirmed \in 0..MaxHeight /\ MaxHeight \in Nat /\ deep = FALSE
        /\ followed \in Seq(Hashes) /\ k \in Nat
    <2>1. best \in Chains /\ Confirmed \in 0..MaxHeight /\ MaxHeight \in Nat /\ deep = FALSE
      BY ConfirmedParts, Numbers DEF IInv, NodeType
    <2>2. followed \in Seq(Hashes)
      BY DEF IInv, Following
    <2> QED
      BY <2>1, <2>2
  <1>2. PICK c \in Chains : k < Len(c) /\ followed' = SubSeq(c, 1, m)
    BY DEF Follower!Extend
  <1>3. c \in Seq(Hashes) /\ Len(c) = MaxHeight /\ best \in Seq(Hashes) /\ Len(best) = MaxHeight
    BY <1>1, ChainHash
  <1> HIDE DEF k
  <1>4. followed' = [i \in 1..m |-> c[i]] /\ m \in Nat /\ m <= MaxHeight /\ m >= 1
    BY <1>1, <1>2, <1>3
  <1> HIDE DEF m
  <1>5. \A i \in 1..m : i <= Confirmed /\ c[i] = best[i]
    BY <1>1, <1>4 DEF ConfirmedBlocks
  <1>6. m <= Confirmed /\ followed' = [i \in 1..m |-> best[i]] /\ m \in 1..m
    BY <1>4, <1>5
  <1>7. followed' = SubSeq(best, 1, m)
    BY <1>3, <1>4, <1>6
  <1>8. followed' \in Seq(Hashes) /\ Len(followed') = m /\ followed' # <<>>
        /\ Last(followed') = best[m]
    <2>1. \A i \in 1..m : best[i] \in Hashes
      BY <1>3, <1>4
    <2>2. followed' \in Seq(Hashes) /\ Len(followed') = m
      BY <1>4, <1>6, <2>1
    <2> QED
      BY <1>4, <1>6, <2>2 DEF Last
  <1> QED
    BY <1>1, <1>4, <1>6, <1>7, <1>8 DEF Handed, k, m

\* BlockEvent::NewBlock: a block that does not start where the tree ends shows that the
\* node has lagged.
LEMMA HandleBlockKeeps == ASSUME IInv, HandleBlock PROVE IInv'
  <1> DEFINE k == Len(followed)
             x == best[k + 1]
             w == AppendCommitments(tree, k + 1, x, Commitments[x])
  <1>1. pc = "follow" /\ Follower!Extend /\ ConfirmedBlocks(followed')
    BY DEF HandleBlock
  <1>2. /\ Handed(best, Confirmed, followed') /\ k \in Nat /\ k < Confirmed
        /\ Len(followed') = k + 1 /\ Last(followed') = x
    BY <1>1, NextHanded
  <1>3. /\ best \in Chains /\ Confirmed \in 0..MaxHeight
        /\ Behind(tree, best, Confirmed, followed, lagged)
    BY <1>1, ConfirmedParts DEF IInv, Following
  <1>4. /\ PriorSize(x) = TreeSize(tree) =>
             Whole(w) /\ Behind(w, best, Confirmed, followed', lagged)
        /\ PriorSize(x) # TreeSize(tree) => lagged
    <2> HIDE DEF k
    <2> QED
      BY <1>2, <1>3, NextOne DEF k
  <1>5. CASE PriorSize(x) = TreeSize(tree)
    <2> HIDE DEF w
    <2>1. Handled(w, unsaved + 1)
      BY <1>2, <1>5 DEF HandleBlock, w
    <2>2. unsaved + 1 \in Nat /\ unsaved + 1 <= SnapshotInterval
      BY Numbers DEF IInv, Control
    <2> QED
      BY <1>1, <1>2, <1>4, <1>5, <2>1, <2>2, HandledKeeps
  <1>6. CASE PriorSize(x) # TreeSize(tree)
    <2>1. /\ pc' = "mismatch" /\ UNCHANGED worldVars /\ goal' = goal /\ next' = next /\ prev' = prev
          /\ tree' = tree /\ live' = live /\ unsaved' = unsaved /\ saved' = saved /\ durable' = durable
      BY <1>2, <1>6 DEF HandleBlock, syncVars, fileVars
    <2>2. Stands
      BY <2>1, NodeStands DEF IInv
    <2>3. lagged /\ Held(tree, best, Confirmed, TRUE)
      <3>1. lagged
        BY <1>4, <1>6
      <3>2. Held(tree, best, Confirmed, TRUE)
        BY <1>3 DEF Behind, Held
      <3> QED
        BY <3>1, <3>2
    <2>4. Agreed' /\ Stored'
      BY <2>1, <2>2, AgreedStays, StoredStays DEF IInv
    <2>5. Control'
      BY <2>1, <2>2 DEF IInv, Control, Unbegun, Stands
    <2>6. Syncing'
      BY <2>1 DEF Syncing
    <2>7. Following'
      BY <1>2, <2>1, <2>2, <2>3 DEF Following, Stands, Handed
    <2> QED
      BY <2>2, <2>4, <2>5, <2>6, <2>7 DEF IInv, Stands
  <1> QED
    BY <1>5, <1>6

\* BlockEvent::Reorg: fewer of the same blocks remain.
LEMMA HandleReorgKeeps == ASSUME IInv, HandleReorg PROVE IInv'
  <1> DEFINE l == Len(followed)
             w == RollbackTo(tree, Len(followed'))
  <1>1. /\ pc = "follow" /\ Follower!Retract /\ followed' \notin {<<>>, followed} /\ lagged
        /\ Handled(w, unsaved)
    BY DEF HandleReorg
  <1>2. /\ best \in Chains /\ Confirmed \in 0..MaxHeight /\ MaxHeight \in Nat
        /\ Behind(tree, best, Confirmed, followed, lagged)
    BY <1>1, ConfirmedParts, Numbers DEF IInv, Following
  <1>3. followed \in Seq(Hashes) /\ l \in Nat /\ l <= Confirmed /\ followed = SubSeq(best, 1, l)
    BY DEF IInv, Following
  <1>4. PICK n \in 0..l : followed' = SubSeq(followed, 1, n)
    BY <1>1 DEF Follower!Retract
  <1> HIDE DEF l, w
  <1>5. followed' \in Seq(Hashes) /\ Len(followed') = n /\ n \in Nat /\ n < l
    <2>1. n \in Nat /\ n <= l /\ followed \in Seq(Hashes) /\ Len(followed) = l
      BY <1>3 DEF l
    <2>2. followed' \in Seq(Hashes) /\ Len(followed') = n
      BY <1>4, <2>1
    <2>3. n # l
      <3>1. n = l => followed' = followed
        BY <1>4, <2>1
      <3> QED
        BY <1>1, <3>1
    <2> QED
      BY <2>1, <2>2, <2>3
  <1>6. Handed(best, Confirmed, followed')
    <2>1. best \in Seq(Hashes) /\ Len(best) = MaxHeight /\ l <= MaxHeight
      BY <1>2, <1>3, ChainHash
    <2>2. followed' = SubSeq(best, 1, n)
      BY <1>2, <1>3, <1>4, <1>5, <2>1
    <2>3. n <= Confirmed /\ followed' # <<>>
      BY <1>1, <1>2, <1>3, <1>5
    <2> QED
      BY <1>5, <2>2, <2>3 DEF Handed
  <1>7. Behind(w, best, Confirmed, followed', lagged)
    <2>1. Behind(w, best, Confirmed, followed', TRUE)
      BY <1>2, <1>3, <1>5, ShorterOne DEF w, l
    <2> QED
      BY <1>1, <2>1 DEF Behind
  <1>8. unsaved \in Nat /\ unsaved < SnapshotInterval
    BY Numbers DEF IInv, Control
  <1>9. unsaved <= SnapshotInterval /\ unsaved # SnapshotInterval
    BY <1>8, Numbers
  <1> QED
    BY <1>1, <1>6, <1>7, <1>8, <1>9, HandledKeeps

\* The process ends, and maybe the machine.
LEMMA CrashKeeps == ASSUME IInv, Crash PROVE IInv'
  <1>1. /\ UNCHANGED worldVars /\ pc' = "down" /\ goal' = 0 /\ next' = 0 /\ prev' = NoHash
        /\ tree' = EmptyTree(<<>>) /\ live' = {} /\ unsaved' = 0 /\ followed' = <<>>
        /\ saved' \in {saved, durable} /\ durable' = saved'
    BY DEF Crash
  <1>2. Stands
    BY <1>1, NodeStands DEF IInv
  <1>3. /\ best \in Chains /\ Confirmed \in 0..MaxHeight /\ Confirmed \in Nat /\ MaxHeight \in Nat
    BY ConfirmedParts, Numbers DEF IInv
  <1>4. Agreed' /\ Stored'
    BY <1>1, <1>2, StoredStays DEF Agreed, IInv
  <1>5. Control'
    <2>1. 0 \in 0..Confirmed /\ 0 \in 0..(MaxHeight + 1) /\ 0 \in 0..(SnapshotInterval - 1)
      BY <1>3, Numbers
    <2> QED
      BY <1>1, <1>2, <2>1 DEF Control, Unbegun, Stands
  <1>6. Syncing'
    BY <1>1 DEF Syncing
  <1>7. Following'
    <2>1. <<>> \in Seq(Hashes) /\ Len(<<>>) = 0
      OBVIOUS
    <2>2. best \in Seq(Hashes)
      BY <1>3, ChainHash
    <2>3. SubSeq(best, 1, 0) = <<>>
      BY <2>2
    <2> QED
      BY <1>1, <1>2, <1>3, <2>1, <2>3 DEF Following, Stands
  <1> QED
    BY <1>2, <1>4, <1>5, <1>6, <1>7 DEF IInv, Stands

\* The invariant is inductive.
LEMMA NextKeeps == ASSUME IInv, [Next]_vars PROVE IInv'
  <1>1. CASE ChainStep /\ ~deep' /\ UNCHANGED serverVars
    BY <1>1, NodeKeeps
  <1>2. CASE ReadTip
    BY <1>2, ReadTipKeeps
  <1>3. CASE Load
    BY <1>3, LoadKeeps
  <1>4. CASE FetchRoots
    BY <1>4, FetchRootsKeeps
  <1>5. CASE FetchCompleting
    BY <1>5, FetchCompletingKeeps
  <1>6. CASE SyncBatch
    BY <1>6, SyncBatchKeeps
  <1>7. CASE Publish
    BY <1>7, PublishKeeps
  <1>8. CASE Save
    BY <1>8, SaveKeeps
  <1>9. CASE Connect
    BY <1>9, ConnectKeeps
  <1>10. CASE HandleBlock
    BY <1>10, HandleBlockKeeps
  <1>11. CASE HandleReorg
    BY <1>11, HandleReorgKeeps
  <1>12. CASE Crash
    BY <1>12, CrashKeeps
  <1>13. CASE UNCHANGED vars
    BY <1>13, StutterKeeps
  <1> QED
    BY <1>1, <1>2, <1>3, <1>4, <1>5, <1>6, <1>7, <1>8, <1>9, <1>10, <1>11, <1>12, <1>13 DEF Next

\* Whatever the witness server does and whenever it ends, its tree, the published one and the
\* files are trees of the confirmed chain (sync_into, prepare_tree and run).
THEOREM ServerInvariantHolds == Spec => []IInv
  BY InitHolds, NextKeeps, PTL DEF Spec

-----------------------------------------------------------------------------
(* What the invariant says of the trees *)

\* A tree of a chain holds values of its types.
Typed(t) ==
  /\ t.leaves \in Seq(Leaves)
  /\ t.blocks \in Seq([height : Heights, hash : Hashes, num : Nat])
  /\ LeavesUpTo(t.blocks)[Len(t.blocks)] = Len(t.leaves)

LEMMA HeldTyped ==
  ASSUME NEW c \in Chains, NEW n, NEW t, NEW lag, Held(t, c, n, lag)
  PROVE  Typed(t)
  <1>1. PICK base \in 0..MaxHeight : Of(t, c, base)
    BY DEF Held, On
  <1> QED
    BY <1>1, OfParts DEF Typed, Ingested

\* The tree of the running server is one of the chain, whatever the server does.
LEMMA TreeTyped == ASSUME IInv PROVE Typed(tree)
  <1>1. best \in Chains /\ Confirmed \in 0..MaxHeight
    BY ConfirmedParts DEF IInv
  <1>2. CASE pc \in Unbegun
    <2>1. tree = EmptyTree(<<>>)
      BY <1>2 DEF IInv, Control
    <2>2. Held(tree, best, Confirmed, FALSE)
      BY <1>1, <2>1, EmptyHeld
    <2> QED
      BY <1>1, <2>2, HeldTyped
  <1>3. CASE pc = "completing"
    <2>1. Of(tree, best, next - 2)
      BY <1>3 DEF IInv, Syncing
    <2> QED
      BY <1>1, <2>1, OfParts DEF Typed, Ingested
  <1>4. CASE pc \in {"sync", "save", "connect"}
    <2>1. Held(tree, best, Confirmed, FALSE)
      BY <1>4 DEF IInv, Syncing
    <2> QED
      BY <1>1, <2>1, HeldTyped
  <1>5. CASE pc = "follow"
    <2>1. Held(tree, best, Confirmed, lagged)
      BY <1>5, BehindHeld DEF IInv, Following
    <2> QED
      BY <1>1, <2>1, HeldTyped
  <1>6. CASE pc = "mismatch"
    <2>1. Held(tree, best, Confirmed, TRUE)
      BY <1>6 DEF IInv, Following
    <2> QED
      BY <1>1, <2>1, HeldTyped
  <1> QED
    BY <1>2, <1>3, <1>4, <1>5, <1>6 DEF IInv, Control

\* Every variable of the server holds a value of its type (TypeOK).
THEOREM ServerTypeCorrect == Spec => []TypeOK
  <1>1. ASSUME IInv PROVE TypeOK
    <2>1. best \in Chains /\ Confirmed \in 0..MaxHeight /\ MaxHeight \in Nat
      BY <1>1, ConfirmedParts, Numbers DEF IInv
    <2>2. ASSUME NEW t \in Trees PROVE Typed(t)
      <3>1. CASE t = tree
        BY <1>1, <3>1, TreeTyped
      <3>2. CASE t \in saved \cup durable
        BY <1>1, <2>1, <3>2, HeldTyped DEF IInv, Stored
      <3>3. CASE t \in live
        BY <1>1, <2>1, <3>3, HeldTyped DEF IInv, Stored
      <3> QED
        BY <3>1, <3>2, <3>3 DEF Trees
    <2>3. goal \in 0..MaxHeight
      BY <1>1, <2>1 DEF IInv, Control
    <2> QED
      BY <1>1, <2>2, <2>3 DEF IInv, Control, Unbegun, Following, TypeOK, Typed
  <1> QED
    BY <1>1, ServerInvariantHolds, PTL

\* Exact, as TreesExact says it of the trees that are saved.
ExactTree(t) ==
  IF t.blocks = <<>> THEN t = EmptyTree(<<>>)
  ELSE /\ ConfirmedBlocks([h \in {LastHeight(t)} |-> Last(t.blocks).hash])
       /\ IsTreeOf(t, Last(t.blocks).hash)

\* A tree of the first confirmed blocks is exact, or it has lost the start of its window.
LEMMA HeldExact ==
  ASSUME NodeType, NEW t, NEW lag, Held(t, best, Confirmed, lag)
  PROVE  ExactTree(t) \/ (lag /\ t.blocks = <<>> /\ t.leaves = <<>>)
  <1>1. best \in Chains /\ Confirmed \in 0..MaxHeight
    BY ConfirmedParts
  <1>2. PICK base \in 0..MaxHeight : On(t, best, Confirmed, base) /\ (Whole(t) \/ lag)
    BY DEF Held
  <1>3. CASE Whole(t)
    <2>1. Held(t, best, Confirmed, FALSE)
      BY <1>2, <1>3 DEF Held
    <2>2. /\ t.blocks = <<>> => t = EmptyTree(<<>>)
          /\ t.blocks # <<>> =>
               /\ LastHeight(t) \in 1..Confirmed /\ Last(t.blocks).hash = best[LastHeight(t)]
               /\ IsTreeOf(t, Last(t.blocks).hash)
      BY <1>1, <2>1, HeldParts
    <2>3. t.blocks # <<>> => ConfirmedBlocks([h \in {LastHeight(t)} |-> Last(t.blocks).hash])
      BY <1>1, <2>2 DEF ConfirmedBlocks
    <2> QED
      BY <2>2, <2>3 DEF ExactTree
  <1>4. CASE ~Whole(t)
    <2>1. lag /\ t.blocks = <<>>
      BY <1>2, <1>4 DEF Whole
    <2>2. t.leaves = <<>>
      BY <1>1, <1>2, <2>1, OfParts DEF On
    <2> QED
      BY <2>1, <2>2
  <1> QED
    BY <1>3, <1>4

\* The roots, the shard-completing block and the batches of a sync come from a node that may
\* change chain or lag between the calls; still every tree that the server saves or publishes
\* is the network's tree after a confirmed block (TreesExact).
THEOREM AllTreesExact == Spec => []TreesExact
  <1>1. ASSUME IInv PROVE TreesExact
    <2>1. ASSUME NEW t \in saved \cup durable PROVE ExactTree(t)
      <3>1. Held(t, best, Confirmed, FALSE)
        BY <1>1 DEF IInv, Stored
      <3> QED
        BY <1>1, <3>1, HeldExact DEF IInv
    <2>2. ASSUME NEW t \in live
          PROVE  ExactTree(t) \/ (lagged /\ t.blocks = <<>> /\ t.leaves = <<>>)
      <3>1. Held(t, best, Confirmed, lagged)
        BY <1>1 DEF IInv, Stored
      <3> QED
        BY <1>1, <3>1, HeldExact DEF IInv
    <2>3. pc = "mismatch" => lagged
      BY <1>1 DEF IInv, Following
    <2> QED
      BY <2>1, <2>2, <2>3 DEF TreesExact, ExactTree
  <1> QED
    BY <1>1, ServerInvariantHolds, PTL
=============================================================================
