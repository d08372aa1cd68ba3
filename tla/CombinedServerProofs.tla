------------------------ MODULE CombinedServerProofs ------------------------
(***************************************************************************)
(* For every set of chains, tree sizes, nullifier counts, target size and  *)
(* snapshot interval, and for any number of crashes between any two steps: *)
(* the two stores of the combined server stay in step, on one chain unless *)
(* a restart resumed above an orphaned block, their snapshots resume, and  *)
(* both endpoints serve the same blocks.                                   *)
(***************************************************************************)
EXTENDS CombinedServer, PipelineProofs, FiniteSetTheorems

-----------------------------------------------------------------------------
(* The block index of the nullifier table *)

\* The heights of an index have no gap.
Interval(db) == \A g, h \in DOMAIN db : g..h \subseteq DOMAIN db

\* What an index of the table is.
LEMMA NfParts ==
  ASSUME NEW db \in NfIndexes
  PROVE  /\ DOMAIN db \in SUBSET Heights /\ DOMAIN db \in SUBSET (0..MaxHeight)
         /\ db = [h \in DOMAIN db |-> db[h]] /\ \A h \in DOMAIN db : db[h] \in Hashes
  <1>1. PICK hs \in SUBSET Heights : db \in [hs -> Hashes]
    BY DEF NfIndexes
  <1>2. DOMAIN db \in SUBSET Heights /\ db = [h \in DOMAIN db |-> db[h]]
        /\ \A h \in DOMAIN db : db[h] \in Hashes
    BY <1>1
  <1>3. \A h \in DOMAIN db : h \in 0..MaxHeight
    BY <1>2, Numbers
  <1> QED
    BY <1>2, <1>3

\* A function from heights to hashes is an index.
LEMMA NfIntro ==
  ASSUME NEW hs \in SUBSET Heights, NEW db \in [hs -> Hashes]
  PROVE  db \in NfIndexes
  BY DEF NfIndexes

\* The newest height of an index.
LEMMA NewestNfIs ==
  ASSUME NEW db \in NfIndexes
  PROVE  /\ NewestNf(db) \in Nat /\ NewestNf(db) <= MaxHeight
         /\ DOMAIN db = {} => NewestNf(db) = 0
         /\ DOMAIN db # {} => NewestNf(db) \in DOMAIN db /\ NewestNf(db) \in Heights
         /\ \A h \in DOMAIN db : h <= NewestNf(db) /\ h \in Heights
  <1>1. DOMAIN db \in SUBSET Heights /\ DOMAIN db \in SUBSET (0..MaxHeight) /\ MaxHeight \in Nat
    BY NfParts, Numbers
  <1>2. CASE DOMAIN db = {}
    BY <1>1, <1>2 DEF NewestNf
  <1>3. CASE DOMAIN db # {}
    <2>1. NewestNf(db) = Max(DOMAIN db)
      BY <1>3 DEF NewestNf
    <2>2. Max(DOMAIN db) \in DOMAIN db /\ \A h \in DOMAIN db : h <= Max(DOMAIN db)
      BY <1>1, <1>3, MaxIsGreatest
    <2>3. NewestNf(db) \in Heights
      BY <1>1, <2>1, <2>2
    <2> QED
      BY <1>1, <1>3, <2>1, <2>2, <2>3, Numbers
  <1> QED
    BY <1>2, <1>3

\* A height above which the index holds none is its newest.
LEMMA NewestNfUnique ==
  ASSUME NEW db \in NfIndexes, NEW n \in DOMAIN db, \A h \in DOMAIN db : h <= n
  PROVE  NewestNf(db) = n
  <1>1. NewestNf(db) \in DOMAIN db /\ n <= NewestNf(db) /\ NewestNf(db) \in Nat /\ n \in Heights
    BY NewestNfIs
  <1>2. n \in Nat /\ NewestNf(db) <= n
    BY <1>1, Numbers
  <1> QED
    BY <1>1, <1>2

\* An index without gaps holds every height from one of its own to its newest.
LEMMA IntervalHolds ==
  ASSUME NEW db \in NfIndexes, Interval(db), NEW g \in DOMAIN db, NEW h \in Nat,
         g <= h, h <= NewestNf(db)
  PROVE  h \in DOMAIN db
  <1>1. NewestNf(db) \in DOMAIN db /\ g \in Heights /\ NewestNf(db) \in Heights
    BY NewestNfIs
  <1>2. h \in g..NewestNf(db)
    BY <1>1, Numbers
  <1> QED
    BY <1>1, <1>2 DEF Interval

\* Some of the heights of an index.
LEMMA PartOfNf ==
  ASSUME NEW db \in NfIndexes, NEW hs \in SUBSET DOMAIN db, NEW part, part = [h \in hs |-> db[h]]
  PROVE  /\ part \in NfIndexes /\ DOMAIN part = hs /\ \A h \in hs : part[h] = db[h]
  <1>1. hs \in SUBSET Heights /\ \A h \in hs : db[h] \in Hashes
    BY NfParts
  <1>2. part \in [hs -> Hashes]
    BY <1>1
  <1> QED
    BY <1>1, <1>2, NfIntro

-----------------------------------------------------------------------------
(* evict_to_size *)

\* What the recursive function of the model counts: the more heights, the more nullifiers.
LEMMA CountGrows ==
  ASSUME NEW db \in NfIndexes
  PROVE  /\ \A n \in 0..MaxHeight : CountDown(db)[n] \in Nat
         /\ \A n \in 1..MaxHeight : CountDown(db)[n - 1] <= CountDown(db)[n]
         /\ CountDown(db)[0] = 0
         /\ \A n \in 1..MaxHeight : CountDown(db)[n] =
              CountDown(db)[n - 1] + (IF MaxHeight + 1 - n \in DOMAIN db
                                      THEN NullifierCount[db[MaxHeight + 1 - n]] ELSE 0)
  <1> DEFINE N == MaxHeight
             more(h) == IF h \in DOMAIN db THEN NullifierCount[db[h]] ELSE 0
             step == [p \in Inputs(N, Nat) |-> p[2] + more(N + 1 - p[1])]
             Eq(f) == f = [n \in 0..N |-> IF n = 0 THEN 0
                                          ELSE LET h == N + 1 - n
                                               IN  f[n - 1] + (IF h \in DOMAIN db
                                                               THEN NullifierCount[db[h]] ELSE 0)]
  <1>1. N \in Nat /\ \A h : more(h) \in Nat
    <2>1. NullifierCount \in [Hashes -> Nat]
      BY ServerAssumption
    <2> QED
      BY <2>1, NfParts, Numbers
  <1> HIDE DEF more, N
  <1>2. step \in [Inputs(N, Nat) -> Nat]
    BY <1>1 DEF Inputs
  <1>3. \A n \in 1..N, x \in Nat : step[<<n, x>>] = x + more(N + 1 - n)
    BY DEF Inputs
  <1> HIDE DEF step
  <1>4. PICK f : f \in [0..N -> Nat] /\ f[0] = 0 /\ \A n \in 1..N : f[n] = step[<<n, f[n - 1]>>]
    <2> DEFINE zero == 0
    <2>1. zero \in Nat
      OBVIOUS
    <2> HIDE DEF zero
    <2>2. \E f : Runs(f, N, Nat, zero, step)
      BY <1>1, <1>2, <2>1, Recursion
    <2> QED
      BY <2>2 DEF zero, Runs
  <1>5. \A n \in 1..N : n - 1 \in 0..N /\ f[n] = f[n - 1] + more(N + 1 - n)
    <2> TAKE n \in 1..N
    <2>1. n - 1 \in 0..N
      BY <1>1
    <2>2. f[n - 1] \in Nat
      BY <1>4, <2>1
    <2> QED
      BY <1>3, <1>4, <2>1, <2>2
  <1>6. Eq(f)
    <2>1. \A n \in 0..N : f[n] = IF n = 0 THEN 0
                                 ELSE LET h == N + 1 - n
                                      IN  f[n - 1] + (IF h \in DOMAIN db
                                                      THEN NullifierCount[db[h]] ELSE 0)
      <3> TAKE n \in 0..N
      <3>1. CASE n = 0
        BY <1>4, <3>1
      <3>2. CASE n # 0
        <4>1. n \in 1..N
          BY <1>1, <3>2
        <4>2. f[n] = f[n - 1] + more(N + 1 - n)
          BY <1>5, <4>1
        <4> QED
          BY <3>2, <4>2 DEF more
      <3> QED
        BY <3>1, <3>2
    <2>2. f = [n \in 0..N |-> f[n]]
      BY <1>4
    <2> QED
      BY <2>1, <2>2
  <1>7. CountDown(db) = CHOOSE h : Eq(h)
    BY DEF CountDown, N
  <1>8. Eq(CountDown(db))
    <2> HIDE DEF Eq
    <2> QED
      BY <1>6, <1>7
  <1> DEFINE count == CountDown(db)
  <1> HIDE DEF count
  <1>9. count = [n \in 0..N |-> IF n = 0 THEN 0
                                ELSE LET h == N + 1 - n
                                     IN  count[n - 1] + (IF h \in DOMAIN db
                                                         THEN NullifierCount[db[h]] ELSE 0)]
    BY <1>8 DEF count
  <1>10. /\ count[0] = 0
         /\ \A n \in 1..N : count[n] = count[n - 1] + more(N + 1 - n)
    <2>1. count[0] = 0
      BY <1>1, <1>9
    <2>2. ASSUME NEW n \in 1..N PROVE count[n] = count[n - 1] + more(N + 1 - n)
      <3>1. n \in 0..N /\ n # 0
        BY <1>1
      <3> QED
        BY <1>9, <3>1 DEF more
    <2> QED
      BY <2>1, <2>2
  <1> DEFINE T == {n \in 0..N : count[n] \in Nat}
  <1>11. \A n \in 0..N : n \in T
    <2>1. 0 \in T
      BY <1>1, <1>10
    <2>2. ASSUME NEW n \in 0..(N - 1), n \in T PROVE n + 1 \in T
      <3>1. n + 1 \in 1..N /\ n + 1 \in 0..N /\ (n + 1) - 1 = n /\ count[n] \in Nat
        BY <1>1, <2>2
      <3>2. count[n + 1] = count[n] + more(N + 1 - (n + 1))
        BY <1>10, <3>1
      <3>3. more(N + 1 - (n + 1)) \in Nat
        BY <1>1
      <3> QED
        BY <3>1, <3>2, <3>3
    <2> HIDE DEF T
    <2> QED
      BY <1>1, <2>1, <2>2, UpTo
  <1>12. \A n \in 1..N : count[n - 1] <= count[n]
    <2> TAKE n \in 1..N
    <2>1. n - 1 \in 0..N
      BY <1>1
    <2>2. count[n - 1] \in Nat /\ more(N + 1 - n) \in Nat
      BY <1>1, <1>11, <2>1
    <2> QED
      BY <1>10, <2>2
  <1> QED
    BY <1>10, <1>11, <1>12 DEF count, N, more

\* Above an index's newest height nothing is counted.
LEMMA NewestCounted ==
  ASSUME NEW db \in NfIndexes, DOMAIN db # {}
  PROVE  /\ CountDown(db)[MaxHeight + 1 - NewestNf(db)] = NullifierCount[db[NewestNf(db)]]
         /\ NullifierCount[db[NewestNf(db)]] \in Nat
  <1> DEFINE N == MaxHeight
             z == NewestNf(db)
             d == N - z
             count == CountDown(db)
             T == {k \in 0..d : count[k] = 0}
  <1>1. /\ N \in Nat /\ z \in DOMAIN db /\ z \in 1..N /\ \A h \in DOMAIN db : h <= z
        /\ NullifierCount[db[z]] \in Nat
    <2>1. NullifierCount \in [Hashes -> Nat]
      BY ServerAssumption
    <2> QED
      BY <2>1, NewestNfIs, NfParts, Numbers
  <1>2. /\ count[0] = 0
        /\ \A n \in 1..N : count[n] = count[n - 1] + (IF N + 1 - n \in DOMAIN db
                                                      THEN NullifierCount[db[N + 1 - n]] ELSE 0)
    BY CountGrows
  <1> HIDE DEF count, z, N
  <1>3. 0 \in T
    BY <1>1, <1>2
  <1>4. ASSUME NEW k \in 0..(d - 1), k \in T PROVE k + 1 \in T
    <2>1. k + 1 \in 1..N /\ (k + 1) - 1 = k /\ k + 1 \in 0..d /\ ~ (N + 1 - (k + 1) <= z)
      BY <1>1
    <2>2. N + 1 - (k + 1) \notin DOMAIN db
      BY <1>1, <2>1
    <2>3. count[k] = 0
      BY <1>4
    <2> QED
      BY <1>2, <2>1, <2>2, <2>3
  <1>5. count[d] = 0
    <2> HIDE DEF T
    <2>1. d \in Nat
      BY <1>1
    <2>2. \A k \in 0..d : k \in T
      BY <1>3, <1>4, <2>1, UpTo
    <2>3. d \in T
      BY <2>1, <2>2
    <2> QED
      BY <2>3 DEF T
  <1>6. N + 1 - z \in 1..N /\ (N + 1 - z) - 1 = d /\ N + 1 - (N + 1 - z) = z
    BY <1>1
  <1>7. count[N + 1 - z] = 0 + NullifierCount[db[z]]
    BY <1>1, <1>2, <1>5, <1>6
  <1> QED
    BY <1>1, <1>7 DEF count, z, N

\* The counts of two heights: the higher one counts no more.
LEMMA CountOrdered ==
  ASSUME NEW db \in NfIndexes, NEW g \in Heights, NEW h \in Heights, g <= h
  PROVE  /\ CountDown(db)[MaxHeight + 1 - h] <= CountDown(db)[MaxHeight + 1 - g]
         /\ CountDown(db)[MaxHeight + 1 - h] \in Nat /\ CountDown(db)[MaxHeight + 1 - g] \in Nat
  <1> DEFINE N == MaxHeight
             a == N + 1 - h
             d == h - g
             count == CountDown(db)
             T == {k \in 0..d : count[a] <= count[a + k]}
  <1>1. /\ N \in Nat /\ a \in 1..N /\ d \in Nat /\ a + d = N + 1 - g /\ a + d \in 1..N
    BY Numbers
  <1>2. /\ \A n \in 0..N : count[n] \in Nat
        /\ \A n \in 1..N : count[n - 1] <= count[n]
    BY CountGrows
  <1> HIDE DEF count, a, d, N
  <1>3. 0 \in T
    BY <1>1, <1>2
  <1>4. ASSUME NEW k \in 0..(d - 1), k \in T PROVE k + 1 \in T
    <2>1. /\ k + 1 \in 0..d /\ a + (k + 1) \in 1..N /\ (a + (k + 1)) - 1 = a + k
          /\ a + k \in 0..N /\ a + (k + 1) \in 0..N /\ a \in 0..N
      BY <1>1, <1>4
    <2>2. count[a + k] <= count[a + (k + 1)] /\ count[a] <= count[a + k]
      BY <1>2, <1>4, <2>1
    <2>3. count[a] \in Nat /\ count[a + k] \in Nat /\ count[a + (k + 1)] \in Nat
      BY <1>2, <2>1
    <2>4. count[a] <= count[a + (k + 1)]
      BY <2>2, <2>3
    <2> QED
      BY <2>1, <2>4
  <1>5. d \in T
    <2> HIDE DEF T
    <2>1. \A k \in 0..d : k \in T
      BY <1>1, <1>3, <1>4, UpTo
    <2> QED
      BY <1>1, <2>1
  <1>6. count[a] <= count[a + d] /\ count[a] \in Nat /\ count[a + d] \in Nat
    BY <1>1, <1>2, <1>5
  <1> QED
    BY <1>1, <1>6 DEF count, a, N

\* Eviction takes the lowest heights, and leaves the rest as it is.
LEMMA EvictKeeps ==
  ASSUME NEW db \in NfIndexes
  PROVE  LET kept == EvictToSize(db)
         IN  /\ kept \in NfIndexes /\ DOMAIN kept \subseteq DOMAIN db
             /\ \A h \in DOMAIN kept : kept[h] = db[h]
             /\ Interval(db) => Interval(kept)
             /\ DOMAIN kept # {} => NewestNf(kept) = NewestNf(db)
             /\ DOMAIN db # {} /\ DOMAIN kept = {} =>
                  NullifierCount[db[NewestNf(db)]] > TargetSize
  <1> DEFINE hs == {g \in DOMAIN db : CountDown(db)[MaxHeight + 1 - g] <= TargetSize}
             kept == EvictToSize(db)
  <1>1. hs \in SUBSET DOMAIN db /\ kept = [h \in hs |-> db[h]]
    BY DEF EvictToSize
  <1>2. TargetSize \in Nat
    BY ServerAssumption
  <1>3. ASSUME NEW g \in hs, NEW h \in DOMAIN db, g <= h PROVE h \in hs
    <2>1. g \in Heights /\ h \in Heights
      BY NfParts
    <2>2. /\ CountDown(db)[MaxHeight + 1 - h] <= CountDown(db)[MaxHeight + 1 - g]
          /\ CountDown(db)[MaxHeight + 1 - h] \in Nat /\ CountDown(db)[MaxHeight + 1 - g] \in Nat
      BY <1>3, <2>1, CountOrdered
    <2> QED
      BY <1>2, <2>2
  <1>7. DOMAIN db # {} /\ hs = {} => NullifierCount[db[NewestNf(db)]] > TargetSize
    <2> SUFFICES ASSUME DOMAIN db # {}, hs = {} PROVE NullifierCount[db[NewestNf(db)]] > TargetSize
      OBVIOUS
    <2>1. NewestNf(db) \in DOMAIN db
      BY NewestNfIs
    <2>2. ~ (CountDown(db)[MaxHeight + 1 - NewestNf(db)] <= TargetSize)
      BY <2>1
    <2> QED
      BY <1>2, <2>2, NewestCounted
  <1> HIDE DEF hs, kept
  <1>4. kept \in NfIndexes /\ DOMAIN kept = hs /\ \A h \in hs : kept[h] = db[h]
    BY <1>1, PartOfNf
  <1>5. Interval(db) => Interval(kept)
    <2> SUFFICES ASSUME Interval(db), NEW g \in hs, NEW h \in hs, NEW k \in g..h PROVE k \in hs
      BY <1>4 DEF Interval
    <2>1. k \in DOMAIN db
      BY <1>1 DEF Interval
    <2>2. g \in Heights /\ h \in Heights
      BY <1>1, NfParts
    <2>3. g <= k
      BY <2>2, Numbers
    <2> QED
      BY <1>3, <2>1, <2>3
  <1>6. DOMAIN kept # {} => NewestNf(kept) = NewestNf(db)
    <2> SUFFICES ASSUME NEW g \in hs PROVE NewestNf(kept) = NewestNf(db)
      BY <1>4
    <2>1. /\ NewestNf(db) \in DOMAIN db /\ g <= NewestNf(db)
          /\ \A h \in DOMAIN db : h <= NewestNf(db)
      BY <1>1, NewestNfIs
    <2>2. NewestNf(db) \in hs
      BY <1>3, <2>1
    <2>3. \A h \in hs : h <= NewestNf(db)
      BY <1>1, <2>1
    <2> QED
      BY <1>4, <2>2, <2>3, NewestNfUnique
  <1> QED
    BY <1>1, <1>4, <1>5, <1>6, <1>7 DEF kept

\* apply_block and evict_to_size: the next block goes in, and the oldest may go out.
LEMMA InsertKeeps ==
  ASSUME NEW db \in NfIndexes, Interval(db), NEW b, b.height \in Heights, b.hash \in Hashes,
         DOMAIN db # {} => b.height = NewestNf(db) + 1
  PROVE  LET longer == InsertBlock(db, b)
         IN  /\ longer \in NfIndexes /\ Interval(longer) /\ NewestNf(longer) = b.height
             /\ \A h \in DOMAIN longer : IF h = b.height THEN longer[h] = b.hash
                                         ELSE h \in DOMAIN db /\ longer[h] = db[h]
  <1> DEFINE n == b.height
             x == b.hash
             hs == DOMAIN db \cup {n}
             longer == InsertBlock(db, b)
  <1>1. longer = [h \in hs |-> IF h = n THEN x ELSE db[h]]
    BY DEF InsertBlock
  <1>2. /\ DOMAIN db \in SUBSET Heights /\ \A h \in DOMAIN db : db[h] \in Hashes
        /\ n \in Heights /\ x \in Hashes
    BY NfParts
  <1>3. DOMAIN db # {} => n = NewestNf(db) + 1
    OBVIOUS
  <1> HIDE DEF n, x, longer
  <1>4. hs \in SUBSET Heights /\ longer \in [hs -> Hashes]
    BY <1>1, <1>2
  <1>5. longer \in NfIndexes /\ DOMAIN longer = hs
        /\ \A h \in hs : IF h = n THEN longer[h] = x ELSE h \in DOMAIN db /\ longer[h] = db[h]
    BY <1>1, <1>4, NfIntro
  <1>6. /\ \A h \in DOMAIN db : h < n /\ h \in Nat /\ h <= NewestNf(db)
        /\ n \in Nat /\ NewestNf(db) \in Nat
    <2>1. \A h \in DOMAIN db : h <= NewestNf(db) /\ h \in Heights /\ NewestNf(db) \in Nat
      BY NewestNfIs
    <2>2. n \in Nat /\ \A h \in DOMAIN db : h \in Nat
      BY <1>2, Numbers
    <2>3. NewestNf(db) \in Nat
      BY NewestNfIs
    <2> QED
      BY <1>3, <2>1, <2>2, <2>3
  <1>7. Interval(longer)
    <2> SUFFICES ASSUME NEW g \in hs, NEW h \in hs, NEW k \in g..h PROVE k \in hs
      BY <1>5 DEF Interval
    <2>1. k \in Nat /\ g <= k /\ k <= h /\ g \in Nat /\ h \in Nat
      BY <1>6
    <2>2. CASE k = n
      BY <2>2
    <2>3. CASE k # n
      <3>1. k < n /\ g < n /\ g \in DOMAIN db
        BY <1>6, <2>1, <2>3
      <3>2. k <= NewestNf(db)
        BY <1>3, <1>6, <2>1, <3>1
      <3> QED
        BY <2>1, <3>1, <3>2, IntervalHolds
    <2> QED
      BY <2>2, <2>3
  <1>8. NewestNf(longer) = n
    <2>1. n \in hs /\ \A h \in hs : h <= n
      BY <1>6
    <2> QED
      BY <1>5, <2>1, NewestNfUnique
  <1> QED
    BY <1>5, <1>7, <1>8 DEF longer, n, x

\* Types alone, for any block.
LEMMA InsertTyped ==
  ASSUME NEW db \in NfIndexes, NEW b, b.height \in Heights, b.hash \in Hashes
  PROVE  InsertBlock(db, b) \in NfIndexes
  <1> DEFINE hs == DOMAIN db \cup {b.height}
  <1>1. hs \in SUBSET Heights /\ \A h \in DOMAIN db : db[h] \in Hashes
    BY NfParts
  <1>2. InsertBlock(db, b) \in [hs -> Hashes]
    BY <1>1 DEF InsertBlock
  <1> QED
    BY <1>1, <1>2, NfIntro

\* rollback_to: the heights above the fork go.
LEMMA CutNf ==
  ASSUME NEW db \in NfIndexes, Interval(db), NEW fork \in Nat,
         DOMAIN db # {} => fork <= NewestNf(db),
         NEW cut, cut = [h \in {g \in DOMAIN db : g <= fork} |-> db[h]]
  PROVE  /\ cut \in NfIndexes /\ Interval(cut)
         /\ DOMAIN cut # {} => NewestNf(cut) = fork
         /\ \A h \in DOMAIN cut : h \in DOMAIN db /\ h <= fork /\ cut[h] = db[h]
  <1> DEFINE hs == {g \in DOMAIN db : g <= fork}
  <1>1. hs \in SUBSET DOMAIN db
    OBVIOUS
  <1>2. cut \in NfIndexes /\ DOMAIN cut = hs /\ \A h \in hs : cut[h] = db[h]
    <2>1. cut = [h \in hs |-> db[h]]
      OBVIOUS
    <2> HIDE DEF hs
    <2> QED
      BY <1>1, <2>1, PartOfNf
  <1>3. Interval(cut)
    <2> SUFFICES ASSUME NEW g \in hs, NEW h \in hs, NEW k \in g..h PROVE k \in hs
      BY <1>2 DEF Interval
    <2>1. g \in Nat /\ h \in Nat /\ k \in DOMAIN db
      <3>1. g \in Heights /\ h \in Heights
        BY NewestNfIs
      <3> QED
        BY <3>1, Numbers DEF Interval
    <2> QED
      BY <2>1
  <1>4. DOMAIN cut # {} => NewestNf(cut) = fork
    <2> SUFFICES ASSUME NEW g \in hs PROVE NewestNf(cut) = fork
      BY <1>2
    <2>1. fork \in DOMAIN db
      BY IntervalHolds
    <2>2. fork \in DOMAIN cut /\ \A h \in DOMAIN cut : h <= fork
      BY <1>2, <2>1
    <2> QED
      BY <1>2, <2>2, NewestNfUnique
  <1> QED
    BY <1>2, <1>3, <1>4

-----------------------------------------------------------------------------
(* The block records of the commitment tree *)

\* The records are of consecutive blocks.
NoGap(t) == \A i, j \in DOMAIN t.blocks : t.blocks[j].height - t.blocks[i].height = j - i

\* What a tree is.
LEMMA TreeParts ==
  ASSUME NEW t \in Trees
  PROVE  /\ t.windowed \in BOOLEAN /\ t.blocks \in Seq(Records) /\ Len(t.blocks) \in Nat
         /\ DOMAIN t.blocks = 1..Len(t.blocks)
         /\ \A i \in 1..Len(t.blocks) : t.blocks[i].height \in Heights /\ t.blocks[i].hash \in Hashes
  <1>1. /\ t.windowed \in BOOLEAN /\ t.blocks \in Seq([height : Heights, hash : Hashes])
    BY DEF Trees
  <1>2. t.blocks \in Seq(Records) /\ Len(t.blocks) \in Nat /\ DOMAIN t.blocks = 1..Len(t.blocks)
    BY <1>1 DEF Records
  <1>3. \A i \in 1..Len(t.blocks) : t.blocks[i] \in Records
    BY <1>2
  <1>4. \A i \in 1..Len(t.blocks) : t.blocks[i].height \in Heights /\ t.blocks[i].hash \in Hashes
    BY <1>3 DEF Records
  <1> QED
    BY <1>1, <1>2, <1>4

\* Other records in the same tree.
LEMMA TreeWith ==
  ASSUME NEW t \in Trees, NEW blocks \in Seq(Records), NEW new, new = [t EXCEPT !.blocks = blocks]
  PROVE  new \in Trees /\ new.windowed = t.windowed /\ new.blocks = blocks
  BY DEF Trees, Records

\* The newest height of a tree, and the heights of its records.
LEMMA NewestTreeIs ==
  ASSUME NEW t \in Trees
  PROVE  /\ NewestTree(t) \in Nat /\ NewestTree(t) <= MaxHeight
         /\ t.blocks = <<>> <=> NewestTree(t) = 0
         /\ t.blocks # <<>> =>
              /\ NewestTree(t) \in Heights /\ Len(t.blocks) \in 1..Len(t.blocks)
              /\ Last(t.blocks) = t.blocks[Len(t.blocks)]
              /\ NewestTree(t) = t.blocks[Len(t.blocks)].height
         /\ NoGap(t) => \A i \in 1..Len(t.blocks) :
              /\ t.blocks[i].height = NewestTree(t) - (Len(t.blocks) - i)
              /\ t.blocks[i].height <= NewestTree(t)
  <1>1. /\ t.blocks \in Seq(Records) /\ Len(t.blocks) \in Nat /\ DOMAIN t.blocks = 1..Len(t.blocks)
        /\ \A i \in 1..Len(t.blocks) : t.blocks[i].height \in Heights
    BY TreeParts
  <1>2. CASE t.blocks = <<>>
    BY <1>1, <1>2, Numbers DEF NewestTree
  <1>3. CASE t.blocks # <<>>
    <2>1. Len(t.blocks) \in 1..Len(t.blocks)
      BY <1>1, <1>3
    <2>2. Last(t.blocks) = t.blocks[Len(t.blocks)]
      BY DEF Last
    <2>3. NewestTree(t) = t.blocks[Len(t.blocks)].height
      BY <1>3, <2>2 DEF NewestTree
    <2>4. NewestTree(t) \in Heights /\ NewestTree(t) \in Nat \ {0} /\ NewestTree(t) <= MaxHeight
      BY <1>1, <2>1, <2>3, Numbers
    <2>5. ASSUME NoGap(t), NEW i \in 1..Len(t.blocks)
          PROVE  /\ t.blocks[i].height = NewestTree(t) - (Len(t.blocks) - i)
                 /\ t.blocks[i].height <= NewestTree(t)
      <3>1. t.blocks[Len(t.blocks)].height - t.blocks[i].height = Len(t.blocks) - i
        BY <1>1, <2>1, <2>5 DEF NoGap
      <3>2. t.blocks[i].height \in Nat
        BY <1>1, Numbers
      <3> DEFINE a == t.blocks[i].height
                 z == NewestTree(t)
                 n == Len(t.blocks)
      <3>3. z - a = n - i /\ a \in Nat /\ z \in Nat /\ n \in Nat /\ i \in 1..n
        BY <1>1, <2>3, <2>4, <3>1, <3>2
      <3> HIDE DEF a, z, n
      <3>4. a = z - (n - i) /\ a <= z
        BY <3>3
      <3> QED
        BY <3>4 DEF a, z, n
    <2> QED
      BY <1>3, <2>1, <2>2, <2>3, <2>4, <2>5
  <1> QED
    BY <1>2, <1>3

\* append_commitments: the next block.
LEMMA AppendKeeps ==
  ASSUME NEW t \in Trees, NEW b, b.height \in Heights, b.hash \in Hashes
  PROVE  LET longer == AppendBlock(t, b)
         IN  /\ longer \in Trees /\ longer.windowed = t.windowed /\ longer.blocks # <<>>
             /\ Len(longer.blocks) = Len(t.blocks) + 1
             /\ NewestTree(longer) = b.height
             /\ Last(longer.blocks) = [height |-> b.height, hash |-> b.hash]
             /\ \A i \in DOMAIN longer.blocks :
                  IF i \in DOMAIN t.blocks THEN longer.blocks[i] = t.blocks[i]
                  ELSE i = Len(longer.blocks) /\ longer.blocks[i] = [height |-> b.height, hash |-> b.hash]
             /\ (NoGap(t) /\ (t.blocks # <<>> => b.height = NewestTree(t) + 1)) => NoGap(longer)
  <1> DEFINE record == [height |-> b.height, hash |-> b.hash]
             blocks == Append(t.blocks, record)
             longer == AppendBlock(t, b)
             n == Len(t.blocks)
  <1>1. /\ t.windowed \in BOOLEAN /\ t.blocks \in Seq(Records) /\ n \in Nat
        /\ DOMAIN t.blocks = 1..n /\ record \in Records
        /\ record.height = b.height /\ b.height \in Nat
    <2>1. record \in Records
      BY DEF Records
    <2>2. b.height \in Nat
      BY Numbers
    <2> QED
      BY <2>1, <2>2, TreeParts
  <1>2. longer = [t EXCEPT !.blocks = blocks]
    BY DEF AppendBlock
  <1> HIDE DEF record, longer
  <1>3. /\ blocks \in Seq(Records) /\ Len(blocks) = n + 1 /\ blocks # <<>>
        /\ DOMAIN blocks = 1..(n + 1) /\ blocks[n + 1] = record
        /\ \A i \in 1..n : blocks[i] = t.blocks[i]
    BY <1>1
  <1> HIDE DEF blocks
  <1>4. /\ longer \in Trees /\ longer.windowed = t.windowed /\ longer.blocks = blocks
    BY <1>2, <1>3, TreeWith
  <1>5. Last(blocks) = record /\ NewestTree(longer) = b.height
    BY <1>1, <1>3, <1>4 DEF Last, NewestTree
  <1>6. \A i \in DOMAIN blocks : IF i \in DOMAIN t.blocks THEN blocks[i] = t.blocks[i]
                                 ELSE i = Len(blocks) /\ blocks[i] = record
    BY <1>1, <1>3
  <1>7. ASSUME NoGap(t), t.blocks # <<>> => b.height = NewestTree(t) + 1
        PROVE  NoGap(longer)
    <2> DEFINE z == b.height
               H(i) == blocks[i].height
    <2>1. \A i \in 1..n : H(i) = z - 1 - (n - i)
      <3> TAKE i \in 1..n
      <3>1. t.blocks # <<>>
        BY <1>1
      <3>2. t.blocks[i].height = NewestTree(t) - (n - i) /\ NewestTree(t) \in Nat
        BY <1>7, NewestTreeIs
      <3>3. z = NewestTree(t) + 1 /\ H(i) = t.blocks[i].height
        BY <1>3, <1>7, <3>1
      <3> HIDE DEF z, H
      <3> QED
        BY <1>1, <3>2, <3>3
    <2>2. H(n + 1) = z
      BY <1>1, <1>3
    <2>3. z \in Nat
      BY <1>1
    <2>4. n \in Nat
      BY <1>1
    <2> HIDE DEF H, z, n
    <2>5. \A i \in 1..(n + 1) : H(i) = z - (n + 1 - i)
      <3> TAKE i \in 1..(n + 1)
      <3>1. i = n + 1 \/ i \in 1..n
        BY <2>4
      <3> QED
        BY <2>1, <2>2, <2>3, <2>4, <3>1
    <2>6. \A i, j \in 1..(n + 1) : H(j) - H(i) = j - i
      <3> TAKE i, j \in 1..(n + 1)
      <3>1. H(i) = z - (n + 1 - i) /\ H(j) = z - (n + 1 - j)
        BY <2>5
      <3> QED
        BY <2>3, <2>4, <3>1
    <2> QED
      BY <1>3, <1>4, <2>6 DEF NoGap, H, n
  <1> QED
    BY <1>3, <1>4, <1>5, <1>6, <1>7 DEF longer, record

\* A tree without its records above the fork.
CutBack(t, fork) == [t EXCEPT !.blocks = SubSeq(@, 1, Kept(@, fork))]

\* rollback_to: the records above the fork go.
LEMMA CutTree ==
  ASSUME NEW t \in Trees, NoGap(t), NEW fork \in Nat, t.blocks # <<>> => fork <= NewestTree(t)
  PROVE  LET cut == CutBack(t, fork)
         IN  /\ cut \in Trees /\ NoGap(cut) /\ cut.windowed = t.windowed
             /\ cut.blocks # <<>> => NewestTree(cut) = fork
             /\ \A i \in DOMAIN cut.blocks : /\ i \in DOMAIN t.blocks /\ cut.blocks[i] = t.blocks[i]
                                             /\ cut.blocks[i].height <= fork
  <1> DEFINE cut == [t EXCEPT !.blocks = SubSeq(@, 1, Kept(@, fork))]
             n == Len(t.blocks)
             z == NewestTree(t)
             k == Kept(t.blocks, fork)
             blocks == SubSeq(t.blocks, 1, k)
  <1>1. /\ t.windowed \in BOOLEAN /\ t.blocks \in Seq(Records) /\ n \in Nat
        /\ DOMAIN t.blocks = 1..n /\ z \in Nat
    BY TreeParts, NewestTreeIs
  <1>2. cut = [t EXCEPT !.blocks = blocks]
    OBVIOUS
  <1> HIDE DEF cut
  <1>3. \A i \in 1..n : t.blocks[i].height = z - (n - i)
    BY NewestTreeIs
  <1>4. n = 0 \/ (fork <= z /\ z - n \in Nat)
    <2>1. CASE t.blocks = <<>>
      BY <2>1
    <2>2. CASE t.blocks # <<>>
      <3>1. 1 \in 1..n
        BY <1>1, <2>2
      <3>2. t.blocks[1].height \in Heights
        BY <3>1, TreeParts
      <3>3. t.blocks[1].height \in Nat /\ t.blocks[1].height >= 1
        BY <3>2, Numbers
      <3>4. t.blocks[1].height = z - (n - 1)
        BY <1>3, <3>1
      <3>5. z - (n - 1) >= 1
        BY <3>3, <3>4
      <3> HIDE DEF z, n
      <3>6. z - n \in Nat
        BY <1>1, <3>5
      <3> QED
        BY <2>2, <3>6 DEF z
    <2> QED
      BY <2>1, <2>2
  <1>5. k \in 0..n /\ \A i \in 1..n : i <= k <=> t.blocks[i].height <= fork
    <2> DEFINE fits == {0} \cup {i \in DOMAIN t.blocks : t.blocks[i].height <= fork}
    <2>1. fits \in SUBSET (0..n) /\ fits # {} /\ k = Max(fits)
      BY <1>1 DEF Kept
    <2>2. \A i \in 1..n : i \in fits <=> t.blocks[i].height <= fork
      BY <1>1
    <2>3. 0 \in fits
      OBVIOUS
    <2> HIDE DEF fits, k
    <2>4. k \in fits /\ \A i \in fits : i <= k
      BY <1>1, <2>1, MaxIsGreatest
    <2>5. k \in 0..n
      BY <2>1, <2>4
    <2> DEFINE H(i) == t.blocks[i].height
    <2>6. \A i \in 1..n : H(i) = z - (n - i)
      BY <1>3
    <2>7. \A i \in 1..n : i \in fits <=> H(i) <= fork
      BY <2>2
    <2> HIDE DEF H, z, n
    <2>8. ASSUME NEW i \in 1..n, i <= k PROVE H(i) <= fork
      <3>1. k \in 1..n
        BY <1>1, <2>5, <2>8
      <3>2. H(k) <= fork
        BY <2>4, <2>7, <3>1
      <3> QED
        BY <1>1, <2>6, <2>8, <3>1, <3>2
    <2>9. \A i \in 1..n : H(i) <= fork => i <= k
      BY <2>4, <2>7
    <2> QED
      BY <2>5, <2>8, <2>9 DEF H, n
  <1> HIDE DEF k
  <1>6. /\ blocks \in Seq(Records) /\ Len(blocks) = k /\ DOMAIN blocks = 1..k
        /\ \A i \in 1..k : blocks[i] = t.blocks[i] /\ i \in 1..n
    <2>1. k \in Nat /\ k <= n
      BY <1>1, <1>5
    <2>2. \A i \in 1..k : i \in 1..n /\ t.blocks[i] \in Records
      BY <1>1, <2>1
    <2>3. /\ blocks \in Seq(Records) /\ Len(blocks) = IF 1 <= k THEN k - 1 + 1 ELSE 0
          /\ \A i \in 1..(k - 1 + 1) : blocks[i] = t.blocks[1 + i - 1]
      <3> HIDE DEF n
      <3> QED
        BY <2>1, <2>2, SubSeqProperties
    <2> HIDE DEF blocks, n
    <2>4. Len(blocks) = k /\ \A i \in 1..k : blocks[i] = t.blocks[i]
      BY <2>1, <2>3
    <2> QED
      BY <2>2, <2>3, <2>4
  <1> HIDE DEF blocks
  <1>7. cut \in Trees /\ cut.windowed = t.windowed /\ cut.blocks = blocks
    BY <1>2, <1>6, TreeWith
  <1>8. NoGap(cut)
    <2>1. \A i, j \in 1..n : t.blocks[j].height - t.blocks[i].height = j - i
      BY <1>1 DEF NoGap
    <2>2. \A i, j \in 1..k : blocks[j].height - blocks[i].height = j - i
      <3> TAKE i, j \in 1..k
      <3>1. blocks[i] = t.blocks[i] /\ blocks[j] = t.blocks[j] /\ i \in 1..n /\ j \in 1..n
        BY <1>6
      <3>2. t.blocks[j].height - t.blocks[i].height = j - i
        BY <2>1, <3>1
      <3> QED
        BY <3>1, <3>2
    <2> QED
      BY <1>6, <1>7, <2>2 DEF NoGap
  <1>9. ASSUME blocks # <<>> PROVE NewestTree(cut) = fork
    <2>1. k \in 1..k /\ k \in 1..n
      BY <1>5, <1>6, <1>9, <1>1
    <2>2. NewestTree(cut) = t.blocks[k].height
      BY <1>6, <1>7, <1>9, <2>1 DEF NewestTree, Last
    <2> DEFINE H(i) == t.blocks[i].height
    <2>3. /\ \A i \in 1..n : H(i) = z - (n - i)
          /\ \A i \in 1..n : i <= k <=> H(i) <= fork
      BY <1>3, <1>5
    <2>4. fork <= z
      BY <1>1, <1>4, <2>1
    <2> HIDE DEF H, z, n
    <2>5. H(k) = fork
      <3>1. CASE k = n
        BY <1>1, <2>1, <2>3, <2>4, <3>1
      <3>2. CASE k # n
        <4>1. k + 1 \in 1..n
          BY <1>1, <2>1, <3>2
        <4>2. ~ (H(k + 1) <= fork) /\ H(k) <= fork
          BY <1>1, <2>1, <2>3, <4>1
        <4>3. H(k + 1) = H(k) + 1 /\ H(k) \in Int
          BY <1>1, <2>1, <2>3, <4>1
        <4> QED
          BY <4>2, <4>3
      <3> QED
        BY <3>1, <3>2
    <2> QED
      BY <2>2, <2>5 DEF H
  <1>10. \A i \in 1..k : t.blocks[i].height <= fork
    BY <1>5, <1>6
  <1> QED
    BY <1>1, <1>6, <1>7, <1>8, <1>9, <1>10 DEF cut, CutBack

-----------------------------------------------------------------------------
(* sync_both: what the stores hold after each block *)

\* What one block leaves.
Stages == [nf : NfIndexes, tree : Trees, ok : BOOLEAN]

\* A block leaves stores.
LEMMA ApplyTyped ==
  ASSUME NEW s \in Stages, NEW b, b.height \in Heights, b.hash \in Hashes,
         NEW toNf \in BOOLEAN, NEW toTree \in BOOLEAN
  PROVE  ApplyBlock(s, b, toNf, toTree) \in Stages
  <1> DEFINE index == EvictToSize(IF toNf THEN InsertBlock(s.nf, b) ELSE s.nf)
             records == IF toTree THEN AppendBlock(s.tree, b) ELSE s.tree
             fits == s.ok /\ (toTree => PriorSizeMatches(s.tree, b))
  <1>1. s.nf \in NfIndexes /\ s.tree \in Trees
    BY DEF Stages
  <1>2. index \in NfIndexes
    <2>1. (IF toNf THEN InsertBlock(s.nf, b) ELSE s.nf) \in NfIndexes
      BY <1>1, InsertTyped
    <2> QED
      BY <2>1, EvictKeeps
  <1>3. records \in Trees
    <2>1. AppendBlock(s.tree, b) \in Trees
      BY <1>1, AppendKeeps
    <2> QED
      BY <1>1, <2>1
  <1>4. fits \in BOOLEAN
    OBVIOUS
  <1>5. ApplyBlock(s, b, toNf, toTree) = [nf |-> index, tree |-> records, ok |-> fits]
    BY DEF ApplyBlock
  <1> HIDE DEF index, records, fits
  <1> QED
    BY <1>2, <1>3, <1>4, <1>5 DEF Stages

\* What the recursive function of the model is.
LEMMA SyncedSteps ==
  ASSUME NEW db \in NfIndexes, NEW t \in Trees, NEW blocks, Len(blocks) \in Nat,
         \A i \in 1..Len(blocks) : blocks[i].height \in Heights /\ blocks[i].hash \in Hashes
  PROVE  LET s == Synced(db, t, blocks)
         IN  /\ s[0] = [nf |-> db, tree |-> t, ok |-> TRUE]
             /\ \A n \in 1..Len(blocks) :
                  s[n] = ApplyBlock(s[n - 1], blocks[n], blocks[n].height > NewestNf(db),
                                    blocks[n].height > NewestTree(t))
  <1> DEFINE N == Len(blocks)
             first == [nf |-> db, tree |-> t, ok |-> TRUE]
             Do(s, n) == ApplyBlock(s, blocks[n], blocks[n].height > NewestNf(db),
                                    blocks[n].height > NewestTree(t))
             step == [p \in Inputs(N, Stages) |-> Do(p[2], p[1])]
             Eq(f) == f = [n \in 0..N |-> IF n = 0 THEN [nf |-> db, tree |-> t, ok |-> TRUE]
                                          ELSE LET b == blocks[n]
                                               IN  ApplyBlock(f[n - 1], b, b.height > NewestNf(db),
                                                              b.height > NewestTree(t))]
  <1>1. first \in Stages
    BY DEF Stages
  <1>2. ASSUME NEW n \in 1..N, NEW s \in Stages PROVE Do(s, n) \in Stages
    <2> DEFINE toNf == blocks[n].height > NewestNf(db)
               toTree == blocks[n].height > NewestTree(t)
               b == blocks[n]
    <2>1. toNf \in BOOLEAN /\ toTree \in BOOLEAN /\ b.height \in Heights /\ b.hash \in Hashes
      OBVIOUS
    <2>2. Do(s, n) = ApplyBlock(s, b, toNf, toTree)
      OBVIOUS
    <2> HIDE DEF toNf, toTree, b, Do
    <2> QED
      BY <2>1, <2>2, ApplyTyped
  <1>3. N \in Nat
    OBVIOUS
  <1> HIDE DEF first, Do, N
  <1>4. step \in [Inputs(N, Stages) -> Stages]
    <2>1. \A p \in Inputs(N, Stages) : p[1] \in 1..N /\ p[2] \in Stages
      BY DEF Inputs
    <2>2. \A p \in Inputs(N, Stages) : Do(p[2], p[1]) \in Stages
      BY <1>2, <2>1
    <2> QED
      BY <2>2
  <1>5. \A n \in 1..N, s \in Stages : step[<<n, s>>] = Do(s, n)
    BY DEF Inputs
  <1> HIDE DEF step
  <1>6. PICK f : f \in [0..N -> Stages] /\ f[0] = first /\ \A n \in 1..N : f[n] = step[<<n, f[n - 1]>>]
    <2>1. \E f : Runs(f, N, Stages, first, step)
      BY <1>1, <1>3, <1>4, Recursion
    <2> QED
      BY <2>1 DEF Runs
  <1>7. \A n \in 1..N : f[n] = Do(f[n - 1], n)
    <2> TAKE n \in 1..N
    <2>1. n - 1 \in 0..N
      BY <1>3
    <2>2. f[n - 1] \in Stages
      BY <1>6, <2>1
    <2> QED
      BY <1>5, <1>6, <2>2
  <1>8. Eq(f)
    <2>1. \A n \in 0..N : f[n] = IF n = 0 THEN first ELSE Do(f[n - 1], n)
      <3> TAKE n \in 0..N
      <3>1. n = 0 \/ n \in 1..N
        BY <1>3
      <3>2. CASE n = 0
        BY <1>6, <3>2
      <3>3. CASE n # 0
        BY <1>7, <3>1, <3>3
      <3> QED
        BY <3>2, <3>3
    <2>2. f = [n \in 0..N |-> f[n]]
      BY <1>6
    <2>3. f = [n \in 0..N |-> IF n = 0 THEN first ELSE Do(f[n - 1], n)]
      BY <2>1, <2>2
    <2> QED
      BY <2>3 DEF first, Do
  <1>9. Synced(db, t, blocks) = CHOOSE h : Eq(h)
    BY DEF Synced, N
  <1>10. Eq(Synced(db, t, blocks))
    <2> HIDE DEF Eq
    <2> QED
      BY <1>8, <1>9
  <1> DEFINE s == Synced(db, t, blocks)
  <1> HIDE DEF s
  <1>11. s = [n \in 0..N |-> IF n = 0 THEN first ELSE Do(s[n - 1], n)]
    BY <1>10 DEF s, first, Do
  <1>12. s[0] = first /\ \A n \in 1..N : s[n] = Do(s[n - 1], n)
    <2>1. s[0] = first
      BY <1>3, <1>11
    <2>2. ASSUME NEW n \in 1..N PROVE s[n] = Do(s[n - 1], n)
      <3>1. n \in 0..N /\ n # 0
        BY <1>3
      <3> QED
        BY <1>11, <3>1
    <2> QED
      BY <2>1, <2>2
  <1> QED
    BY <1>12 DEF s, first, Do, N

\* The newest block of an index db once chain c has been added up to goal, if any.
NewestHash(db, c, goal) == IF goal <= NewestNf(db) THEN db[NewestNf(db)] ELSE c[goal]

\* An index that holds what is left of db, and above db's newest height chain c up to
\* goal; it is empty only when its newest block does not fit.
BroughtNf(new, db, c, goal) ==
  /\ new \in NfIndexes /\ Interval(new)
  /\ DOMAIN new = {} => \/ MaxOf(NewestNf(db), goal) = 0
                        \/ NullifierCount[NewestHash(db, c, goal)] > TargetSize
  /\ DOMAIN new # {} => NewestNf(new) = MaxOf(NewestNf(db), goal)
  /\ \A h \in DOMAIN new : IF h <= NewestNf(db) THEN h \in DOMAIN db /\ new[h] = db[h]
                           ELSE h <= goal /\ new[h] = c[h]

\* A tree that holds t's records, and above t's newest height those of chain c up to goal.
BroughtTree(new, t, c, goal) ==
  /\ new \in Trees /\ NoGap(new) /\ new.windowed = t.windowed
  /\ new.blocks = <<>> => t.blocks = <<>> /\ goal = 0
  /\ new.blocks # <<>> => NewestTree(new) = MaxOf(NewestTree(t), goal)
  /\ \A i \in DOMAIN new.blocks :
       IF new.blocks[i].height <= NewestTree(t)
       THEN \E j \in DOMAIN t.blocks : new.blocks[i] = t.blocks[j]
       ELSE /\ new.blocks[i].height <= goal
            /\ new.blocks[i].hash = c[new.blocks[i].height]

\* Eviction takes nothing away from that.
LEMMA BroughtEvicted ==
  ASSUME NEW new, NEW db \in NfIndexes, NEW c, NEW goal \in Nat, BroughtNf(new, db, c, goal)
  PROVE  BroughtNf(EvictToSize(new), db, c, goal)
  <1> DEFINE kept == EvictToSize(new)
  <1>1. new \in NfIndexes /\ Interval(new)
    BY DEF BroughtNf
  <1>2. /\ kept \in NfIndexes /\ DOMAIN kept \subseteq DOMAIN new
        /\ \A h \in DOMAIN kept : kept[h] = new[h]
        /\ Interval(kept)
        /\ DOMAIN kept # {} => NewestNf(kept) = NewestNf(new)
        /\ DOMAIN new # {} /\ DOMAIN kept = {} =>
             NullifierCount[new[NewestNf(new)]] > TargetSize
    BY <1>1, EvictKeeps
  <1> HIDE DEF kept
  <1>3. DOMAIN kept # {} => DOMAIN new # {}
    BY <1>2
  <1>5. ASSUME DOMAIN new # {} PROVE new[NewestNf(new)] = NewestHash(db, c, goal)
    <2>1. NewestNf(new) \in DOMAIN new /\ NewestNf(db) \in Nat
      BY <1>1, <1>5, NewestNfIs
    <2>2. NewestNf(new) = MaxOf(NewestNf(db), goal)
      BY <1>5 DEF BroughtNf
    <2>3. CASE goal <= NewestNf(db)
      BY <2>1, <2>2, <2>3 DEF BroughtNf, MaxOf, NewestHash
    <2>4. CASE ~ (goal <= NewestNf(db))
      BY <2>1, <2>2, <2>4 DEF BroughtNf, MaxOf, NewestHash
    <2> QED
      BY <2>3, <2>4
  <1>6. DOMAIN kept = {} => \/ MaxOf(NewestNf(db), goal) = 0
                            \/ NullifierCount[NewestHash(db, c, goal)] > TargetSize
    BY <1>2, <1>5 DEF BroughtNf
  <1>4. BroughtNf(kept, db, c, goal)
    BY <1>2, <1>3, <1>6 DEF BroughtNf
  <1> QED
    BY <1>4 DEF kept

\* The next block of the range, for the table.
LEMMA BringNf ==
  ASSUME NEW db \in NfIndexes, NEW c \in Chains, NEW goal \in Nat, goal + 1 \in Heights,
         NEW old, BroughtNf(old, db, c, goal),
         NEW b, b.height = goal + 1, b.hash = c[goal + 1]
  PROVE  BroughtNf(EvictToSize(IF b.height > NewestNf(db) THEN InsertBlock(old, b) ELSE old),
                   db, c, goal + 1)
  <1> DEFINE z == NewestNf(db)
             n == goal + 1
             new == IF b.height > z THEN InsertBlock(old, b) ELSE old
  <1>1. /\ old \in NfIndexes /\ Interval(old)
        /\ DOMAIN old # {} => NewestNf(old) = MaxOf(z, goal)
        /\ \A h \in DOMAIN old : IF h <= z THEN h \in DOMAIN db /\ old[h] = db[h]
                                 ELSE h <= goal /\ old[h] = c[h]
    BY DEF BroughtNf
  <1>2. /\ z \in Nat /\ n \in Nat /\ n \in Heights /\ n = goal + 1
        /\ \A h \in DOMAIN old : h \in Nat
    <2>1. \A h \in DOMAIN old : h \in Heights
      BY <1>1, NewestNfIs
    <2> QED
      BY <2>1, NewestNfIs, Numbers
  <1>3. b.height = n /\ b.hash = c[n] /\ b.hash \in Hashes
    BY <1>2, ChainHash
  <1> HIDE DEF z, n
  <1>4. ASSUME n > z PROVE BroughtNf(new, db, c, n)
    <2>1. MaxOf(z, goal) = goal /\ MaxOf(z, n) = n
      BY <1>2, <1>4 DEF MaxOf
    <2>2. DOMAIN old # {} => b.height = NewestNf(old) + 1
      BY <1>1, <1>2, <1>3, <2>1
    <2> DEFINE longer == InsertBlock(old, b)
    <2>3. b.height \in Heights
      BY <1>2, <1>3
    <2>4. /\ longer \in NfIndexes /\ Interval(longer) /\ NewestNf(longer) = b.height
          /\ \A h \in DOMAIN longer : IF h = b.height THEN longer[h] = b.hash
                                      ELSE h \in DOMAIN old /\ longer[h] = old[h]
      BY <1>1, <1>3, <2>2, <2>3, InsertKeeps
    <2>5. new = longer
      BY <1>3, <1>4
    <2> HIDE DEF longer
    <2>6. \A h \in DOMAIN longer : IF h <= z THEN h \in DOMAIN db /\ longer[h] = db[h]
                                   ELSE h <= n /\ longer[h] = c[h]
      <3> TAKE h \in DOMAIN longer
      <3>1. CASE h = n
        BY <1>2, <1>3, <1>4, <2>4, <3>1
      <3>2. CASE h # n
        <4>1. h \in DOMAIN old /\ longer[h] = old[h] /\ h \in Nat
          BY <1>2, <1>3, <2>4, <3>2
        <4> QED
          BY <1>1, <1>2, <4>1
      <3> QED
        BY <3>1, <3>2
    <2>7. NewestNf(longer) = MaxOf(z, n)
      BY <1>3, <2>1, <2>4
    <2>9. DOMAIN longer # {}
      <3>1. NewestNf(longer) # 0
        BY <1>2, <1>3, <2>4
      <3> QED
        BY <2>4, <3>1, NewestNfIs
    <2>8. BroughtNf(longer, db, c, n)
      BY <2>4, <2>6, <2>7, <2>9 DEF BroughtNf, z
    <2> QED
      BY <2>5, <2>8
  <1>5. ASSUME ~ (n > z) PROVE BroughtNf(new, db, c, n)
    <2>1. MaxOf(z, goal) = z /\ MaxOf(z, n) = z
      BY <1>2, <1>5 DEF MaxOf
    <2>2. new = old
      BY <1>3, <1>5
    <2>3. \A h \in DOMAIN old : h <= goal => h <= n
      BY <1>2
    <2>4. DOMAIN old # {} => NewestNf(old) = MaxOf(z, n)
      BY <1>1, <2>1
    <2>5. \A h \in DOMAIN old : IF h <= z THEN h \in DOMAIN db /\ old[h] = db[h]
                                ELSE h <= n /\ old[h] = c[h]
      BY <1>1, <2>3
    <2>7. DOMAIN old = {} => MaxOf(z, n) = 0 \/ NullifierCount[NewestHash(db, c, n)] > TargetSize
      <3>1. goal <= z /\ n <= z
        BY <1>2, <1>5
      <3>2. NewestHash(db, c, n) = NewestHash(db, c, goal)
        BY <3>1 DEF NewestHash, z
      <3> QED
        BY <2>1, <3>2 DEF BroughtNf, z
    <2>6. BroughtNf(old, db, c, n)
      BY <1>1, <2>4, <2>5, <2>7 DEF BroughtNf, z
    <2> QED
      BY <2>2, <2>6
  <1>6. BroughtNf(new, db, c, n)
    BY <1>4, <1>5
  <1> HIDE DEF new
  <1>7. BroughtNf(EvictToSize(new), db, c, n)
    BY <1>2, <1>6, BroughtEvicted
  <1> QED
    BY <1>7 DEF new, n, z

\* The next block of the range, for the tree.
LEMMA BringTree ==
  ASSUME NEW t \in Trees, NEW c \in Chains, NEW goal \in Nat, goal + 1 \in Heights,
         NEW old, BroughtTree(old, t, c, goal),
         NEW b, b.height = goal + 1, b.hash = c[goal + 1]
  PROVE  BroughtTree(IF b.height > NewestTree(t) THEN AppendBlock(old, b) ELSE old,
                     t, c, goal + 1)
  <1> DEFINE z == NewestTree(t)
             n == goal + 1
             new == IF b.height > z THEN AppendBlock(old, b) ELSE old
  <1>1. /\ old \in Trees /\ NoGap(old) /\ old.windowed = t.windowed
        /\ old.blocks = <<>> => t.blocks = <<>> /\ goal = 0
        /\ old.blocks # <<>> => NewestTree(old) = MaxOf(z, goal)
        /\ \A i \in DOMAIN old.blocks :
             IF old.blocks[i].height <= z
             THEN \E j \in DOMAIN t.blocks : old.blocks[i] = t.blocks[j]
             ELSE /\ old.blocks[i].height <= goal
                  /\ old.blocks[i].hash = c[old.blocks[i].height]
    BY DEF BroughtTree
  <1>2. /\ z \in Nat /\ n \in Nat /\ n \in Heights /\ n = goal + 1
        /\ \A i \in DOMAIN old.blocks : old.blocks[i].height \in Nat
    <2>1. \A i \in DOMAIN old.blocks : old.blocks[i].height \in Heights
      BY <1>1, TreeParts
    <2> QED
      BY <2>1, NewestTreeIs, Numbers
  <1>3. b.height = n /\ b.hash = c[n] /\ b.hash \in Hashes
    BY <1>2, ChainHash
  <1> HIDE DEF z, n
  <1>4. ASSUME n > z PROVE BroughtTree(new, t, c, n)
    <2>1. MaxOf(z, goal) = goal /\ MaxOf(z, n) = n
      BY <1>2, <1>4 DEF MaxOf
    <2>2. old.blocks # <<>> => b.height = NewestTree(old) + 1
      BY <1>1, <1>2, <1>3, <2>1
    <2> DEFINE longer == AppendBlock(old, b)
    <2>3. b.height \in Heights
      BY <1>2, <1>3
    <2>4. /\ longer \in Trees /\ longer.blocks # <<>> /\ NewestTree(longer) = b.height
          /\ NoGap(longer)
          /\ \A i \in DOMAIN longer.blocks :
                  IF i \in DOMAIN old.blocks THEN longer.blocks[i] = old.blocks[i]
                  ELSE i = Len(longer.blocks)
                       /\ longer.blocks[i] = [height |-> b.height, hash |-> b.hash]
      BY <1>1, <1>3, <2>2, <2>3, AppendKeeps
    <2>5. new = longer
      BY <1>3, <1>4
    <2> HIDE DEF longer
    <2>6. \A i \in DOMAIN longer.blocks :
             IF longer.blocks[i].height <= z
             THEN \E j \in DOMAIN t.blocks : longer.blocks[i] = t.blocks[j]
             ELSE /\ longer.blocks[i].height <= n
                  /\ longer.blocks[i].hash = c[longer.blocks[i].height]
      <3> TAKE i \in DOMAIN longer.blocks
      <3>1. CASE i \in DOMAIN old.blocks
        <4>1. longer.blocks[i] = old.blocks[i] /\ old.blocks[i].height \in Nat
          BY <1>2, <2>4, <3>1
        <4>2. old.blocks[i].height <= goal => old.blocks[i].height <= n
          BY <1>2, <4>1
        <4> QED
          BY <1>1, <3>1, <4>1, <4>2
      <3>2. CASE i \notin DOMAIN old.blocks
        <4>1. longer.blocks[i].height = n /\ longer.blocks[i].hash = c[n]
          BY <1>3, <2>4, <3>2
        <4> QED
          BY <1>2, <1>4, <4>1
      <3> QED
        BY <3>1, <3>2
    <2>7. NewestTree(longer) = MaxOf(z, n)
      BY <1>3, <2>1, <2>4
    <2>9. longer.windowed = t.windowed
      <3>1. old.windowed = t.windowed /\ old \in Trees
        BY <1>1
      <3> QED
        BY <3>1 DEF longer, AppendBlock, Trees
    <2>8. BroughtTree(longer, t, c, n)
      BY <2>4, <2>6, <2>7, <2>9 DEF BroughtTree, z
    <2> QED
      BY <2>5, <2>8
  <1>5. ASSUME ~ (n > z) PROVE BroughtTree(new, t, c, n)
    <2>1. MaxOf(z, goal) = z /\ MaxOf(z, n) = z
      BY <1>2, <1>5 DEF MaxOf
    <2>2. new = old
      BY <1>3, <1>5
    <2>3. \A i \in DOMAIN old.blocks : old.blocks[i].height <= goal => old.blocks[i].height <= n
      BY <1>2
    <2>4. old.blocks # <<>> => NewestTree(old) = MaxOf(z, n)
      BY <1>1, <2>1
    <2>5. \A i \in DOMAIN old.blocks :
             IF old.blocks[i].height <= z
             THEN \E j \in DOMAIN t.blocks : old.blocks[i] = t.blocks[j]
             ELSE /\ old.blocks[i].height <= n
                  /\ old.blocks[i].hash = c[old.blocks[i].height]
      BY <1>1, <2>3
    <2>7. old.blocks # <<>>
      <3>1. z # 0
        BY <1>2, <1>5
      <3>2. t.blocks # <<>>
        BY <3>1, NewestTreeIs DEF z
      <3> QED
        BY <1>1, <3>2
    <2>6. BroughtTree(old, t, c, n)
      BY <1>1, <2>4, <2>5, <2>7 DEF BroughtTree, z
    <2> QED
      BY <2>2, <2>6
  <1>6. BroughtTree(new, t, c, n)
    BY <1>4, <1>5
  <1> QED
    BY <1>6 DEF new, n, z

\* Above records that are chain c's, or in a full tree that has none, the next block of
\* chain c starts where the tree ends.
LEMMA BlockFits ==
  ASSUME NEW t \in Trees, NEW c \in Chains, NEW goal \in Nat, goal + 1 \in Heights,
         NEW old, BroughtTree(old, t, c, goal), t.windowed => t.blocks # <<>>,
         \A i \in DOMAIN t.blocks : t.blocks[i].hash = c[t.blocks[i].height],
         NEW b, b.height = goal + 1, b.hash = c[goal + 1], b.height > NewestTree(t)
  PROVE  PriorSizeMatches(old, b)
  <1> DEFINE z == NewestTree(t)
             n == goal + 1
             last == old.blocks[Len(old.blocks)]
             d == CHOOSE e \in Chains : e[b.height] = b.hash
  <1>1. /\ old \in Trees /\ (old.blocks = <<>> => t.blocks = <<>> /\ goal = 0)
        /\ old.windowed = t.windowed
        /\ old.blocks # <<>> => NewestTree(old) = MaxOf(z, goal)
        /\ \A i \in DOMAIN old.blocks :
             IF old.blocks[i].height <= z
             THEN \E j \in DOMAIN t.blocks : old.blocks[i] = t.blocks[j]
             ELSE /\ old.blocks[i].height <= goal
                  /\ old.blocks[i].hash = c[old.blocks[i].height]
    BY DEF BroughtTree
  <1>2. z \in Nat /\ n \in Heights /\ n = goal + 1 /\ z <= goal
    BY NewestTreeIs, Numbers
  <1>9. CASE old.blocks = <<>>
    <2>1. ~old.windowed /\ b.height = 1
      BY <1>1, <1>9
    <2> QED
      BY <1>9, <2>1 DEF PriorSizeMatches, PriorSize
  <1>10. CASE old.blocks # <<>>
    <2>3. /\ Len(old.blocks) \in DOMAIN old.blocks /\ Last(old.blocks) = last
          /\ NewestTree(old) = last.height /\ last.height \in Nat /\ last.height >= 1
      <3>1. last.height \in Heights
        BY <1>1, <1>10, NewestTreeIs, TreeParts
      <3> QED
        BY <1>1, <1>10, <3>1, NewestTreeIs, TreeParts, Numbers
    <2> HIDE DEF z, n, last
    <2>4. last.height = goal
      BY <1>1, <1>2, <1>10, <2>3 DEF MaxOf
    <2>5. last.hash = c[goal]
      <3>1. CASE goal <= z
        <4>1. PICK j \in DOMAIN t.blocks : last = t.blocks[j]
          BY <1>1, <2>3, <2>4, <3>1 DEF last
        <4> QED
          BY <2>4, <4>1
      <3>2. CASE ~ (goal <= z)
        BY <1>1, <2>3, <2>4, <3>2 DEF last
      <3> QED
        BY <3>1, <3>2
    <2>6. d \in Chains /\ d[n] = c[n]
      <3>1. \E e \in Chains : e[b.height] = b.hash
        BY <1>2
      <3>2. d \in Chains /\ d[b.height] = b.hash
        BY <3>1
      <3> QED
        BY <1>2, <3>2
    <2> HIDE DEF d
    <2>7. d[goal] = c[goal]
      <3>1. \A k \in 1..n : d[k] = c[k]
        BY <1>2, <2>6, HashesAgree
      <3>2. goal \in 1..n
        BY <1>2, <2>3, <2>4
      <3> QED
        BY <3>1, <3>2
    <2>8. PriorSize(b) = TreeSizeAfter[c[goal]]
      <3>1. PriorSize(b) = IF b.height = 1 THEN 0 ELSE TreeSizeAfter[d[b.height - 1]]
        BY DEF PriorSize, d
      <3>2. b.height # 1 /\ b.height - 1 = goal
        BY <1>2, <2>3, <2>4
      <3> QED
        BY <2>7, <3>1, <3>2
    <2> QED
      BY <1>10, <2>3, <2>5, <2>8 DEF PriorSizeMatches
  <1> QED
    BY <1>9, <1>10

\* sync_both, when the blocks it fetches are those of one chain.
LEMMA SyncIs ==
  ASSUME NEW db \in NfIndexes, Interval(db), NEW t \in Trees, NoGap(t), NEW c \in Chains,
         NEW N \in Nat, SyncStart(db, t) - 1 + N <= MaxHeight,
         NEW blocks, blocks = [i \in 1..N |-> CompactBlock(c, SyncStart(db, t) + i - 1)]
  PROVE  LET s == SyncStores(db, t, blocks)
             goal == SyncStart(db, t) - 1 + N
         IN  /\ BroughtNf(s.nf, db, c, goal) /\ BroughtTree(s.tree, t, c, goal)
             /\ (/\ t.windowed => t.blocks # <<>>
                 /\ \A i \in DOMAIN t.blocks : t.blocks[i].hash = c[t.blocks[i].height]) => s.ok
  <1> DEFINE z == SyncStart(db, t) - 1
             s == Synced(db, t, blocks)
             fits == /\ t.windowed => t.blocks # <<>>
                     /\ \A i \in DOMAIN t.blocks : t.blocks[i].hash = c[t.blocks[i].height]
             Brought(n) == /\ BroughtNf(s[n].nf, db, c, z + n)
                           /\ BroughtTree(s[n].tree, t, c, z + n)
                           /\ fits => s[n].ok
             T == {n \in 0..N : Brought(n)}
  <1>1. /\ z \in Nat /\ z <= NewestNf(db) /\ z <= NewestTree(t) /\ z + N <= MaxHeight
        /\ NewestNf(db) \in Nat /\ NewestTree(t) \in Nat /\ SyncStart(db, t) = z + 1
    <2>1. NewestNf(db) \in Nat /\ NewestTree(t) \in Nat
      BY NewestNfIs, NewestTreeIs
    <2> QED
      BY <2>1 DEF SyncStart, MinOf
  <1>2. /\ Len(blocks) = N /\ Len(blocks) \in Nat
        /\ \A i \in 1..N : /\ z + i \in Heights
                           /\ blocks[i].height = z + i /\ blocks[i].hash = c[z + i]
    <2> HIDE DEF z
    <2>1. Len(blocks) = N
      OBVIOUS
    <2>2. ASSUME NEW i \in 1..N PROVE z + i \in Heights /\ SyncStart(db, t) + i - 1 = z + i
      <3>1. i \in Nat /\ 1 <= i /\ i <= N
        OBVIOUS
      <3>2. z + i \in 1..MaxHeight /\ SyncStart(db, t) + i - 1 = z + i
        BY <1>1, <3>1, Numbers
      <3> QED
        BY <3>2, Numbers
    <2>3. \A i \in 1..N : blocks[i] = CompactBlock(c, z + i)
      BY <2>2
    <2> QED
      BY <2>1, <2>2, <2>3 DEF CompactBlock
  <1>3. /\ s[0] = [nf |-> db, tree |-> t, ok |-> TRUE]
        /\ \A n \in 1..N : s[n] = ApplyBlock(s[n - 1], blocks[n], blocks[n].height > NewestNf(db),
                                             blocks[n].height > NewestTree(t))
    <2>1. \A i \in 1..Len(blocks) : blocks[i].height \in Heights /\ blocks[i].hash \in Hashes
      BY <1>2, ChainHash
    <2> QED
      BY <1>2, <2>1, SyncedSteps
  <1> HIDE DEF z, s, fits
  <1>4. 0 \in T
    <2>1. BroughtNf(db, db, c, z)
      <3>1. DOMAIN db # {} => NewestNf(db) = MaxOf(NewestNf(db), z)
        BY <1>1 DEF MaxOf
      <3>2. \A h \in DOMAIN db : IF h <= NewestNf(db) THEN h \in DOMAIN db /\ db[h] = db[h]
                                 ELSE h <= z /\ db[h] = c[h]
        BY NewestNfIs
      <3>3. DOMAIN db = {} => MaxOf(NewestNf(db), z) = 0
        BY <1>1, NewestNfIs DEF MaxOf
      <3> QED
        BY <3>1, <3>2, <3>3 DEF BroughtNf
    <2>2. BroughtTree(t, t, c, z)
      <3>1. t.blocks # <<>> => NewestTree(t) = MaxOf(NewestTree(t), z)
        BY <1>1 DEF MaxOf
      <3>2. \A i \in DOMAIN t.blocks : t.blocks[i].height <= NewestTree(t)
        BY TreeParts, NewestTreeIs
      <3>3. t.blocks = <<>> => z = 0
        BY <1>1, NewestTreeIs
      <3> QED
        BY <3>1, <3>2, <3>3 DEF BroughtTree
    <2>3. z + 0 = z /\ s[0].nf = db /\ s[0].tree = t /\ s[0].ok
      BY <1>1, <1>3
    <2> QED
      BY <2>1, <2>2, <2>3
  <1>5. ASSUME NEW n \in 0..(N - 1), n \in T PROVE n + 1 \in T
    <2> DEFINE old == s[n]
               b == blocks[n + 1]
               goal == z + n
               new == s[n + 1]
    <2>1. n \in Nat /\ n + 1 \in 1..N /\ (n + 1) - 1 = n /\ goal \in Nat /\ z + (n + 1) = goal + 1
      BY <1>1
    <2>2. /\ BroughtNf(old.nf, db, c, goal) /\ BroughtTree(old.tree, t, c, goal)
          /\ fits => old.ok
      BY <1>5
    <2>3. b.height = goal + 1 /\ b.hash = c[goal + 1] /\ goal + 1 \in Heights
      BY <1>2, <2>1
    <2>4. new = ApplyBlock(old, b, b.height > NewestNf(db), b.height > NewestTree(t))
      BY <1>3, <2>1
    <2> HIDE DEF old, b, goal, new
    <2>5. BroughtNf(EvictToSize(IF b.height > NewestNf(db) THEN InsertBlock(old.nf, b) ELSE old.nf),
                    db, c, goal + 1)
      BY <2>1, <2>2, <2>3, BringNf
    <2>6. BroughtTree(IF b.height > NewestTree(t) THEN AppendBlock(old.tree, b) ELSE old.tree,
                      t, c, goal + 1)
      BY <2>1, <2>2, <2>3, BringTree
    <2>7. fits /\ b.height > NewestTree(t) => PriorSizeMatches(old.tree, b)
      BY <2>1, <2>2, <2>3, BlockFits DEF fits
    <2>8. /\ new.nf = EvictToSize(IF b.height > NewestNf(db) THEN InsertBlock(old.nf, b) ELSE old.nf)
          /\ new.tree = IF b.height > NewestTree(t) THEN AppendBlock(old.tree, b) ELSE old.tree
          /\ new.ok <=> old.ok /\ (b.height > NewestTree(t) => PriorSizeMatches(old.tree, b))
      BY <2>4 DEF ApplyBlock
    <2>9. /\ BroughtNf(new.nf, db, c, goal + 1) /\ BroughtTree(new.tree, t, c, goal + 1)
          /\ fits => new.ok
      BY <2>2, <2>5, <2>6, <2>7, <2>8
    <2>10. Brought(n + 1)
      BY <2>1, <2>9 DEF new
    <2> QED
      BY <2>1, <2>10
  <1> HIDE DEF T
  <1>6. N \in T
    <2>1. \A n \in 0..N : n \in T
      BY <1>4, <1>5, UpTo
    <2> QED
      BY <2>1
  <1>7. Brought(N)
    BY <1>6 DEF T
  <1> DEFINE r == SyncStores(db, t, blocks)
             last == s[N]
  <1>8. \E x, y, w : last = [nf |-> x, tree |-> y, ok |-> w]
    <2>1. CASE N = 0
      BY <1>3, <2>1
    <2>2. CASE N # 0
      <3>1. N \in 1..N
        BY <2>2
      <3>2. last = ApplyBlock(s[N - 1], blocks[N], blocks[N].height > NewestNf(db),
                              blocks[N].height > NewestTree(t))
        BY <1>3, <3>1
      <3> HIDE DEF last
      <3> QED
        BY <3>2 DEF ApplyBlock
    <2> QED
      BY <2>1, <2>2
  <1>9. r = [last EXCEPT !.nf = EvictToSize(@)]
    BY <1>2 DEF SyncStores, s
  <1> HIDE DEF last, r
  <1>10. r.nf = EvictToSize(last.nf) /\ r.tree = last.tree /\ r.ok = last.ok
    BY <1>8, <1>9
  <1>11. BroughtNf(last.nf, db, c, z + N) /\ BroughtTree(last.tree, t, c, z + N) /\ (fits => last.ok)
    BY <1>7 DEF last
  <1>12. BroughtNf(r.nf, db, c, z + N) /\ BroughtTree(r.tree, t, c, z + N) /\ (fits => r.ok)
    <2>1. z + N \in Nat
      BY <1>1
    <2> QED
      BY <1>10, <1>11, <2>1, BroughtEvicted
  <1> QED
    BY <1>12 DEF r, z, fits

-----------------------------------------------------------------------------
(* The inductive invariant *)

\* The blocks of a table have their own heights, and while no sync has resumed above an
\* orphaned block they are one chain's.
NfOk(db, u) ==
  /\ db \in NfIndexes /\ Interval(db)
  /\ \A h \in DOMAIN db : \E c \in Chains : db[h] = c[h]
  /\ ~u => \E c \in Chains : \A h \in DOMAIN db : db[h] = c[h]

\* So are those of a tree.
TreeOk(t, u) ==
  /\ t \in Trees /\ NoGap(t)
  /\ ~u => \E c \in Chains : \A i \in DOMAIN t.blocks : t.blocks[i].hash = c[t.blocks[i].height]

\* Where the server is, and that nothing of a pipeline is left while none runs.
Control ==
  /\ pc \in {"down", "rebuild_nf", "rebuild_tree", "save_nf", "save_tree", "check", "recv"}
  /\ unlinked \in BOOLEAN
  /\ unsaved \in 0..MaxOf(SnapshotInterval, 1)
  /\ pc = "recv" => phase # "off" /\ (unsaved = 0 \/ unsaved < SnapshotInterval)
  /\ pc \in {"down", "check"} => phase = "off"
  /\ phase = "off" =>
       /\ cause = "none" /\ target = 0 /\ next = 0 /\ expectedPrev = NoHash
       /\ history = <<>> /\ batch = <<>> /\ channel = <<>>
       /\ unsaved = 0

\* What is published is what the stores hold, from rebuild_both on.
Published ==
  /\ pc = "down" => liveNf = {} /\ liveTree = {}
  /\ liveNf = {} \/ \E db \in NfIndexes : liveNf = {db}
  /\ liveTree = {} \/ \E t \in Trees : liveTree = {t}
  /\ pc \in {"rebuild_tree", "save_nf", "save_tree", "check", "recv"} => liveNf = {nf}
  /\ pc \in {"save_nf", "save_tree", "check", "recv"} => liveTree = {tree}

\* The stores and the snapshots hold such tables and trees.
Stored ==
  /\ NfOk(nf, unlinked) /\ TreeOk(tree, unlinked)
  /\ savedNf = {} \/ \E db \in NfIndexes : savedNf = {db} /\ NfOk(db, unlinked)
  /\ savedTree = {} \/ \E t \in Trees : savedTree = {t} /\ TreeOk(t, unlinked)

\* The stores end at the newest of the blocks `base` that the follow loop has handled.
Holds(base) ==
  /\ DOMAIN nf # {} => NewestNf(nf) = Len(base)
  /\ tree.blocks # <<>> => NewestTree(tree) = Len(base)
  /\ ~unlinked =>
       /\ \A h \in DOMAIN nf : h \in DOMAIN base /\ nf[h] = base[h].hash
       /\ \A i \in DOMAIN tree.blocks :
            /\ tree.blocks[i].height \in DOMAIN base
            /\ tree.blocks[i].hash = base[tree.blocks[i].height].hash
  /\ phase = "connect" => nf[NewestNf(nf)] = Last(base).hash

\* A running pipeline has brought the stores to where they are.
InFollow == phase # "off" => \E base \in Seq(Records) : Followed(base) /\ Holds(base)

IInv == NodeType /\ Control /\ Published /\ Stored /\ InFollow

\* Once a sync has resumed above an orphaned block, less is claimed of a store.
LEMMA OkLater ==
  ASSUME NEW u \in BOOLEAN, NEW v \in BOOLEAN, u => v
  PROVE  /\ \A db : NfOk(db, u) => NfOk(db, v)
         /\ \A t : TreeOk(t, u) => TreeOk(t, v)
  BY DEF NfOk, TreeOk

\* An empty store is a store.
LEMMA NothingStored ==
  ASSUME NodeType
  PROVE  /\ \A u : NfOk(NoNf, u)
         /\ \A w \in BOOLEAN : \A u : TreeOk(EmptyTree(w), u)
  <1>1. best \in Chains
    BY DEF NodeType
  <1>2. DOMAIN NoNf = {} /\ NoNf \in [{} -> Hashes]
    BY DEF NoNf
  <1>3. NoNf \in NfIndexes
    BY <1>2, NfIntro
  <1>4. \A w \in BOOLEAN : /\ EmptyTree(w) \in Trees /\ EmptyTree(w).blocks = <<>>
                           /\ DOMAIN EmptyTree(w).blocks = {}
    BY DEF EmptyTree, Trees
  <1>5. \A u : NfOk(NoNf, u)
    BY <1>1, <1>2, <1>3 DEF NfOk, Interval
  <1>6. \A w \in BOOLEAN : \A u : TreeOk(EmptyTree(w), u)
    BY <1>1, <1>4 DEF TreeOk, NoGap
  <1> QED
    BY <1>5, <1>6

\* The blocks of a chain at N heights.
Blocks(c, from, N) == [i \in 1..N |-> CompactBlock(c, from + i - 1)]

\* Blocks that link to a block of another chain show that it is on theirs.
LEMMA Linked ==
  ASSUME NEW c \in Chains, NEW from \in Nat \ {0}, NEW N \in Nat, from - 1 + N <= MaxHeight,
         NEW blocks, blocks = Blocks(c, from, N),
         NEW d \in Chains, NEW z \in Heights, from - 1 <= z, LinksTo(blocks, z + 1, d[z]),
         z < from - 1 + N
  PROVE  \A k \in 1..z : c[k] = d[k]
  <1> DEFINE i == z + 2 - from
  <1>1. z \in Nat /\ z >= 1 /\ i \in 1..N /\ from + i - 1 = z + 1
    BY Numbers
  <1> HIDE DEF i
  <1>2. DOMAIN blocks = 1..N /\ blocks[i] = CompactBlock(c, z + 1)
    BY <1>1 DEF Blocks
  <1>3. blocks[i].height = z + 1 /\ blocks[i].prev = c[z]
    <2>1. z + 1 # 1 /\ (z + 1) - 1 = z
      BY <1>1
    <2> QED
      BY <1>2, <2>1 DEF CompactBlock, PrevOf
  <1>4. c[z] = d[z]
    BY <1>1, <1>2, <1>3 DEF LinksTo
  <1> QED
    BY <1>4, HashesAgree

\* What sync_both leaves in the table.
LEMMA SyncedNfOk ==
  ASSUME NEW c \in Chains, NEW db, NEW u \in BOOLEAN, NfOk(db, u),
         NEW from \in Nat \ {0}, NEW N \in Nat, from - 1 + N <= MaxHeight,
         NEW blocks, blocks = Blocks(c, from, N),
         from - 1 <= NewestNf(db),
         NEW new, BroughtNf(new, db, c, from - 1 + N),
         NEW v \in BOOLEAN, u => v,
         ~v => \/ DOMAIN db = {}
               \/ LinksTo(blocks, NewestNf(db) + 1, db[NewestNf(db)])
  PROVE  NfOk(new, v)
  <1> DEFINE z == NewestNf(db)
             goal == from - 1 + N
  <1>1. /\ db \in NfIndexes /\ z \in Nat /\ goal \in Nat
        /\ DOMAIN db = {} => z = 0
        /\ DOMAIN db # {} => z \in DOMAIN db /\ z \in Heights
        /\ \A h \in DOMAIN db : h <= z
    BY NewestNfIs DEF NfOk
  <1>2. /\ new \in NfIndexes /\ Interval(new)
        /\ \A h \in DOMAIN new : IF h <= z THEN h \in DOMAIN db /\ new[h] = db[h]
                                 ELSE h <= goal /\ new[h] = c[h]
    BY DEF BroughtNf
  <1>3. \A h \in DOMAIN new : h \in Heights /\ h \in Nat /\ h >= 1
    BY <1>2, NfParts, Numbers
  <1>4. \A h \in DOMAIN new : \E e \in Chains : new[h] = e[h]
    <2>1. \A h \in DOMAIN db : \E e \in Chains : db[h] = e[h]
      BY DEF NfOk
    <2> QED
      BY <1>2, <2>1
  <1>5. ASSUME ~v PROVE \E e \in Chains : \A h \in DOMAIN new : new[h] = e[h]
    <2>1. PICK d \in Chains : \A h \in DOMAIN db : db[h] = d[h]
      BY <1>5 DEF NfOk
    <2>2. CASE DOMAIN db = {}
      <3>1. \A h \in DOMAIN new : ~ (h <= z)
        BY <1>1, <1>3, <2>2
      <3> QED
        BY <1>2, <3>1
    <2>3. CASE DOMAIN db # {} /\ z < goal
      <3>1. db[z] = d[z] /\ z \in Heights
        BY <1>1, <2>1, <2>3
      <3>2. LinksTo(blocks, z + 1, d[z])
        BY <1>5, <2>3, <3>1
      <3>3. \A k \in 1..z : c[k] = d[k]
        <4> HIDE DEF z
        <4>1. from - 1 <= z
          BY DEF z
        <4> QED
          BY <2>3, <3>1, <3>2, <4>1, Linked
      <3>4. \A h \in DOMAIN new : h <= z => h \in 1..z
        BY <1>1, <1>3
      <3>5. \A h \in DOMAIN new : new[h] = c[h]
        BY <1>2, <2>1, <3>3, <3>4
      <3> QED
        BY <3>5
    <2>4. CASE ~ (z < goal)
      <3>1. \A h \in DOMAIN new : h <= z
        BY <1>1, <1>2, <1>3, <2>4
      <3>2. \A h \in DOMAIN new : new[h] = d[h]
        BY <1>2, <2>1, <3>1
      <3> QED
        BY <3>2
    <2> QED
      BY <2>2, <2>3, <2>4
  <1> QED
    BY <1>2, <1>4, <1>5 DEF NfOk

\* What sync_both leaves in the tree.
LEMMA SyncedTreeOk ==
  ASSUME NEW c \in Chains, NEW t, NEW u \in BOOLEAN, TreeOk(t, u),
         NEW from \in Nat \ {0}, NEW N \in Nat, from - 1 + N <= MaxHeight,
         NEW blocks, blocks = Blocks(c, from, N),
         from - 1 <= NewestTree(t),
         NEW new, BroughtTree(new, t, c, from - 1 + N),
         NEW v \in BOOLEAN, u => v,
         ~v => \/ t.blocks = <<>>
               \/ LinksTo(blocks, NewestTree(t) + 1, Last(t.blocks).hash)
  PROVE  TreeOk(new, v)
  <1> DEFINE z == NewestTree(t)
             goal == from - 1 + N
  <1>1. /\ t \in Trees /\ NoGap(t) /\ z \in Nat /\ goal \in Nat
        /\ t.blocks = <<>> => z = 0 /\ DOMAIN t.blocks = {}
        /\ t.blocks # <<>> => /\ z \in Heights /\ Len(t.blocks) \in DOMAIN t.blocks
                              /\ Last(t.blocks) = t.blocks[Len(t.blocks)]
                              /\ z = t.blocks[Len(t.blocks)].height
        /\ \A i \in DOMAIN t.blocks : t.blocks[i].height \in Heights /\ t.blocks[i].height <= z
    <2>1. t \in Trees /\ NoGap(t)
      BY DEF TreeOk
    <2> QED
      BY <2>1, NewestTreeIs, TreeParts
  <1>2. /\ new \in Trees /\ NoGap(new)
        /\ \A i \in DOMAIN new.blocks :
             IF new.blocks[i].height <= z THEN \E j \in DOMAIN t.blocks : new.blocks[i] = t.blocks[j]
             ELSE /\ new.blocks[i].height <= goal
                  /\ new.blocks[i].hash = c[new.blocks[i].height]
    BY DEF BroughtTree
  <1>3. \A i \in DOMAIN new.blocks : new.blocks[i].height \in Nat /\ new.blocks[i].height >= 1
    <2>1. \A i \in DOMAIN new.blocks : new.blocks[i].height \in Heights
      BY <1>2, TreeParts
    <2> QED
      BY <2>1, Numbers
  <1> HIDE DEF z, goal
  <1>5. ASSUME ~v
        PROVE  \E e \in Chains : \A i \in DOMAIN new.blocks : new.blocks[i].hash = e[new.blocks[i].height]
    <2>1. PICK d \in Chains : \A i \in DOMAIN t.blocks : t.blocks[i].hash = d[t.blocks[i].height]
      BY <1>5 DEF TreeOk
    <2>2. CASE t.blocks = <<>>
      <3>1. \A i \in DOMAIN new.blocks : ~ (new.blocks[i].height <= z)
        BY <1>1, <1>3, <2>2
      <3> QED
        BY <1>2, <3>1
    <2>3. CASE t.blocks # <<>> /\ z < goal
      <3>1. Last(t.blocks).hash = d[z] /\ z \in Heights
        BY <1>1, <2>1, <2>3
      <3>2. LinksTo(blocks, z + 1, d[z])
        BY <1>5, <2>3, <3>1 DEF z
      <3>3. \A k \in 1..z : c[k] = d[k]
        <4>1. from - 1 <= z /\ z < from - 1 + N
          BY <2>3 DEF z, goal
        <4> QED
          BY <3>1, <3>2, <4>1, Linked
      <3>4. \A i \in DOMAIN new.blocks : new.blocks[i].height <= z => new.blocks[i].height \in 1..z
        BY <1>1, <1>3
      <3>5. \A i \in DOMAIN new.blocks : new.blocks[i].hash = c[new.blocks[i].height]
        BY <1>2, <2>1, <3>3, <3>4
      <3> QED
        BY <3>5
    <2>4. CASE ~ (z < goal)
      <3>1. \A i \in DOMAIN new.blocks : new.blocks[i].height <= z
        BY <1>1, <1>2, <1>3, <2>4
      <3>2. \A i \in DOMAIN new.blocks : new.blocks[i].hash = d[new.blocks[i].height]
        BY <1>2, <2>1, <3>1
      <3> QED
        BY <3>2
    <2> QED
      BY <2>2, <2>3, <2>4
  <1> QED
    BY <1>2, <1>5 DEF TreeOk

-----------------------------------------------------------------------------
(* Every step preserves it *)

\* The initial states have it.
LEMMA InitHas == ASSUME Init PROVE IInv
  <1>1. /\ pc = "down" /\ phase = "off" /\ cause = "none" /\ target = 0 /\ next = 0
        /\ expectedPrev = NoHash /\ history = <<>> /\ batch = <<>> /\ channel = <<>>
        /\ unsaved = 0 /\ unlinked = FALSE /\ liveNf = {} /\ liveTree = {}
        /\ savedNf = {} /\ savedTree = {} /\ nf = NoNf /\ tree = EmptyTree(FALSE)
    BY DEF Init
  <1>2. NodeType
    BY Numbers DEF Init, NodeInit, NodeType
  <1>3. 0 \in 0..MaxOf(SnapshotInterval, 1)
    BY ServerAssumption DEF MaxOf
  <1>4. Control
    BY <1>1, <1>3 DEF Control
  <1>5. Published
    BY <1>1 DEF Published
  <1>6. Stored
    BY <1>1, <1>2, NothingStored DEF Stored
  <1>7. InFollow
    BY <1>1 DEF InFollow
  <1> QED
    BY <1>2, <1>4, <1>5, <1>6, <1>7 DEF IInv

\* The tree that sync_both starts from.
LEMMA StartsFrom ==
  ASSUME NodeType, Stored,
         NEW t \in (IF savedTree = {} THEN PreparedTrees(ConfirmedTip) ELSE savedTree)
  PROVE  TreeOk(t, unlinked) /\ (t \in savedTree \/ NewestTree(t) <= ConfirmedTip)
  <1>1. CASE savedTree # {}
    BY <1>1 DEF Stored
  <1>2. CASE savedTree = {} /\ t = EmptyTree(FALSE)
    <2>1. NewestTree(t) = 0
      BY <1>2 DEF EmptyTree, NewestTree
    <2>2. ConfirmedTip >= 0
      BY Numbers DEF NodeType, ConfirmedTip, MaxOf
    <2> QED
      BY <1>2, <2>1, <2>2, NothingStored
  <1>3. ASSUME savedTree = {}, NEW h \in 1..MinOf(ConfirmedTip, tip),
               t = AppendBlock(EmptyTree(TRUE), CompactBlock(best, h))
        PROVE  TreeOk(t, unlinked) /\ NewestTree(t) <= ConfirmedTip
    <2> DEFINE e == EmptyTree(TRUE)
               b == CompactBlock(best, h)
    <2>1. best \in Chains /\ tip \in Nat /\ tip <= MaxHeight /\ Depth \in Nat /\ MaxHeight \in Nat
      BY Numbers DEF NodeType
    <2>2. h \in Heights
      BY <2>1, Numbers DEF MinOf, MaxOf, ConfirmedTip
    <2>3. b.height = h /\ b.hash = best[h] /\ b.hash \in Hashes
      BY <2>1, <2>2, ChainHash DEF CompactBlock
    <2>8. h <= ConfirmedTip
      BY <2>1 DEF MinOf, MaxOf, ConfirmedTip
    <2>4. e \in Trees /\ NoGap(e) /\ e.blocks = <<>> /\ DOMAIN e.blocks = {}
      <3>1. TreeOk(e, unlinked) /\ e.blocks = <<>>
        BY NothingStored DEF EmptyTree
      <3> HIDE DEF e
      <3> QED
        BY <3>1 DEF TreeOk
    <2> HIDE DEF e, b
    <2>5. t = AppendBlock(e, b) /\ b.height \in Heights
      BY <1>3, <2>2, <2>3 DEF e, b
    <2>6. /\ t \in Trees /\ NoGap(t) /\ NewestTree(t) = b.height
          /\ \A i \in DOMAIN t.blocks : t.blocks[i] = [height |-> b.height, hash |-> b.hash]
      BY <2>3, <2>4, <2>5, AppendKeeps
    <2>7. \A i \in DOMAIN t.blocks : t.blocks[i].hash = best[t.blocks[i].height]
      BY <2>3, <2>6
    <2> QED
      BY <2>1, <2>3, <2>6, <2>7, <2>8 DEF TreeOk
  <1> QED
    BY <1>1, <1>2, <1>3 DEF PreparedTrees

\* sync_both brings both stores to the confirmed tip of the chain that the node serves.
LEMMA SyncKeeps == ASSUME IInv, Sync PROVE IInv' /\ SnapshotAhead(nf, tree)'
  <1> DEFINE Linking(db, t, blocks) ==
               \/ unlinked
               \/ /\ DOMAIN db # {}
                  /\ ~LinksTo(blocks, NewestNf(db) + 1, db[NewestNf(db)])
               \/ /\ t.blocks # <<>>
                  /\ ~LinksTo(blocks, NewestTree(t) + 1, Last(t.blocks).hash)
             Fetched(db, t) ==
               IF SyncStart(db, t) <= ConfirmedTip THEN Streams(SyncStart(db, t), ConfirmedTip)
               ELSE {<<>>}
             Leaves(db, t, blocks) ==
               /\ SyncStart(db, t) <= ConfirmedTip =>
                    ValidRange(blocks, SyncStart(db, t), ConfirmedTip, NoHash)
               /\ SyncStores(db, t, blocks).ok
               /\ nf' = SyncStores(db, t, blocks).nf
               /\ tree' = SyncStores(db, t, blocks).tree
               /\ unlinked' = Linking(db, t, blocks)
  <1>1. \E db \in {ValueOr(savedNf, NoNf)},
           t \in (IF savedTree = {} THEN PreparedTrees(ConfirmedTip) ELSE savedTree) :
          \E blocks \in Fetched(db, t) : Leaves(db, t, blocks)
    BY Zenon DEF Sync
  <1> HIDE DEF Fetched, Leaves, Linking
  <1>2. PICK db \in {ValueOr(savedNf, NoNf)},
             t \in (IF savedTree = {} THEN PreparedTrees(ConfirmedTip) ELSE savedTree) :
               \E blocks \in Fetched(db, t) : Leaves(db, t, blocks)
    BY <1>1
  <1>3. PICK blocks \in Fetched(db, t) : Leaves(db, t, blocks)
    BY <1>2
  <1>4. /\ SyncStart(db, t) <= ConfirmedTip =>
             /\ blocks \in Streams(SyncStart(db, t), ConfirmedTip)
             /\ ValidRange(blocks, SyncStart(db, t), ConfirmedTip, NoHash)
        /\ ~ (SyncStart(db, t) <= ConfirmedTip) => blocks = <<>>
        /\ db = ValueOr(savedNf, NoNf)
        /\ nf' = SyncStores(db, t, blocks).nf
        /\ tree' = SyncStores(db, t, blocks).tree
        /\ unlinked' = Linking(db, t, blocks)
    BY <1>3 DEF Fetched, Leaves
  <1>5. /\ pc = "down" /\ pc' = "rebuild_nf"
        /\ served' = {best} /\ best' = best /\ tip' = tip /\ reorgs' = reorgs
        /\ phase' = phase /\ cause' = cause /\ target' = target /\ next' = next
        /\ expectedPrev' = expectedPrev /\ history' = history /\ batch' = batch
        /\ channel' = channel /\ unsaved' = unsaved
        /\ liveNf' = liveNf /\ liveTree' = liveTree
        /\ savedNf' = savedNf /\ savedTree' = savedTree
    BY DEF Sync, Answered, followVars, liveVars, savedVars
  <1>6. NodeType /\ Control /\ Published /\ Stored
    BY DEF IInv
  <1>7. /\ best \in Chains /\ served \subseteq Chains /\ tip \in Heights /\ tip \in Nat
        /\ tip <= MaxHeight /\ ConfirmedTip \in Nat /\ ConfirmedTip <= tip
    <2>1. tip \in Nat /\ tip <= MaxHeight /\ Depth \in Nat
      BY <1>6, Numbers DEF NodeType
    <2> QED
      BY <1>6, <2>1 DEF NodeType, ConfirmedTip, MaxOf
  <1>8. unlinked \in BOOLEAN /\ unlinked' \in BOOLEAN /\ (unlinked => unlinked')
    BY <1>4, <1>6 DEF Control, Linking
  <1>9. NfOk(db, unlinked)
    <2>1. CASE savedNf = {}
      BY <1>4, <1>6, <2>1, NothingStored DEF ValueOr
    <2>2. CASE savedNf # {}
      <3>1. PICK x \in NfIndexes : savedNf = {x} /\ NfOk(x, unlinked)
        BY <1>6, <2>2 DEF Stored
      <3>2. db = x
        BY <1>4, <2>2, <3>1 DEF ValueOr
      <3> QED
        BY <3>1, <3>2
    <2> QED
      BY <2>1, <2>2
  <1>10. TreeOk(t, unlinked) /\ (t \in savedTree \/ NewestTree(t) <= ConfirmedTip)
    BY <1>6, StartsFrom
  <1>11. /\ db \in NfIndexes /\ Interval(db) /\ t \in Trees /\ NoGap(t)
        /\ NewestNf(db) \in Nat /\ NewestTree(t) \in Nat /\ NewestNf(db) <= MaxHeight
    BY <1>9, <1>10, NewestNfIs, NewestTreeIs DEF NfOk, TreeOk
  <1>12. \E from \in Nat \ {0}, N \in Nat :
          /\ from = SyncStart(db, t) /\ from - 1 + N <= MaxHeight /\ ConfirmedTip <= from - 1 + N
          /\ blocks = [i \in 1..N |-> CompactBlock(best, from + i - 1)]
    <2> DEFINE from == SyncStart(db, t)
               goal == ConfirmedTip
    <2>1. from \in Nat \ {0} /\ from - 1 <= NewestNf(db)
      BY <1>11 DEF SyncStart, MinOf
    <2> HIDE DEF from, goal
    <2>2. CASE from <= goal
      <3>1. from \in Heights /\ goal \in Nat
        BY <1>7, <2>1, <2>2, Numbers DEF goal
      <3>2. blocks \in Streams(from, goal) /\ ValidRange(blocks, from, goal, NoHash)
        BY <1>4, <2>2 DEF from, goal
      <3>3. blocks = [i \in 1..(goal - from + 1) |-> CompactBlock(best, from + i - 1)]
        BY <1>7, <2>2, <3>1, <3>2, ValidStream
      <3>4. /\ goal - from + 1 \in Nat /\ from - 1 + (goal - from + 1) <= MaxHeight
            /\ goal <= from - 1 + (goal - from + 1)
        BY <1>7, <2>1, <2>2, <3>1, Numbers DEF goal
      <3> QED
        BY <2>1, <3>3, <3>4 DEF from, goal
    <2>3. CASE ~ (from <= goal)
      <3>1. blocks = <<>>
        BY <1>4, <2>3 DEF from, goal
      <3>2. blocks = [i \in 1..0 |-> CompactBlock(best, from + i - 1)]
        BY <3>1
      <3>3. from - 1 + 0 <= MaxHeight
        BY <1>11, <2>1, Numbers
      <3>4. goal <= from - 1 + 0
        BY <1>7, <2>1, <2>3 DEF goal
      <3> QED
        BY <2>1, <3>2, <3>3, <3>4 DEF from, goal
    <2> QED
      BY <2>2, <2>3
  <1>13. PICK from \in Nat \ {0}, N \in Nat :
           /\ from = SyncStart(db, t) /\ from - 1 + N <= MaxHeight /\ ConfirmedTip <= from - 1 + N
           /\ blocks = [i \in 1..N |-> CompactBlock(best, from + i - 1)]
    BY <1>12
  <1>14. from - 1 <= NewestNf(db) /\ from - 1 <= NewestTree(t)
    <2>1. from = MinOf(NewestNf(db), NewestTree(t)) + 1
      BY <1>13 DEF SyncStart
    <2> QED
      BY <1>11, <2>1 DEF MinOf
  <1>15. BroughtNf(nf', db, best, from - 1 + N) /\ BroughtTree(tree', t, best, from - 1 + N)
    <2>1. SyncStart(db, t) - 1 + N <= MaxHeight
      BY <1>13
    <2>2. blocks = [i \in 1..N |-> CompactBlock(best, SyncStart(db, t) + i - 1)]
      BY <1>13
    <2> DEFINE s == SyncStores(db, t, blocks)
    <2>3. /\ BroughtNf(s.nf, db, best, SyncStart(db, t) - 1 + N)
          /\ BroughtTree(s.tree, t, best, SyncStart(db, t) - 1 + N)
      BY <1>7, <1>11, <2>1, <2>2, SyncIs
    <2> HIDE DEF s
    <2>4. nf' = s.nf /\ tree' = s.tree
      BY <1>4 DEF s
    <2> QED
      BY <1>13, <2>3, <2>4
  <1>16. NfOk(nf', unlinked')
    <2> DEFINE new == nf'
               u == unlinked
               v == unlinked'
               c == best
    <2>1. ~v => \/ DOMAIN db = {}
                \/ LinksTo(blocks, NewestNf(db) + 1, db[NewestNf(db)])
      BY <1>4 DEF Linking
    <2>2. /\ c \in Chains /\ u \in BOOLEAN /\ v \in BOOLEAN /\ (u => v) /\ NfOk(db, u)
          /\ blocks = Blocks(c, from, N)
          /\ BroughtNf(new, db, c, from - 1 + N)
      BY <1>7, <1>8, <1>9, <1>13, <1>15 DEF Blocks
    <2> HIDE DEF new, u, v, c
    <2>3. NfOk(new, v)
      BY <1>13, <1>14, <2>1, <2>2, SyncedNfOk
    <2> QED
      BY <2>3 DEF new, v
  <1>17. TreeOk(tree', unlinked')
    <2> DEFINE new == tree'
               u == unlinked
               v == unlinked'
               c == best
    <2>1. ~v => \/ t.blocks = <<>>
                \/ LinksTo(blocks, NewestTree(t) + 1, Last(t.blocks).hash)
      BY <1>4 DEF Linking
    <2>2. /\ c \in Chains /\ u \in BOOLEAN /\ v \in BOOLEAN /\ (u => v) /\ TreeOk(t, u)
          /\ blocks = Blocks(c, from, N)
          /\ BroughtTree(new, t, c, from - 1 + N)
      BY <1>7, <1>8, <1>10, <1>13, <1>15 DEF Blocks
    <2> HIDE DEF new, u, v, c
    <2>3. from - 1 + N <= MaxHeight /\ from - 1 <= NewestTree(t)
      BY <1>13, <1>14
    <2>4. TreeOk(new, v)
      BY <2>1, <2>2, <2>3, SyncedTreeOk, SMTT(40)
    <2> QED
      BY <2>4 DEF new, v
  <1>18. /\ savedNf = {} \/ \E x \in NfIndexes : savedNf = {x} /\ NfOk(x, unlinked')
         /\ savedTree = {} \/ \E x \in Trees : savedTree = {x} /\ TreeOk(x, unlinked')
    BY <1>6, <1>8, OkLater DEF Stored
  <1>19. NodeType'
    BY <1>5, <1>6 DEF NodeType
  <1>20. Control'
    BY <1>5, <1>6, <1>8 DEF Control
  <1>21. Published'
    BY <1>5, <1>6 DEF Published
  <1>22. Stored'
    BY <1>5, <1>16, <1>17, <1>18 DEF Stored
  <1>23. InFollow'
    BY <1>5, <1>6 DEF Control, InFollow
  <1>24. SnapshotAhead(nf, tree)'
    <2> DEFINE goal == from - 1 + N
               new == nf'
               grown == tree'
    <2>1. /\ goal \in Nat /\ (t \in savedTree \/ NewestTree(t) <= goal)
          /\ NewestNf(db) \in Nat /\ NewestTree(t) \in Nat
      BY <1>7, <1>10, <1>11, <1>13
    <2>2. db \in savedNf \/ NewestNf(db) = 0
      <3>1. CASE savedNf = {}
        BY <1>4, <3>1 DEF ValueOr, NewestNf, NoNf
      <3>2. CASE savedNf # {}
        BY <1>4, <3>2 DEF ValueOr
      <3> QED
        BY <3>1, <3>2
    <2>3. /\ DOMAIN new # {} => NewestNf(new) = MaxOf(NewestNf(db), goal)
          /\ grown.blocks # <<>> => NewestTree(grown) = MaxOf(NewestTree(t), goal)
      BY <1>15 DEF BroughtNf, BroughtTree
    <2> HIDE DEF goal
    <2>4. ASSUME DOMAIN new # {}, grown.blocks # <<>>
          PROVE  \/ NewestTree(grown) = NewestNf(new)
                 \/ NewestTree(grown) > NewestNf(new) /\ t \in savedTree
                    /\ NewestTree(t) = NewestTree(grown)
                 \/ NewestTree(grown) < NewestNf(new) /\ db \in savedNf
                    /\ NewestNf(db) = NewestNf(new)
      BY <2>1, <2>2, <2>3, <2>4 DEF MaxOf
    <2> HIDE DEF new, grown
    <2>5. savedNf' = savedNf /\ savedTree' = savedTree /\ nf' = new /\ tree' = grown
      BY <1>5 DEF new, grown
    <2> QED
      BY <2>4, <2>5 DEF SnapshotAhead
  <1> QED
    BY <1>19, <1>20, <1>21, <1>22, <1>23, <1>24 DEF IInv

\* The node moves.
LEMMA NodeMoves ==
  ASSUME IInv, NodeStep, UNCHANGED <<followVars, channel, serverVars>>
  PROVE  IInv'
  <1>1. /\ phase' = phase /\ cause' = cause /\ target' = target /\ next' = next
        /\ expectedPrev' = expectedPrev /\ history' = history /\ batch' = batch
        /\ channel' = channel /\ current' = current
        /\ pc' = pc /\ nf' = nf /\ tree' = tree /\ unsaved' = unsaved
        /\ liveNf' = liveNf /\ liveTree' = liveTree
        /\ savedNf' = savedNf /\ savedTree' = savedTree /\ unlinked' = unlinked
    BY DEF followVars, serverVars, storeVars, liveVars, savedVars
  <1>2. NodeType /\ Control /\ Published /\ Stored /\ InFollow
    BY DEF IInv
  <1>3. NodeType'
    <2>1. CASE Mine
      <3>1. tip' \in Heights
        BY <1>2, <2>1, Numbers DEF Mine, NodeType
      <3> QED
        BY <1>2, <2>1, <3>1 DEF Mine, NodeType
    <2>2. CASE Reorganise
      <3>1. reorgs' \in 0..MaxReorgs
        BY <1>2, <2>2, Numbers DEF Reorganise, NodeType
      <3>2. PICK c \in Chains, h \in Heights : best' = c /\ tip' = h /\ served' = served \cup {c}
        BY <2>2 DEF Reorganise
      <3> QED
        BY <1>2, <3>1, <3>2 DEF NodeType
    <2> QED
      BY <2>1, <2>2 DEF NodeStep
  <1>4. Control'
    BY <1>1, <1>2 DEF Control
  <1>5. Published'
    BY <1>1, <1>2 DEF Published
  <1>6. Stored'
    BY <1>1, <1>2 DEF Stored
  <1>7. InFollow'
    <2>1. SUFFICES ASSUME phase # "off"
                   PROVE  \E base \in Seq(Records) : Followed(base)' /\ Holds(base)'
      BY <1>1 DEF InFollow
    <2>2. PICK base \in Seq(Records) : Followed(base) /\ Holds(base)
      BY <1>2, <2>1 DEF InFollow
    <2>3. Followed(base)'
      BY <2>2, NodeKeeps
    <2>4. Holds(base)'
      BY <1>1, <2>2 DEF Holds
    <2> QED
      BY <2>3, <2>4
  <1> QED
    BY <1>3, <1>4, <1>5, <1>6, <1>7 DEF IInv

\* The follow task acts.
LEMMA ProducerMoves ==
  ASSUME IInv, Producer \/ RpcError, UNCHANGED serverVars
  PROVE  IInv'
  <1>1. /\ pc' = pc /\ nf' = nf /\ tree' = tree /\ unsaved' = unsaved
        /\ liveNf' = liveNf /\ liveTree' = liveTree
        /\ savedNf' = savedNf /\ savedTree' = savedTree /\ unlinked' = unlinked
    BY DEF serverVars, storeVars, liveVars, savedVars
  <1>2. NodeType /\ Control /\ Published /\ Stored /\ InFollow
    BY DEF IInv
  <1>3. phase # "off" /\ phase' # "connect"
    BY DEF Producer, RpcError, LoadHistory, Poll, FindFork, SendReorg, FetchBatch, SendBlock,
           EndPoll, Fail
  <1>4. PICK base \in Seq(Records) : Followed(base) /\ Holds(base)
    BY <1>2, <1>3 DEF InFollow
  <1>5. Followed(base)'
    <2>1. CASE LoadHistory(nf[NewestNf(nf)])
      <3>1. phase = "connect"
        BY <2>1 DEF LoadHistory
      <3>2. nf[NewestNf(nf)] = Last(base).hash
        BY <1>4, <3>1 DEF Holds
      <3>3. LoadHistory(Last(base).hash)
        BY <2>1, <3>2
      <3> QED
        BY <1>4, <3>3, LoadKeeps
    <2>2. CASE RpcError
      <3>1. Fail("rpc") /\ "rpc" \in {"rpc", "range", "window"}
        BY <2>2 DEF RpcError
      <3> QED
        BY <1>4, <3>1, FailKeeps
    <2> QED
      BY <1>4, <2>1, <2>2, PollKeeps, ForkKeeps, ReorgKeeps, FetchKeeps, SendKeeps, EndPollKeeps
         DEF Producer
  <1>6. Holds(base)'
    BY <1>1, <1>3, <1>4 DEF Holds
  <1>7. NodeType' /\ phase' # "off"
    BY <1>5 DEF Followed, TaskType
  <1>8. Control'
    BY <1>1, <1>2, <1>3, <1>7 DEF Control
  <1>9. Published'
    BY <1>1, <1>2 DEF Published
  <1>10. Stored'
    BY <1>1, <1>2 DEF Stored
  <1>11. InFollow'
    BY <1>4, <1>5, <1>6 DEF InFollow
  <1> QED
    BY <1>7, <1>8, <1>9, <1>10, <1>11 DEF IInv

\* The pipeline, and the blocks it has brought, as a step of the server task leaves them.
LEMMA FollowUndisturbed ==
  ASSUME InFollow, NodeType, UNCHANGED pipelineVars, nf' = nf, tree' = tree, unlinked' = unlinked
  PROVE  InFollow' /\ NodeType'
  <1>1. /\ phase' = phase /\ cause' = cause /\ target' = target /\ next' = next
        /\ expectedPrev' = expectedPrev /\ history' = history /\ batch' = batch
        /\ channel' = channel /\ current' = current
        /\ best' = best /\ tip' = tip /\ reorgs' = reorgs /\ served' = served
    BY DEF pipelineVars, nodeVars, followVars
  <1>2. NodeType'
    BY <1>1 DEF NodeType
  <1>3. ASSUME phase # "off"
        PROVE  \E base \in Seq(Records) : Followed(base)' /\ Holds(base)'
    <2>1. PICK base \in Seq(Records) : Followed(base) /\ Holds(base)
      BY <1>3 DEF InFollow
    <2>2. Followed(base)'
      <3>1. TaskType'
        BY <1>1, <2>1 DEF Followed, TaskType
      <3>2. Coming(base)' = Coming(base) /\ Queued(base)'
        BY <1>1, <2>1, ComingFrame DEF Followed
      <3>3. Mirrors(base)'
        BY <1>1, <2>1, <3>2 DEF Followed, Mirrors
      <3>4. Progress(base)'
        BY <1>1, <2>1, <3>2 DEF Followed, Progress
      <3> QED
        BY <1>2, <3>1, <3>2, <3>3, <3>4 DEF Followed
    <2>3. Holds(base)'
      BY <1>1, <2>1 DEF Holds
    <2> QED
      BY <2>2, <2>3
  <1>4. InFollow'
    BY <1>1, <1>3 DEF InFollow
  <1> QED
    BY <1>2, <1>4

\* rebuild_both and save_both.
LEMMA WorkKeeps ==
  ASSUME IInv, RebuildNf \/ RebuildTree \/ SaveNf \/ SaveTree
  PROVE  IInv'
  <1>1. /\ UNCHANGED pipelineVars /\ nf' = nf /\ tree' = tree /\ unlinked' = unlinked
        /\ phase' = phase /\ cause' = cause /\ target' = target /\ next' = next
        /\ expectedPrev' = expectedPrev /\ history' = history /\ batch' = batch
        /\ channel' = channel
    BY DEF RebuildNf, RebuildTree, SaveNf, SaveTree, storeVars, pipelineVars, followVars
  <1>2. NodeType /\ Control /\ Published /\ Stored /\ InFollow
    BY DEF IInv
  <1>3. nf \in NfIndexes /\ tree \in Trees /\ SnapshotInterval \in Nat
    BY <1>2, ServerAssumption DEF Stored, NfOk, TreeOk
  <1>4. Control' /\ Published' /\ Stored'
    <2>1. CASE RebuildNf
      <3>1. /\ pc = "rebuild_nf" /\ liveNf' = {nf} /\ pc' = "rebuild_tree" /\ unsaved' = unsaved
            /\ liveTree' = liveTree /\ savedNf' = savedNf /\ savedTree' = savedTree
        BY <2>1 DEF RebuildNf, storeVars, savedVars
      <3>2. Control'
        BY <1>1, <1>2, <3>1 DEF Control
      <3>3. Published'
        BY <1>1, <1>2, <1>3, <3>1 DEF Published
      <3>4. Stored'
        BY <1>1, <1>2, <3>1 DEF Stored
      <3> QED
        BY <3>2, <3>3, <3>4
    <2>2. CASE RebuildTree
      <3>1. /\ pc = "rebuild_tree" /\ liveTree' = {tree} /\ unsaved' = unsaved
            /\ pc' = IF phase = "off" \/ unsaved >= SnapshotInterval THEN "save_nf" ELSE "recv"
            /\ liveNf' = liveNf /\ savedNf' = savedNf /\ savedTree' = savedTree
        BY <2>2 DEF RebuildTree, storeVars, savedVars
      <3>2. Control'
        <4>1. unsaved \in Nat
          BY <1>2, <1>3 DEF Control, MaxOf
        <4>2. pc' \in {"save_nf", "recv"}
              /\ (pc' = "recv" => phase # "off" /\ unsaved < SnapshotInterval)
          BY <1>3, <3>1, <4>1
        <4> QED
          BY <1>1, <1>2, <3>1, <4>2 DEF Control
      <3>3. Published'
        BY <1>1, <1>2, <1>3, <3>1 DEF Published
      <3>4. Stored'
        BY <1>1, <1>2, <3>1 DEF Stored
      <3> QED
        BY <3>2, <3>3, <3>4
    <2>3. CASE SaveNf
      <3>1. /\ pc = "save_nf" /\ savedNf' = {nf} /\ pc' = "save_tree" /\ unsaved' = unsaved
            /\ liveNf' = liveNf /\ liveTree' = liveTree /\ savedTree' = savedTree
        BY <2>3 DEF SaveNf, storeVars, liveVars
      <3>2. Control'
        BY <1>1, <1>2, <3>1 DEF Control
      <3>3. Published'
        BY <1>1, <1>2, <3>1 DEF Published
      <3>4. Stored'
        BY <1>1, <1>2, <1>3, <3>1 DEF Stored
      <3> QED
        BY <3>2, <3>3, <3>4
    <2>4. CASE SaveTree
      <3>1. /\ pc = "save_tree" /\ savedTree' = {tree} /\ unsaved' = 0
            /\ pc' = IF phase = "off" THEN "check" ELSE "recv"
            /\ liveNf' = liveNf /\ liveTree' = liveTree /\ savedNf' = savedNf
        BY <2>4 DEF SaveTree, liveVars
      <3>2. Control'
        <4>1. 0 \in 0..MaxOf(SnapshotInterval, 1)
          BY <1>3 DEF MaxOf
        <4> QED
          BY <1>1, <1>2, <3>1, <4>1 DEF Control
      <3>3. Published'
        BY <1>1, <1>2, <3>1 DEF Published
      <3>4. Stored'
        BY <1>1, <1>2, <1>3, <3>1 DEF Stored
      <3> QED
        BY <3>2, <3>3, <3>4
    <2> QED
      BY <2>1, <2>2, <2>3, <2>4
  <1>5. InFollow' /\ NodeType'
    BY <1>1, <1>2, FollowUndisturbed
  <1> QED
    BY <1>4, <1>5 DEF IInv

\* The process ends, and what it had saved stays.
LEMMA StopKeeps == ASSUME IInv, StopServer PROVE IInv'
  <1>1. /\ pc' = "down" /\ phase' = "off" /\ cause' = "none" /\ target' = 0 /\ next' = 0
        /\ expectedPrev' = NoHash /\ history' = <<>> /\ batch' = <<>> /\ channel' = <<>>
        /\ nf' = NoNf /\ tree' = EmptyTree(FALSE) /\ unsaved' = 0 /\ unlinked' = unlinked
        /\ liveNf' = {} /\ liveTree' = {} /\ savedNf' = savedNf /\ savedTree' = savedTree
        /\ best' = best /\ tip' = tip /\ reorgs' = reorgs /\ served' = served
    BY DEF StopServer, Volatile, nodeVars, savedVars
  <1>2. NodeType /\ Control /\ Stored
    BY DEF IInv
  <1>3. NodeType'
    BY <1>1, <1>2 DEF NodeType
  <1>4. Control'
    <2>1. 0 \in 0..MaxOf(SnapshotInterval, 1)
      BY ServerAssumption DEF MaxOf
    <2> QED
      BY <1>1, <1>2, <2>1 DEF Control
  <1>5. Published'
    BY <1>1 DEF Published
  <1>6. Stored'
    <2>1. NfOk(nf', unlinked') /\ TreeOk(tree', unlinked')
      BY <1>1, <1>2, NothingStored
    <2> QED
      BY <1>1, <1>2, <2>1 DEF Stored
  <1>7. InFollow'
    BY <1>1 DEF InFollow
  <1> QED
    BY <1>3, <1>4, <1>5, <1>6, <1>7 DEF IInv

\* The follow task is spawned at the tip that both stores share.
LEMMA StartKeeps == ASSUME IInv, StartFollowing PROVE IInv'
  <1>1. /\ pc = "check" /\ pc' = "recv" /\ phase' = "connect" /\ current' = NewestNf(nf)
        /\ cause' = cause /\ target' = target /\ next' = next
        /\ expectedPrev' = expectedPrev /\ history' = history /\ batch' = batch
        /\ channel' = channel /\ UNCHANGED nodeVars
        /\ best' = best /\ tip' = tip /\ reorgs' = reorgs /\ served' = served
        /\ nf' = nf /\ tree' = tree /\ unsaved' = unsaved /\ unlinked' = unlinked
        /\ liveNf' = liveNf /\ liveTree' = liveTree
        /\ savedNf' = savedNf /\ savedTree' = savedTree
    BY DEF StartFollowing, nodeVars, storeVars, liveVars, savedVars
  <1>2. NodeType /\ Control /\ Published /\ Stored
    BY DEF IInv
  <1>3. /\ DOMAIN nf # {} /\ tree.blocks # <<>> /\ NewestTree(tree) = NewestNf(nf)
        /\ Last(tree.blocks).hash = nf[NewestNf(nf)]
    BY DEF StartFollowing, TipsAgree
  <1>4. /\ phase = "off" /\ cause = "none" /\ target = 0 /\ next = 0 /\ expectedPrev = NoHash
        /\ history = <<>> /\ batch = <<>> /\ channel = <<>> /\ unsaved = 0
    BY <1>1, <1>2 DEF Control
  <1>5. /\ nf \in NfIndexes /\ tree \in Trees /\ NoGap(tree)
        /\ \A h \in DOMAIN nf : \E c \in Chains : nf[h] = c[h]
        /\ ~unlinked => \E c \in Chains : \A h \in DOMAIN nf : nf[h] = c[h]
        /\ ~unlinked => \E c \in Chains : \A i \in DOMAIN tree.blocks :
                                            tree.blocks[i].hash = c[tree.blocks[i].height]
    BY <1>2 DEF Stored, NfOk, TreeOk
  <1>6. PICK z \in Heights : z = NewestNf(nf) /\ z \in DOMAIN nf
    BY <1>3, <1>5, NewestNfIs
  <1>7. \E c \in Chains : c[z] = nf[z] /\ (~unlinked => \A h \in DOMAIN nf : nf[h] = c[h])
    BY <1>5, <1>6
  <1>8. PICK c \in Chains : c[z] = nf[z] /\ (~unlinked => \A h \in DOMAIN nf : nf[h] = c[h])
    BY <1>7
  <1> DEFINE start == Start(c, z)
  <1>9. PICK base : base = start
    OBVIOUS
  <1>10. z \in Nat /\ z <= MaxHeight /\ z >= 1
    BY Numbers
  <1>11. /\ base \in Seq(Records) /\ Len(base) = z /\ DOMAIN base = 1..z
         /\ \A h \in 1..z : base[h].hash = c[h]
         /\ Last(base).hash = c[z]
    <2>1. /\ start \in Seq(Records) /\ Len(start) = z
          /\ \A h \in 1..z : start[h] = [height |-> h, hash |-> c[h]]
      BY <1>10, StartParts
    <2> HIDE DEF start
    <2>2. base \in Seq(Records) /\ Len(base) = z /\ \A h \in 1..z : base[h].hash = c[h]
      BY <1>9, <2>1
    <2>3. Last(base) = base[z] /\ DOMAIN base = 1..z
      BY <2>2 DEF Last
    <2> QED
      BY <1>10, <2>2, <2>3
  <1>12. Followed(base)'
    <2>1. PipelineInit(z)'
      BY <1>1, <1>4, <1>6 DEF PipelineInit
    <2>2. Followed(start)'
      BY <1>1, <1>2, <2>1, SpawnKeeps
    <2> QED
      BY <1>9, <2>2
  <1>13. Holds(base)'
    <2>1. \A h \in DOMAIN nf : h \in 1..z
      <3>1. \A h \in DOMAIN nf : h <= z /\ h \in Nat /\ h >= 1
        BY <1>5, <1>6, NewestNfIs, Numbers
      <3> QED
        BY <1>10, <3>1
    <2>2. \A i \in DOMAIN tree.blocks : tree.blocks[i].height \in 1..z
      <3>1. \A i \in DOMAIN tree.blocks : /\ tree.blocks[i].height <= z
                                          /\ tree.blocks[i].height \in Heights
        BY <1>3, <1>5, <1>6, NewestTreeIs, TreeParts
      <3> QED
        BY <1>10, <3>1, Numbers
    <2>3. ASSUME ~unlinked
          PROVE  \A i \in DOMAIN tree.blocks : tree.blocks[i].hash = c[tree.blocks[i].height]
      <3>1. PICK d \in Chains : \A i \in DOMAIN tree.blocks :
                                  tree.blocks[i].hash = d[tree.blocks[i].height]
        BY <1>5, <2>3
      <3>2. /\ Len(tree.blocks) \in DOMAIN tree.blocks
            /\ Last(tree.blocks) = tree.blocks[Len(tree.blocks)]
            /\ tree.blocks[Len(tree.blocks)].height = z
        BY <1>3, <1>5, <1>6, NewestTreeIs, TreeParts
      <3>3. d[z] = c[z]
        BY <1>3, <1>6, <1>8, <3>1, <3>2
      <3>4. \A k \in 1..z : d[k] = c[k]
        BY <3>3, HashesAgree
      <3> QED
        BY <2>2, <3>1, <3>4
    <2>4. /\ DOMAIN nf # {} => NewestNf(nf) = Len(base)
          /\ tree.blocks # <<>> => NewestTree(tree) = Len(base)
          /\ nf[NewestNf(nf)] = Last(base).hash
      BY <1>3, <1>6, <1>8, <1>11
    <2>5. ~unlinked =>
            /\ \A h \in DOMAIN nf : h \in DOMAIN base /\ nf[h] = base[h].hash
            /\ \A i \in DOMAIN tree.blocks :
                 /\ tree.blocks[i].height \in DOMAIN base
                 /\ tree.blocks[i].hash = base[tree.blocks[i].height].hash
      BY <1>8, <1>11, <2>1, <2>2, <2>3
    <2> QED
      BY <1>1, <2>4, <2>5 DEF Holds
  <1>14. NodeType'
    BY <1>1, <1>2 DEF NodeType
  <1>15. Control'
    BY <1>1, <1>2, <1>4 DEF Control
  <1>16. Published'
    BY <1>1, <1>2 DEF Published
  <1>17. Stored'
    BY <1>1, <1>2 DEF Stored
  <1>18. InFollow'
    BY <1>11, <1>12, <1>13 DEF InFollow
  <1> QED
    BY <1>14, <1>15, <1>16, <1>17, <1>18 DEF IInv

\* Blocks that are the start of a chain, cut at a fork.
LEMMA CutStart ==
  ASSUME NEW base, IsStart(base), NEW fork \in 1..Len(base)
  PROVE  LET after == SubSeq(base, 1, Kept(base, fork))
         IN  Len(after) = fork /\ \A h \in 1..fork : after[h] = base[h]
  <1>1. /\ base \in Seq(Records) /\ Len(base) \in Nat
        /\ \A h \in 1..Len(base) : base[h].height = h
    BY IsStartParts
  <1> DEFINE n == Len(base)
             zero == 0
  <1>2. Kept(base, fork) = fork
    <2>1. /\ zero \in Nat /\ \A i \in 1..n : base[i].height = zero + i
          /\ fork \in zero..(zero + n) /\ fork - zero = fork
      BY <1>1
    <2>2. n \in Nat /\ DOMAIN base = 1..n
      BY <1>1
    <2> HIDE DEF zero
    <2>3. Kept(base, fork) = fork - zero
      BY <2>1, <2>2, KeptCount
    <2> QED
      BY <2>1, <2>3
  <1>3. /\ Len(SubSeq(base, 1, fork)) = fork
        /\ \A h \in 1..fork : SubSeq(base, 1, fork)[h] = base[h]
    <2>1. fork \in Nat /\ fork >= 1 /\ \A h \in 1..fork : base[h] \in Records
      BY <1>1
    <2>2. /\ Len(SubSeq(base, 1, fork)) = IF 1 <= fork THEN fork - 1 + 1 ELSE 0
          /\ \A i \in 1..(fork - 1 + 1) : SubSeq(base, 1, fork)[i] = base[1 + i - 1]
      BY <2>1, SubSeqProperties
    <2> DEFINE cut == SubSeq(base, 1, fork)
    <2> HIDE DEF cut
    <2>3. Len(cut) = fork /\ \A h \in 1..fork : cut[h] = base[h]
      BY <2>1, <2>2 DEF cut
    <2> QED
      BY <2>3 DEF cut
  <1> QED
    BY <1>2, <1>3

\* A Reorg takes both stores back to the fork.
LEMMA ReorgReceived == ASSUME IInv, ReceiveReorg PROVE IInv' /\ OneEventApart(nf', tree)
  <1> DEFINE e == Head(channel)
             fork == Head(channel).rollback_to
  <1>1. /\ pc = "recv" /\ pc' = "rebuild_nf" /\ channel # <<>> /\ e.type = "Reorg"
        /\ nf' = [h \in {g \in DOMAIN nf : g <= fork} |-> nf[h]]
        /\ tree' = [tree EXCEPT !.blocks = SubSeq(@, 1, Kept(@, fork))]
        /\ channel' = Tail(channel) /\ UNCHANGED <<nodeVars, followVars>>
        /\ phase' = phase /\ cause' = cause /\ target' = target /\ next' = next
        /\ expectedPrev' = expectedPrev /\ history' = history /\ batch' = batch
        /\ unsaved' = unsaved /\ unlinked' = unlinked
        /\ liveNf' = liveNf /\ liveTree' = liveTree
        /\ savedNf' = savedNf /\ savedTree' = savedTree
    BY DEF ReceiveReorg, RollBack, followVars, liveVars, savedVars
  <1>2. NodeType /\ Control /\ Published /\ Stored /\ InFollow
    BY DEF IInv
  <1>3. phase # "off"
    BY <1>1, <1>2 DEF Control
  <1>4. PICK base \in Seq(Records) : Followed(base) /\ Holds(base)
    BY <1>2, <1>3 DEF InFollow
  <1>5. PICK after : after = Apply(base, e)
    OBVIOUS
  <1>6. /\ Followed(after)' /\ IsStart(base) /\ IsStart(after) /\ e \in Events
        /\ fork \in (Len(base) - Window + 1)..(Len(base) - 1)
    BY <1>1, <1>4, <1>5, ConsumeKeeps
  <1>7. fork \in Heights
    BY <1>1, <1>6 DEF Events
  <1>8. after = SubSeq(base, 1, Kept(base, fork))
    BY <1>1, <1>5 DEF Apply
  <1> HIDE DEF fork, e
  <1>9. /\ Len(base) \in Nat /\ base \in Seq(Records) /\ fork \in Nat /\ fork \in 1..Len(base)
        /\ DOMAIN base = 1..Len(base)
    BY <1>6, <1>7, IsStartParts, Numbers
  <1>10. /\ Len(after) = fork /\ after \in Seq(Records) /\ DOMAIN after = 1..fork
         /\ \A h \in 1..fork : after[h] = base[h]
    <2>1. Len(after) = fork /\ \A h \in 1..fork : after[h] = base[h]
      BY <1>6, <1>8, <1>9, CutStart
    <2>2. after \in Seq(Records)
      BY <1>6, IsStartParts
    <2> QED
      BY <2>1, <2>2
  <1>11. nf \in NfIndexes /\ Interval(nf) /\ tree \in Trees /\ NoGap(tree)
    BY <1>2 DEF Stored, NfOk, TreeOk
  <1>12. /\ DOMAIN nf # {} => NewestNf(nf) = Len(base)
         /\ tree.blocks # <<>> => NewestTree(tree) = Len(base)
         /\ ~unlinked =>
              /\ \A h \in DOMAIN nf : h \in DOMAIN base /\ nf[h] = base[h].hash
              /\ \A i \in DOMAIN tree.blocks :
                   /\ tree.blocks[i].height \in DOMAIN base
                   /\ tree.blocks[i].hash = base[tree.blocks[i].height].hash
    BY <1>4 DEF Holds
  <1>13. phase # "connect"
    BY <1>1, <1>4 DEF Followed, Mirrors
  <1>14. PICK new : new = nf'
    OBVIOUS
  <1>15. /\ new \in NfIndexes /\ Interval(new) /\ (DOMAIN new # {} => NewestNf(new) = fork)
         /\ \A h \in DOMAIN new : h \in DOMAIN nf /\ h <= fork /\ new[h] = nf[h]
    <2>1. DOMAIN nf # {} => fork <= NewestNf(nf)
      BY <1>9, <1>12
    <2>2. new = [h \in {g \in DOMAIN nf : g <= fork} |-> nf[h]]
      BY <1>1, <1>14
    <2> QED
      BY <1>9, <1>11, <2>1, <2>2, CutNf
  <1>16. PICK cut : cut = tree'
    OBVIOUS
  <1>17. /\ cut \in Trees /\ NoGap(cut) /\ (cut.blocks # <<>> => NewestTree(cut) = fork)
         /\ \A i \in DOMAIN cut.blocks : /\ i \in DOMAIN tree.blocks
                                         /\ cut.blocks[i] = tree.blocks[i]
                                         /\ cut.blocks[i].height <= fork
    <2>1. tree.blocks # <<>> => fork <= NewestTree(tree)
      BY <1>9, <1>12
    <2> DEFINE short == CutBack(tree, fork)
    <2>2. /\ short \in Trees /\ NoGap(short)
          /\ short.blocks # <<>> => NewestTree(short) = fork
          /\ \A i \in DOMAIN short.blocks : /\ i \in DOMAIN tree.blocks
                                            /\ short.blocks[i] = tree.blocks[i]
                                            /\ short.blocks[i].height <= fork
      BY <1>9, <1>11, <2>1, CutTree
    <2>3. cut = short
      BY <1>1, <1>16 DEF CutBack
    <2> HIDE DEF short
    <2> QED
      BY <2>2, <2>3
  <1>18. NfOk(new, unlinked)
    BY <1>2, <1>15 DEF Stored, NfOk
  <1>19. TreeOk(cut, unlinked)
    <2>1. ASSUME ~unlinked
          PROVE  \E c \in Chains : \A i \in DOMAIN cut.blocks : cut.blocks[i].hash = c[cut.blocks[i].height]
      <3>1. PICK c \in Chains : \A i \in DOMAIN tree.blocks :
                                  tree.blocks[i].hash = c[tree.blocks[i].height]
        BY <1>2, <2>1 DEF Stored, TreeOk
      <3> QED
        BY <1>17, <3>1
    <2> QED
      BY <1>17, <2>1 DEF TreeOk
  <1>20. Holds(after)'
    <2>1. ASSUME ~unlinked
          PROVE  /\ \A h \in DOMAIN new : h \in DOMAIN after /\ new[h] = after[h].hash
                 /\ \A i \in DOMAIN cut.blocks :
                      /\ cut.blocks[i].height \in DOMAIN after
                      /\ cut.blocks[i].hash = after[cut.blocks[i].height].hash
      <3>1. \A h \in DOMAIN base : h <= fork => h \in 1..fork /\ after[h] = base[h]
        BY <1>9, <1>10
      <3>2. \A h \in DOMAIN new : h \in DOMAIN after /\ new[h] = after[h].hash
        BY <1>10, <1>12, <1>15, <2>1, <3>1
      <3>3. \A i \in DOMAIN cut.blocks :
              /\ cut.blocks[i].height \in DOMAIN after
              /\ cut.blocks[i].hash = after[cut.blocks[i].height].hash
        BY <1>10, <1>12, <1>17, <2>1, <3>1
      <3> QED
        BY <3>2, <3>3
    <2>2. /\ DOMAIN new # {} => NewestNf(new) = Len(after)
          /\ cut.blocks # <<>> => NewestTree(cut) = Len(after)
      BY <1>10, <1>15, <1>17
    <2>3. /\ nf' = new /\ tree' = cut /\ unlinked' = unlinked /\ phase' # "connect"
      BY <1>1, <1>13, <1>14, <1>16
    <2> QED
      BY <2>1, <2>2, <2>3 DEF Holds
  <1>21. NodeType'
    BY <1>6 DEF Followed
  <1>22. Control'
    BY <1>1, <1>2, <1>3 DEF Control
  <1>23. Published'
    BY <1>1, <1>2 DEF Published
  <1>24. Stored'
    BY <1>1, <1>2, <1>14, <1>16, <1>18, <1>19 DEF Stored
  <1>25. InFollow'
    BY <1>6, <1>10, <1>20 DEF InFollow
  <1>26. OneEventApart(new, tree)
    <2>1. ASSUME DOMAIN new # {}, tree.blocks # <<>>
          PROVE  NewestNf(new) - NewestTree(tree) \in (-(Window - 1)..1) \ {0}
      <3>1. NewestNf(new) = fork /\ NewestTree(tree) = Len(base)
        BY <1>12, <1>15, <2>1
      <3>2. /\ fork \in Nat /\ Len(base) \in Nat /\ Window \in Nat
            /\ Len(base) - Window + 1 <= fork /\ fork <= Len(base) - 1
        BY <1>6, <1>9, Numbers
      <3> QED
        BY <3>1, <3>2
    <2>2. ASSUME ~unlinked, NEW i \in DOMAIN tree.blocks, tree.blocks[i].height \in DOMAIN new
          PROVE  tree.blocks[i].hash = new[tree.blocks[i].height]
      BY <1>12, <1>15, <2>2
    <2> QED
      BY <2>1, <2>2 DEF OneEventApart
  <1> QED
    BY <1>14, <1>21, <1>22, <1>23, <1>24, <1>25, <1>26 DEF IInv

\* A NewBlock adds the child of the newest block to both stores, or ends the server.
LEMMA BlockReceived ==
  ASSUME IInv, ReceiveBlock
  PROVE  /\ IInv'
         /\ \/ StopServer
            \/ /\ pc' = "rebuild_nf" /\ UNCHANGED <<liveVars, unlinked>>
               /\ OneEventApart(nf', tree)
  <1> DEFINE b == Head(channel)
             s == ApplyBlock([nf |-> nf, tree |-> tree, ok |-> TRUE], b, TRUE, TRUE)
  <1>1. CASE ~s.ok
    <2>1. StopServer
      BY <1>1 DEF ReceiveBlock
    <2> QED
      BY <2>1, StopKeeps DEF liveVars
  <1>2. ASSUME s.ok
        PROVE  IInv' /\ pc' = "rebuild_nf" /\ UNCHANGED <<liveVars, unlinked>> /\ OneEventApart(nf', tree)
    <2>1. /\ pc = "recv" /\ pc' = "rebuild_nf" /\ channel # <<>> /\ b.type = "NewBlock"
          /\ nf' = s.nf /\ tree' = s.tree /\ unsaved' = unsaved + 1
          /\ channel' = Tail(channel) /\ UNCHANGED <<nodeVars, followVars>>
          /\ phase' = phase /\ cause' = cause /\ target' = target /\ next' = next
          /\ expectedPrev' = expectedPrev /\ history' = history /\ batch' = batch
          /\ unlinked' = unlinked
          /\ liveNf' = liveNf /\ liveTree' = liveTree
          /\ savedNf' = savedNf /\ savedTree' = savedTree
      BY <1>2 DEF ReceiveBlock, followVars, liveVars, savedVars
    <2>2. s.nf = EvictToSize(InsertBlock(nf, b)) /\ s.tree = AppendBlock(tree, b)
      BY DEF ApplyBlock
    <2>3. NodeType /\ Control /\ Published /\ Stored /\ InFollow
      BY DEF IInv
    <2>4. phase # "off"
      BY <2>1, <2>3 DEF Control
    <2>5. PICK base \in Seq(Records) : Followed(base) /\ Holds(base)
      BY <2>3, <2>4 DEF InFollow
    <2>6. PICK after : after = Apply(base, b)
      OBVIOUS
    <2>7. Followed(after)' /\ IsStart(base) /\ IsStart(after) /\ b \in Events
      BY <2>1, <2>5, <2>6, ConsumeKeeps
    <2>8. after = Append(base, [height |-> b.height, hash |-> b.hash])
      BY <2>1, <2>6 DEF Apply
    <2>9. b.height \in Heights /\ b.hash \in Hashes
      BY <2>1, <2>7 DEF Events
    <2> HIDE DEF b, s
    <2> DEFINE n == b.height
    <2>10. /\ Len(base) \in Nat /\ DOMAIN base = 1..Len(base)
           /\ after \in Seq(Records) /\ Len(after) \in Nat /\ DOMAIN after = 1..Len(after)
           /\ \A h \in 1..Len(after) : after[h].height = h
      BY <2>7, IsStartParts
    <2>11. /\ Len(after) = Len(base) + 1
           /\ \A h \in 1..Len(base) : after[h] = base[h]
           /\ after[Len(base) + 1] = [height |-> b.height, hash |-> b.hash]
      <3>1. base \in Seq(Records) /\ [height |-> b.height, hash |-> b.hash] \in Records
        BY <2>5, <2>9 DEF Records
      <3> QED
        BY <2>8, <2>10, <3>1
    <2>12. n = Len(base) + 1 /\ n = Len(after) /\ after[n].hash = b.hash /\ n \in DOMAIN after
      BY <2>10, <2>11
    <2>13. PICK c \in Chains : \A h \in 1..Len(after) : after[h].hash = c[h]
      BY <2>7, IsStartParts
    <2>14. nf \in NfIndexes /\ Interval(nf) /\ tree \in Trees /\ NoGap(tree)
      BY <2>3 DEF Stored, NfOk, TreeOk
    <2>15. /\ DOMAIN nf # {} => NewestNf(nf) = Len(base)
           /\ tree.blocks # <<>> => NewestTree(tree) = Len(base)
           /\ ~unlinked =>
                /\ \A h \in DOMAIN nf : h \in DOMAIN base /\ nf[h] = base[h].hash
                /\ \A i \in DOMAIN tree.blocks :
                     /\ tree.blocks[i].height \in DOMAIN base
                     /\ tree.blocks[i].hash = base[tree.blocks[i].height].hash
      BY <2>5 DEF Holds
    <2>16. phase # "connect"
      BY <2>1, <2>5 DEF Followed, Mirrors
    <2>17. PICK new : new = s.nf
      OBVIOUS
    <2>18. /\ new \in NfIndexes /\ Interval(new) /\ (DOMAIN new # {} => NewestNf(new) = n)
           /\ \A h \in DOMAIN new : IF h = n THEN new[h] = b.hash
                                    ELSE h \in DOMAIN nf /\ new[h] = nf[h]
      <3> DEFINE longer == InsertBlock(nf, b)
                 kept == EvictToSize(longer)
      <3>1. DOMAIN nf # {} => b.height = NewestNf(nf) + 1
        BY <2>12, <2>15
      <3>2. /\ longer \in NfIndexes /\ Interval(longer) /\ NewestNf(longer) = b.height
            /\ \A h \in DOMAIN longer : IF h = b.height THEN longer[h] = b.hash
                                        ELSE h \in DOMAIN nf /\ longer[h] = nf[h]
        BY <2>9, <2>14, <3>1, InsertKeeps
      <3> HIDE DEF longer
      <3>3. /\ kept \in NfIndexes /\ DOMAIN kept \subseteq DOMAIN longer
            /\ \A h \in DOMAIN kept : kept[h] = longer[h]
            /\ Interval(kept)
            /\ DOMAIN kept # {} => NewestNf(kept) = NewestNf(longer)
        BY <3>2, EvictKeeps
      <3>4. new = kept
        BY <2>2, <2>17 DEF longer
      <3> HIDE DEF kept
      <3> QED
        BY <3>2, <3>3, <3>4
    <2>19. PICK long : long = s.tree
      OBVIOUS
    <2>20. /\ long \in Trees /\ NoGap(long) /\ NewestTree(long) = n
           /\ \A i \in DOMAIN long.blocks :
                IF i \in DOMAIN tree.blocks THEN long.blocks[i] = tree.blocks[i]
                ELSE long.blocks[i] = [height |-> b.height, hash |-> b.hash]
      <3> DEFINE longer == AppendBlock(tree, b)
      <3>1. tree.blocks # <<>> => b.height = NewestTree(tree) + 1
        BY <2>12, <2>15
      <3>2. /\ longer \in Trees /\ NewestTree(longer) = b.height /\ NoGap(longer)
            /\ \A i \in DOMAIN longer.blocks :
                  IF i \in DOMAIN tree.blocks THEN longer.blocks[i] = tree.blocks[i]
                  ELSE i = Len(longer.blocks)
                       /\ longer.blocks[i] = [height |-> b.height, hash |-> b.hash]
        BY <2>9, <2>14, <3>1, AppendKeeps
      <3>3. long = longer
        BY <2>2, <2>19
      <3> HIDE DEF longer
      <3> QED
        BY <3>2, <3>3
    <2> HIDE DEF n
    <2>21. ASSUME ~unlinked
           PROVE  /\ \A h \in DOMAIN new : h \in DOMAIN after /\ new[h] = after[h].hash
                  /\ \A i \in DOMAIN long.blocks :
                       /\ long.blocks[i].height \in DOMAIN after
                       /\ long.blocks[i].hash = after[long.blocks[i].height].hash
      <3>1. \A h \in DOMAIN base : h \in DOMAIN after /\ after[h] = base[h]
        BY <2>10, <2>11
      <3>2. \A h \in DOMAIN new : h \in DOMAIN after /\ new[h] = after[h].hash
        <4> TAKE h \in DOMAIN new
        <4>1. CASE h = n
          BY <2>12, <2>18, <4>1
        <4>2. CASE h # n
          BY <2>15, <2>18, <2>21, <3>1, <4>2
        <4> QED
          BY <4>1, <4>2
      <3>3. \A i \in DOMAIN long.blocks :
              /\ long.blocks[i].height \in DOMAIN after
              /\ long.blocks[i].hash = after[long.blocks[i].height].hash
        <4> TAKE i \in DOMAIN long.blocks
        <4>1. CASE i \in DOMAIN tree.blocks
          BY <2>15, <2>20, <2>21, <3>1, <4>1
        <4>2. CASE i \notin DOMAIN tree.blocks
          <5>1. long.blocks[i].height = n /\ long.blocks[i].hash = b.hash
            BY <2>20, <4>2 DEF n
          <5> QED
            BY <2>12, <5>1
        <4> QED
          BY <4>1, <4>2
      <3> QED
        BY <3>2, <3>3
    <2>22. NfOk(new, unlinked)
      <3>1. \A h \in DOMAIN new : \E d \in Chains : new[h] = d[h]
        <4> TAKE h \in DOMAIN new
        <4>1. CASE h = n
          BY <2>10, <2>12, <2>13, <2>18, <4>1
        <4>2. CASE h # n
          BY <2>3, <2>18, <4>2 DEF Stored, NfOk
        <4> QED
          BY <4>1, <4>2
      <3>2. ~unlinked => \A h \in DOMAIN new : new[h] = c[h]
        BY <2>10, <2>13, <2>21
      <3> QED
        BY <2>18, <3>1, <3>2 DEF NfOk
    <2>23. TreeOk(long, unlinked)
      <3>1. ~unlinked => \A i \in DOMAIN long.blocks :
                           long.blocks[i].hash = c[long.blocks[i].height]
        BY <2>10, <2>13, <2>21
      <3> QED
        BY <2>20, <3>1 DEF TreeOk
    <2>24. Holds(after)'
      <3>1. /\ DOMAIN new # {} => NewestNf(new) = Len(after)
            /\ long.blocks # <<>> => NewestTree(long) = Len(after)
        BY <2>12, <2>18, <2>20
      <3>2. nf' = new /\ tree' = long /\ unlinked' = unlinked /\ phase' # "connect"
        BY <2>1, <2>16, <2>17, <2>19
      <3> QED
        BY <2>21, <3>1, <3>2 DEF Holds
    <2>25. NodeType'
      BY <2>7 DEF Followed
    <2>26. Control'
      <3>1. unsaved = 0 \/ unsaved < SnapshotInterval
        BY <2>1, <2>3 DEF Control
      <3>2. unsaved \in Nat /\ SnapshotInterval \in Nat
        BY <2>3, ServerAssumption DEF Control, MaxOf
      <3>3. unsaved' \in 0..MaxOf(SnapshotInterval, 1)
        BY <2>1, <3>1, <3>2 DEF MaxOf
      <3> QED
        BY <2>1, <2>3, <2>4, <3>3 DEF Control
    <2>27. Published'
      BY <2>1, <2>3 DEF Published
    <2>28. Stored'
      BY <2>1, <2>3, <2>17, <2>19, <2>22, <2>23 DEF Stored
    <2>29. InFollow'
      BY <2>7, <2>10, <2>24 DEF InFollow
    <2>30. OneEventApart(new, tree)
      <3>1. ASSUME DOMAIN new # {}, tree.blocks # <<>>
            PROVE  NewestNf(new) - NewestTree(tree) \in (-(Window - 1)..1) \ {0}
        <4>1. NewestNf(new) = Len(base) + 1 /\ NewestTree(tree) = Len(base)
          BY <2>12, <2>15, <2>18, <3>1
        <4> QED
          BY <2>10, <4>1, Numbers
      <3>2. ASSUME ~unlinked, NEW i \in DOMAIN tree.blocks, tree.blocks[i].height \in DOMAIN new
            PROVE  tree.blocks[i].hash = new[tree.blocks[i].height]
        <4>1. /\ tree.blocks[i].height \in 1..Len(base)
              /\ tree.blocks[i].hash = base[tree.blocks[i].height].hash
          BY <2>10, <2>15, <3>2
        <4>2. tree.blocks[i].height # n
          BY <2>10, <2>12, <4>1
        <4> QED
          BY <2>15, <2>18, <3>2, <4>1, <4>2
      <3> QED
        BY <3>1, <3>2 DEF OneEventApart
    <2>31. pc' = "rebuild_nf" /\ UNCHANGED <<liveVars, unlinked>> /\ OneEventApart(nf', tree)
      BY <2>1, <2>17, <2>30 DEF liveVars
    <2> QED
      BY <2>25, <2>26, <2>27, <2>28, <2>29, <2>31 DEF IInv
  <1> QED
    BY <1>1, <1>2

\* A step that changes nothing.
LEMMA StutterKeeps == ASSUME IInv, UNCHANGED vars PROVE IInv'
  <1>1. /\ UNCHANGED pipelineVars /\ phase' = phase /\ cause' = cause /\ target' = target
        /\ next' = next /\ expectedPrev' = expectedPrev /\ history' = history /\ batch' = batch
        /\ channel' = channel
        /\ pc' = pc /\ nf' = nf /\ tree' = tree /\ unsaved' = unsaved
        /\ liveNf' = liveNf /\ liveTree' = liveTree
        /\ savedNf' = savedNf /\ savedTree' = savedTree /\ unlinked' = unlinked
    BY DEF vars, serverVars, storeVars, liveVars, savedVars, pipelineVars, followVars
  <1>2. NodeType /\ Control /\ Published /\ Stored /\ InFollow
    BY DEF IInv
  <1>3. NodeType' /\ InFollow'
    BY <1>1, <1>2, FollowUndisturbed
  <1>4. Control'
    BY <1>1, <1>2 DEF Control
  <1>5. Published'
    BY <1>1, <1>2 DEF Published
  <1>6. Stored'
    BY <1>1, <1>2 DEF Stored
  <1> QED
    BY <1>3, <1>4, <1>5, <1>6 DEF IInv

\* The invariant is inductive, and holds in every reachable state of every instance.
THEOREM InvariantHolds == Spec => []IInv
  <1>1. Init => IInv
    BY InitHas
  <1>2. IInv /\ [Next]_vars => IInv'
    <2> SUFFICES ASSUME IInv, [Next]_vars PROVE IInv'
      OBVIOUS
    <2>1. CASE NodeStep /\ UNCHANGED <<followVars, channel, serverVars>>
      BY <2>1, NodeMoves
    <2>2. CASE (Producer \/ RpcError) /\ UNCHANGED serverVars
      BY <2>2, ProducerMoves
    <2>3. CASE Sync
      BY <2>3, SyncKeeps
    <2>4. CASE RebuildNf \/ RebuildTree \/ SaveNf \/ SaveTree
      BY <2>4, WorkKeeps
    <2>5. CASE StartFollowing
      BY <2>5, StartKeeps
    <2>6. CASE TipMismatch \/ FollowEnded \/ Crash
      <3>1. StopServer
        BY <2>6 DEF TipMismatch, FollowEnded, Crash
      <3> QED
        BY <3>1, StopKeeps
    <2>7. CASE ReceiveReorg
      BY <2>7, ReorgReceived
    <2>8. CASE ReceiveBlock
      BY <2>8, BlockReceived
    <2>9. CASE UNCHANGED vars
      BY <2>9, StutterKeeps
    <2> QED
      BY <2>1, <2>2, <2>3, <2>4, <2>5, <2>6, <2>7, <2>8, <2>9 DEF Next, Server
  <1> QED
    BY <1>1, <1>2, PTL DEF Spec

-----------------------------------------------------------------------------
(* What holds in every state *)

\* A cell or a file holds nothing or one value of its type.
LEMMA AtMostOne ==
  ASSUME NEW S, NEW T, T = {} \/ \E x \in S : T = {x}
  PROVE  (\A x \in T : x \in S) /\ Cardinality(T) <= 1
  <1>1. CASE T = {}
    <2>1. Cardinality(T) = 0
      BY <1>1, FS_EmptySet
    <2> QED
      BY <1>1, <2>1
  <1>2. CASE \E x \in S : T = {x}
    <2>1. PICK x \in S : T = {x}
      BY <1>2
    <2>2. Cardinality(T) = 1
      BY <2>1, FS_Singleton
    <2> QED
      BY <2>1, <2>2
  <1> QED
    BY <1>1, <1>2

\* Every variable of the server holds a value of its type.
THEOREM TypeCorrect == Spec => []TypeOK
  <1>1. IInv => TypeOK
    <2> SUFFICES ASSUME IInv PROVE TypeOK
      OBVIOUS
    <2>1. Control /\ Published /\ Stored
      BY DEF IInv
    <2>3. /\ \A db \in liveNf : db \in NfIndexes
          /\ \A t \in liveTree : t \in Trees
          /\ Cardinality(liveNf) <= 1 /\ Cardinality(liveTree) <= 1
      <3>1. /\ liveNf = {} \/ \E db \in NfIndexes : liveNf = {db}
            /\ liveTree = {} \/ \E t \in Trees : liveTree = {t}
        BY <2>1 DEF Published
      <3> QED
        BY <3>1, AtMostOne
    <2>4. /\ \A db \in savedNf : db \in NfIndexes
          /\ \A t \in savedTree : t \in Trees
          /\ Cardinality(savedNf) <= 1 /\ Cardinality(savedTree) <= 1
      <3>1. /\ savedNf = {} \/ \E db \in NfIndexes : savedNf = {db}
            /\ savedTree = {} \/ \E t \in Trees : savedTree = {t}
        BY <2>1 DEF Stored
      <3> QED
        BY <3>1, AtMostOne
    <2>5. nf \in NfIndexes /\ tree \in Trees
      BY <2>1 DEF Stored, NfOk, TreeOk
    <2> QED
      BY <2>1, <2>3, <2>4, <2>5 DEF TypeOK, Control, Published, Following
  <1> QED
    BY <1>1, InvariantHolds, PTL

\* What a store holds of blocks that are the start of a chain.
LEMMA HeldOnChain ==
  ASSUME NEW base, IsStart(base)
  PROVE  \E c \in Chains :
           Holds(base) /\ ~unlinked => OnChain(c, nf, tree)
  <1>1. PICK c \in Chains : \A h \in 1..Len(base) : base[h].hash = c[h]
    BY IsStartParts
  <1>2. DOMAIN base = 1..Len(base)
    BY IsStartParts
  <1> QED
    BY <1>1, <1>2 DEF Holds, OnChain

\* While the server follows, the nullifier table and the commitment tree hold blocks of one
\* chain: whatever the node does, wherever the process crashes, between the two saves
\* included, unless a restart resumed above a block that the node had left.
THEOREM OneChain == Spec => []StoresOnOneChain
  <1>1. IInv => StoresOnOneChain
    <2> SUFFICES ASSUME IInv, phase # "off", ~unlinked
                 PROVE  \E c \in Chains : OnChain(c, nf, tree)
      BY DEF StoresOnOneChain, Following
    <2>1. PICK base \in Seq(Records) : Followed(base) /\ Holds(base)
      BY DEF IInv, InFollow
    <2>2. IsStart(base)
      BY <2>1, BaseStart
    <2> QED
      BY <2>1, <2>2, HeldOnChain
  <1> QED
    BY <1>1, InvariantHolds, PTL

\* While the server follows, neither store has a gap and both end at the same height.
THEOREM InStep == Spec => []StoresInStep
  <1>1. IInv => StoresInStep
    <2> SUFFICES ASSUME IInv, phase # "off"
                 PROVE  /\ \A g, h \in DOMAIN nf : g..h \subseteq DOMAIN nf
                        /\ \A i, j \in DOMAIN tree.blocks :
                             tree.blocks[j].height - tree.blocks[i].height = j - i
                        /\ DOMAIN nf # {} /\ tree.blocks # <<>> => NewestTree(tree) = NewestNf(nf)
      BY DEF StoresInStep, Following
    <2>1. PICK base \in Seq(Records) : Followed(base) /\ Holds(base)
      BY DEF IInv, InFollow
    <2>2. Interval(nf) /\ NoGap(tree)
      BY DEF IInv, Stored, NfOk, TreeOk
    <2> QED
      BY <2>1, <2>2 DEF Holds, Interval, NoGap
  <1> QED
    BY <1>1, InvariantHolds, PTL

\* What the endpoints serve while the stores are being published: the state before the
\* event in hand, or nothing yet.
Publishing ==
  /\ phase # "off" /\ pc = "rebuild_nf" =>
       \E db, t : /\ liveNf = {db} /\ liveTree = {t}
                  /\ SameTip(db, t) /\ OneEventApart(nf, t)
  /\ phase # "off" /\ pc = "rebuild_tree" => \E t : liveTree = {t} /\ OneEventApart(nf, t)
  /\ phase = "off" /\ pc = "rebuild_nf" => liveNf = {} /\ liveTree = {}
  /\ phase = "off" /\ pc = "rebuild_tree" => liveTree = {}
  /\ phase = "off" /\ pc # "down" => SnapshotAhead(nf, tree)

\* The stores of a server that follows end at one block.
LEMMA TipsSame ==
  ASSUME IInv, phase # "off"
  PROVE  SameTip(nf, tree)
  <1>1. PICK base \in Seq(Records) : Followed(base) /\ Holds(base)
    BY DEF IInv, InFollow
  <1>2. nf \in NfIndexes /\ tree \in Trees
    BY DEF IInv, Stored, NfOk, TreeOk
  <1>3. ASSUME DOMAIN nf # {}, tree.blocks # <<>>
        PROVE  /\ NewestTree(tree) = NewestNf(nf)
               /\ ~unlinked => Last(tree.blocks).hash = nf[NewestNf(nf)]
    <2>1. NewestTree(tree) = Len(base) /\ NewestNf(nf) = Len(base)
      BY <1>1, <1>3 DEF Holds
    <2>2. /\ NewestNf(nf) \in DOMAIN nf
          /\ Len(tree.blocks) \in DOMAIN tree.blocks
          /\ Last(tree.blocks) = tree.blocks[Len(tree.blocks)]
          /\ NewestTree(tree) = tree.blocks[Len(tree.blocks)].height
      BY <1>2, <1>3, NewestNfIs, NewestTreeIs, TreeParts
    <2> QED
      BY <1>1, <2>1, <2>2 DEF Holds
  <1> QED
    BY <1>3 DEF SameTip

\* The node and the follow task leave the server's own state alone.
LEMMA PipelinePublishes ==
  ASSUME Publishing, UNCHANGED serverVars, phase' = "off" <=> phase = "off"
  PROVE  Publishing'
  <1>1. /\ pc' = pc /\ nf' = nf /\ tree' = tree /\ unlinked' = unlinked
        /\ liveNf' = liveNf /\ liveTree' = liveTree
        /\ savedNf' = savedNf /\ savedTree' = savedTree
    BY DEF serverVars, storeVars, liveVars, savedVars
  <1>2. \A db, t : SameTip(db, t) => SameTip(db, t)'
    BY <1>1 DEF SameTip
  <1>3. \A t : OneEventApart(nf, t) => OneEventApart(nf, t)'
    BY <1>1 DEF OneEventApart
  <1>4. SnapshotAhead(nf, tree) => SnapshotAhead(nf, tree)'
    BY <1>1 DEF SnapshotAhead
  <1>5. ASSUME phase' # "off", pc' = "rebuild_nf"
        PROVE  \E db, t : /\ liveNf' = {db} /\ liveTree' = {t}
                          /\ SameTip(db, t)' /\ OneEventApart(nf, t)'
    BY <1>1, <1>2, <1>3, <1>5 DEF Publishing
  <1>6. ASSUME phase' # "off", pc' = "rebuild_tree"
        PROVE  \E t : liveTree' = {t} /\ OneEventApart(nf, t)'
    BY <1>1, <1>3, <1>6 DEF Publishing
  <1>7. /\ phase' = "off" /\ pc' = "rebuild_nf" => liveNf' = {} /\ liveTree' = {}
        /\ phase' = "off" /\ pc' = "rebuild_tree" => liveTree' = {}
        /\ phase' = "off" /\ pc' # "down" => SnapshotAhead(nf, tree)'
    BY <1>1, <1>4 DEF Publishing
  <1> QED
    BY <1>5, <1>6, <1>7 DEF Publishing

\* rebuild_both and save_both.
LEMMA WorkPublishes ==
  ASSUME Publishing, RebuildNf \/ RebuildTree \/ SaveNf \/ SaveTree
  PROVE  Publishing'
  <1>1. /\ pc # "down" /\ phase' = phase /\ nf' = nf /\ tree' = tree /\ unlinked' = unlinked
    BY DEF RebuildNf, RebuildTree, SaveNf, SaveTree, storeVars, pipelineVars, followVars
  <1>2. /\ savedNf' = savedNf \/ savedNf' = {nf}
        /\ savedTree' = savedTree \/ savedTree' = {tree}
    BY DEF RebuildNf, RebuildTree, SaveNf, SaveTree, savedVars
  <1>3. phase' = "off" => SnapshotAhead(nf, tree)'
    BY <1>1, <1>2 DEF Publishing, SnapshotAhead
  <1>4. CASE RebuildNf
    <2>1. pc = "rebuild_nf" /\ pc' = "rebuild_tree" /\ liveTree' = liveTree
      BY <1>4 DEF RebuildNf
    <2> QED
      BY <1>1, <1>3, <2>1 DEF Publishing, OneEventApart
  <1>5. CASE RebuildTree \/ SaveNf \/ SaveTree
    <2>1. pc' \notin {"rebuild_nf", "rebuild_tree"}
      BY <1>5 DEF RebuildTree, SaveNf, SaveTree
    <2> QED
      BY <1>3, <2>1 DEF Publishing
  <1> QED
    BY <1>4, <1>5

\* An event is handled: the endpoints keep serving the state before it.
LEMMA ReceivePublishes ==
  ASSUME IInv, pc = "recv", pc' = "rebuild_nf", phase' = phase, UNCHANGED <<liveVars, unlinked>>,
         OneEventApart(nf', tree)
  PROVE  Publishing'
  <1>1. liveNf' = {nf} /\ liveTree' = {tree} /\ unlinked' = unlinked /\ phase' # "off"
    BY DEF IInv, Published, Control, liveVars
  <1>2. SameTip(nf, tree)
    BY <1>1, TipsSame
  <1>3. SameTip(nf, tree) => \A db, t : db = nf /\ t = tree => SameTip(db, t)'
    BY <1>1 DEF SameTip
  <1>4. OneEventApart(nf', tree) => \A t : t = tree => OneEventApart(nf, t)'
    BY <1>1 DEF OneEventApart
  <1>5. \E db, t : /\ liveNf' = {db} /\ liveTree' = {t}
                   /\ SameTip(db, t)' /\ OneEventApart(nf, t)'
    BY <1>1, <1>2, <1>3, <1>4
  <1> QED
    BY <1>1, <1>5 DEF Publishing

\* Every step keeps that.
LEMMA PublishingKept ==
  ASSUME IInv, Publishing, [Next]_vars
  PROVE  Publishing'
  <1>1. CASE NodeStep /\ UNCHANGED <<followVars, channel, serverVars>>
    BY <1>1, PipelinePublishes DEF followVars
  <1>2. CASE (Producer \/ RpcError) /\ UNCHANGED serverVars
    <2>1. phase # "off"
      BY <1>2 DEF Producer, RpcError, LoadHistory, Poll, FindFork, SendReorg, FetchBatch,
                  SendBlock, EndPoll
    <2>2. IInv'
      BY <1>2, ProducerMoves
    <2>3. phase' # "off"
      BY <1>2, <2>1 DEF Producer, RpcError, LoadHistory, Poll, FindFork, SendReorg, FetchBatch,
                        SendBlock, EndPoll, Fail
    <2> QED
      BY <1>2, <2>1, <2>3, PipelinePublishes
  <1>3. CASE Sync
    <2>1. SnapshotAhead(nf, tree)'
      BY <1>3, SyncKeeps
    <2>2. /\ pc' = "rebuild_nf" /\ phase' = phase /\ liveNf' = liveNf /\ liveTree' = liveTree
          /\ pc = "down"
      BY <1>3 DEF Sync, followVars, liveVars
    <2>3. phase = "off" /\ liveNf = {} /\ liveTree = {}
      BY <2>2 DEF IInv, Control, Published
    <2> QED
      BY <2>1, <2>2, <2>3 DEF Publishing
  <1>4. CASE RebuildNf \/ RebuildTree \/ SaveNf \/ SaveTree
    BY <1>4, WorkPublishes
  <1>5. CASE StartFollowing
    BY <1>5 DEF StartFollowing, Publishing
  <1>6. CASE StopServer
    BY <1>6 DEF StopServer, Volatile, Publishing
  <1>7. CASE ReceiveReorg
    <2>1. /\ pc = "recv" /\ pc' = "rebuild_nf" /\ phase' = phase
          /\ UNCHANGED <<liveVars, unlinked>>
      BY <1>7 DEF ReceiveReorg, followVars
    <2> QED
      BY <1>7, <2>1, ReorgReceived, ReceivePublishes
  <1>8. CASE ReceiveBlock
    <2>1. pc = "recv"
      BY <1>8 DEF ReceiveBlock
    <2>2. StopServer \/ phase' = phase
      BY <1>8 DEF ReceiveBlock, followVars
    <2> QED
      BY <1>6, <1>8, <2>1, <2>2, BlockReceived, ReceivePublishes
  <1>9. CASE UNCHANGED vars
    BY <1>9, PipelinePublishes DEF vars, pipelineVars, followVars
  <1>10. TipMismatch \/ FollowEnded \/ Crash => StopServer
    BY DEF TipMismatch, FollowEnded, Crash
  <1> QED
    BY <1>1, <1>2, <1>3, <1>4, <1>5, <1>6, <1>7, <1>8, <1>9, <1>10 DEF Next, Server

\* What the two endpoints serve together.  While the server follows it is one state: the
\* same blocks, ending at the same height and, unless a restart resumed above a block that
\* the node had left, at the same block; between the two swaps of a rebuild they are one
\* event apart, and before the tips are compared they end at different heights only when a
\* snapshot was ahead of the confirmed tip.
THEOREM ServesInStep == Spec => []ServedInStep
  <1>1. Init => IInv /\ Publishing
    BY InitHas DEF Init, Publishing
  <1>2. (IInv /\ Publishing) /\ [Next]_vars => Publishing'
    BY PublishingKept
  <1>3. IInv /\ Publishing => ServedInStep
    <2> SUFFICES ASSUME IInv, Publishing PROVE ServedInStep
      OBVIOUS
    <2>1. Control /\ Published
      BY DEF IInv
    <2>2. pc = "recv" => liveNf = {nf} /\ liveTree = {tree}
      BY <2>1 DEF Published
    <2>3. ASSUME NEW db \in liveNf, NEW t \in liveTree, phase = "off"
          PROVE  SnapshotAhead(db, t)
      <3>1. pc \in {"save_nf", "save_tree", "check"}
        BY <2>1, <2>3 DEF Control, Published, Publishing
      <3>2. db = nf /\ t = tree
        BY <2>1, <2>3, <3>1 DEF Published
      <3> QED
        BY <2>3, <3>1, <3>2 DEF Publishing
    <2>4. ASSUME NEW db \in liveNf, NEW t \in liveTree, phase # "off", pc = "rebuild_tree"
          PROVE  OneEventApart(db, t)
      <3>1. db = nf
        BY <2>1, <2>4 DEF Published
      <3> QED
        BY <2>4, <3>1 DEF Publishing
    <2>5. ASSUME NEW db \in liveNf, NEW t \in liveTree, phase # "off", pc # "rebuild_tree"
          PROVE  SameTip(db, t)
      <3>1. CASE pc = "rebuild_nf"
        BY <2>5, <3>1 DEF Publishing
      <3>2. CASE pc # "rebuild_nf"
        <4>1. db = nf /\ t = tree
          BY <2>1, <2>5, <3>2 DEF Control, Published
        <4> QED
          BY <2>5, <4>1, TipsSame
      <3> QED
        BY <3>1, <3>2
    <2> QED
      BY <2>2, <2>3, <2>4, <2>5 DEF ServedInStep, Following
  <1> QED
    BY <1>1, <1>2, <1>3, InvariantHolds, PTL DEF Spec

\* Wherever the process crashed, between the two saves included, the snapshots bring both
\* stores to the confirmed tip together, unless the node has left their blocks.
THEOREM SnapshotsResumeTogether == Spec => []SnapshotsResume
  <1>1. IInv => SnapshotsResume
    <2> DEFINE goal == ConfirmedTip
               db == ValueOr(savedNf, NoNf)
               From(t) == SyncStart(db, t)
               Fetched(t) == [i \in 1..(goal - From(t) + 1) |-> CompactBlock(best, From(t) + i - 1)]
    <2> SUFFICES ASSUME IInv,
                        NEW t \in (IF savedTree = {} THEN PreparedTrees(goal) ELSE savedTree),
                        t.windowed => t.blocks # <<>>, OnChain(best, db, t),
                        NewestNf(db) <= goal, NewestTree(t) <= goal
                 PROVE  LET s == SyncStores(db, t, Fetched(t))
                        IN  /\ s.ok
                            /\ NewestTree(s.tree) = goal
                            /\ NewestNf(s.nf) = goal \/ NullifierCount[best[goal]] > TargetSize
      BY DEF SnapshotsResume
    <2> DEFINE N == goal - SyncStart(db, t) + 1
               blocks == Fetched(t)
               s == SyncStores(db, t, blocks)
    <2>1. NodeType /\ Stored
      BY DEF IInv
    <2>2. best \in Chains /\ goal \in Nat /\ goal <= MaxHeight
      <3>1. tip \in Nat /\ tip <= MaxHeight /\ Depth \in Nat /\ best \in Chains
        BY <2>1, Numbers DEF NodeType
      <3>2. goal = MaxOf(tip - Depth, 0)
        BY DEF ConfirmedTip
      <3> HIDE DEF goal
      <3>3. goal \in Nat /\ goal <= tip
        BY <3>1, <3>2 DEF MaxOf
      <3> QED
        BY <3>1, <3>3, Numbers
    <2>3. NfOk(db, unlinked)
      <3>1. CASE savedNf = {}
        BY <2>1, <3>1, NothingStored DEF ValueOr
      <3>2. CASE savedNf # {}
        <4>1. PICK x \in NfIndexes : savedNf = {x} /\ NfOk(x, unlinked)
          BY <2>1, <3>2 DEF Stored
        <4> QED
          BY <3>2, <4>1 DEF ValueOr
      <3> QED
        BY <3>1, <3>2
    <2>4. TreeOk(t, unlinked)
      BY <2>1, StartsFrom
    <2>5. /\ \A i \in DOMAIN t.blocks : t.blocks[i].hash = best[t.blocks[i].height]
          /\ NewestNf(db) <= goal /\ NewestTree(t) <= goal /\ (t.windowed => t.blocks # <<>>)
      BY DEF OnChain
    <2> HIDE DEF goal, db
    <2>6. /\ db \in NfIndexes /\ Interval(db) /\ t \in Trees /\ NoGap(t)
          /\ NewestNf(db) \in Nat /\ NewestTree(t) \in Nat
      BY <2>3, <2>4, NewestNfIs, NewestTreeIs DEF NfOk, TreeOk
    <2>7. N \in Nat /\ SyncStart(db, t) - 1 + N = goal
      <3>1. NewestNf(db) <= goal /\ NewestTree(t) <= goal
        BY <2>5
      <3>2. SyncStart(db, t) \in Nat /\ SyncStart(db, t) <= goal + 1
        BY <2>2, <2>6, <3>1 DEF SyncStart, MinOf
      <3> QED
        BY <2>2, <3>2
    <2>8. PICK n \in Nat : n = N
      BY <2>7
    <2>9. blocks = [i \in 1..n |-> CompactBlock(best, SyncStart(db, t) + i - 1)]
      BY <2>8
    <2>10. SyncStart(db, t) - 1 + n = goal
      BY <2>7, <2>8
    <2> HIDE DEF blocks, N
    <2>11. /\ BroughtNf(s.nf, db, best, SyncStart(db, t) - 1 + n)
           /\ BroughtTree(s.tree, t, best, SyncStart(db, t) - 1 + n)
           /\ (/\ t.windowed => t.blocks # <<>>
               /\ \A i \in DOMAIN t.blocks : t.blocks[i].hash = best[t.blocks[i].height]) => s.ok
      BY <2>2, <2>6, <2>9, <2>10, SyncIs
    <2> HIDE DEF s
    <2>12. s.ok /\ BroughtNf(s.nf, db, best, goal) /\ BroughtTree(s.tree, t, best, goal)
      BY <2>5, <2>10, <2>11
    <2>13. MaxOf(NewestNf(db), goal) = goal /\ MaxOf(NewestTree(t), goal) = goal
      BY <2>2, <2>5, <2>6 DEF MaxOf
    <2>14. NewestTree(s.tree) = goal
      <3>1. CASE s.tree.blocks = <<>>
        BY <2>12, <3>1 DEF BroughtTree, NewestTree
      <3>2. CASE s.tree.blocks # <<>>
        BY <2>12, <2>13, <3>2 DEF BroughtTree
      <3> QED
        BY <3>1, <3>2
    <2>15. NewestNf(s.nf) = goal \/ NullifierCount[best[goal]] > TargetSize
      <3>1. CASE DOMAIN s.nf # {}
        BY <2>12, <2>13, <3>1 DEF BroughtNf
      <3>2. CASE DOMAIN s.nf = {} /\ goal = 0
        BY <3>2 DEF NewestNf
      <3>3. CASE DOMAIN s.nf = {} /\ goal # 0
        <4>1. NullifierCount[NewestHash(db, best, goal)] > TargetSize
          BY <2>12, <2>13, <3>3 DEF BroughtNf
        <4>2. CASE goal <= NewestNf(db)
          <5>1. goal = NewestNf(db)
            <6>1. NewestNf(db) <= goal /\ NewestNf(db) \in Nat
              BY <2>5, <2>6
            <6> QED
              BY <2>2, <4>2, <6>1
          <5>2. goal \in DOMAIN db
            BY <2>6, <3>3, <5>1, NewestNfIs
          <5>3. db[goal] = best[goal]
            BY <5>2 DEF OnChain
          <5> QED
            BY <4>1, <4>2, <5>1, <5>3 DEF NewestHash
        <4>3. CASE ~ (goal <= NewestNf(db))
          BY <4>1, <4>3 DEF NewestHash
        <4> QED
          BY <4>2, <4>3
      <3> QED
        BY <3>1, <3>2, <3>3
    <2>16. s.ok
      BY <2>12
    <2> QED
      BY <2>14, <2>15, <2>16 DEF s, blocks
  <1> QED
    BY <1>1, InvariantHolds, PTL
=============================================================================
