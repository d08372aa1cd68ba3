------------------------------ MODULE Induction ------------------------------
(***************************************************************************)
(* Induction over an initial part of the naturals, and the greatest        *)
(* element of a set of them, in forms without operator parameters: the     *)
(* facts that the proofs about recursive functions of the model rest on.   *)
(***************************************************************************)
EXTENDS Integers, FiniteSetsExt, FiniteSetTheorems, WellFoundedInduction, TLAPS

\* Every nonempty set of naturals has a least element.
LEMMA LeastNatural ==
  ASSUME NEW T \in SUBSET Nat, T # {}
  PROVE  \E m \in T : \A n \in T : m <= n
  <1>1. IsWellFoundedOn(OpToRel(<, Nat), Nat)
    BY NatLessThanWellFounded
  <1>2. PICK m \in T : \A n \in T : ~ (<<n, m>> \in OpToRel(<, Nat))
    BY <1>1, WFMin
  <1>3. \A n \in T : <<n, m>> \in OpToRel(<, Nat) <=> n < m
    BY DEF OpToRel
  <1>4. \A n \in T : m \in Nat /\ n \in Nat /\ ~ (n < m)
    BY <1>2, <1>3
  <1> QED
    BY <1>4

\* A set with 0 and, up to N, the successor of each of its elements holds 0..N.
LEMMA UpTo ==
  ASSUME NEW N \in Nat, NEW T, 0 \in T, \A n \in 0..(N - 1) : n \in T => n + 1 \in T
  PROVE  \A n \in 0..N : n \in T
  <1> DEFINE Missing == {n \in 0..N : n \notin T}
  <1>1. SUFFICES ASSUME Missing # {} PROVE FALSE
    OBVIOUS
  <1>2. Missing \in SUBSET Nat
    OBVIOUS
  <1>3. PICK m \in Missing : \A n \in Missing : m <= n
    <2> HIDE DEF Missing
    <2> QED
      BY <1>1, <1>2, LeastNatural
  <1>4. m \in 0..N /\ m \notin T /\ m # 0
    BY <1>3
  <1>5. m - 1 \in 0..(N - 1) /\ m - 1 \notin Missing
    BY <1>3, <1>4
  <1>6. m - 1 \in T
    BY <1>5
  <1> QED
    BY <1>4, <1>5, <1>6

\* Max of a set of naturals below a bound.
LEMMA MaxIsGreatest ==
  ASSUME NEW N \in Nat, NEW T \in SUBSET (0..N), T # {}
  PROVE  Max(T) \in T /\ \A n \in T : n <= Max(T)
  <1> DEFINE Below == {N - n : n \in T}
  <1>1. Below \in SUBSET Nat /\ Below # {}
    <2>1. \A n \in T : N - n \in Nat
      OBVIOUS
    <2>2. PICK n \in T : TRUE
      OBVIOUS
    <2>3. N - n \in Below
      OBVIOUS
    <2> QED
      BY <2>1, <2>3
  <1>2. PICK m \in Below : \A k \in Below : m <= k
    <2> HIDE DEF Below
    <2> QED
      BY <1>1, LeastNatural
  <1>3. PICK x \in T : m = N - x
    BY <1>2
  <1>4. \A n \in T : x >= n
    <2> TAKE n \in T
    <2>1. N - n \in Below
      OBVIOUS
    <2>2. N - x <= N - n
      BY <1>2, <1>3, <2>1
    <2> QED
      BY <2>2
  <1>5. \E y \in T : \A n \in T : y >= n
    BY <1>4
  <1>6. Max(T) \in T /\ \A n \in T : Max(T) >= n
    BY <1>5 DEF Max
  <1>7. \A n \in T : n \in Nat
    OBVIOUS
  <1> QED
    BY <1>6, <1>7

\* A recursive function with values in S: its value at 0 is a, and the next one is a step
\* from the one before.
Inputs(n, S) == (1..n) \X S
Runs(f, n, S, a, step) ==
  f \in [0..n -> S] /\ f[0] = a /\ \A k \in 1..n : f[k] = step[<<k, f[k - 1]>>]

\* Whatever the steps, there is one.
LEMMA Recursion ==
  ASSUME NEW N \in Nat, NEW S, NEW a \in S, NEW step \in [Inputs(N, S) -> S]
  PROVE  \E f : Runs(f, N, S, a, step)
  <1> DEFINE T == {n \in 0..N : \E f : Runs(f, n, S, a, step)}
  <1>1. 0 \in T
    <2> DEFINE g == [k \in 0..0 |-> a]
    <2>1. g \in [0..0 -> S] /\ g[0] = a /\ 1..0 = {}
      OBVIOUS
    <2> HIDE DEF g
    <2>2. Runs(g, 0, S, a, step)
      BY <2>1 DEF Runs
    <2>3. \E f : Runs(f, 0, S, a, step)
      BY <2>2
    <2> QED
      BY <2>3
  <1>2. ASSUME NEW n \in 0..(N - 1), n \in T PROVE n + 1 \in T
    <2>1. PICK f : Runs(f, n, S, a, step)
      BY <1>2
    <2>2. n \in Nat /\ n + 1 \in 0..N /\ n + 1 \in 1..N /\ n \in 0..n /\ f[n] \in S
      BY <2>1 DEF Runs
    <2> DEFINE last == step[<<n + 1, f[n]>>]
               g == [k \in 0..(n + 1) |-> IF k = n + 1 THEN last ELSE f[k]]
    <2>3. last \in S
      BY <2>2 DEF Inputs
    <2> HIDE DEF last
    <2>4. g \in [0..(n + 1) -> S]
      <3>1. \A k \in 0..(n + 1) : k # n + 1 => k \in 0..n
        BY <2>2
      <3> QED
        BY <2>1, <2>3, <3>1 DEF Runs
    <2>5. g[0] = a
      BY <2>1, <2>2 DEF Runs
    <2>6. ASSUME NEW k \in 1..(n + 1) PROVE g[k] = step[<<k, g[k - 1]>>]
      <3>1. CASE k = n + 1
        <4>1. k - 1 = n /\ n # n + 1 /\ n \in 0..(n + 1) /\ k \in 0..(n + 1)
          BY <2>2, <3>1
        <4>2. g[k] = last /\ g[k - 1] = f[n]
          BY <3>1, <4>1
        <4> QED
          BY <3>1, <4>2 DEF last
      <3>2. CASE k # n + 1
        <4>1. k \in 1..n /\ k \in 0..(n + 1) /\ k - 1 \in 0..(n + 1) /\ k - 1 # n + 1
          BY <2>2, <3>2
        <4>2. g[k] = f[k] /\ g[k - 1] = f[k - 1]
          BY <3>2, <4>1
        <4> QED
          BY <2>1, <4>1, <4>2 DEF Runs
      <3> QED
        BY <3>1, <3>2
    <2> HIDE DEF g
    <2>7. Runs(g, n + 1, S, a, step)
      BY <2>4, <2>5, <2>6 DEF Runs
    <2> QED
      BY <2>2, <2>7
  <1>3. N \in T
    <2> HIDE DEF T
    <2>1. \A n \in 0..N : n \in T
      BY <1>1, <1>2, UpTo
    <2> QED
      BY <2>1
  <1> QED
    BY <1>3
-----------------------------------------------------------------------------
(* Sums over the subsets of a finite set *)

\* The sum of the weights w of a subset of U: any element may be counted first.
SetSums(f, w, U) ==
  /\ f \in [SUBSET U -> Nat] /\ f[{}] = 0
  /\ \A s \in SUBSET U : \A x \in s : f[s] = w[x] + f[s \ {x}]

\* One element more.
LEMMA SetSumsOneMore ==
  ASSUME NEW U, NEW x, x \notin U, NEW w, \A y \in U \cup {x} : w[y] \in Nat,
         NEW f, SetSums(f, w, U)
  PROVE  \E g : SetSums(g, w, U \cup {x})
  <1> DEFINE g == [s \in SUBSET (U \cup {x}) |-> IF x \in s THEN w[x] + f[s \ {x}] ELSE f[s]]
  <1>1. f \in [SUBSET U -> Nat] /\ f[{}] = 0
    BY DEF SetSums
  <1>2. \A s \in SUBSET (U \cup {x}) : /\ s \ {x} \in SUBSET U
                                       /\ x \notin s => s \in SUBSET U
    OBVIOUS
  <1>3. \A s \in SUBSET (U \cup {x}) : g[s] = IF x \in s THEN w[x] + f[s \ {x}] ELSE f[s]
    OBVIOUS
  <1>4. g \in [SUBSET (U \cup {x}) -> Nat]
    <2>1. \A s \in SUBSET (U \cup {x}) :
            (IF x \in s THEN w[x] + f[s \ {x}] ELSE f[s]) \in Nat
      BY <1>1, <1>2
    <2> QED
      BY <2>1
  <1> HIDE DEF g
  <1>5. g[{}] = 0
    BY <1>1, <1>3
  <1>6. ASSUME NEW s \in SUBSET (U \cup {x}), NEW y \in s PROVE g[s] = w[y] + g[s \ {y}]
    <2>1. s \ {y} \in SUBSET (U \cup {x})
      OBVIOUS
    <2>2. CASE y = x
      BY <1>3, <2>1, <2>2
    <2>3. CASE y # x /\ x \notin s
      <3>1. g[s] = f[s] /\ g[s \ {y}] = f[s \ {y}] /\ s \in SUBSET U
        BY <1>2, <1>3, <2>1, <2>3
      <3> QED
        BY <3>1 DEF SetSums
    <2>4. CASE y # x /\ x \in s
      <3>1. g[s] = w[x] + f[s \ {x}] /\ g[s \ {y}] = w[x] + f[(s \ {y}) \ {x}]
        BY <1>3, <2>1, <2>4
      <3>2. y \in s \ {x} /\ s \ {x} \in SUBSET U
        BY <1>2, <2>4
      <3>3. f[s \ {x}] = w[y] + f[(s \ {x}) \ {y}]
        BY <3>2 DEF SetSums
      <3>4. (s \ {x}) \ {y} = (s \ {y}) \ {x} /\ (s \ {x}) \ {y} \in SUBSET U
        BY <3>2
      <3>5. w[y] + f[(s \ {x}) \ {y}] \in Nat /\ f[(s \ {x}) \ {y}] \in Nat
        BY <1>1, <3>2, <3>3, <3>4
      <3> DEFINE rest == f[(s \ {x}) \ {y}]
      <3>6. g[s] = w[x] + (w[y] + rest) /\ g[s \ {y}] = w[x] + rest
        BY <3>1, <3>3, <3>4
      <3>7. rest \in Nat /\ w[x] \in Nat /\ w[y] \in Nat
        BY <3>2, <3>5
      <3> HIDE DEF rest
      <3> QED
        BY <3>6, <3>7
    <2> QED
      BY <2>2, <2>3, <2>4
  <1>7. SetSums(g, w, U \cup {x})
    BY <1>4, <1>5, <1>6 DEF SetSums
  <1> QED
    BY <1>7
\* There are such sums.
LEMMA SetSumsExist ==
  ASSUME NEW U, IsFiniteSet(U), NEW w, \A x \in U : w[x] \in Nat
  PROVE  \E f : SetSums(f, w, U)
  <1> DEFINE N == Cardinality(U)
             T == {n \in 0..N : \A V \in SUBSET U : Cardinality(V) = n => \E f : SetSums(f, w, V)}
  <1>1. N \in Nat /\ \A V \in SUBSET U : IsFiniteSet(V) /\ Cardinality(V) \in Nat
    BY FS_Subset, FS_CardinalityType
  <1>2. 0 \in T
    <2>1. SUFFICES ASSUME NEW V \in SUBSET U, Cardinality(V) = 0 PROVE \E f : SetSums(f, w, V)
      BY <1>1
    <2>2. V = {}
      BY <1>1, <2>1, FS_EmptySet
    <2> DEFINE f == [s \in SUBSET V |-> 0]
    <2>3. f \in [SUBSET V -> Nat] /\ f[{}] = 0 /\ \A s \in SUBSET V : s = {}
      BY <2>2
    <2> HIDE DEF f
    <2>4. SetSums(f, w, V)
      BY <2>3 DEF SetSums
    <2> QED
      BY <2>4
  <1>3. ASSUME NEW n \in 0..(N - 1), n \in T PROVE n + 1 \in T
    <2>1. n \in Nat /\ n + 1 \in 0..N
      BY <1>1
    <2>2. SUFFICES ASSUME NEW V \in SUBSET U, Cardinality(V) = n + 1 PROVE \E f : SetSums(f, w, V)
      BY <2>1
    <2>3. V # {}
      <3>1. Cardinality({}) = 0
        BY FS_EmptySet
      <3> QED
        BY <2>1, <2>2, <3>1
    <2>4. PICK x \in V : TRUE
      BY <2>3
    <2> DEFINE W == V \ {x}
    <2>5. Cardinality(W) = n
      BY <1>1, <2>1, <2>2, FS_RemoveElement
    <2>6. W \in SUBSET U /\ x \notin W /\ W \cup {x} = V
      BY <2>4
    <2> HIDE DEF W
    <2>7. PICK f : SetSums(f, w, W)
      BY <1>3, <2>5, <2>6
    <2>8. \A y \in W \cup {x} : w[y] \in Nat
      BY <2>6
    <2> QED
      BY <2>6, <2>7, <2>8, SetSumsOneMore
  <1>4. N \in T
    <2> HIDE DEF T
    <2>1. \A n \in 0..N : n \in T
      BY <1>1, <1>2, <1>3, UpTo
    <2> QED
      BY <1>1, <2>1
  <1> QED
    BY <1>4

\* Fewer elements weigh no more.
LEMMA SetSumsGrow ==
  ASSUME NEW U, IsFiniteSet(U), NEW w, \A x \in U : w[x] \in Nat, NEW f, SetSums(f, w, U),
         NEW s \in SUBSET U, NEW r \in SUBSET s
  PROVE  f[r] <= f[s]
  <1> DEFINE N == Cardinality(U)
             T == {n \in 0..N : \A v \in SUBSET U : Cardinality(v \ r) = n /\ r \subseteq v => f[r] <= f[v]}
  <1>1. N \in Nat /\ \A V \in SUBSET U : IsFiniteSet(V) /\ Cardinality(V) \in 0..N
    BY FS_Subset, FS_CardinalityType
  <1>2. f \in [SUBSET U -> Nat]
    BY DEF SetSums
  <1>3. 0 \in T
    <2>1. SUFFICES ASSUME NEW v \in SUBSET U, Cardinality(v \ r) = 0, r \subseteq v PROVE f[r] <= f[v]
      BY <1>1
    <2>2. v \ r = {}
      BY <1>1, <2>1, FS_EmptySet
    <2>3. v = r
      BY <2>1, <2>2
    <2> QED
      BY <1>2, <2>3
  <1>4. ASSUME NEW n \in 0..(N - 1), n \in T PROVE n + 1 \in T
    <2>1. n \in Nat /\ n + 1 \in 0..N
      BY <1>1
    <2>2. SUFFICES ASSUME NEW v \in SUBSET U, Cardinality(v \ r) = n + 1, r \subseteq v
                   PROVE  f[r] <= f[v]
      BY <2>1
    <2>3. v \ r # {} /\ IsFiniteSet(v \ r)
      BY <1>1, <2>1, <2>2, FS_EmptySet
    <2>4. PICK x \in v \ r : TRUE
      BY <2>3
    <2>5. Cardinality((v \ r) \ {x}) = n
      <3> DEFINE d == v \ r
      <3>1. IsFiniteSet(d) /\ x \in d /\ Cardinality(d) = n + 1
        BY <2>2, <2>3
      <3> HIDE DEF d
      <3>2. Cardinality(d \ {x}) = Cardinality(d) - 1
        BY <3>1, FS_RemoveElement
      <3>3. Cardinality(d \ {x}) = n
        BY <2>1, <3>1, <3>2
      <3> QED
        BY <3>3 DEF d
    <2>6. /\ (v \ {x}) \ r = (v \ r) \ {x} /\ r \subseteq v \ {x} /\ v \ {x} \in SUBSET U
          /\ x \in v
      BY <2>2, <2>4
    <2>7. f[r] <= f[v \ {x}]
      BY <1>4, <2>5, <2>6
    <2>8. f[v] = w[x] + f[v \ {x}] /\ w[x] \in Nat
      BY <2>6 DEF SetSums
    <2> QED
      BY <1>2, <2>6, <2>7, <2>8
  <1>5. Cardinality(s \ r) \in T
    <2> HIDE DEF T
    <2>1. \A n \in 0..N : n \in T
      BY <1>1, <1>3, <1>4, UpTo
    <2> QED
      BY <1>1, <2>1
  <1> QED
    BY <1>5
=============================================================================
