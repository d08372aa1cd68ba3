--------------------------- MODULE PipelineProofs ---------------------------
(***************************************************************************)
(* What follow_blocks keeps true of itself and of the events it has sent,  *)
(* whatever consumer is at the other end of the channel: for every set of  *)
(* chains, confirmation depth, reorg window, batch size and channel        *)
(* capacity, and wherever in a poll the node reorganises.                  *)
(***************************************************************************)
EXTENDS Pipeline, Induction, SequenceTheorems

-----------------------------------------------------------------------------
(* Chains *)

\* The records of the first n blocks of a chain.
Start(c, n) == [h \in 1..n |-> [height |-> h, hash |-> c[h]]]
IsStart(blocks) == \E c \in Chains, n \in Heights : blocks = Start(c, n)

\* A hash fixes its height and everything below it.
LEMMA HashesAgree ==
  ASSUME NEW c \in Chains, NEW d \in Chains, NEW g \in Heights, NEW h \in Heights, c[g] = d[h]
  PROVE  g = h /\ \A k \in 1..h : c[k] = d[k]
  BY ChainAssumption

\* The hashes of a chain are hashes, and none of them is Option::None.
LEMMA ChainHash ==
  ASSUME NEW c \in Chains, NEW h \in Heights
  PROVE  c[h] \in Hashes /\ c[h] # NoHash
  BY ChainAssumption DEF Hashes

\* The constants are numbers, and a height is a positive number.
LEMMA Numbers ==
  /\ MaxHeight \in Nat \ {0} /\ MaxReorgs \in Nat /\ Depth \in Nat
  /\ BatchSize \in Nat \ {0} /\ Window \in Nat \ {0} /\ ChannelCap \in Nat \ {0}
  /\ \A h : h \in Heights <=> h \in Nat /\ 1 <= h /\ h <= MaxHeight
  <1>1. MaxHeight \in Nat \ {0} /\ MaxReorgs \in Nat
    BY ChainAssumption
  <1>2. Depth \in Nat /\ BatchSize \in Nat \ {0}
    BY RangeAssumption
  <1>3. Window \in Nat \ {0} /\ ChannelCap \in Nat \ {0}
    BY PipelineAssumption
  <1>4. \A h : h \in Heights <=> h \in Nat /\ 1 <= h /\ h <= MaxHeight
    BY <1>1 DEF Heights
  <1> QED
    BY <1>1, <1>2, <1>3, <1>4

\* saturating_sub is a number, and grows with its first argument.
LEMMA Saturated ==
  ASSUME NEW a \in Nat, NEW b \in Nat, NEW d \in Nat, a <= b
  PROVE  /\ MaxOf(a - d, 0) \in Nat /\ MaxOf(b - d, 0) \in Nat
         /\ MaxOf(a - d, 0) <= MaxOf(b - d, 0)
  BY DEF MaxOf

\* The start of a chain as a sequence.
LEMMA StartParts ==
  ASSUME NEW c \in Chains, NEW n \in Nat, n <= MaxHeight
  PROVE  /\ Start(c, n) \in Seq(Records) /\ Len(Start(c, n)) = n
         /\ \A h \in 1..n : Start(c, n)[h] = [height |-> h, hash |-> c[h]]
  <1>1. \A h \in 1..n : h \in Heights
    BY Numbers
  <1>2. \A h \in 1..n : [height |-> h, hash |-> c[h]] \in Records
    BY <1>1, ChainHash DEF Records
  <1> QED
    BY <1>2 DEF Start

\* The child of the newest block makes a longer start of the chain.
LEMMA StartAppend ==
  ASSUME NEW c \in Chains, NEW n \in Nat, n < MaxHeight
  PROVE  Append(Start(c, n), [height |-> n + 1, hash |-> c[n + 1]]) = Start(c, n + 1)
  <1> DEFINE record == [height |-> n + 1, hash |-> c[n + 1]]
             longer == Append(Start(c, n), record)
  <1>1. n <= MaxHeight /\ n + 1 <= MaxHeight /\ n + 1 \in Nat
    BY Numbers
  <1>2. /\ Start(c, n) \in Seq(Records) /\ Len(Start(c, n)) = n
        /\ \A h \in 1..n : Start(c, n)[h] = [height |-> h, hash |-> c[h]]
    BY <1>1, StartParts
  <1>3. /\ Start(c, n + 1) \in Seq(Records) /\ Len(Start(c, n + 1)) = n + 1
        /\ \A h \in 1..(n + 1) : Start(c, n + 1)[h] = [height |-> h, hash |-> c[h]]
    BY <1>1, StartParts
  <1>4. record \in Records
    <2>1. n + 1 \in Heights
      BY <1>1, Numbers
    <2> QED
      BY <2>1, ChainHash DEF Records
  <1>5. /\ longer \in Seq(Records) /\ Len(longer) = n + 1 /\ longer[n + 1] = record
        /\ \A h \in 1..n : longer[h] = Start(c, n)[h]
    BY <1>2, <1>4
  <1> HIDE DEF longer
  <1>6. \A h \in 1..(n + 1) : longer[h] = Start(c, n + 1)[h]
    <2> TAKE h \in 1..(n + 1)
    <2>1. CASE h = n + 1
      BY <1>3, <1>5, <2>1
    <2>2. CASE h \in 1..n
      BY <1>2, <1>3, <1>5, <2>2
    <2> QED
      BY <2>1, <2>2
  <1>7. longer = Start(c, n + 1)
    BY <1>3, <1>5, <1>6, SeqEqual
  <1> QED
    BY <1>7 DEF longer

\* A prefix of the start of a chain is a start of it.
LEMMA StartPrefix ==
  ASSUME NEW c \in Chains, NEW n \in Nat, n <= MaxHeight, NEW k \in 0..n
  PROVE  SubSeq(Start(c, n), 1, k) = Start(c, k)
  <1>1. k \in Nat /\ k <= n /\ k <= MaxHeight
    BY Numbers
  <1>2. /\ Start(c, n) \in Seq(Records) /\ Len(Start(c, n)) = n
        /\ \A h \in 1..n : Start(c, n)[h] = [height |-> h, hash |-> c[h]]
    BY StartParts
  <1>3. /\ Start(c, k) \in Seq(Records) /\ Len(Start(c, k)) = k
        /\ \A h \in 1..k : Start(c, k)[h] = [height |-> h, hash |-> c[h]]
    BY <1>1, StartParts
  <1>4. \A h \in 1..k : h \in 1..n /\ Start(c, n)[h] \in Records
    BY <1>1, <1>2
  <1>5. /\ SubSeq(Start(c, n), 1, k) \in Seq(Records)
        /\ Len(SubSeq(Start(c, n), 1, k)) = IF 1 <= k THEN k - 1 + 1 ELSE 0
        /\ \A i \in 1..(k - 1 + 1) : SubSeq(Start(c, n), 1, k)[i] = Start(c, n)[1 + i - 1]
    BY <1>1, <1>4, SubSeqProperties
  <1>6. Len(SubSeq(Start(c, n), 1, k)) = k
    BY <1>1, <1>5
  <1>7. \A i \in 1..k : SubSeq(Start(c, n), 1, k)[i] = Start(c, k)[i]
    BY <1>1, <1>2, <1>3, <1>4, <1>5
  <1> QED
    BY <1>3, <1>5, <1>6, <1>7, SeqEqual

\* What remains of consecutive entries above `off` when those above fork are popped.
LEMMA KeptCount ==
  ASSUME NEW entries, Len(entries) \in Nat, DOMAIN entries = 1..Len(entries), NEW off \in Nat,
         \A i \in 1..Len(entries) : entries[i].height = off + i,
         NEW fork \in off..(off + Len(entries))
  PROVE  Kept(entries, fork) = fork - off
  <1> DEFINE fits == {0} \cup {i \in DOMAIN entries : entries[i].height <= fork}
  <1>1. fits \in SUBSET (0..Len(entries)) /\ fits # {}
    OBVIOUS
  <1>2. \A i \in 0..Len(entries) : i \in fits <=> i <= fork - off
    OBVIOUS
  <1> HIDE DEF fits
  <1>3. Max(fits) \in fits /\ \A n \in fits : n <= Max(fits)
    BY <1>1, MaxIsGreatest
  <1>4. fork - off \in fits
    BY <1>2
  <1>5. Max(fits) \in 0..Len(entries)
    BY <1>1, <1>3
  <1>6. Max(fits) <= fork - off /\ fork - off <= Max(fits)
    BY <1>2, <1>3, <1>4, <1>5
  <1>7. Max(fits) = fork - off
    BY <1>5, <1>6
  <1> QED
    BY <1>7 DEF Kept, fits

-----------------------------------------------------------------------------
(* The events in the channel *)

\* Applying the first n events, one after the other.
Steps(f, blocks, events, n) ==
  f[0] = blocks /\ \A k \in 1..n : f[k] = Apply(f[k - 1], events[k])

\* There is one way to do so.
LEMMA StepsAgree ==
  ASSUME NEW f, NEW g, NEW blocks, NEW events, NEW n \in Nat,
         Steps(f, blocks, events, n), Steps(g, blocks, events, n)
  PROVE  \A k \in 0..n : f[k] = g[k]
  <1> DEFINE T == {k \in 0..n : f[k] = g[k]}
  <1>1. 0 \in T
    BY DEF Steps
  <1>2. ASSUME NEW k \in 0..(n - 1), k \in T PROVE k + 1 \in T
    <2>1. k + 1 \in 1..n /\ (k + 1) - 1 = k /\ f[k] = g[k]
      BY <1>2
    <2>2. f[k + 1] = Apply(f[k], events[k + 1]) /\ g[k + 1] = Apply(g[k], events[k + 1])
      BY <2>1 DEF Steps
    <2> QED
      BY <2>1, <2>2
  <1>3. \A k \in 0..n : k \in T
    <2> HIDE DEF T
    <2> QED
      BY <1>1, <1>2, UpTo
  <1> QED
    BY <1>3

\* What the recursive function of the model is.
LEMMA HandledSteps ==
  ASSUME NEW blocks, NEW events, Len(events) \in Nat
  PROVE  Steps(Handled(blocks, events), blocks, events, Len(events))
  <1> DEFINE N == Len(events)
             T == {n \in 0..N : \E f : Steps(f, blocks, events, n)}
             Eq(f) == f = [n \in 0..N |-> IF n = 0 THEN blocks ELSE Apply(f[n - 1], events[n])]
  <1>1. 0 \in T
    <2>1. Steps([k \in 0..0 |-> blocks], blocks, events, 0)
      BY DEF Steps
    <2> QED
      BY <2>1
  <1>2. ASSUME NEW n \in 0..(N - 1), n \in T PROVE n + 1 \in T
    <2>1. PICK f : Steps(f, blocks, events, n)
      BY <1>2
    <2> DEFINE g == [k \in 0..(n + 1) |-> IF k = n + 1 THEN Apply(f[n], events[n + 1]) ELSE f[k]]
    <2>2. n \in Nat /\ n + 1 \in 0..N
      OBVIOUS
    <2>3. g[0] = blocks
      BY <2>1, <2>2 DEF Steps
    <2>4. ASSUME NEW k \in 1..(n + 1) PROVE g[k] = Apply(g[k - 1], events[k])
      <3>1. CASE k = n + 1
        <4>1. k - 1 = n /\ n # n + 1 /\ n \in 0..(n + 1) /\ k \in 0..(n + 1)
          BY <2>2, <3>1
        <4>2. g[k] = Apply(f[n], events[n + 1]) /\ g[k - 1] = f[n]
          BY <3>1, <4>1
        <4> QED
          BY <3>1, <4>2
      <3>2. CASE k # n + 1
        <4>1. /\ k \in 1..n /\ k \in 0..(n + 1) /\ k - 1 \in 0..(n + 1) /\ k - 1 # n + 1
          BY <2>2, <3>2
        <4>2. g[k] = f[k] /\ g[k - 1] = f[k - 1]
          BY <3>2, <4>1
        <4> QED
          BY <2>1, <4>1, <4>2 DEF Steps
      <3> QED
        BY <3>1, <3>2
    <2> HIDE DEF g
    <2>5. Steps(g, blocks, events, n + 1)
      BY <2>3, <2>4 DEF Steps
    <2> QED
      BY <2>2, <2>5
  <1>3. N \in T
    <2> HIDE DEF T
    <2>1. \A n \in 0..N : n \in T
      BY <1>1, <1>2, UpTo
    <2> QED
      BY <2>1
  <1>4. PICK f : Steps(f, blocks, events, N)
    BY <1>3
  <1> DEFINE g == [k \in 0..N |-> f[k]]
  <1>5. Eq(g)
    <2>1. \A n \in 0..N : g[n] = IF n = 0 THEN blocks ELSE Apply(g[n - 1], events[n])
      <3> TAKE n \in 0..N
      <3>1. CASE n = 0
        BY <1>4, <3>1 DEF Steps
      <3>2. CASE n # 0
        <4>1. n \in 1..N /\ n - 1 \in 0..N
          BY <3>2
        <4>2. f[n] = Apply(f[n - 1], events[n])
          BY <1>4, <4>1 DEF Steps
        <4>3. g[n] = f[n] /\ g[n - 1] = f[n - 1]
          BY <4>1
        <4> HIDE DEF g
        <4> QED
          BY <3>2, <4>2, <4>3
      <3> QED
        BY <3>1, <3>2
    <2>2. g = [n \in 0..N |-> g[n]]
      OBVIOUS
    <2> HIDE DEF g
    <2> QED
      BY <2>1, <2>2
  <1>6. Handled(blocks, events) = CHOOSE h : Eq(h)
    BY DEF Handled
  <1>7. Eq(Handled(blocks, events))
    <2> HIDE DEF Eq, g
    <2> QED
      BY <1>5, <1>6
  <1> DEFINE h == Handled(blocks, events)
  <1> HIDE DEF h
  <1>8. h = [n \in 0..N |-> IF n = 0 THEN blocks ELSE Apply(h[n - 1], events[n])]
    BY <1>7 DEF h
  <1>9. h[0] = blocks
    BY <1>8
  <1>10. \A n \in 1..N : h[n] = Apply(h[n - 1], events[n])
    <2> TAKE n \in 1..N
    <2>1. n \in 0..N /\ n # 0
      OBVIOUS
    <2> QED
      BY <1>8, <2>1
  <1> QED
    BY <1>9, <1>10 DEF Steps, h

\* One more event in the channel is handled after the others.
LEMMA HandledSend ==
  ASSUME NEW blocks, NEW S, NEW events \in Seq(S), NEW e \in S
  PROVE  /\ \A k \in 0..Len(events) :
              Handled(blocks, Append(events, e))[k] = Handled(blocks, events)[k]
         /\ Handled(blocks, Append(events, e))[Len(events) + 1]
              = Apply(Handled(blocks, events)[Len(events)], e)
  <1> DEFINE N == Len(events)
             longer == Append(events, e)
             u == Handled(blocks, events)
             w == Handled(blocks, longer)
  <1>1. /\ N \in Nat /\ Len(longer) = N + 1 /\ longer[N + 1] = e
        /\ \A k \in 1..N : longer[k] = events[k]
    OBVIOUS
  <1> HIDE DEF longer, N
  <1>2. Steps(u, blocks, events, N) /\ Steps(w, blocks, longer, N + 1)
    BY <1>1, HandledSteps DEF N
  <1> HIDE DEF u, w
  <1>3. Steps(w, blocks, events, N)
    <2>1. \A k \in 1..N : k \in 1..(N + 1)
      BY <1>1
    <2> QED
      BY <1>1, <1>2, <2>1 DEF Steps
  <1>4. \A k \in 0..N : w[k] = u[k]
    BY <1>1, <1>2, <1>3, StepsAgree
  <1>5. w[N + 1] = Apply(u[N], e)
    <2>1. N + 1 \in 1..(N + 1) /\ (N + 1) - 1 = N /\ N \in 0..N
      BY <1>1
    <2>2. w[N + 1] = Apply(w[N], e)
      BY <1>1, <1>2, <2>1 DEF Steps
    <2> QED
      BY <1>4, <2>1, <2>2
  <1> QED
    BY <1>4, <1>5 DEF u, w, N, longer

\* Once the first event is handled, the others lead where they led before.
LEMMA HandledTake ==
  ASSUME NEW blocks, NEW S, NEW events \in Seq(S), events # <<>>
  PROVE  \A k \in 0..(Len(events) - 1) :
           Handled(Apply(blocks, Head(events)), Tail(events))[k] = Handled(blocks, events)[k + 1]
  <1> DEFINE N == Len(events)
             first == Apply(blocks, Head(events))
             u == Handled(blocks, events)
             w == Handled(first, Tail(events))
             g == [k \in 0..(N - 1) |-> u[k + 1]]
  <1>1. /\ N \in Nat /\ N >= 1 /\ N - 1 \in Nat /\ Len(Tail(events)) = N - 1
        /\ Head(events) = events[1]
        /\ \A k \in 1..(N - 1) : Tail(events)[k] = events[k + 1]
    OBVIOUS
  <1>2. Steps(u, blocks, events, N) /\ Steps(w, first, Tail(events), N - 1)
    BY <1>1, HandledSteps
  <1> HIDE DEF u, w, N
  <1>3. g[0] = first
    <2>1. 1 \in 1..N /\ 1 - 1 = 0 /\ 0 \in 0..(N - 1) /\ 0 + 1 = 1
      BY <1>1
    <2>2. u[1] = Apply(u[1 - 1], events[1]) /\ u[0] = blocks
      BY <1>2, <2>1 DEF Steps
    <2> QED
      BY <1>1, <2>1, <2>2
  <1>4. ASSUME NEW k \in 1..(N - 1) PROVE g[k] = Apply(g[k - 1], Tail(events)[k])
    <2>1. /\ k + 1 \in 1..N /\ (k + 1) - 1 = k /\ (k - 1) + 1 = k
          /\ k \in 0..(N - 1) /\ k - 1 \in 0..(N - 1)
      BY <1>1
    <2>2. u[k + 1] = Apply(u[(k + 1) - 1], events[k + 1])
      BY <1>2, <2>1 DEF Steps
    <2>3. g[k] = u[k + 1] /\ g[k - 1] = u[(k - 1) + 1]
      BY <2>1
    <2> HIDE DEF g
    <2> QED
      BY <1>1, <2>1, <2>2, <2>3
  <1>5. Steps(g, first, Tail(events), N - 1)
    <2> HIDE DEF g
    <2> QED
      BY <1>3, <1>4 DEF Steps
  <1>6. \A k \in 0..(N - 1) : w[k] = g[k]
    <2> HIDE DEF g
    <2> QED
      BY <1>1, <1>2, <1>5, StepsAgree
  <1>7. \A k \in 0..(N - 1) : w[k] = u[k + 1]
    BY <1>6
  <1> QED
    BY <1>7 DEF u, w, N

\* Queued events take the consumer from one start of a chain to the next, and a reorg
\* drops fewer blocks than the window holds.
Queue(blocks, events) ==
  /\ \A n \in 0..Len(events) : IsStart(Handled(blocks, events)[n])
  /\ \A n \in 1..Len(events) :
       LET before == Handled(blocks, events)[n - 1]
       IN  events[n].type = "Reorg" =>
             events[n].rollback_to \in (Len(before) - Window + 1)..(Len(before) - 1)

\* Sending an event.
LEMMA QueueSend ==
  ASSUME NEW blocks, NEW events \in Seq(Events), Queue(blocks, events), NEW e \in Events,
         NEW before, before = Handled(blocks, events)[Len(events)],
         IsStart(Apply(before, e)),
         e.type = "Reorg" => e.rollback_to \in (Len(before) - Window + 1)..(Len(before) - 1)
  PROVE  /\ Queue(blocks, Append(events, e))
         /\ Handled(blocks, Append(events, e))[Len(Append(events, e))] = Apply(before, e)
  <1> DEFINE N == Len(events)
             longer == Append(events, e)
             u == Handled(blocks, events)
             w == Handled(blocks, longer)
  <1>1. /\ N \in Nat /\ Len(longer) = N + 1 /\ longer[N + 1] = e
        /\ \A k \in 1..N : longer[k] = events[k]
    OBVIOUS
  <1>2. (\A k \in 0..N : w[k] = u[k]) /\ w[N + 1] = Apply(before, e)
    BY HandledSend
  <1>3. before = u[N]
    OBVIOUS
  <1>4. \A n \in 0..N : IsStart(u[n])
    BY DEF Queue
  <1>5. \A n \in 1..N : events[n].type = "Reorg" =>
          events[n].rollback_to \in (Len(u[n - 1]) - Window + 1)..(Len(u[n - 1]) - 1)
    BY DEF Queue
  <1> HIDE DEF N, longer, u, w
  <1>6. \A n \in 0..(N + 1) : IsStart(w[n])
    <2> TAKE n \in 0..(N + 1)
    <2>1. CASE n = N + 1
      BY <1>2, <2>1
    <2>2. CASE n \in 0..N
      BY <1>2, <1>4, <2>2
    <2> QED
      BY <1>1, <2>1, <2>2
  <1>7. ASSUME NEW n \in 1..(N + 1), longer[n].type = "Reorg"
        PROVE  longer[n].rollback_to \in (Len(w[n - 1]) - Window + 1)..(Len(w[n - 1]) - 1)
    <2>1. CASE n = N + 1
      <3>1. n - 1 = N /\ N \in 0..N
        BY <1>1, <2>1
      <3>2. w[n - 1] = before
        BY <1>2, <1>3, <3>1
      <3> QED
        BY <1>1, <1>7, <2>1, <3>2
    <2>2. CASE n \in 1..N
      <3>1. n - 1 \in 0..N
        BY <1>1, <2>2
      <3>2. w[n - 1] = u[n - 1] /\ longer[n] = events[n]
        BY <1>1, <1>2, <2>2, <3>1
      <3> QED
        BY <1>5, <1>7, <2>2, <3>2
    <2> QED
      BY <1>1, <2>1, <2>2
  <1> QED
    BY <1>1, <1>2, <1>6, <1>7 DEF Queue, w, longer

\* Handling the first event.
LEMMA QueueTake ==
  ASSUME NEW blocks, NEW events \in Seq(Events), Queue(blocks, events), events # <<>>
  PROVE  LET e == Head(events)
             after == Apply(blocks, e)
         IN  /\ Queue(after, Tail(events))
             /\ Handled(after, Tail(events))[Len(Tail(events))]
                  = Handled(blocks, events)[Len(events)]
             /\ e \in Events /\ IsStart(blocks) /\ IsStart(after)
             /\ e.type = "Reorg" =>
                  e.rollback_to \in (Len(blocks) - Window + 1)..(Len(blocks) - 1)
  <1> DEFINE N == Len(events)
             e == Head(events)
             rest == Tail(events)
             after == Apply(blocks, e)
             u == Handled(blocks, events)
             w == Handled(after, rest)
  <1>1. /\ N \in Nat /\ N >= 1 /\ Len(rest) = N - 1 /\ e = events[1] /\ e \in Events
        /\ \A k \in 1..(N - 1) : rest[k] = events[k + 1]
    OBVIOUS
  <1>2. \A k \in 0..(N - 1) : w[k] = u[k + 1]
    BY HandledTake
  <1>3. /\ \A n \in 0..N : IsStart(u[n])
        /\ \A n \in 1..N : events[n].type = "Reorg" =>
             events[n].rollback_to \in (Len(u[n - 1]) - Window + 1)..(Len(u[n - 1]) - 1)
    BY DEF Queue
  <1>4. Steps(u, blocks, events, N)
    BY <1>1, HandledSteps
  <1> HIDE DEF N, rest, after, u, w
  <1>5. u[0] = blocks /\ u[1] = after
    <2>1. 1 \in 1..N /\ 1 - 1 = 0
      BY <1>1
    <2>2. u[0] = blocks /\ u[1] = Apply(u[1 - 1], events[1])
      BY <1>4, <2>1 DEF Steps
    <2> QED
      BY <1>1, <2>1, <2>2 DEF after
  <1>6. IsStart(blocks) /\ IsStart(after)
    BY <1>1, <1>3, <1>5
  <1>7. e.type = "Reorg" => e.rollback_to \in (Len(blocks) - Window + 1)..(Len(blocks) - 1)
    <2>1. 1 \in 1..N /\ 1 - 1 = 0
      BY <1>1
    <2>2. events[1].type = "Reorg" =>
            events[1].rollback_to \in (Len(u[1 - 1]) - Window + 1)..(Len(u[1 - 1]) - 1)
      BY <1>3, <2>1
    <2> QED
      BY <1>1, <1>5, <2>1, <2>2
  <1>8. \A n \in 0..(N - 1) : IsStart(w[n])
    <2> TAKE n \in 0..(N - 1)
    <2>1. n + 1 \in 0..N
      BY <1>1
    <2> QED
      BY <1>2, <1>3, <2>1
  <1>9. ASSUME NEW n \in 1..(N - 1), rest[n].type = "Reorg"
        PROVE  rest[n].rollback_to \in (Len(w[n - 1]) - Window + 1)..(Len(w[n - 1]) - 1)
    <2>1. n + 1 \in 1..N /\ n - 1 \in 0..(N - 1) /\ (n - 1) + 1 = n /\ (n + 1) - 1 = n
      BY <1>1
    <2>2. w[n - 1] = u[(n + 1) - 1] /\ rest[n] = events[n + 1]
      BY <1>1, <1>2, <2>1
    <2>3. events[n + 1].type = "Reorg" =>
            events[n + 1].rollback_to
              \in (Len(u[(n + 1) - 1]) - Window + 1)..(Len(u[(n + 1) - 1]) - 1)
      BY <1>3, <2>1
    <2> QED
      BY <1>9, <2>2, <2>3
  <1>10. w[N - 1] = u[N]
    <2>1. N - 1 \in 0..(N - 1) /\ (N - 1) + 1 = N
      BY <1>1
    <2> QED
      BY <1>2, <2>1
  <1>11. Queue(after, rest)
    BY <1>1, <1>8, <1>9 DEF Queue, w
  <1> QED
    BY <1>1, <1>6, <1>7, <1>10, <1>11 DEF u, w, N, rest, after

-----------------------------------------------------------------------------
(* What a valid answer of the node holds *)

\* Whichever chains the stream was read from, blocks that link are blocks of the chain
\* that the node serves now (get_block_range and validate_range).
LEMMA ValidStream ==
  ASSUME best \in Chains, served \subseteq Chains, tip \in Heights,
         NEW lo \in Heights, NEW hi \in Nat, lo <= hi, NEW prior,
         NEW blocks \in Streams(lo, hi), ValidRange(blocks, lo, hi, prior)
  PROVE  /\ hi <= tip
         /\ blocks = [i \in 1..(hi - lo + 1) |-> CompactBlock(best, lo + i - 1)]
         /\ prior # NoHash => PrevOf(best, lo) = prior
  <1> DEFINE last == IF hi < tip THEN hi ELSE tip
             n == hi - lo + 1
  <1>1. lo \in Nat /\ lo >= 1 /\ tip \in Nat /\ tip <= MaxHeight /\ n \in Nat /\ n >= 1
    BY Numbers
  <1>2. PICK c \in served, cut \in lo..hi :
          blocks = [i \in 1..(last - lo + 1) |->
                      CompactBlock(IF lo + i - 1 < cut THEN c ELSE best, lo + i - 1)]
    BY DEF Streams
  <1>3. c \in Chains /\ cut \in Nat /\ lo <= cut /\ cut <= hi
    BY <1>1, <1>2
  <1>4. /\ Len(blocks) = n
        /\ \A i \in DOMAIN blocks :
             LET before == IF i = 1 THEN prior ELSE blocks[i - 1].hash
             IN  before # NoHash => blocks[i].prev = before
    BY DEF ValidRange
  <1>5. hi <= tip
    <2> SUFFICES ASSUME tip < hi PROVE FALSE
      BY <1>1
    <2>1. last = tip
      BY <1>1
    <2>2. CASE lo <= tip + 1
      <3>1. tip - lo + 1 \in Nat /\ tip - lo + 1 # n
        BY <1>1, <2>2
      <3>2. Len(blocks) = tip - lo + 1
        BY <1>2, <2>1, <3>1
      <3> QED
        BY <1>4, <3>1, <3>2
    <2>3. CASE tip + 1 < lo
      <3>1. 1..(tip - lo + 1) = 1..0
        BY <1>1, <2>3
      <3>2. blocks = [i \in 1..0 |-> CompactBlock(IF lo + i - 1 < cut THEN c ELSE best, lo + i - 1)]
        BY <1>2, <2>1, <3>1
      <3>3. Len(blocks) = 0
        BY <3>2
      <3> QED
        BY <1>1, <1>4, <3>3
    <2> QED
      BY <1>1, <2>2, <2>3
  <1>6. last - lo + 1 = n
    BY <1>1, <1>5
  <1> HIDE DEF last, n
  <1>7. /\ DOMAIN blocks = 1..n
        /\ \A i \in 1..n :
             blocks[i] = CompactBlock(IF lo + i - 1 < cut THEN c ELSE best, lo + i - 1)
    BY <1>2, <1>6
  <1>8. \A i \in 1..n : lo + i - 1 \in Heights
    BY <1>1, <1>5, Numbers DEF n
  <1>9. \A i \in 1..n : lo + i - 1 < cut =>
          CompactBlock(c, lo + i - 1) = CompactBlock(best, lo + i - 1)
    <2>1. CASE cut = lo
      BY <1>1, <2>1
    <2>2. CASE cut # lo
      <3> DEFINE j == cut - lo
      <3>1. /\ j \in 1..n /\ j + 1 \in 1..n /\ lo + j - 1 < cut /\ lo + (j + 1) - 1 = cut
            /\ (j + 1) - 1 = j /\ j + 1 # 1 /\ cut # 1 /\ lo + j - 1 = cut - 1
        BY <1>1, <1>3, <2>2 DEF n
      <3> HIDE DEF j
      <3>2. blocks[j] = CompactBlock(c, cut - 1) /\ blocks[j + 1] = CompactBlock(best, cut)
        BY <1>7, <3>1
      <3>3. cut - 1 \in Heights
        BY <1>8, <3>1
      <3>4. blocks[j].hash = c[cut - 1] /\ c[cut - 1] # NoHash
        BY <1>3, <3>2, <3>3, ChainHash DEF CompactBlock
      <3>5. blocks[j + 1].prev = blocks[j].hash
        BY <1>4, <1>7, <3>1, <3>4
      <3>6. blocks[j + 1].prev = best[cut - 1]
        BY <3>1, <3>2 DEF CompactBlock, PrevOf
      <3>7. \A k \in 1..(cut - 1) : c[k] = best[k]
        <4> DEFINE h == cut - 1
        <4>1. h \in Heights /\ c[h] = best[h]
          BY <3>3, <3>4, <3>5, <3>6
        <4> HIDE DEF h
        <4>2. \A k \in 1..h : c[k] = best[k]
          BY <1>3, <4>1, HashesAgree
        <4> QED
          BY <4>2 DEF h
      <3> TAKE i \in 1..n
      <3> HAVE lo + i - 1 < cut
      <3> DEFINE h == lo + i - 1
      <3>8. h \in 1..(cut - 1) /\ (h # 1 => h - 1 \in 1..(cut - 1))
        BY <1>1, <1>3 DEF n
      <3> HIDE DEF h
      <3>9. c[h] = best[h] /\ PrevOf(c, h) = PrevOf(best, h)
        BY <3>7, <3>8 DEF PrevOf
      <3> QED
        BY <3>9 DEF CompactBlock, h
    <2> QED
      BY <2>1, <2>2
  <1>10. \A i \in 1..n : blocks[i] = CompactBlock(best, lo + i - 1)
    BY <1>7, <1>9
  <1>11. blocks = [i \in 1..n |-> CompactBlock(best, lo + i - 1)]
    <2>1. blocks = [i \in 1..n |-> blocks[i]]
      BY <1>2, <1>6
    <2> QED
      BY <1>10, <2>1
  <1>12. prior # NoHash => PrevOf(best, lo) = prior
    <2>1. 1 \in 1..n /\ lo + 1 - 1 = lo
      BY <1>1
    <2>2. blocks[1] = CompactBlock(best, lo)
      BY <1>10, <2>1
    <2> QED
      BY <1>4, <1>7, <2>1, <2>2 DEF CompactBlock
  <1> QED
    BY <1>5, <1>11, <1>12 DEF n

-----------------------------------------------------------------------------
(* The history as the newest part of what the consumer will hold *)

Mirror(hist, blocks) ==
  /\ Len(hist) <= Len(blocks)
  /\ hist = SubSeq(blocks, Len(blocks) - Len(hist) + 1, Len(blocks))

\* The start of a chain as a sequence, without naming the chain's length.
LEMMA IsStartParts ==
  ASSUME NEW blocks, IsStart(blocks)
  PROVE  /\ blocks \in Seq(Records) /\ Len(blocks) \in Heights /\ Len(blocks) \in Nat \ {0}
         /\ \A h \in 1..Len(blocks) : blocks[h].height = h
         /\ \E c \in Chains : /\ blocks = Start(c, Len(blocks))
                              /\ \A h \in 1..Len(blocks) : blocks[h].hash = c[h]
  <1>1. PICK c \in Chains, n \in Heights : blocks = Start(c, n)
    BY DEF IsStart
  <1>2. n \in Nat \ {0} /\ n <= MaxHeight
    BY Numbers
  <1>3. /\ Start(c, n) \in Seq(Records) /\ Len(Start(c, n)) = n
        /\ \A h \in 1..n : Start(c, n)[h] = [height |-> h, hash |-> c[h]]
    BY <1>2, StartParts
  <1> QED
    BY <1>1, <1>2, <1>3

\* The last n elements of a sequence.
LEMMA SuffixParts ==
  ASSUME NEW S, NEW s \in Seq(S), NEW n \in 0..Len(s)
  PROVE  LET suffix == SubSeq(s, Len(s) - n + 1, Len(s))
         IN  /\ suffix \in Seq(S) /\ Len(suffix) = n
             /\ \A i \in 1..n : suffix[i] = s[Len(s) - n + i]
  <1> DEFINE first == Len(s) - n + 1
             last == Len(s)
             suffix == SubSeq(s, first, last)
  <1>1. /\ n \in Nat /\ first \in Nat /\ last \in Nat /\ first >= 1
        /\ last - first + 1 = n /\ (first <= last <=> n >= 1) /\ first = last - n + 1
        /\ \A i \in first..last : s[i] \in S
    OBVIOUS
  <1> HIDE DEF first, last
  <1>2. /\ suffix \in Seq(S)
        /\ Len(suffix) = IF first <= last THEN last - first + 1 ELSE 0
        /\ \A i \in 1..(last - first + 1) : suffix[i] = s[first + i - 1]
    BY <1>1, SubSeqProperties
  <1>3. Len(suffix) = n
    BY <1>1, <1>2
  <1>4. \A i \in 1..n : first + i - 1 = last - n + i
    BY <1>1
  <1>5. \A i \in 1..n : suffix[i] = s[last - n + i]
    BY <1>1, <1>2, <1>4
  <1> QED
    BY <1>2, <1>3, <1>5 DEF first, last

\* What the entries of a mirroring history are.
LEMMA MirrorParts ==
  ASSUME NEW blocks, IsStart(blocks), NEW hist, Mirror(hist, blocks), Len(hist) \in Nat
  PROVE  LET off == Len(blocks) - Len(hist)
         IN  /\ hist \in Seq(Records) /\ DOMAIN hist = 1..Len(hist) /\ off \in Nat
             /\ \A i \in 1..Len(hist) : /\ off + i \in 1..Len(blocks)
                                        /\ hist[i] = blocks[off + i] /\ hist[i].height = off + i
  <1>1. blocks \in Seq(Records) /\ Len(blocks) \in Nat
        /\ \A h \in 1..Len(blocks) : blocks[h].height = h
    BY IsStartParts
  <1>2. Len(hist) \in 0..Len(blocks) /\ hist = SubSeq(blocks, Len(blocks) - Len(hist) + 1, Len(blocks))
    BY <1>1 DEF Mirror
  <1> DEFINE n == Len(hist)
             suffix == SubSeq(blocks, Len(blocks) - n + 1, Len(blocks))
  <1>3. n \in 0..Len(blocks) /\ n \in Nat /\ n <= Len(blocks) /\ hist = suffix
    BY <1>1, <1>2
  <1> HIDE DEF n
  <1>4. suffix \in Seq(Records) /\ Len(suffix) = n
        /\ \A i \in 1..n : suffix[i] = blocks[Len(blocks) - n + i]
    BY <1>1, <1>3, SuffixParts
  <1> HIDE DEF suffix
  <1>5. hist \in Seq(Records) /\ DOMAIN hist = 1..n
    BY <1>3, <1>4
  <1>6. Len(blocks) - n \in Nat /\ \A i \in 1..n : Len(blocks) - n + i \in 1..Len(blocks)
    BY <1>1, <1>3
  <1>7. \A i \in 1..n : hist[i] = blocks[Len(blocks) - n + i]
    BY <1>3, <1>4
  <1>8. \A i \in 1..n : hist[i].height = Len(blocks) - n + i
    BY <1>1, <1>6, <1>7
  <1> QED
    BY <1>5, <1>6, <1>7, <1>8 DEF n

\* The entries make it a mirroring history.
LEMMA MirrorIntro ==
  ASSUME NEW S, NEW blocks \in Seq(S), NEW hist \in Seq(S), Len(hist) <= Len(blocks),
         \A i \in 1..Len(hist) : hist[i] = blocks[Len(blocks) - Len(hist) + i]
  PROVE  Mirror(hist, blocks)
  <1> DEFINE n == Len(hist)
             suffix == SubSeq(blocks, Len(blocks) - n + 1, Len(blocks))
  <1>1. n \in 0..Len(blocks)
    OBVIOUS
  <1>2. \A i \in 1..n : hist[i] = blocks[Len(blocks) - n + i]
    OBVIOUS
  <1>3. hist \in Seq(S) /\ Len(hist) = n
    OBVIOUS
  <1> HIDE DEF n
  <1>4. suffix \in Seq(S) /\ Len(suffix) = n
        /\ \A i \in 1..n : suffix[i] = blocks[Len(blocks) - n + i]
    BY <1>1, SuffixParts
  <1> HIDE DEF suffix
  <1>5. hist = suffix
    BY <1>2, <1>3, <1>4, SeqEqual
  <1> QED
    BY <1>5 DEF Mirror, suffix, n

\* push_history keeps the mirror, and the bound.
LEMMA MirrorPush ==
  ASSUME NEW blocks, IsStart(blocks), NEW hist, Mirror(hist, blocks), Len(hist) \in Nat,
         Len(hist) <= Window, NEW b,
         [height |-> b.height, hash |-> b.hash] \in Records
  PROVE  LET pushed == PushHistory(hist, b)
         IN  /\ Mirror(pushed, Append(blocks, [height |-> b.height, hash |-> b.hash]))
             /\ pushed \in Seq(Records) /\ Len(pushed) <= Window /\ pushed # <<>>
  <1> DEFINE record == [height |-> b.height, hash |-> b.hash]
             longer == Append(hist, record)
             after == Append(blocks, record)
             off == Len(blocks) - Len(hist)
  <1>1. /\ blocks \in Seq(Records) /\ Len(blocks) \in Nat /\ Len(hist) <= Len(blocks)
    BY IsStartParts DEF Mirror
  <1>2. /\ hist \in Seq(Records) /\ off \in Nat
        /\ \A i \in 1..Len(hist) : off + i \in 1..Len(blocks) /\ hist[i] = blocks[off + i]
    BY MirrorParts
  <1> HIDE DEF off
  <1>3. /\ longer \in Seq(Records) /\ Len(longer) = Len(hist) + 1 /\ longer[Len(hist) + 1] = record
        /\ \A i \in 1..Len(hist) : longer[i] = hist[i]
    BY <1>2 DEF Records
  <1>4. /\ after \in Seq(Records) /\ Len(after) = Len(blocks) + 1 /\ after[Len(blocks) + 1] = record
        /\ \A i \in 1..Len(blocks) : after[i] = blocks[i]
    BY <1>1 DEF Records
  <1> HIDE DEF longer, after, record
  <1>5. /\ off + (Len(hist) + 1) = Len(blocks) + 1 /\ Len(after) - Len(longer) = off
    BY <1>1, <1>3, <1>4 DEF off
  <1>6. \A i \in 1..(Len(hist) + 1) : longer[i] = after[off + i]
    <2> TAKE i \in 1..(Len(hist) + 1)
    <2>1. CASE i = Len(hist) + 1
      BY <1>3, <1>4, <1>5, <2>1
    <2>2. CASE i \in 1..Len(hist)
      BY <1>2, <1>3, <1>4, <2>2
    <2> QED
      BY <2>1, <2>2
  <1>7. Mirror(longer, after)
    <2>1. Len(longer) <= Len(after)
      BY <1>1, <1>3, <1>4
    <2>2. \A i \in 1..Len(longer) : longer[i] = after[Len(after) - Len(longer) + i]
      BY <1>3, <1>5, <1>6
    <2> QED
      BY <1>3, <1>4, <2>1, <2>2, MirrorIntro
  <1>8. PushHistory(hist, b) = IF Len(longer) > Window THEN Tail(longer) ELSE longer
    BY DEF PushHistory, longer, record
  <1>9. CASE Len(longer) > Window
    <2> DEFINE rest == Tail(longer)
    <2>1. /\ rest \in Seq(Records) /\ Len(rest) = Len(hist)
          /\ \A i \in 1..Len(hist) : rest[i] = longer[i + 1]
      BY <1>3
    <2> HIDE DEF rest
    <2>2. Len(hist) = Window /\ Len(rest) = Window /\ Len(rest) >= 1
      BY <1>3, <1>9, <2>1, Numbers
    <2>3. \A i \in 1..Len(rest) : i + 1 \in 1..(Len(hist) + 1)
                                  /\ Len(after) - Len(rest) + i = off + (i + 1)
      BY <1>1, <1>2, <1>4, <2>1 DEF off
    <2>4. \A i \in 1..Len(rest) : rest[i] = after[Len(after) - Len(rest) + i]
      BY <1>6, <2>1, <2>3
    <2>5. Len(rest) <= Len(after)
      BY <1>1, <1>4, <2>1
    <2>6. Mirror(rest, after)
      BY <1>4, <2>1, <2>4, <2>5, MirrorIntro
    <2>7. PushHistory(hist, b) = rest
      BY <1>8, <1>9 DEF rest
    <2>8. rest # <<>>
      BY <2>2
    <2> QED
      BY <2>1, <2>2, <2>6, <2>7, <2>8, Numbers DEF after, record
  <1>10. CASE ~ (Len(longer) > Window)
    <2>1. PushHistory(hist, b) = longer
      BY <1>8, <1>10
    <2>2. longer # <<>> /\ Len(longer) <= Window
      BY <1>3, <1>10, Numbers
    <2> QED
      BY <1>3, <1>7, <2>1, <2>2 DEF after, record
  <1> QED
    BY <1>9, <1>10

\* Popping both above a fork that lies in the history keeps the mirror.
LEMMA MirrorPop ==
  ASSUME NEW blocks, IsStart(blocks), NEW hist, Mirror(hist, blocks), Len(hist) \in Nat,
         NEW fork \in (Len(blocks) - Len(hist) + 1)..Len(blocks)
  PROVE  /\ Mirror(PopHistory(hist, fork), SubSeq(blocks, 1, Kept(blocks, fork)))
         /\ PopHistory(hist, fork) \in Seq(Records) /\ PopHistory(hist, fork) # <<>>
         /\ Len(PopHistory(hist, fork)) = fork - (Len(blocks) - Len(hist))
         /\ IsStart(SubSeq(blocks, 1, Kept(blocks, fork)))
         /\ Len(SubSeq(blocks, 1, Kept(blocks, fork))) = fork
         /\ \A h \in 1..fork : SubSeq(blocks, 1, Kept(blocks, fork))[h] = blocks[h]
  <1> DEFINE off == Len(blocks) - Len(hist)
             n == fork - off
             short == SubSeq(hist, 1, n)
             after == SubSeq(blocks, 1, fork)
  <1>1. /\ blocks \in Seq(Records) /\ Len(blocks) \in Nat \ {0} /\ Len(hist) <= Len(blocks)
        /\ Len(blocks) \in Heights
        /\ \A h \in 1..Len(blocks) : blocks[h].height = h
    BY IsStartParts DEF Mirror
  <1>2. PICK c \in Chains : blocks = Start(c, Len(blocks))
    BY IsStartParts
  <1>3. /\ hist \in Seq(Records) /\ off \in Nat /\ DOMAIN hist = 1..Len(hist)
        /\ \A i \in 1..Len(hist) : /\ off + i \in 1..Len(blocks) /\ hist[i] = blocks[off + i]
                                   /\ hist[i].height = off + i
    BY MirrorParts
  <1>4. /\ fork \in Nat /\ fork >= 1 /\ fork <= Len(blocks) /\ off + Len(hist) = Len(blocks)
        /\ fork \in off..(off + Len(hist)) /\ n \in 1..Len(hist) /\ off + n = fork
        /\ fork \in 0..Len(blocks) /\ fork \in 0..(0 + Len(blocks))
    BY <1>1, <1>3
  <1> HIDE DEF off
  <1>5. Kept(hist, fork) = n
    BY <1>3, <1>4, KeptCount
  <1>6. Kept(blocks, fork) = fork
    <2> DEFINE none == 0
    <2>1. /\ DOMAIN blocks = 1..Len(blocks) /\ Len(blocks) \in Nat /\ none \in Nat
          /\ \A i \in 1..Len(blocks) : blocks[i].height = none + i
          /\ fork \in none..(none + Len(blocks))
      BY <1>1, <1>4
    <2> HIDE DEF none
    <2>2. Kept(blocks, fork) = fork - none
      BY <2>1, KeptCount
    <2> QED
      BY <1>4, <2>2 DEF none
  <1>7. after = Start(c, fork) /\ IsStart(after)
    <2>1. fork \in Heights /\ Len(blocks) <= MaxHeight
      BY <1>1, <1>4, Numbers
    <2>2. SubSeq(Start(c, Len(blocks)), 1, fork) = Start(c, fork)
      BY <1>1, <1>4, <2>1, StartPrefix
    <2> QED
      BY <1>2, <2>1, <2>2 DEF IsStart
  <1>8. after \in Seq(Records) /\ Len(after) = fork /\ \A h \in 1..fork : after[h] = blocks[h]
    <2>1. \A h \in 1..fork : blocks[h] \in Records
      BY <1>1, <1>4
    <2>2. /\ after \in Seq(Records) /\ Len(after) = IF 1 <= fork THEN fork - 1 + 1 ELSE 0
          /\ \A i \in 1..(fork - 1 + 1) : after[i] = blocks[1 + i - 1]
      BY <1>4, <2>1, SubSeqProperties
    <2> QED
      BY <1>4, <2>2
  <1>9. short \in Seq(Records) /\ Len(short) = n /\ \A i \in 1..n : short[i] = hist[i]
    <2>1. n \in Nat /\ n >= 1 /\ \A i \in 1..n : hist[i] \in Records
      BY <1>3, <1>4
    <2> HIDE DEF n
    <2>2. /\ short \in Seq(Records) /\ Len(short) = IF 1 <= n THEN n - 1 + 1 ELSE 0
          /\ \A i \in 1..(n - 1 + 1) : short[i] = hist[1 + i - 1]
      BY <2>1, SubSeqProperties
    <2> QED
      BY <2>1, <2>2
  <1> HIDE DEF n, short, after
  <1>10. Mirror(short, after)
    <2>1. Len(short) <= Len(after) /\ Len(after) - Len(short) = off
      BY <1>3, <1>4, <1>8, <1>9 DEF n
    <2>2. \A i \in 1..n : i \in 1..Len(hist) /\ off + i \in 1..fork
      BY <1>3, <1>4
    <2>3. \A i \in 1..n : short[i] = after[off + i]
      BY <1>3, <1>8, <1>9, <2>2
    <2> QED
      BY <1>8, <1>9, <2>1, <2>3, MirrorIntro
  <1>11. PopHistory(hist, fork) = short /\ SubSeq(blocks, 1, Kept(blocks, fork)) = after
    BY <1>5, <1>6 DEF PopHistory, short, after
  <1>12. short # <<>>
    BY <1>4, <1>9
  <1> QED
    BY <1>7, <1>8, <1>9, <1>10, <1>11, <1>12 DEF n, off

\* hash_at on a height that the history holds.
LEMMA HashAtMirror ==
  ASSUME NEW blocks, IsStart(blocks), NEW hist, Mirror(hist, blocks), Len(hist) \in Nat,
         NEW h \in (Len(blocks) - Len(hist) + 1)..Len(blocks)
  PROVE  HashAt(hist, h) = blocks[h].hash
  <1> DEFINE off == Len(blocks) - Len(hist)
             found == CHOOSE i \in DOMAIN hist : hist[i].height = h
  <1>1. /\ DOMAIN hist = 1..Len(hist) /\ off \in Nat /\ Len(blocks) \in Nat
        /\ \A i \in 1..Len(hist) : hist[i] = blocks[off + i] /\ hist[i].height = off + i
    BY MirrorParts, IsStartParts
  <1>2. h - off \in 1..Len(hist) /\ off + (h - off) = h
    BY <1>1
  <1> HIDE DEF off
  <1>3. \E i \in DOMAIN hist : hist[i].height = h
    BY <1>1, <1>2
  <1>4. found \in DOMAIN hist /\ hist[found].height = h
    BY <1>3
  <1> HIDE DEF found
  <1>5. off + found = h /\ hist[found] = blocks[off + found]
    BY <1>1, <1>4
  <1>6. HashAt(hist, h) = hist[found].hash
    BY <1>3 DEF HashAt, found
  <1> QED
    BY <1>5, <1>6

-----------------------------------------------------------------------------
(* The invariant of the task, for a consumer that holds the blocks `base` *)

\* What the consumer will hold once every queued event has been handled.
Coming(base) == Handled(base, channel)[Len(channel)]

\* The node's variables hold values of their types.
NodeType ==
  /\ best \in Chains
  /\ tip \in Heights
  /\ reorgs \in 0..MaxReorgs
  /\ best \in served /\ served \subseteq Chains

\* So do those of a running task.
TaskType ==
  /\ phase \in {"connect", "poll", "overlap", "reorg", "extend", "send", "failed"}
  /\ cause \in {"none", "rpc", "range", "window"}
  /\ phase = "failed" <=> cause # "none"
  /\ {current, target} \subseteq 0..MaxHeight
  /\ next \in 0..(MaxHeight + 1)
  /\ history \in Seq(Records) /\ Len(history) <= Window
  /\ expectedPrev \in Hashes \cup {NoHash}
  /\ batch \in Seq([height : Heights, hash : Hashes, prev : Hashes \cup {NoHash}])
  /\ channel \in Seq(Events) /\ Len(channel) <= ChannelCap

\* The queued events take the consumer along starts of chains.
Queued(base) == Queue(base, channel)

\* The history mirrors what the consumer will hold, and is filled once it was loaded.
Mirrors(base) ==
  /\ phase # "failed" => (history = <<>> <=> phase = "connect")
  /\ phase = "connect" => channel = <<>>
  /\ Mirror(history, Coming(base)) /\ Len(history) <= Window

\* Where the running poll stands: what was announced ends at the block that the next
\* one must extend.
Progress(base) ==
  LET blocks == Coming(base)
      n == Len(Coming(base))
  IN  /\ phase \in {"connect", "poll", "overlap", "reorg"} => current = n
      /\ phase = "overlap" => n - Len(history) < target
      /\ phase = "reorg" =>
           /\ next - 1 \in (n - Len(history) + 1)..(n - 1)
           /\ next <= target + 1
           /\ expectedPrev = blocks[next - 1].hash
      /\ phase = "extend" =>
           /\ n = next - 1
           /\ next <= target + 1
           /\ expectedPrev = blocks[next - 1].hash
      /\ phase = "send" =>
           /\ batch # <<>>
           /\ n + Len(batch) = next - 1
           /\ next <= target + 1
           /\ expectedPrev = Last(batch).hash
           /\ \E c \in Chains :
                /\ blocks = Start(c, n)
                /\ \A i \in DOMAIN batch : batch[i] = CompactBlock(c, n + i)

Followed(base) == NodeType /\ TaskType /\ Queued(base) /\ Mirrors(base) /\ Progress(base)

\* What the consumer will hold is the start of a chain.
LEMMA ComingStart ==
  ASSUME NEW base, TaskType, Queued(base)
  PROVE  IsStart(Coming(base))
  <1>1. channel \in Seq(Events) /\ Len(channel) \in 0..Len(channel)
    BY DEF NodeType, TaskType
  <1> QED
    BY <1>1 DEF Queued, Queue, Coming

\* The channel alone decides what a consumer will hold.
LEMMA ComingFrame ==
  ASSUME NEW base, channel' = channel
  PROVE  Coming(base)' = Coming(base) /\ (Queued(base) => Queued(base)')
  <1> QED
    BY DEF Coming, Queued

\* An error ends the task and changes nothing else.
LEMMA FailKeeps ==
  ASSUME NEW base, Followed(base), NEW why \in {"rpc", "range", "window"}, Fail(why)
  PROVE  Followed(base)' /\ Coming(base)' = Coming(base)
  <1>1. /\ phase' = "failed" /\ cause' = why /\ served' = {best} /\ best' = best /\ tip' = tip
        /\ reorgs' = reorgs /\ current' = current /\ target' = target /\ history' = history
        /\ next' = next /\ expectedPrev' = expectedPrev /\ batch' = batch /\ channel' = channel
    BY DEF Fail, Answered
  <1>2. Coming(base)' = Coming(base) /\ Queued(base)'
    BY <1>1, ComingFrame DEF Followed
  <1>3. NodeType' /\ TaskType'
    BY <1>1 DEF Followed, NodeType, TaskType
  <1>4. Mirrors(base)'
    BY <1>1, <1>2 DEF Followed, Mirrors
  <1>5. Progress(base)'
    BY <1>1 DEF Progress
  <1> QED
    BY <1>2, <1>3, <1>4, <1>5 DEF Followed

\* The node moves, and the task does not.
LEMMA NodeKeeps ==
  ASSUME NEW base, Followed(base), NodeStep, UNCHANGED <<followVars, channel>>
  PROVE  Followed(base)' /\ Coming(base)' = Coming(base)
  <1>1. /\ phase' = phase /\ cause' = cause /\ current' = current /\ target' = target
        /\ history' = history /\ next' = next /\ expectedPrev' = expectedPrev /\ batch' = batch
        /\ channel' = channel
    BY DEF followVars
  <1>2. Coming(base)' = Coming(base) /\ Queued(base)'
    BY <1>1, ComingFrame DEF Followed
  <1>3. /\ best \in Chains /\ tip \in Heights /\ reorgs \in 0..MaxReorgs
        /\ best \in served /\ served \subseteq Chains
    BY DEF Followed, NodeType, TaskType
  <1>4. /\ best' \in Chains /\ tip' \in Heights /\ reorgs' \in 0..MaxReorgs
        /\ best' \in served' /\ served' \subseteq Chains
    <2>1. CASE Mine
      <3>1. tip + 1 \in Heights
        BY <1>3, <2>1, Numbers DEF Mine
      <3> QED
        BY <1>3, <2>1, <3>1 DEF Mine
    <2>2. CASE Reorganise
      <3>1. reorgs + 1 \in 0..MaxReorgs
        BY <1>3, <2>2, Numbers DEF Reorganise
      <3> QED
        BY <1>3, <2>2, <3>1 DEF Reorganise
    <2> QED
      BY <2>1, <2>2 DEF NodeStep
  <1>5. NodeType' /\ TaskType'
    BY <1>1, <1>4 DEF Followed, NodeType, TaskType
  <1>6. Mirrors(base)'
    BY <1>1, <1>2 DEF Followed, Mirrors
  <1>7. Progress(base)'
    BY <1>1, <1>2 DEF Followed, Progress
  <1> QED
    BY <1>2, <1>5, <1>6, <1>7 DEF Followed

\* The consumer handles an event: what it will hold in the end does not change.
LEMMA ConsumeKeeps ==
  ASSUME NEW base, Followed(base), NEW after, after = Apply(base, Head(channel)),
         channel # <<>>, channel' = Tail(channel), UNCHANGED <<nodeVars, followVars>>
  PROVE  /\ Followed(after)' /\ Coming(after)' = Coming(base)
         /\ Head(channel) \in Events /\ IsStart(base) /\ IsStart(after)
         /\ Head(channel).type = "Reorg" =>
              Head(channel).rollback_to \in (Len(base) - Window + 1)..(Len(base) - 1)
  <1>1. /\ phase' = phase /\ cause' = cause /\ current' = current /\ target' = target
        /\ history' = history /\ next' = next /\ expectedPrev' = expectedPrev /\ batch' = batch
        /\ best' = best /\ tip' = tip /\ reorgs' = reorgs /\ served' = served
    BY DEF followVars, nodeVars
  <1>2. /\ channel # <<>> /\ channel' = Tail(channel) /\ after = Apply(base, Head(channel))
        /\ channel \in Seq(Events) /\ Queue(base, channel) /\ Len(channel) <= ChannelCap
    BY DEF Followed, TaskType, Queued
  <1>3. /\ Queue(after, channel') /\ IsStart(base) /\ IsStart(after)
        /\ Handled(after, channel')[Len(channel')] = Handled(base, channel)[Len(channel)]
        /\ Head(channel) \in Events
        /\ Head(channel).type = "Reorg" =>
             Head(channel).rollback_to \in (Len(base) - Window + 1)..(Len(base) - 1)
    BY <1>2, QueueTake
  <1>4. Coming(after)' = Coming(base) /\ Queued(after)'
    BY <1>3 DEF Coming, Queued
  <1>5. /\ channel' \in Seq(Events) /\ Len(channel') <= ChannelCap
        /\ \A i \in DOMAIN channel' : i + 1 \in DOMAIN channel /\ channel'[i] = channel[i + 1]
    <2>1. Len(channel') = Len(channel) - 1 /\ Len(channel) \in Nat
      BY <1>2
    <2>2. ChannelCap \in Nat
      BY Numbers
    <2> QED
      BY <1>2, <2>1, <2>2
  <1>7. NodeType' /\ TaskType'
    BY <1>1, <1>5 DEF Followed, NodeType, TaskType
  <1>8. Mirrors(after)'
    BY <1>1, <1>2, <1>4 DEF Followed, Mirrors
  <1>9. Progress(after)'
    BY <1>1, <1>4 DEF Followed, Progress
  <1> QED
    BY <1>3, <1>4, <1>7, <1>8, <1>9 DEF Followed

\* The parts of the invariant that every step of the task needs.
LEMMA Facts ==
  ASSUME NEW base, Followed(base)
  PROVE  /\ IsStart(Coming(base)) /\ Len(Coming(base)) \in Heights /\ Len(Coming(base)) \in Nat \ {0}
         /\ Len(Coming(base)) <= MaxHeight /\ Coming(base) \in Seq(Records)
         /\ best \in Chains /\ best \in served /\ served \subseteq Chains
         /\ tip \in Heights /\ tip \in Nat
         /\ current \in Nat /\ target \in Nat /\ target <= MaxHeight /\ next \in Nat
         /\ Mirror(history, Coming(base)) /\ Len(history) <= Len(Coming(base))
         /\ history \in Seq(Records) /\ Len(history) \in Nat /\ Len(history) <= Window
         /\ Len(batch) \in Nat /\ DOMAIN batch = 1..Len(batch)
         /\ channel \in Seq(Events)
  <1>1. /\ IsStart(Coming(base)) /\ Len(Coming(base)) \in Heights /\ Len(Coming(base)) \in Nat \ {0}
        /\ Len(Coming(base)) <= MaxHeight /\ Coming(base) \in Seq(Records)
    BY ComingStart, IsStartParts, Numbers DEF Followed
  <1>2. /\ best \in Chains /\ best \in served /\ served \subseteq Chains
        /\ tip \in Heights /\ history \in Seq(Records) /\ channel \in Seq(Events)
        /\ current \in 0..MaxHeight /\ target \in 0..MaxHeight /\ next \in 0..(MaxHeight + 1)
        /\ batch \in Seq([height : Heights, hash : Hashes, prev : Hashes \cup {NoHash}])
    BY DEF Followed, NodeType, TaskType
  <1>3. /\ current \in Nat /\ target \in Nat /\ target <= MaxHeight /\ next \in Nat
        /\ tip \in Nat /\ Depth \in Nat
    BY <1>2, Numbers
  <1>4. Mirror(history, Coming(base)) /\ Len(history) <= Len(Coming(base)) /\ Len(history) <= Window
    BY DEF Followed, Mirrors, Mirror
  <1>7. Len(history) \in Nat /\ Len(batch) \in Nat /\ DOMAIN batch = 1..Len(batch)
    BY <1>2
  <1> QED
    BY <1>1, <1>2, <1>3, <1>4, <1>7

\* The oldest height of a history that is filled.
LEMMA OldestMirror ==
  ASSUME NEW base, Followed(base), history # <<>>
  PROVE  Oldest(history) = Len(Coming(base)) - Len(history) + 1
  <1>1. /\ IsStart(Coming(base)) /\ Mirror(history, Coming(base)) /\ Len(history) \in Nat
        /\ history \in Seq(Records)
    BY Facts
  <1>2. 1 \in 1..Len(history)
    BY <1>1
  <1>3. history[1].height = Len(Coming(base)) - Len(history) + 1
    BY <1>1, <1>2, MirrorParts
  <1> QED
    BY <1>3 DEF Oldest

\* A chain with the newest block that the consumer will hold has all its blocks.
LEMMA SameStart ==
  ASSUME NEW blocks, IsStart(blocks), NEW c \in Chains, c[Len(blocks)] = blocks[Len(blocks)].hash
  PROVE  blocks = Start(c, Len(blocks)) /\ \A h \in 1..Len(blocks) : blocks[h].hash = c[h]
  <1> DEFINE n == Len(blocks)
  <1>1. PICK d \in Chains : blocks = Start(d, n) /\ \A h \in 1..n : blocks[h].hash = d[h]
    BY IsStartParts
  <1>2. n \in Heights /\ n \in 1..n
    BY IsStartParts
  <1>3. c[n] = blocks[n].hash
    OBVIOUS
  <1> HIDE DEF n
  <1>4. c[n] = d[n]
    BY <1>1, <1>2, <1>3
  <1>5. \A h \in 1..n : c[h] = d[h]
    BY <1>1, <1>2, <1>4, HashesAgree
  <1>6. Start(c, n) = Start(d, n)
    BY <1>5 DEF Start
  <1> QED
    BY <1>1, <1>5, <1>6 DEF n

\* get_latest_block: the poll has something to compare, and aims at a confirmed height.
LEMMA PollKeeps == ASSUME NEW base, Followed(base), Poll PROVE  Followed(base)'
  <1>1. CASE Fail("window")
    BY <1>1, FailKeeps
  <1>2. CASE /\ ~ (MinOf(current, ConfirmedTip) < Oldest(history))
             /\ target' = ConfirmedTip /\ phase' = "overlap" /\ Answered
             /\ UNCHANGED <<cause, current, history, next, expectedPrev, batch, channel>>
    <2>1. /\ phase = "poll" /\ phase' = "overlap" /\ cause' = cause /\ current' = current
          /\ target' = ConfirmedTip
          /\ history' = history /\ next' = next /\ expectedPrev' = expectedPrev /\ batch' = batch
          /\ channel' = channel
          /\ best' = best /\ tip' = tip /\ reorgs' = reorgs /\ served' = {best}
      BY <1>2 DEF Poll, Answered
    <2>2. Coming(base)' = Coming(base) /\ Queued(base)'
      BY <2>1, ComingFrame DEF Followed
    <2>3. /\ ConfirmedTip \in Nat /\ ConfirmedTip <= MaxHeight
      <3>1. tip \in Nat /\ tip <= MaxHeight /\ Depth \in Nat /\ MaxHeight \in Nat
        BY Facts, Numbers
      <3> QED
        BY <3>1 DEF ConfirmedTip, MaxOf
    <2>4. ConfirmedTip \in 0..MaxHeight
      BY <2>3, Numbers
    <2>5. NodeType' /\ TaskType'
      BY <2>1, <2>4 DEF Followed, NodeType, TaskType
    <2>6. Mirrors(base)'
      BY <2>1, <2>2 DEF Followed, Mirrors
    <2>7. current = Len(Coming(base)) /\ Len(Coming(base)) - Len(history) < ConfirmedTip
      <3>1. history # <<>> /\ current = Len(Coming(base))
        BY <2>1 DEF Followed, Mirrors, Progress
      <3>2. Oldest(history) = Len(Coming(base)) - Len(history) + 1
        BY <3>1, OldestMirror
      <3>3. Len(Coming(base)) \in Nat /\ Len(history) \in Nat /\ current \in Nat
        BY Facts
      <3> QED
        BY <1>2, <2>3, <3>1, <3>2, <3>3 DEF MinOf
    <2>8. Progress(base)'
      BY <2>1, <2>2, <2>7 DEF Progress
    <2> QED
      BY <2>2, <2>5, <2>6, <2>8 DEF Followed
  <1> QED
    BY <1>1, <1>2 DEF Poll

\* The end of a poll: the consumer will hold every block up to the target.
LEMMA EndPollKeeps == ASSUME NEW base, Followed(base), EndPoll PROVE  Followed(base)'
  <1>1. /\ phase = "extend" /\ next > target
        /\ phase' = "poll" /\ cause' = cause /\ current' = target /\ target' = target
        /\ history' = history /\ next' = next /\ expectedPrev' = expectedPrev /\ batch' = batch
        /\ channel' = channel
        /\ best' = best /\ tip' = tip /\ reorgs' = reorgs /\ served' = served
    BY DEF EndPoll, nodeVars
  <1>2. Coming(base)' = Coming(base) /\ Queued(base)'
    BY <1>1, ComingFrame DEF Followed
  <1>3. NodeType' /\ TaskType'
    BY <1>1 DEF Followed, NodeType, TaskType
  <1>4. Mirrors(base)'
    BY <1>1, <1>2 DEF Followed, Mirrors
  <1>5. Len(Coming(base)) = target
    <2>1. Len(Coming(base)) = next - 1 /\ next <= target + 1
      BY <1>1 DEF Followed, Progress
    <2>2. target \in Nat /\ next \in Nat
      BY Facts
    <2> QED
      BY <1>1, <2>1, <2>2
  <1>6. Progress(base)'
    BY <1>1, <1>2, <1>5 DEF Progress
  <1> QED
    BY <1>2, <1>3, <1>4, <1>6 DEF Followed

\* A block as the pipeline receives it is well typed.
LEMMA BlockTyped ==
  ASSUME NEW c \in Chains, NEW h \in Heights
  PROVE  CompactBlock(c, h) \in [height : Heights, hash : Hashes, prev : Hashes \cup {NoHash}]
  <1>1. c[h] \in Hashes
    BY ChainHash
  <1>2. PrevOf(c, h) \in Hashes \cup {NoHash}
    <2>1. CASE h = 1
      BY <2>1 DEF PrevOf
    <2>2. CASE h # 1
      <3>1. h - 1 \in Heights
        BY <2>2, Numbers
      <3> QED
        BY <2>2, <3>1, ChainHash DEF PrevOf
    <2> QED
      BY <2>1, <2>2
  <1> QED
    BY <1>1, <1>2 DEF CompactBlock

\* fetch_validated above the fork: the batch extends what was announced.
LEMMA FetchKeeps ==
  ASSUME NEW base, Followed(base), FetchBatch
  PROVE  /\ Followed(base)'
         /\ phase' = "send" => \A i \in DOMAIN batch' : batch'[i].hash = best[batch'[i].height]
  <1> DEFINE end == MinOf(next + BatchSize - 1, target)
  <1>1. PICK blocks \in Streams(next, end) :
          IF ~ValidRange(blocks, next, end, expectedPrev)
          THEN Fail("range")
          ELSE /\ batch' = blocks
               /\ expectedPrev' = Last(blocks).hash
               /\ next' = end + 1
               /\ phase' = "send"
               /\ Answered
               /\ UNCHANGED <<cause, current, target, history, channel>>
    BY DEF FetchBatch
  <1>2. CASE ~ValidRange(blocks, next, end, expectedPrev)
    BY <1>1, <1>2, FailKeeps DEF Fail
  <1>3. CASE ValidRange(blocks, next, end, expectedPrev)
    <2> DEFINE L == Len(Coming(base))
               n == end - next + 1
    <2>1. /\ phase = "extend" /\ next <= target /\ phase' = "send" /\ cause' = cause
          /\ current' = current /\ target' = target
          /\ history' = history /\ next' = end + 1 /\ expectedPrev' = Last(blocks).hash
          /\ batch' = blocks /\ channel' = channel
          /\ best' = best /\ tip' = tip /\ reorgs' = reorgs /\ served' = {best}
      BY <1>1, <1>3 DEF FetchBatch, Answered
    <2>2. Coming(base)' = Coming(base) /\ Queued(base)'
      BY <2>1, ComingFrame DEF Followed
    <2>3. /\ L = next - 1 /\ expectedPrev = Coming(base)[next - 1].hash /\ next <= target + 1
      BY <2>1 DEF Followed, Progress
    <2>4. /\ IsStart(Coming(base)) /\ L \in Nat \ {0} /\ best \in Chains /\ served \subseteq Chains
          /\ tip \in Heights /\ target \in Nat /\ target <= MaxHeight /\ next \in Nat
      BY Facts
    <2>5. /\ next \in Heights /\ end \in Nat /\ next <= end /\ end <= target /\ next > 1
          /\ n \in Nat /\ n >= 1
      <3>1. BatchSize \in Nat \ {0}
        BY Numbers
      <3>2. next > 1 /\ next \in Heights
        BY <2>1, <2>3, <2>4, Numbers
      <3>3. end \in Nat /\ next <= end /\ end <= target
        BY <2>1, <2>4, <3>1 DEF MinOf
      <3> HIDE DEF end
      <3> QED
        BY <2>4, <3>2, <3>3
    <2> HIDE DEF end
    <2>6. /\ blocks = [i \in 1..(end - next + 1) |-> CompactBlock(best, next + i - 1)]
          /\ expectedPrev # NoHash => PrevOf(best, next) = expectedPrev
      BY <1>3, <2>4, <2>5, ValidStream
    <2>7. \A i \in 1..n : next + i - 1 \in Heights /\ next + i - 1 = L + i
      BY <2>3, <2>4, <2>5, Numbers
    <2>8. /\ DOMAIN blocks = 1..n /\ Len(blocks) = n /\ blocks # <<>>
          /\ blocks \in Seq([height : Heights, hash : Hashes, prev : Hashes \cup {NoHash}])
          /\ \A i \in 1..n : blocks[i] = CompactBlock(best, L + i)
      <3> HIDE DEF n, L
      <3>1. blocks = [i \in 1..n |-> CompactBlock(best, next + i - 1)]
        BY <2>6 DEF n
      <3>2. \A i \in 1..n : CompactBlock(best, next + i - 1)
                \in [height : Heights, hash : Hashes, prev : Hashes \cup {NoHash}]
        BY <2>4, <2>7, BlockTyped
      <3>3. Len(blocks) = n
        BY <2>5, <3>1
      <3>4. \A i \in 1..n : blocks[i] = CompactBlock(best, L + i)
        BY <2>7, <3>1
      <3>5. blocks \in Seq([height : Heights, hash : Hashes, prev : Hashes \cup {NoHash}])
        BY <2>5, <3>1, <3>2
      <3> QED
        BY <2>5, <3>1, <3>3, <3>4, <3>5
    <2>9. Coming(base) = Start(best, L)
      <3>1. L \in Heights
        BY Facts
      <3>2. \A h \in 1..L : Coming(base)[h].hash \in Hashes
        <4>1. \A h \in 1..Len(Coming(base)) : Coming(base)[h] \in Records
          BY Facts
        <4> QED
          BY <4>1 DEF Records
      <3>3. L \in 1..L
        BY <2>4
      <3>4. expectedPrev = Coming(base)[L].hash /\ expectedPrev # NoHash
        BY <2>3, <3>2, <3>3, ChainAssumption
      <3>5. PrevOf(best, next) = best[L]
        BY <2>3, <2>5 DEF PrevOf
      <3>6. best[L] = Coming(base)[L].hash
        BY <2>6, <3>4, <3>5
      <3> QED
        BY <2>4, <3>6, SameStart
    <2> HIDE DEF L, n
    <2>10. Last(blocks).hash \in Hashes
      <3>1. n \in 1..n
        BY <2>5
      <3>2. Last(blocks) \in [height : Heights, hash : Hashes, prev : Hashes \cup {NoHash}]
        <4>1. Last(blocks) = blocks[n]
          BY <2>8 DEF Last
        <4>2. blocks[n] = CompactBlock(best, L + n) /\ L + n \in Heights
          BY <2>7, <2>8, <3>1
        <4> QED
          BY <2>4, <4>1, <4>2, BlockTyped
      <3> QED
        BY <3>2
    <2>11. end + 1 \in 0..(MaxHeight + 1)
      BY <2>4, <2>5, Numbers
    <2>12. NodeType' /\ TaskType'
      BY <2>1, <2>8, <2>10, <2>11 DEF Followed, NodeType, TaskType
    <2>13. Mirrors(base)'
      BY <2>1, <2>2 DEF Followed, Mirrors
    <2>14. Progress(base)'
      <3>1. L + Len(blocks) = (end + 1) - 1 /\ end + 1 <= target + 1
        BY <2>3, <2>4, <2>5, <2>8 DEF n
      <3>2. \E c \in Chains : Coming(base) = Start(c, L)
                /\ \A i \in DOMAIN blocks : blocks[i] = CompactBlock(c, L + i)
        BY <2>4, <2>8, <2>9
      <3> QED
        BY <2>1, <2>2, <2>8, <3>1, <3>2 DEF Progress, L
    <2>15. \A i \in DOMAIN blocks : blocks[i].hash = best[blocks[i].height]
      BY <2>8 DEF CompactBlock
    <2> QED
      BY <2>1, <2>2, <2>12, <2>13, <2>14, <2>15 DEF Followed
  <1> QED
    BY <1>2, <1>3

\* One block goes into the channel and into the history.
LEMMA SendKeeps ==
  ASSUME NEW base, Followed(base), SendBlock
  PROVE  LET n == Len(Coming(base)) + 1
         IN  /\ Followed(base)'
             /\ Len(Coming(base)') = n /\ n <= target
             /\ \A h \in 1..(n - 1) : Coming(base)'[h] = Coming(base)[h]
             /\ Coming(base)'[n].hash = Head(batch).hash /\ Head(batch).height = n
  <1> DEFINE L == Len(Coming(base))
             b == Head(batch)
             e == NewBlock(b)
             record == [height |-> b.height, hash |-> b.hash]
             rest == Tail(batch)
             BlockType == [height : Heights, hash : Hashes, prev : Hashes \cup {NoHash}]
  <1>1. /\ phase = "send" /\ Len(channel) < ChannelCap /\ cause' = cause
        /\ phase' = (IF rest = <<>> THEN "extend" ELSE "send")
        /\ current' = current /\ target' = target
        /\ history' = PushHistory(history, b) /\ next' = next /\ expectedPrev' = expectedPrev
        /\ batch' = rest /\ channel' = Append(channel, e)
        /\ best' = best /\ tip' = tip /\ reorgs' = reorgs /\ served' = served
    BY DEF SendBlock, nodeVars
  <1>2. /\ batch # <<>> /\ L + Len(batch) = next - 1 /\ next <= target + 1
        /\ expectedPrev = Last(batch).hash
    BY <1>1 DEF Followed, Progress
  <1>3. PICK c \in Chains : /\ Coming(base) = Start(c, L)
                            /\ \A i \in DOMAIN batch : batch[i] = CompactBlock(c, L + i)
    BY <1>1 DEF Followed, Progress
  <1>4. /\ IsStart(Coming(base)) /\ L \in Nat \ {0} /\ target \in Nat /\ target <= MaxHeight
        /\ next \in Nat /\ Len(batch) \in Nat /\ DOMAIN batch = 1..Len(batch)
        /\ channel \in Seq(Events)
        /\ Mirror(history, Coming(base)) /\ Len(history) \in Nat /\ Len(history) <= Window
    BY Facts
  <1>5. batch \in Seq(BlockType)
    BY DEF Followed, NodeType, TaskType
  <1> HIDE DEF BlockType
  <1>6. /\ rest \in Seq(BlockType) /\ Len(rest) = Len(batch) - 1 /\ DOMAIN rest = 1..Len(rest)
        /\ b = batch[1] /\ 1 \in DOMAIN batch /\ Len(batch) >= 1
        /\ \A i \in 1..Len(rest) : i + 1 \in DOMAIN batch /\ rest[i] = batch[i + 1]
    BY <1>2, <1>4, <1>5
  <1>7. b = CompactBlock(c, L + 1) /\ b.height = L + 1 /\ b.hash = c[L + 1]
    BY <1>3, <1>6 DEF CompactBlock
  <1>8. L + 1 \in Heights /\ L < MaxHeight /\ L + 1 <= target /\ L + 1 \in Nat
    BY <1>2, <1>4, <1>6, Numbers
  <1> HIDE DEF L, b, rest
  <1>9. record \in Records /\ e \in Events /\ e.type = "NewBlock"
        /\ e.height = b.height /\ e.hash = b.hash
    <2>1. b.height \in Heights /\ b.hash \in Hashes
      BY <1>3, <1>7, <1>8, ChainHash
    <2> QED
      BY <2>1 DEF NewBlock, Records, Events
  <1>10. Apply(Coming(base), e) = Append(Coming(base), record)
    BY <1>9 DEF Apply
  <1>11. Append(Coming(base), record) = Start(c, L + 1)
    <2>1. Append(Start(c, L), [height |-> L + 1, hash |-> c[L + 1]]) = Start(c, L + 1)
      BY <1>4, <1>8, StartAppend
    <2> QED
      BY <1>3, <1>7, <2>1
  <1>12. Queued(base)' /\ Coming(base)' = Start(c, L + 1)
    <2>1. IsStart(Apply(Coming(base), e))
      BY <1>3, <1>8, <1>10, <1>11 DEF IsStart
    <2>2. Queue(base, channel) /\ Coming(base) = Handled(base, channel)[Len(channel)]
      BY DEF Followed, Queued, Coming
    <2>3. ~ (e.type = "Reorg")
      BY <1>9
    <2> HIDE DEF e, record
    <2>4. /\ Queue(base, Append(channel, e))
          /\ Handled(base, Append(channel, e))[Len(Append(channel, e))] = Apply(Coming(base), e)
      BY <1>4, <1>9, <2>1, <2>2, <2>3, QueueSend
    <2> QED
      BY <1>1, <1>10, <1>11, <2>4 DEF Queued, Coming
  <1>13. /\ Len(Coming(base)') = L + 1
         /\ \A h \in 1..(L + 1) : Coming(base)'[h] = [height |-> h, hash |-> c[h]]
    <2>1. L + 1 <= MaxHeight
      BY <1>4, <1>8, Numbers
    <2> QED
      BY <1>3, <1>8, <1>12, <2>1, StartParts
  <1>14. Mirror(history', Coming(base)') /\ history' \in Seq(Records)
         /\ Len(history') <= Window /\ history' # <<>>
    <2>1. /\ Mirror(PushHistory(history, b), Append(Coming(base), record))
          /\ PushHistory(history, b) \in Seq(Records) /\ Len(PushHistory(history, b)) <= Window
          /\ PushHistory(history, b) # <<>>
      BY <1>4, <1>9, MirrorPush
    <2> QED
      BY <1>1, <1>11, <1>12, <2>1
  <1>15. Append(channel, e) \in Seq(Events) /\ Len(Append(channel, e)) <= ChannelCap
         /\ \A i \in DOMAIN Append(channel, e) :
              \/ Append(channel, e)[i] = e
              \/ i \in DOMAIN channel /\ Append(channel, e)[i] = channel[i]
    <2> DEFINE longer == Append(channel, e)
    <2> HIDE DEF e
    <2>1. /\ longer \in Seq(Events) /\ Len(longer) = Len(channel) + 1
          /\ Len(channel) \in Nat /\ DOMAIN channel = 1..Len(channel)
          /\ longer[Len(channel) + 1] = e /\ \A i \in 1..Len(channel) : longer[i] = channel[i]
      BY <1>4, <1>9
    <2> HIDE DEF longer
    <2>2. ChannelCap \in Nat
      BY Numbers
    <2>3. Len(longer) <= ChannelCap
      BY <1>1, <2>1, <2>2
    <2>4. \A i \in DOMAIN longer : i = Len(channel) + 1 \/ i \in 1..Len(channel)
      BY <2>1
    <2>5. \A i \in DOMAIN longer : \/ longer[i] = e
                                   \/ i \in DOMAIN channel /\ longer[i] = channel[i]
      BY <2>1, <2>4
    <2> QED
      BY <2>1, <2>3, <2>5 DEF longer
  <1>16. NodeType' /\ TaskType'
    <2>1. phase' \in {"extend", "send"}
      BY <1>1
    <2>2. batch' \in Seq([height : Heights, hash : Hashes, prev : Hashes \cup {NoHash}])
      BY <1>1, <1>6 DEF BlockType
    <2> HIDE DEF e
    <2> QED
      BY <1>1, <1>14, <1>15, <2>1, <2>2 DEF Followed, NodeType, TaskType
  <1>17. Mirrors(base)'
    BY <1>1, <1>14 DEF Mirrors
  <1>18. Progress(base)'
    <2>1. CASE rest = <<>>
      <3>1. Len(batch) = 1 /\ Len(Coming(base)') = next - 1
        <4>1. Len(rest) = 0
          BY <2>1
        <4>2. Len(batch) = 1
          <5>1. Len(rest) = Len(batch) - 1 /\ Len(batch) \in Nat
            BY <1>4, <1>6
          <5> QED
            BY <4>1, <5>1
        <4> QED
          BY <1>2, <1>4, <1>13, <4>2
      <3>2. expectedPrev = c[L + 1]
        BY <1>2, <1>6, <1>7, <3>1 DEF Last
      <3>3. next - 1 = L + 1 /\ L + 1 \in 1..(L + 1)
        BY <1>4, <1>13, <3>1
      <3>4. expectedPrev = Coming(base)'[next - 1].hash
        BY <1>13, <3>2, <3>3
      <3>5. phase' = "extend"
        BY <1>1, <2>1
      <3> QED
        BY <1>1, <1>2, <3>1, <3>4, <3>5 DEF Progress
    <2>2. CASE rest # <<>>
      <3>1. phase' = "send"
        BY <1>1, <2>2
      <3>2. (L + 1) + Len(rest) = next - 1
        BY <1>2, <1>4, <1>6
      <3>3. Last(rest) = Last(batch)
        <4>1. Len(rest) \in 1..Len(rest) /\ Len(rest) + 1 = Len(batch)
          BY <1>4, <1>6, <2>2
        <4> QED
          BY <1>6, <4>1 DEF Last
      <3>4. \A i \in DOMAIN rest : rest[i] = CompactBlock(c, (L + 1) + i)
        <4> TAKE i \in DOMAIN rest
        <4>1. i + 1 \in DOMAIN batch /\ rest[i] = batch[i + 1]
          BY <1>6
        <4>2. batch[i + 1] = CompactBlock(c, L + (i + 1))
          BY <1>3, <4>1
        <4>3. L + (i + 1) = (L + 1) + i
          BY <1>4, <1>6
        <4> QED
          BY <4>1, <4>2, <4>3
      <3>5. \E d \in Chains : /\ Coming(base)' = Start(d, Len(Coming(base)'))
                              /\ \A i \in DOMAIN rest : rest[i] = CompactBlock(d, Len(Coming(base)') + i)
        BY <1>12, <1>13, <3>4
      <3> QED
        BY <1>1, <1>2, <1>13, <2>2, <3>1, <3>2, <3>3, <3>5 DEF Progress
    <2> QED
      BY <2>1, <2>2
  <1>19. /\ \A h \in 1..L : Coming(base)'[h] = Coming(base)[h]
         /\ Coming(base)'[L + 1].hash = b.hash /\ b.height = L + 1
    <2>1. L <= MaxHeight
      BY <1>4, <1>8, Numbers
    <2>2. \A h \in 1..L : Coming(base)[h] = [height |-> h, hash |-> c[h]]
      BY <1>3, <1>4, <2>1, StartParts
    <2>3. L + 1 \in 1..(L + 1) /\ \A h \in 1..L : h \in 1..(L + 1)
      BY <1>4
    <2> QED
      BY <1>7, <1>13, <2>2, <2>3
  <1>20. (L + 1) - 1 = L
    BY <1>4
  <1> QED
    BY <1>8, <1>12, <1>13, <1>16, <1>17, <1>18, <1>19, <1>20 DEF Followed, L, b

\* The reorg goes into the channel, and the history forgets what it announces.
LEMMA ReorgKeeps ==
  ASSUME NEW base, Followed(base), SendReorg
  PROVE  /\ Followed(base)'
         /\ Len(Coming(base)') = next - 1 /\ next - 1 \in 1..(Len(Coming(base)) - 1)
         /\ \A h \in 1..(next - 1) : Coming(base)'[h] = Coming(base)[h]
  <1> DEFINE L == Len(Coming(base))
             fork == next - 1
             e == Reorg(fork)
             after == SubSeq(Coming(base), 1, Kept(Coming(base), fork))
  <1>1. /\ phase = "reorg" /\ Len(channel) < ChannelCap /\ cause' = cause
        /\ phase' = "extend"
        /\ current' = current /\ target' = target
        /\ history' = PopHistory(history, fork) /\ next' = next /\ expectedPrev' = expectedPrev
        /\ batch' = batch /\ channel' = Append(channel, e)
        /\ best' = best /\ tip' = tip /\ reorgs' = reorgs /\ served' = served
    BY DEF SendReorg, nodeVars
  <1>2. /\ fork \in (L - Len(history) + 1)..(L - 1) /\ next <= target + 1
        /\ expectedPrev = Coming(base)[fork].hash
    BY <1>1 DEF Followed, Progress
  <1>3. /\ IsStart(Coming(base)) /\ L \in Nat \ {0} /\ L <= MaxHeight /\ next \in Nat
        /\ channel \in Seq(Events)
        /\ Mirror(history, Coming(base)) /\ Len(history) \in Nat /\ Len(history) <= Window
        /\ Len(history) <= L
    BY Facts
  <1>4. /\ fork \in Nat /\ fork >= 1 /\ fork < L /\ fork \in Heights
        /\ fork \in (L - Len(history) + 1)..L
    BY <1>2, <1>3, Numbers
  <1>5. fork \in (L - Window + 1)..(L - 1)
    BY <1>2, <1>3, Numbers
  <1>6. next = fork + 1
    BY <1>3
  <1> HIDE DEF fork
  <1>7. /\ Mirror(PopHistory(history, fork), after)
        /\ PopHistory(history, fork) \in Seq(Records) /\ PopHistory(history, fork) # <<>>
        /\ Len(PopHistory(history, fork)) = fork - (L - Len(history))
        /\ IsStart(after) /\ Len(after) = fork
        /\ \A h \in 1..fork : after[h] = Coming(base)[h]
    <2>1. fork \in (Len(Coming(base)) - Len(history) + 1)..Len(Coming(base))
      BY <1>4
    <2> DEFINE blocks == Coming(base)
    <2>2. /\ IsStart(blocks) /\ Mirror(history, blocks) /\ Len(history) \in Nat
          /\ fork \in (Len(blocks) - Len(history) + 1)..Len(blocks)
      BY <1>3, <2>1
    <2> HIDE DEF blocks
    <2>3. /\ Mirror(PopHistory(history, fork), SubSeq(blocks, 1, Kept(blocks, fork)))
          /\ PopHistory(history, fork) \in Seq(Records) /\ PopHistory(history, fork) # <<>>
          /\ Len(PopHistory(history, fork)) = fork - (Len(blocks) - Len(history))
          /\ IsStart(SubSeq(blocks, 1, Kept(blocks, fork)))
          /\ Len(SubSeq(blocks, 1, Kept(blocks, fork))) = fork
          /\ \A h \in 1..fork : SubSeq(blocks, 1, Kept(blocks, fork))[h] = blocks[h]
      BY <2>2, MirrorPop
    <2> QED
      BY <2>3 DEF L, blocks
  <1>8. e \in Events /\ e.type = "Reorg" /\ e.rollback_to = fork
    BY <1>4 DEF Reorg, Events
  <1>9. Apply(Coming(base), e) = after
    BY <1>8 DEF Apply
  <1> HIDE DEF e, after
  <1>10. Queued(base)' /\ Coming(base)' = after
    <2>1. Queue(base, channel) /\ Coming(base) = Handled(base, channel)[Len(channel)]
      BY DEF Followed, Queued, Coming
    <2>2. e.type = "Reorg" => e.rollback_to \in (Len(Coming(base)) - Window + 1)..(Len(Coming(base)) - 1)
      BY <1>5, <1>8
    <2>3. IsStart(Apply(Coming(base), e)) /\ e \in Events /\ channel \in Seq(Events)
      BY <1>3, <1>7, <1>8, <1>9
    <2> DEFINE before == Coming(base)
    <2>4. Queue(base, channel) /\ before = Handled(base, channel)[Len(channel)]
      BY <2>1
    <2>5. IsStart(Apply(before, e))
          /\ (e.type = "Reorg" => e.rollback_to \in (Len(before) - Window + 1)..(Len(before) - 1))
      BY <2>2, <2>3
    <2> HIDE DEF before
    <2>6. /\ Queue(base, Append(channel, e))
          /\ Handled(base, Append(channel, e))[Len(Append(channel, e))] = Apply(before, e)
      BY <2>3, <2>4, <2>5, QueueSend
    <2> QED
      BY <1>1, <1>9, <2>6 DEF Queued, Coming, before
  <1>11. Append(channel, e) \in Seq(Events) /\ Len(Append(channel, e)) <= ChannelCap
    BY <1>1, <1>3, <1>8, Numbers
  <1>12. Len(history') <= Window
    BY <1>1, <1>3, <1>4, <1>7, Numbers
  <1>13. NodeType' /\ TaskType'
    BY <1>1, <1>7, <1>11, <1>12 DEF Followed, NodeType, TaskType
  <1>14. Mirrors(base)'
    BY <1>1, <1>7, <1>10, <1>12 DEF Mirrors
  <1>15. Progress(base)'
    <2>1. fork \in 1..fork /\ Coming(base)'[fork] = Coming(base)[fork]
      BY <1>4, <1>7, <1>10
    <2>2. expectedPrev' = Coming(base)'[next' - 1].hash /\ Len(Coming(base)') = next' - 1
      BY <1>1, <1>2, <1>4, <1>6, <1>7, <1>10, <2>1
    <2> QED
      BY <1>1, <1>2, <2>2 DEF Progress
  <1> QED
    BY <1>3, <1>4, <1>7, <1>10, <1>13, <1>14, <1>15 DEF Followed, fork, L

\* The history is read back: it is the newest part of what the consumer holds.
LEMMA LoadKeeps ==
  ASSUME NEW base, Followed(base), LoadHistory(Last(base).hash)
  PROVE  /\ Followed(base)'
         /\ phase' = "poll" =>
              /\ \A h \in 1..Len(Coming(base)) : Coming(base)[h].hash = best[h]
              /\ Len(history') >= Len(Coming(base)) \/ Len(history') >= Window
  <1> DEFINE L == Len(Coming(base))
             lo == HistoryStart
             n == current - lo + 1
  <1>1. phase = "connect" /\ channel = <<>> /\ current = L /\ history = <<>>
    BY DEF LoadHistory, Followed, Mirrors, Progress
  <1>2. Coming(base) = base
    <2>1. Len(channel) = 0
      BY <1>1
    <2>2. Steps(Handled(base, channel), base, channel, Len(channel))
      BY <2>1, HandledSteps
    <2> QED
      BY <2>1, <2>2 DEF Steps, Coming
  <1>3. /\ IsStart(Coming(base)) /\ L \in Heights /\ L \in Nat \ {0} /\ L <= MaxHeight
        /\ best \in Chains /\ served \subseteq Chains /\ tip \in Heights
        /\ Coming(base) \in Seq(Records)
    BY Facts
  <1>4. /\ lo \in Nat /\ 1 <= lo /\ lo <= L /\ lo \in Heights
        /\ n \in Nat /\ 1 <= n /\ n <= L /\ n <= Window /\ L - n = lo - 1
        /\ n >= L \/ n >= Window
    <2>1. Window \in Nat \ {0}
      BY Numbers
    <2>2. /\ lo \in Nat /\ 1 <= lo /\ lo <= L /\ L - lo + 1 <= Window
          /\ lo = 1 \/ L - lo + 1 = Window
      BY <1>1, <1>3, <2>1 DEF HistoryStart, MaxOf
    <2> HIDE DEF lo
    <2>3. lo \in Heights
      BY <1>3, <2>2, Numbers
    <2> QED
      BY <1>1, <1>3, <2>2, <2>3
  <1>5. current \in Nat /\ lo <= current
    BY <1>1, <1>3, <1>4
  <1>6. PICK blocks \in Streams(lo, current) :
          IF ~ValidRange(blocks, lo, current, NoHash)
          THEN Fail("range")
          ELSE IF Last(blocks).hash # Last(base).hash
          THEN Fail("window")
          ELSE /\ phase' = "poll"
               /\ history' = [i \in DOMAIN blocks |->
                                [height |-> blocks[i].height, hash |-> blocks[i].hash]]
               /\ Answered
               /\ UNCHANGED <<cause, current, target, next, expectedPrev, batch, channel>>
    BY DEF LoadHistory
  <1> HIDE DEF lo
  <1>7. CASE ~ValidRange(blocks, lo, current, NoHash)
    BY <1>6, <1>7, FailKeeps DEF Fail
  <1>8. CASE Last(blocks).hash # Last(base).hash /\ ValidRange(blocks, lo, current, NoHash)
    BY <1>6, <1>8, FailKeeps DEF Fail
  <1>9. CASE ValidRange(blocks, lo, current, NoHash) /\ Last(blocks).hash = Last(base).hash
    <2>1. /\ phase' = "poll" /\ cause' = cause /\ current' = current /\ target' = target
          /\ next' = next /\ expectedPrev' = expectedPrev /\ batch' = batch
          /\ channel' = channel
          /\ best' = best /\ tip' = tip /\ reorgs' = reorgs /\ served' = {best}
          /\ history' = [i \in DOMAIN blocks |->
                           [height |-> blocks[i].height, hash |-> blocks[i].hash]]
      BY <1>6, <1>9 DEF Answered
    <2>2. Coming(base)' = Coming(base) /\ Queued(base)'
      BY <2>1, ComingFrame DEF Followed
    <2>3. blocks = [i \in 1..n |-> CompactBlock(best, lo + i - 1)]
      BY <1>3, <1>4, <1>5, <1>9, ValidStream
    <2> HIDE DEF n, L
    <2>4. /\ DOMAIN blocks = 1..n /\ Len(blocks) = n
          /\ \A i \in 1..n : blocks[i].height = lo + i - 1 /\ blocks[i].hash = best[lo + i - 1]
      BY <1>4, <2>3 DEF CompactBlock
    <2>5. best[L] = Coming(base)[L].hash
      <3>1. Last(blocks) = blocks[n] /\ Last(base) = Coming(base)[L]
        BY <1>2, <2>4 DEF Last, L
      <3>2. n \in 1..n /\ lo + n - 1 = L
        BY <1>3, <1>4
      <3> QED
        BY <1>9, <2>4, <3>1, <3>2
    <2>6. Coming(base) = Start(best, L)
      <3>1. best[Len(Coming(base))] = Coming(base)[Len(Coming(base))].hash
        BY <2>5 DEF L
      <3> QED
        BY <1>3, <3>1, SameStart DEF L
    <2>7. \A h \in 1..L : Coming(base)[h] = [height |-> h, hash |-> best[h]] /\ Coming(base)[h] \in Records
      <3>1. \A h \in 1..L : Coming(base)[h] = [height |-> h, hash |-> best[h]]
        BY <1>3, <2>6, StartParts
      <3>2. \A h \in 1..L : Coming(base)[h] \in Records
        BY <1>3 DEF L
      <3> QED
        BY <3>1, <3>2
    <2>8. \A i \in 1..n : lo + i - 1 \in 1..L /\ L - n + i = lo + i - 1
      BY <1>3, <1>4
    <2>9. /\ DOMAIN history' = 1..n
          /\ \A i \in 1..n : history'[i] = Coming(base)[L - n + i] /\ history'[i] \in Records
      <3>1. \A i \in 1..n : history'[i] = [height |-> lo + i - 1, hash |-> best[lo + i - 1]]
        BY <2>1, <2>4
      <3>2. \A i \in 1..n : Coming(base)[L - n + i] = [height |-> lo + i - 1, hash |-> best[lo + i - 1]]
                            /\ Coming(base)[L - n + i] \in Records
        BY <2>7, <2>8
      <3> QED
        BY <2>1, <2>4, <3>1, <3>2
    <2>10. history' \in Seq(Records) /\ Len(history') = n
      <3>1. history' = [i \in 1..n |-> history'[i]]
        BY <2>1, <2>4
      <3> QED
        BY <1>4, <2>9, <3>1
    <2>11. Mirror(history', Coming(base)) /\ history' # <<>> /\ Len(history') <= Window
      <3>1. Len(history') <= Len(Coming(base))
        BY <1>4, <2>10 DEF L
      <3>2. \A i \in 1..Len(history') : history'[i] = Coming(base)[Len(Coming(base)) - Len(history') + i]
        BY <2>9, <2>10 DEF L
      <3>3. history' # <<>>
        BY <1>4, <2>10
      <3> QED
        BY <1>3, <1>4, <2>10, <3>1, <3>2, <3>3, MirrorIntro
    <2>12. NodeType' /\ TaskType'
      BY <2>1, <2>10, <2>11, <1>1 DEF Followed, NodeType, TaskType
    <2>13. Mirrors(base)'
      BY <2>1, <2>2, <2>11 DEF Mirrors
    <2>14. Progress(base)'
      BY <1>1, <2>1, <2>2 DEF Progress, L
    <2>15. \A h \in 1..L : Coming(base)[h].hash = best[h]
      <3> TAKE h \in 1..L
      <3>1. Coming(base)[h] = [height |-> h, hash |-> best[h]]
        BY <2>7
      <3> QED
        BY <3>1
    <2>16. Len(history') >= L \/ Len(history') >= Window
      BY <1>4, <2>10
    <2> QED
      BY <2>2, <2>12, <2>13, <2>14, <2>15, <2>16 DEF Followed, L
  <1> QED
    BY <1>7, <1>8, <1>9

\* find_fork_point: the highest block that the overlap shares with the history.
LEMMA ForkKeeps ==
  ASSUME NEW base, Followed(base), FindFork
  PROVE  /\ Followed(base)'
         /\ current <= target /\ best[current] = Coming(base)[current].hash => phase' # "reorg"
         /\ phase' # "failed" => best[next' - 1] = Coming(base)[next' - 1].hash
         /\ cause' = "window" =>
              LET oldest == Len(Coming(base)) - Len(history) + 1
              IN  best[oldest] # Coming(base)[oldest].hash
  <1> DEFINE L == Len(Coming(base))
             lo == Oldest(history)
             hi == MinOf(current, target)
             n == hi - lo + 1
  <1>1. PICK blocks \in Streams(lo, hi) :
          LET shared == {i \in DOMAIN blocks : HashAt(history, blocks[i].height) = blocks[i].hash}
              fork == blocks[Max(shared)].height
          IN  IF ~ValidRange(blocks, lo, hi, NoHash)
              THEN Fail("range")
              ELSE IF shared = {}
              THEN Fail("window")
              ELSE /\ next' = fork + 1
                   /\ expectedPrev' = HashAt(history, fork)
                   /\ phase' = IF fork < current THEN "reorg" ELSE "extend"
                   /\ Answered
                   /\ UNCHANGED <<cause, current, target, history, batch, channel>>
    BY DEF FindFork
  <1> DEFINE shared == {i \in DOMAIN blocks : HashAt(history, blocks[i].height) = blocks[i].hash}
             fork == blocks[Max(shared)].height
  <1>2. phase = "overlap" /\ history # <<>> /\ current = L /\ L - Len(history) < target
    BY DEF FindFork, Followed, Mirrors, Progress
  <1>3. lo = L - Len(history) + 1
    BY <1>2, OldestMirror
  <1>4. /\ IsStart(Coming(base)) /\ L \in Nat \ {0} /\ L <= MaxHeight /\ L \in Heights
        /\ best \in Chains /\ served \subseteq Chains /\ tip \in Heights
        /\ target \in Nat /\ target <= MaxHeight /\ current \in Nat
        /\ Mirror(history, Coming(base)) /\ Len(history) \in Nat /\ Len(history) <= L
    BY Facts
  <1>5. Len(history) >= 1
    <2>1. history \in Seq(Records)
      BY Facts
    <2> QED
      BY <1>2, <2>1
  <1>6. /\ lo \in Nat /\ 1 <= lo /\ lo <= L /\ lo \in Heights
        /\ hi \in Nat /\ hi <= L /\ hi <= target /\ lo <= hi /\ (current <= target => hi = L)
        /\ n \in Nat /\ 1 <= n
    <2>1. hi \in Nat /\ hi <= L /\ hi <= target /\ (hi = L \/ hi = target)
          /\ (current <= target => hi = L)
      BY <1>2, <1>4 DEF MinOf
    <2> HIDE DEF lo, hi
    <2>2. lo \in Nat /\ 1 <= lo /\ lo <= L /\ lo <= hi
      BY <1>2, <1>3, <1>4, <1>5, <2>1
    <2>3. lo \in Heights
      BY <1>4, <2>2, Numbers
    <2> QED
      BY <2>1, <2>2, <2>3
  <1> HIDE DEF lo, hi
  <1>7. CASE ~ValidRange(blocks, lo, hi, NoHash)
    <2>1. Fail("range")
      BY <1>1, <1>7
    <2> QED
      BY <2>1, FailKeeps DEF Fail
  <1>8. CASE ValidRange(blocks, lo, hi, NoHash) /\ shared = {}
    <2>1. Fail("window")
      BY <1>1, <1>8
    <2>2. Followed(base)' /\ phase' = "failed"
      BY <2>1, FailKeeps DEF Fail
    <2>3. blocks = [i \in 1..n |-> CompactBlock(best, lo + i - 1)]
      BY <1>4, <1>6, <1>8, ValidStream
    <2> HIDE DEF n
    <2>4. 1 \in DOMAIN blocks /\ blocks[1] = CompactBlock(best, lo) /\ lo + 1 - 1 = lo
      BY <1>6, <2>3
    <2>5. HashAt(history, lo) # best[lo]
      BY <1>8, <2>4 DEF CompactBlock
    <2>6. HashAt(history, lo) = Coming(base)[lo].hash
      <3> DEFINE mirrored == Coming(base)
      <3>1. /\ IsStart(mirrored) /\ Mirror(history, mirrored) /\ Len(history) \in Nat
            /\ lo \in (Len(mirrored) - Len(history) + 1)..Len(mirrored)
        BY <1>3, <1>4, <1>6
      <3> HIDE DEF mirrored
      <3>2. HashAt(history, lo) = mirrored[lo].hash
        BY <3>1, HashAtMirror
      <3> QED
        BY <3>2 DEF mirrored
    <2> QED
      BY <1>3, <2>2, <2>5, <2>6
  <1>9. CASE ValidRange(blocks, lo, hi, NoHash) /\ shared # {}
    <2>1. /\ phase' = (IF fork < current THEN "reorg" ELSE "extend")
          /\ cause' = cause /\ current' = current /\ target' = target
          /\ next' = fork + 1 /\ expectedPrev' = HashAt(history, fork) /\ batch' = batch
          /\ history' = history /\ channel' = channel
          /\ best' = best /\ tip' = tip /\ reorgs' = reorgs /\ served' = {best}
      BY <1>1, <1>9 DEF Answered
    <2>2. Coming(base)' = Coming(base) /\ Queued(base)'
      BY <2>1, ComingFrame DEF Followed
    <2>3. blocks = [i \in 1..n |-> CompactBlock(best, lo + i - 1)]
      BY <1>4, <1>6, <1>9, ValidStream
    <2> HIDE DEF n
    <2>4. /\ DOMAIN blocks = 1..n
          /\ \A i \in 1..n : blocks[i].height = lo + i - 1 /\ blocks[i].hash = best[lo + i - 1]
      BY <1>6, <2>3 DEF CompactBlock
    <2>5. shared \in SUBSET (0..n) /\ \A i \in shared : i \in 1..n
      BY <1>6, <2>4
    <2>6. Max(shared) \in shared /\ \A i \in shared : i <= Max(shared)
      <3> HIDE DEF shared
      <3> QED
        BY <1>6, <1>9, <2>5, MaxIsGreatest
    <2> DEFINE m == Max(shared)
    <2>7. m \in 1..n /\ fork = lo + m - 1 /\ HashAt(history, fork) = best[fork]
      <3>1. m \in 1..n
        BY <2>5, <2>6
      <3>2. blocks[m].height = lo + m - 1 /\ blocks[m].hash = best[lo + m - 1]
        BY <2>4, <3>1
      <3>3. HashAt(history, blocks[m].height) = blocks[m].hash
        BY <2>6
      <3> QED
        BY <3>1, <3>2, <3>3
    <2>8. \A i \in 1..n : HashAt(history, lo + i - 1) = best[lo + i - 1] => i <= m
      BY <2>4, <2>6
    <2> HIDE DEF m, fork, shared
    <2>9. /\ fork \in Nat /\ lo <= fork /\ fork <= hi /\ fork >= 1 /\ fork <= L
          /\ fork <= target /\ fork \in (L - Len(history) + 1)..L
      BY <1>3, <1>4, <1>6, <2>7 DEF n
    <2>10. HashAt(history, fork) = Coming(base)[fork].hash
      <3> DEFINE mirrored == Coming(base)
      <3>1. /\ IsStart(mirrored) /\ Mirror(history, mirrored) /\ Len(history) \in Nat
            /\ fork \in (Len(mirrored) - Len(history) + 1)..Len(mirrored)
        BY <1>4, <2>9
      <3> HIDE DEF mirrored
      <3>2. HashAt(history, fork) = mirrored[fork].hash
        BY <3>1, HashAtMirror
      <3> QED
        BY <3>2 DEF mirrored
    <2>11. best[fork] \in Hashes
      <3>1. fork \in Heights
        BY <1>4, <2>9, Numbers
      <3> QED
        BY <1>4, <3>1, ChainHash
    <2>12. NodeType' /\ TaskType'
      <3>1. fork + 1 \in 0..(MaxHeight + 1)
        BY <1>4, <2>9, Numbers
      <3>2. phase' \in {"reorg", "extend"}
        BY <2>1
      <3>3. expectedPrev' \in Hashes
        BY <2>1, <2>7, <2>11
      <3>4. cause = "none"
        BY <1>2 DEF Followed, NodeType, TaskType
      <3> QED
        BY <1>4, <2>1, <3>1, <3>2, <3>3, <3>4 DEF Followed, NodeType, TaskType
    <2>13. Mirrors(base)'
      BY <1>2, <2>1, <2>2 DEF Followed, Mirrors
    <2>14. Progress(base)'
      <3>1. (fork + 1) - 1 = fork /\ fork + 1 <= target + 1
        BY <1>4, <2>9
      <3>2. expectedPrev' = Coming(base)[(fork + 1) - 1].hash
        BY <2>1, <2>10, <3>1
      <3>3. CASE fork < current
        <4>1. phase' = "reorg" /\ fork \in (L - Len(history) + 1)..(L - 1)
          BY <1>2, <1>4, <2>1, <2>9, <3>3
        <4> QED
          BY <1>2, <2>1, <2>2, <3>1, <3>2, <4>1 DEF Progress, L
      <3>4. CASE ~ (fork < current)
        <4>1. phase' = "extend" /\ fork = L
          BY <1>2, <1>4, <2>1, <2>9, <3>4
        <4> QED
          BY <2>1, <2>2, <3>1, <3>2, <4>1 DEF Progress, L
      <3> QED
        BY <3>3, <3>4
    <2>15. ASSUME current <= target, best[current] = Coming(base)[current].hash
           PROVE  ~ (fork < current)
      <3>1. current <= target /\ Coming(base)[L].hash = best[L]
        BY <1>2, <2>15
      <3>2. hi = L /\ L \in 1..L
        BY <1>4, <1>6, <3>1
      <3>3. HashAt(history, L) = best[L]
        <4> DEFINE mirrored == Coming(base)
                   newest == L
        <4>1. /\ IsStart(mirrored) /\ Mirror(history, mirrored) /\ Len(history) \in Nat
              /\ newest \in (Len(mirrored) - Len(history) + 1)..Len(mirrored)
          BY <1>4, <1>5
        <4>2. mirrored[newest].hash = best[newest]
          BY <3>1, <3>2
        <4> HIDE DEF mirrored, newest
        <4>3. HashAt(history, newest) = mirrored[newest].hash
          BY <4>1, HashAtMirror
        <4> QED
          BY <4>2, <4>3 DEF newest
      <3>4. n \in 1..n /\ lo + n - 1 = L
        BY <1>4, <1>6, <3>2 DEF n
      <3>5. n <= m
        BY <2>8, <3>3, <3>4
      <3> QED
        BY <1>2, <1>4, <1>6, <2>7, <3>4, <3>5
    <2>16. best[next' - 1] = Coming(base)[next' - 1].hash
      <3>1. next' - 1 = fork
        BY <2>1, <2>9
      <3> QED
        BY <2>7, <2>10, <3>1
    <2>17. cause' # "window"
      <3>1. cause = "none"
        BY <1>2 DEF Followed, NodeType, TaskType
      <3> QED
        BY <2>1, <3>1
    <2> QED
      BY <2>1, <2>2, <2>12, <2>13, <2>14, <2>15, <2>16, <2>17 DEF Followed
  <1> QED
    BY <1>7, <1>8, <1>9

\* A task that was just spawned has sent nothing, and mirrors nothing.
LEMMA NothingSent ==
  ASSUME NEW c \in Chains, NEW n \in Heights
  PROVE  LET base == Start(c, n)
         IN  /\ IsStart(base) /\ Len(base) = n /\ base \in Seq(Records)
             /\ \A h \in 1..n : base[h] = [height |-> h, hash |-> c[h]]
             /\ Handled(base, <<>>)[Len(<<>>)] = base
             /\ Queue(base, <<>>) /\ Mirror(<<>>, base)
  <1> DEFINE base == Start(c, n)
             none == <<>>
  <1>1. n \in Nat /\ n <= MaxHeight
    BY Numbers
  <1>2. /\ IsStart(base) /\ Len(base) = n /\ base \in Seq(Records)
        /\ \A h \in 1..n : base[h] = [height |-> h, hash |-> c[h]]
    BY <1>1, StartParts DEF IsStart
  <1> HIDE DEF base
  <1>3. Len(none) = 0 /\ none \in Seq(Records)
    OBVIOUS
  <1> HIDE DEF none
  <1>4. Handled(base, none)[0] = base
    <2>1. Steps(Handled(base, none), base, none, Len(none))
      BY <1>3, HandledSteps
    <2> QED
      BY <2>1 DEF Steps
  <1>5. Queue(base, none)
    BY <1>2, <1>3, <1>4 DEF Queue
  <1>6. Mirror(none, base)
    <2>1. Len(none) <= Len(base) /\ \A i \in 1..Len(none) : none[i] = base[Len(base) - Len(none) + i]
      BY <1>1, <1>2, <1>3
    <2> QED
      BY <1>2, <1>3, <2>1, MirrorIntro
  <1> QED
    BY <1>2, <1>3, <1>4, <1>5, <1>6 DEF base, none

\* The task is spawned in the initial state for a consumer that holds a start of a chain.
LEMMA InitFollowed ==
  ASSUME NodeType, NEW c \in Chains, NEW n \in Heights, PipelineInit(n)
  PROVE  Followed(Start(c, n)) /\ Coming(Start(c, n)) = Start(c, n)
  <1> DEFINE base == Start(c, n)
  <1>1. /\ phase = "connect" /\ cause = "none" /\ current = n /\ target = 0 /\ history = <<>>
        /\ next = 0 /\ expectedPrev = NoHash /\ batch = <<>> /\ channel = <<>>
    BY DEF PipelineInit
  <1>2. Len(base) = n /\ Handled(base, <<>>)[Len(<<>>)] = base /\ Queue(base, <<>>) /\ Mirror(<<>>, base)
    BY NothingSent
  <1> HIDE DEF base
  <1>3. Coming(base) = base /\ Queued(base)
    BY <1>1, <1>2 DEF Coming, Queued
  <1>4. TaskType
    <2>1. /\ Len(history) = 0 /\ history \in Seq(Records)
          /\ Len(channel) = 0 /\ channel \in Seq(Events)
          /\ batch \in Seq([height : Heights, hash : Hashes, prev : Hashes \cup {NoHash}])
      BY <1>1
    <2>2. {current, target} \subseteq 0..MaxHeight /\ next \in 0..(MaxHeight + 1)
      BY <1>1, Numbers
    <2> QED
      BY <1>1, <2>1, <2>2, Numbers DEF TaskType
  <1>5. Mirrors(base)
    BY <1>1, <1>2, <1>3, Numbers DEF Mirrors
  <1>6. Progress(base)
    BY <1>1, <1>2, <1>3 DEF Progress
  <1> QED
    BY <1>3, <1>4, <1>5, <1>6 DEF Followed, base

\* The task is spawned later.
LEMMA SpawnKeeps ==
  ASSUME NodeType, UNCHANGED nodeVars, NEW c \in Chains, NEW n \in Heights, PipelineInit(n)'
  PROVE  Followed(Start(c, n))' /\ Coming(Start(c, n))' = Start(c, n)
  <1> DEFINE base == Start(c, n)
  <1>1. /\ phase' = "connect" /\ cause' = "none" /\ current' = n /\ target' = 0 /\ history' = <<>>
        /\ next' = 0 /\ expectedPrev' = NoHash /\ batch' = <<>> /\ channel' = <<>>
        /\ best' = best /\ tip' = tip /\ reorgs' = reorgs /\ served' = served
    BY DEF PipelineInit, nodeVars
  <1>2. Len(base) = n /\ Handled(base, <<>>)[Len(<<>>)] = base /\ Queue(base, <<>>) /\ Mirror(<<>>, base)
    BY NothingSent
  <1> HIDE DEF base
  <1>3. Coming(base)' = base /\ Queued(base)'
    BY <1>1, <1>2 DEF Coming, Queued
  <1>4. NodeType' /\ TaskType'
    <2>1. /\ Len(history') = 0 /\ history' \in Seq(Records)
          /\ Len(channel') = 0 /\ channel' \in Seq(Events)
          /\ batch' \in Seq([height : Heights, hash : Hashes, prev : Hashes \cup {NoHash}])
      BY <1>1
    <2>2. {current', target'} \subseteq 0..MaxHeight /\ next' \in 0..(MaxHeight + 1)
      BY <1>1, Numbers
    <2> QED
      BY <1>1, <2>1, <2>2, Numbers DEF NodeType, TaskType
  <1>5. Mirrors(base)'
    BY <1>1, <1>2, <1>3, Numbers DEF Mirrors
  <1>6. Progress(base)'
    BY <1>1, <1>2, <1>3 DEF Progress
  <1> QED
    BY <1>3, <1>4, <1>5, <1>6 DEF Followed, base

\* What the consumer holds now is the start of a chain.
LEMMA BaseStart == ASSUME NEW base, Followed(base) PROVE IsStart(base)
  <1>1. channel \in Seq(Events) /\ Queue(base, channel)
    BY DEF Followed, TaskType, Queued
  <1>2. Len(channel) \in Nat /\ 0 \in 0..Len(channel)
    BY <1>1
  <1>3. Steps(Handled(base, channel), base, channel, Len(channel))
    BY <1>2, HandledSteps
  <1>4. Handled(base, channel)[0] = base
    BY <1>3 DEF Steps
  <1>5. IsStart(Handled(base, channel)[0])
    BY <1>1, <1>2 DEF Queue
  <1> QED
    BY <1>4, <1>5
=============================================================================
