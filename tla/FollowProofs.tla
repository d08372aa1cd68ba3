---------------------------- MODULE FollowProofs ----------------------------
(***************************************************************************)
(* For every set of chains, confirmation depth, reorg window, batch size   *)
(* and channel capacity, wherever in a poll the node reorganises: the      *)
(* private history of follow_blocks mirrors what its consumer will hold,   *)
(* the consumer follows one chain, and only confirmed blocks reach it.     *)
(***************************************************************************)
EXTENDS Follow, PipelineProofs

-----------------------------------------------------------------------------
(* The inductive invariant *)

\* What is announced was confirmed, and is still on the chain unless the node took back
\* a confirmed block.
Confirming ==
  /\ peak \in Heights /\ tip <= peak
  /\ target <= Confirmed /\ Len(Tracked) <= Confirmed
  /\ ~deep =>
       /\ \A h \in 1..Len(Tracked) : Tracked[h].hash = best[h]
       /\ phase = "send" => \A i \in DOMAIN batch : batch[i].hash = best[batch[i].height]
  /\ ~lagged => tip = peak
  /\ ~deep /\ ~lagged =>
       /\ phase # "reorg"
       /\ phase = "overlap" => current <= target
       /\ \A i \in DOMAIN channel : channel[i].type = "NewBlock"

\* The task keeps its own invariant for the blocks that the consumer holds.
IInv == (\E base : stored = base /\ Followed(base)) /\ Confirming

\* What the consumer will hold, for the blocks that it holds now.
LEMMA TrackedIs ==
  ASSUME NEW base, stored = base
  PROVE  Tracked = Coming(base)
  BY DEF Tracked, Coming

\* The same in the next state.
LEMMA TrackedNext ==
  ASSUME NEW base, stored' = base
  PROVE  Tracked' = Coming(base)'
  BY DEF Tracked, Coming

\* The heights that the steps compare are numbers.
LEMMA Confirms ==
  ASSUME NEW base, stored = base, Followed(base), Confirming
  PROVE  /\ Tracked = Coming(base) /\ IsStart(Tracked) /\ Len(Tracked) \in Nat \ {0}
         /\ Tracked \in Seq(Records)
         /\ Confirmed \in Nat /\ target \in Nat /\ current \in Nat /\ next \in Nat
         /\ target <= Confirmed /\ Len(Tracked) <= Confirmed
         /\ tip \in Nat /\ peak \in Nat /\ tip <= peak /\ Depth \in Nat
         /\ Len(batch) \in Nat /\ DOMAIN batch = 1..Len(batch) /\ channel \in Seq(Events)
  <1>1. Tracked = Coming(base)
    BY TrackedIs
  <1>2. tip <= peak /\ target <= Confirmed /\ Len(Tracked) <= Confirmed
    BY DEF Confirming
  <1>3. peak \in Nat /\ Depth \in Nat
    <2>1. peak \in Heights
      BY DEF Confirming
    <2>2. MaxHeight \in Nat /\ Depth \in Nat
      BY Numbers
    <2> QED
      BY <2>1, <2>2 DEF Heights
  <1>4. Confirmed \in Nat
    BY <1>3 DEF Confirmed, MaxOf
  <1> QED
    BY <1>1, <1>2, <1>3, <1>4, Facts

\* An error ends the task and changes nothing else.
LEMMA FailConfirms ==
  ASSUME IInv, NEW why \in {"rpc", "range", "window"}, Fail(why), UNCHANGED <<observerVars, stored>>
  PROVE  IInv'
  <1>1. PICK base : stored = base /\ Followed(base)
    BY DEF IInv
  <1>2. Followed(base)' /\ Coming(base)' = Coming(base)
    BY <1>1, FailKeeps
  <1>3. /\ phase' = "failed" /\ best' = best /\ tip' = tip /\ target' = target
        /\ channel' = channel /\ stored' = base /\ peak' = peak /\ deep' = deep /\ lagged' = lagged
    BY <1>1 DEF Fail, Answered, observerVars
  <1>4. Tracked' = Tracked
    BY <1>1, <1>2, <1>3, TrackedIs, TrackedNext
  <1>5. Confirming'
    BY <1>3, <1>4 DEF IInv, Confirming, Confirmed
  <1> QED
    BY <1>2, <1>3, <1>5 DEF IInv

\* The node moves: the confirmed part of its chain stays, or deep records it.
LEMMA NodeConfirms ==
  ASSUME IInv, ChainStep, UNCHANGED <<followVars, channel, stored>>
  PROVE  IInv'
  <1>1. PICK base : stored = base /\ Followed(base)
    BY DEF IInv
  <1>2. Followed(base)' /\ Coming(base)' = Coming(base)
    BY <1>1, NodeKeeps DEF ChainStep
  <1>3. /\ phase' = phase /\ target' = target /\ current' = current /\ batch' = batch
        /\ channel' = channel /\ stored' = base
    BY <1>1 DEF followVars
  <1>4. Tracked' = Tracked
    BY <1>1, <1>2, <1>3, TrackedIs, TrackedNext
  <1>5. /\ peak' = MaxOf(peak, tip')
        /\ deep' = (deep \/ \E h \in 1..Confirmed : best'[h] # best[h])
        /\ lagged' = (lagged \/ tip' < peak)
    BY DEF ChainStep, Observe
  <1>6. /\ Len(Tracked) \in Nat /\ Confirmed \in Nat /\ target \in Nat /\ next \in Nat
        /\ target <= Confirmed /\ Len(Tracked) <= Confirmed
        /\ tip \in Nat /\ peak \in Nat /\ tip <= peak /\ Depth \in Nat
        /\ Len(batch) \in Nat /\ DOMAIN batch = 1..Len(batch) /\ Tracked = Coming(base)
    BY <1>1, Confirms DEF IInv
  <1>7. tip' \in Nat /\ tip' \in Heights /\ peak \in Heights
    BY <1>2, Numbers DEF Followed, NodeType, IInv, Confirming
  <1>8. peak' \in Heights /\ tip' <= peak' /\ peak <= peak' /\ peak' \in Nat
    BY <1>5, <1>6, <1>7 DEF MaxOf
  <1>9. Confirmed' \in Nat /\ Confirmed <= Confirmed'
    <2>1. Confirmed = MaxOf(peak - Depth, 0) /\ Confirmed' = MaxOf(peak' - Depth, 0)
      BY DEF Confirmed
    <2>2. /\ MaxOf(peak - Depth, 0) \in Nat /\ MaxOf(peak' - Depth, 0) \in Nat
          /\ MaxOf(peak - Depth, 0) <= MaxOf(peak' - Depth, 0)
      BY <1>6, <1>8, Saturated
    <2> QED
      BY <2>1, <2>2
  <1>10. target' <= Confirmed' /\ Len(Tracked') <= Confirmed'
    BY <1>3, <1>4, <1>6, <1>9
  <1>11. ASSUME ~deep'
         PROVE  /\ \A h \in 1..Len(Tracked) : Tracked[h].hash = best'[h]
                /\ phase = "send" => \A i \in DOMAIN batch : batch[i].hash = best'[batch[i].height]
    <2>1. ~deep /\ \A h \in 1..Confirmed : best'[h] = best[h]
      BY <1>5, <1>11
    <2>2. \A h \in 1..Len(Tracked) : h \in 1..Confirmed
      BY <1>6
    <2>3. \A h \in 1..Len(Tracked) : Tracked[h].hash = best'[h]
      BY <2>1, <2>2 DEF IInv, Confirming
    <2>4. ASSUME phase = "send", NEW i \in DOMAIN batch PROVE batch[i].hash = best'[batch[i].height]
      <3>1. PICK c \in Chains : \A k \in DOMAIN batch : batch[k] = CompactBlock(c, Len(Tracked) + k)
        BY <1>1, <1>6, <2>4 DEF Followed, Progress
      <3>2. Len(Tracked) + Len(batch) = next - 1 /\ next <= target + 1
        BY <1>1, <1>6, <2>4 DEF Followed, Progress
      <3>3. batch[i].height = Len(Tracked) + i
        BY <2>4, <3>1 DEF CompactBlock
      <3>4. Len(Tracked) + i \in 1..Confirmed
        BY <1>6, <2>4, <3>2
      <3>5. batch[i].hash = best[batch[i].height]
        BY <2>1, <2>4 DEF IInv, Confirming
      <3> QED
        BY <2>1, <3>3, <3>4, <3>5
    <2> QED
      BY <2>3, <2>4
  <1>12. ~lagged' => ~lagged /\ tip' = peak'
    BY <1>5, <1>6, <1>7 DEF MaxOf
  <1>13. ~deep' /\ ~lagged' =>
           /\ phase # "reorg"
           /\ phase = "overlap" => current <= target
           /\ \A i \in DOMAIN channel : channel[i].type = "NewBlock"
    BY <1>5, <1>12 DEF IInv, Confirming
  <1>14. Confirming'
    BY <1>3, <1>4, <1>8, <1>10, <1>11, <1>12, <1>13 DEF Confirming
  <1> QED
    BY <1>2, <1>3, <1>14 DEF IInv

\* The consumer handles an event: what it will hold in the end does not change.
LEMMA ConsumeConfirms == ASSUME IInv, Consume PROVE IInv'
  <1>1. PICK base : stored = base /\ Followed(base)
    BY DEF IInv
  <1>2. PICK after : after = Apply(base, Head(channel))
    OBVIOUS
  <1>3. /\ channel # <<>> /\ channel' = Tail(channel) /\ UNCHANGED <<nodeVars, followVars>>
        /\ stored' = after /\ peak' = peak /\ deep' = deep /\ lagged' = lagged
    BY <1>1, <1>2 DEF Consume, observerVars
  <1>4. Followed(after)' /\ Coming(after)' = Coming(base)
    BY <1>1, <1>2, <1>3, ConsumeKeeps
  <1>5. Tracked' = Tracked
    BY <1>1, <1>3, <1>4, TrackedIs, TrackedNext
  <1>6. /\ best' = best /\ tip' = tip /\ phase' = phase /\ target' = target /\ current' = current
        /\ batch' = batch
    BY <1>3 DEF nodeVars, followVars
  <1>7. \A i \in DOMAIN channel' : i + 1 \in DOMAIN channel /\ channel'[i] = channel[i + 1]
    <2>1. channel \in Seq(Events)
      BY <1>1 DEF Followed, TaskType
    <2> QED
      BY <1>3, <2>1
  <1>8. Confirming'
    BY <1>3, <1>5, <1>6, <1>7 DEF IInv, Confirming, Confirmed
  <1> QED
    BY <1>3, <1>4, <1>8 DEF IInv

\* get_latest_block: the poll aims at a confirmed height.
LEMMA PollConfirms == ASSUME IInv, Poll, UNCHANGED <<observerVars, stored>> PROVE IInv'
  <1>1. CASE Fail("window")
    BY <1>1, FailConfirms
  <1>2. CASE ~ Fail("window")
    <2>1. PICK base : stored = base /\ Followed(base)
      BY DEF IInv
    <2>2. Followed(base)'
      BY <2>1, PollKeeps
    <2>3. /\ phase = "poll" /\ phase' = "overlap" /\ target' = ConfirmedTip /\ current' = current
          /\ batch' = batch /\ channel' = channel /\ stored' = base /\ best' = best /\ tip' = tip
          /\ peak' = peak /\ deep' = deep /\ lagged' = lagged
      BY <1>2, <2>1 DEF Poll, Answered, observerVars
    <2>4. Tracked' = Tracked
      BY <2>1, <2>3, ComingFrame, TrackedIs, TrackedNext
    <2>5. /\ tip \in Nat /\ peak \in Nat /\ tip <= peak /\ Depth \in Nat
          /\ Len(Tracked) <= Confirmed /\ Tracked = Coming(base)
      BY <2>1, Confirms DEF IInv
    <2>6. /\ ConfirmedTip \in Nat /\ ConfirmedTip <= Confirmed
          /\ tip = peak => ConfirmedTip = Confirmed
      BY <2>5, Saturated DEF ConfirmedTip, Confirmed
    <2>7. current = Len(Tracked)
      BY <2>1, <2>3, <2>5 DEF Followed, Progress
    <2>8. ~deep /\ ~lagged => current <= ConfirmedTip
      BY <2>5, <2>6, <2>7 DEF IInv, Confirming
    <2>9. Confirming'
      BY <2>3, <2>4, <2>6, <2>8 DEF IInv, Confirming, Confirmed
    <2> QED
      BY <2>2, <2>3, <2>9 DEF IInv
  <1> QED
    BY <1>1, <1>2

\* find_fork_point: without a reorg of confirmed blocks the fork is the newest block.
LEMMA ForkConfirms == ASSUME IInv, FindFork, UNCHANGED <<observerVars, stored>> PROVE IInv'
  <1>1. CASE \E why \in {"range", "window"} : Fail(why)
    BY <1>1, FailConfirms
  <1>2. CASE ~ \E why \in {"range", "window"} : Fail(why)
    <2>1. PICK base : stored = base /\ Followed(base)
      BY DEF IInv
    <2>2. /\ Followed(base)'
          /\ current <= target /\ best[current] = Coming(base)[current].hash => phase' # "reorg"
      BY <2>1, ForkKeeps
    <2>3. /\ phase = "overlap" /\ phase' \in {"reorg", "extend"} /\ target' = target
          /\ current' = current
          /\ batch' = batch /\ channel' = channel /\ stored' = base /\ best' = best /\ tip' = tip
          /\ peak' = peak /\ deep' = deep /\ lagged' = lagged
      BY <1>2, <2>1 DEF FindFork, Answered, observerVars
    <2>4. Tracked' = Tracked
      BY <2>1, <2>3, ComingFrame, TrackedIs, TrackedNext
    <2>5. Len(Tracked) \in Nat \ {0} /\ Tracked = Coming(base)
      BY <2>1, Confirms DEF IInv
    <2>6. current = Len(Tracked)
      BY <2>1, <2>3, <2>5 DEF Followed, Progress
    <2>7. ~deep /\ ~lagged => phase' # "reorg"
      <3> SUFFICES ASSUME ~deep, ~lagged PROVE phase' # "reorg"
        OBVIOUS
      <3>1. current <= target /\ \A h \in 1..Len(Tracked) : Tracked[h].hash = best[h]
        BY <2>3 DEF IInv, Confirming
      <3>2. best[current] = Coming(base)[current].hash
        BY <2>5, <2>6, <3>1
      <3> QED
        BY <2>2, <3>1, <3>2
    <2>8. Confirming'
      BY <2>3, <2>4, <2>7 DEF IInv, Confirming, Confirmed
    <2> QED
      BY <2>2, <2>3, <2>8 DEF IInv
  <1> QED
    BY <1>1, <1>2

\* The reorg goes into the channel: only after a confirmed block was taken back, or
\* while a replica lags.
LEMMA ReorgConfirms == ASSUME IInv, SendReorg, UNCHANGED <<observerVars, stored>> PROVE IInv'
  <1>1. PICK base : stored = base /\ Followed(base)
    BY DEF IInv
  <1>2. /\ Followed(base)'
        /\ Len(Coming(base)') = next - 1 /\ next - 1 \in 1..(Len(Coming(base)) - 1)
        /\ \A h \in 1..(next - 1) : Coming(base)'[h] = Coming(base)[h]
    BY <1>1, ReorgKeeps
  <1>3. /\ phase = "reorg" /\ phase' = "extend" /\ target' = target
        /\ batch' = batch /\ stored' = base /\ best' = best /\ tip' = tip
        /\ peak' = peak /\ deep' = deep /\ lagged' = lagged
    BY <1>1 DEF SendReorg, nodeVars, observerVars
  <1>4. Tracked' = Coming(base)'
    BY <1>3, TrackedNext
  <1>5. /\ Tracked = Coming(base) /\ Len(Tracked) \in Nat /\ next \in Nat /\ Confirmed \in Nat
        /\ Len(Tracked) <= Confirmed
    BY <1>1, Confirms DEF IInv
  <1>6. deep \/ lagged
    BY <1>3 DEF IInv, Confirming
  <1> DEFINE fork == next - 1
  <1>7. /\ Len(Tracked') = fork /\ fork \in 1..(Len(Tracked) - 1)
        /\ \A h \in 1..fork : Tracked'[h] = Tracked[h]
    BY <1>2, <1>4, <1>5
  <1> HIDE DEF fork
  <1>8. Len(Tracked') <= Confirmed /\ \A h \in 1..fork : h \in 1..Len(Tracked)
    BY <1>5, <1>7
  <1>9. ~deep => \A h \in 1..Len(Tracked') : Tracked'[h].hash = best[h]
    BY <1>7, <1>8 DEF IInv, Confirming
  <1>10. Confirming'
    BY <1>3, <1>6, <1>8, <1>9 DEF IInv, Confirming, Confirmed
  <1> QED
    BY <1>2, <1>3, <1>10 DEF IInv

\* fetch_validated above the fork: the batch was read from the chain the node serves.
LEMMA FetchConfirms == ASSUME IInv, FetchBatch, UNCHANGED <<observerVars, stored>> PROVE IInv'
  <1>1. CASE Fail("range")
    BY <1>1, FailConfirms
  <1>2. CASE ~ Fail("range")
    <2>1. PICK base : stored = base /\ Followed(base)
      BY DEF IInv
    <2>2. /\ Followed(base)'
          /\ phase' = "send" => \A i \in DOMAIN batch' : batch'[i].hash = best[batch'[i].height]
      BY <2>1, FetchKeeps
    <2>3. /\ phase = "extend" /\ phase' = "send" /\ target' = target /\ current' = current
          /\ channel' = channel /\ stored' = base /\ best' = best /\ tip' = tip
          /\ peak' = peak /\ deep' = deep /\ lagged' = lagged
      BY <1>2, <2>1 DEF FetchBatch, Answered, observerVars
    <2>4. Tracked' = Tracked
      BY <2>1, <2>3, ComingFrame, TrackedIs, TrackedNext
    <2>5. Confirming'
      BY <2>2, <2>3, <2>4 DEF IInv, Confirming, Confirmed
    <2> QED
      BY <2>2, <2>3, <2>5 DEF IInv
  <1> QED
    BY <1>1, <1>2

\* One block of the batch goes into the channel.
LEMMA SendConfirms == ASSUME IInv, SendBlock, UNCHANGED <<observerVars, stored>> PROVE IInv'
  <1> DEFINE n == Len(Tracked) + 1
             e == NewBlock(Head(batch))
  <1>1. PICK base : stored = base /\ Followed(base)
    BY DEF IInv
  <1>2. /\ Tracked = Coming(base) /\ Len(Tracked) \in Nat /\ Confirmed \in Nat /\ target <= Confirmed
        /\ target \in Nat /\ DOMAIN batch = 1..Len(batch) /\ Len(batch) \in Nat
        /\ channel \in Seq(Events)
    BY <1>1, Confirms DEF IInv
  <1>3. /\ Followed(base)'
        /\ Len(Coming(base)') = n /\ n <= target
        /\ \A h \in 1..(n - 1) : Coming(base)'[h] = Coming(base)[h]
        /\ Coming(base)'[n].hash = Head(batch).hash /\ Head(batch).height = n
    BY <1>1, <1>2, SendKeeps
  <1>4. /\ phase = "send" /\ phase' \in {"extend", "send"} /\ target' = target
        /\ batch' = Tail(batch) /\ channel' = Append(channel, e)
        /\ stored' = base /\ best' = best /\ tip' = tip
        /\ peak' = peak /\ deep' = deep /\ lagged' = lagged
    BY <1>1 DEF SendBlock, nodeVars, observerVars
  <1>5. Tracked' = Coming(base)'
    BY <1>4, TrackedNext
  <1>6. batch # <<>> /\ batch \in Seq([height : Heights, hash : Hashes, prev : Hashes \cup {NoHash}])
    BY <1>1, <1>4 DEF Followed, TaskType, Progress
  <1>7. /\ Head(batch) = batch[1] /\ 1 \in DOMAIN batch
        /\ \A i \in DOMAIN Tail(batch) : i + 1 \in DOMAIN batch /\ Tail(batch)[i] = batch[i + 1]
    BY <1>6
  <1>8. n \in Nat /\ n <= Confirmed /\ \A h \in 1..n : h = n \/ h \in 1..(n - 1)
    BY <1>2, <1>3
  <1>9. ASSUME ~deep
        PROVE  /\ \A h \in 1..n : Tracked'[h].hash = best[h]
               /\ \A i \in DOMAIN Tail(batch) : Tail(batch)[i].hash = best[Tail(batch)[i].height]
    <2>1. /\ \A h \in 1..(n - 1) : Tracked[h].hash = best[h]
          /\ \A i \in DOMAIN batch : batch[i].hash = best[batch[i].height]
      BY <1>2, <1>4, <1>9 DEF IInv, Confirming
    <2>2. Tracked'[n].hash = best[n]
      BY <1>3, <1>5, <1>7, <2>1
    <2>3. \A h \in 1..(n - 1) : Tracked'[h].hash = best[h]
      BY <1>2, <1>3, <1>5, <2>1
    <2>4. \A i \in DOMAIN Tail(batch) : Tail(batch)[i].hash = best[Tail(batch)[i].height]
      BY <1>7, <2>1
    <2> HIDE DEF n
    <2> QED
      BY <1>8, <2>2, <2>3, <2>4
  <1>10. ~deep /\ ~lagged => \A i \in DOMAIN Append(channel, e) : Append(channel, e)[i].type = "NewBlock"
    <2>1. e.type = "NewBlock"
      BY DEF NewBlock
    <2> DEFINE longer == Append(channel, e)
    <2> HIDE DEF e
    <2>2. \A i \in DOMAIN longer : longer[i] = e \/ (i \in DOMAIN channel /\ longer[i] = channel[i])
      BY <1>2
    <2> HIDE DEF longer
    <2>3. ~deep /\ ~lagged => \A i \in DOMAIN longer : longer[i].type = "NewBlock"
      BY <2>1, <2>2 DEF IInv, Confirming
    <2> QED
      BY <2>3 DEF longer
  <1> HIDE DEF e
  <1>11. Len(Tracked') = n
    BY <1>3, <1>5
  <1> HIDE DEF n
  <1>12. Confirming'
    BY <1>4, <1>8, <1>9, <1>10, <1>11 DEF IInv, Confirming, Confirmed
  <1> QED
    BY <1>3, <1>4, <1>12 DEF IInv

\* The history is read back: nothing that the observer sees changes.
LEMMA LoadConfirms ==
  ASSUME IInv, LoadHistory(Last(stored).hash), UNCHANGED <<observerVars, stored>>
  PROVE  IInv'
  <1>1. CASE \E why \in {"range", "window"} : Fail(why)
    BY <1>1, FailConfirms
  <1>2. CASE ~ \E why \in {"range", "window"} : Fail(why)
    <2>1. PICK base : stored = base /\ Followed(base)
      BY DEF IInv
    <2>2. Followed(base)'
      <3>1. LoadHistory(Last(base).hash)
        BY <2>1
      <3> QED
        BY <2>1, <3>1, LoadKeeps
    <2>3. /\ phase' = "poll" /\ target' = target /\ current' = current
          /\ batch' = batch /\ channel' = channel /\ stored' = base /\ best' = best /\ tip' = tip
          /\ peak' = peak /\ deep' = deep /\ lagged' = lagged
      BY <1>2, <2>1 DEF LoadHistory, Answered, observerVars
    <2>4. Tracked' = Tracked
      BY <2>1, <2>3, ComingFrame, TrackedIs, TrackedNext
    <2>5. Confirming'
      BY <2>3, <2>4 DEF IInv, Confirming, Confirmed
    <2> QED
      BY <2>2, <2>3, <2>5 DEF IInv
  <1> QED
    BY <1>1, <1>2

\* The poll is over.
LEMMA EndPollConfirms == ASSUME IInv, EndPoll, UNCHANGED <<observerVars, stored>> PROVE IInv'
  <1>1. PICK base : stored = base /\ Followed(base)
    BY DEF IInv
  <1>2. Followed(base)'
    BY <1>1, EndPollKeeps
  <1>3. /\ phase' = "poll" /\ target' = target
        /\ batch' = batch /\ channel' = channel /\ stored' = base /\ best' = best /\ tip' = tip
        /\ peak' = peak /\ deep' = deep /\ lagged' = lagged
    BY <1>1 DEF EndPoll, nodeVars, observerVars
  <1>4. Tracked' = Tracked
    BY <1>1, <1>3, ComingFrame, TrackedIs, TrackedNext
  <1>5. Confirming'
    BY <1>3, <1>4 DEF IInv, Confirming, Confirmed
  <1> QED
    BY <1>2, <1>3, <1>5 DEF IInv

\* The store holds the start of a chain, and nothing was announced yet.
LEMMA InitConfirms == ASSUME Init PROVE IInv
  <1>1. PICK c \in Chains, start \in Heights :
          /\ start <= tip - Depth
          /\ stored = [h \in 1..start |-> [height |-> h, hash |-> c[h]]]
          /\ PipelineInit(start)
          /\ ObserverInit
          /\ deep = \E h \in 1..start : c[h] # best[h]
    BY DEF Init
  <1>2. /\ best \in Chains /\ tip \in Heights /\ phase = "connect" /\ target = 0
        /\ channel = <<>> /\ peak = tip /\ lagged = FALSE /\ stored = Start(c, start)
    BY <1>1 DEF Init, NodeInit, PipelineInit, ObserverInit, Start
  <1>3. NodeType
    BY Numbers DEF Init, NodeInit, NodeType
  <1>4. Followed(Start(c, start)) /\ Coming(Start(c, start)) = Start(c, start)
    BY <1>1, <1>3, InitFollowed
  <1>5. Tracked = Start(c, start)
    BY <1>2, <1>4, TrackedIs
  <1>6. Len(Tracked) = start /\ \A h \in 1..start : Tracked[h].hash = c[h]
    <2>1. start \in Nat /\ start <= MaxHeight
      BY Numbers
    <2>2. /\ Len(Start(c, start)) = start
          /\ \A h \in 1..start : Start(c, start)[h] = [height |-> h, hash |-> c[h]]
      BY <2>1, StartParts
    <2> QED
      BY <1>5, <2>2
  <1>7. Confirmed \in Nat /\ start <= Confirmed
    <2>1. tip \in Nat /\ Depth \in Nat /\ start \in Nat
      BY <1>2, Numbers
    <2>2. start <= tip - Depth /\ peak = tip
      BY <1>1, <1>2
    <2> QED
      BY <2>1, <2>2 DEF Confirmed, MaxOf
  <1>8. Confirming
    <2>1. peak \in Heights /\ tip <= peak
      BY <1>2, Numbers
    <2>2. ~deep => \A h \in 1..start : Tracked[h].hash = best[h]
      BY <1>1, <1>6
    <2> QED
      BY <1>2, <1>6, <1>7, <2>1, <2>2 DEF Confirming
  <1> QED
    BY <1>2, <1>4, <1>8 DEF IInv

\* Nothing changes.
LEMMA StutterConfirms == ASSUME IInv, UNCHANGED vars PROVE IInv'
  <1>1. PICK base : stored = base /\ Followed(base)
    BY DEF IInv
  <1>2. /\ phase' = phase /\ cause' = cause /\ current' = current /\ target' = target
        /\ history' = history /\ next' = next /\ expectedPrev' = expectedPrev /\ batch' = batch
        /\ channel' = channel /\ stored' = base
        /\ best' = best /\ tip' = tip /\ reorgs' = reorgs /\ served' = served
        /\ peak' = peak /\ deep' = deep /\ lagged' = lagged
    BY <1>1 DEF vars, pipelineVars, nodeVars, followVars, observerVars
  <1>3. Coming(base)' = Coming(base) /\ Queued(base)'
    BY <1>1, <1>2, ComingFrame DEF Followed
  <1>4. NodeType' /\ TaskType'
    BY <1>1, <1>2 DEF Followed, NodeType, TaskType
  <1>5. Mirrors(base)' /\ Progress(base)'
    BY <1>1, <1>2, <1>3 DEF Followed, Mirrors, Progress
  <1>6. Tracked' = Tracked
    BY <1>1, <1>2, <1>3, TrackedIs, TrackedNext
  <1>7. Confirming'
    BY <1>2, <1>6 DEF IInv, Confirming, Confirmed
  <1> QED
    BY <1>2, <1>3, <1>4, <1>5, <1>7 DEF IInv, Followed

\* Every step keeps the invariant.
LEMMA NextKeeps == IInv /\ [Next]_vars => IInv'
  <1> SUFFICES ASSUME IInv, [Next]_vars PROVE IInv'
    OBVIOUS
  <1>1. CASE ChainStep /\ UNCHANGED <<followVars, channel, stored>>
    BY <1>1, NodeConfirms
  <1>2. CASE (Producer \/ RpcError) /\ UNCHANGED <<observerVars, stored>>
    <2>1. CASE LoadHistory(Last(stored).hash)
      BY <1>2, <2>1, LoadConfirms
    <2>2. CASE Poll
      BY <1>2, <2>2, PollConfirms
    <2>3. CASE FindFork
      BY <1>2, <2>3, ForkConfirms
    <2>4. CASE SendReorg
      BY <1>2, <2>4, ReorgConfirms
    <2>5. CASE FetchBatch
      BY <1>2, <2>5, FetchConfirms
    <2>6. CASE SendBlock
      BY <1>2, <2>6, SendConfirms
    <2>7. CASE EndPoll
      BY <1>2, <2>7, EndPollConfirms
    <2>8. CASE RpcError
      <3>1. Fail("rpc")
        BY <2>8 DEF RpcError
      <3> QED
        BY <1>2, <3>1, FailConfirms
    <2> QED
      BY <1>2, <2>1, <2>2, <2>3, <2>4, <2>5, <2>6, <2>7, <2>8 DEF Producer
  <1>3. CASE Consume
    BY <1>3, ConsumeConfirms
  <1>4. CASE UNCHANGED vars
    BY <1>4, StutterConfirms
  <1> QED
    BY <1>1, <1>2, <1>3, <1>4 DEF Next

-----------------------------------------------------------------------------
(* What holds in every state *)

\* The inductive invariant of the follower and its consumer.
THEOREM InvariantHolds == Spec => []IInv
  <1>1. Init => IInv
    BY InitConfirms
  <1>2. IInv /\ [Next]_vars => IInv'
    BY NextKeeps
  <1> QED
    BY <1>1, <1>2, PTL DEF Spec

\* Every variable of follow_blocks and of its consumer holds a value of its type.
THEOREM TypeCorrect == Spec => []TypeOK
  <1>1. IInv => TypeOK
    <2> SUFFICES ASSUME IInv PROVE TypeOK
      OBVIOUS
    <2>1. PICK base : stored = base /\ Followed(base)
      BY DEF IInv
    <2>2. stored \in Seq(Records)
      BY <2>1, BaseStart, IsStartParts
    <2> QED
      BY <2>1, <2>2 DEF Followed, NodeType, TaskType, TypeOK
  <1> QED
    BY <1>1, InvariantHolds, PTL

\* The history is the newest part of what the consumer will hold: the fork point that
\* follow_blocks finds in the one is a fork point of the other.
THEOREM HistoryMirrorsConsumer == Spec => []HistoryMatchesConsumer
  <1>1. IInv => HistoryMatchesConsumer
    <2> SUFFICES ASSUME IInv PROVE HistoryMatchesConsumer
      OBVIOUS
    <2>1. PICK base : stored = base /\ Followed(base)
      BY DEF IInv
    <2>2. Tracked = Coming(base)
      BY <2>1, TrackedIs
    <2> QED
      BY <2>1, <2>2 DEF Followed, Mirrors, Mirror, HistoryMatchesConsumer
  <1> QED
    BY <1>1, InvariantHolds, PTL

\* What reaches the consumer are confirmed blocks of the network's chain, unless the
\* network takes a confirmed block back; and without a lagging replica either, no reorg
\* is ever announced.
THEOREM OnlyConfirmedBlocks == Spec => []OnlyConfirmed
  <1>1. IInv => OnlyConfirmed
    <2> SUFFICES ASSUME IInv PROVE OnlyConfirmed
      OBVIOUS
    <2> DEFINE hashes == [h \in DOMAIN Tracked |-> Tracked[h].hash]
    <2>1. DOMAIN hashes = 1..Len(Tracked) /\ Len(Tracked) \in Nat /\ Confirmed \in Nat
          /\ Len(Tracked) <= Confirmed
      <3>1. PICK base : stored = base /\ Followed(base)
        BY DEF IInv
      <3>2. Tracked \in Seq(Records) /\ Len(Tracked) \in Nat /\ Confirmed \in Nat
            /\ Len(Tracked) <= Confirmed
        BY <3>1, Confirms DEF IInv
      <3> QED
        BY <3>2
    <2>2. \A h \in DOMAIN hashes : hashes[h] = Tracked[h].hash
      OBVIOUS
    <2> HIDE DEF hashes
    <2>3. \A h \in DOMAIN hashes : h <= Confirmed
      BY <2>1
    <2>4. ~deep => \A h \in DOMAIN hashes : hashes[h] = best[h]
      BY <2>1, <2>2 DEF IInv, Confirming
    <2>5. ConfirmedBlocks(hashes)
      BY <2>3, <2>4 DEF ConfirmedBlocks
    <2> QED
      BY <2>5 DEF IInv, Confirming, OnlyConfirmed, hashes
  <1> QED
    BY <1>1, InvariantHolds, PTL

-----------------------------------------------------------------------------
(* One reorganisation ends the task only beyond the window *)

\* The node's chain holds the first n blocks that the consumer will hold.
Agree(n) == \A h \in 1..n : Tracked[h].hash = best[h]

\* It holds the blocks that wait to be sent.
AgreeBatch == \A i \in DOMAIN batch : batch[i].hash = best[batch[i].height]

\* The history reaches back as far as the window below the height n, or to block 1.
Covers(n) == Len(history) >= Len(Tracked) \/ Len(Tracked) - Len(history) + Window <= n

\* A node that never left its chain agrees with every block that was announced, and the
\* history never lost a block to a reorg.
Undisturbed ==
  reorgs = 0 /\ phase # "failed" =>
    /\ Len(Tracked) <= ConfirmedTip
    /\ phase # "connect" => phase # "reorg" /\ Agree(Len(Tracked)) /\ Covers(Len(Tracked))
    /\ phase \in {"overlap", "extend", "send"} => target <= ConfirmedTip
    /\ phase = "overlap" => Len(Tracked) <= target
    /\ phase = "send" => AgreeBatch

\* After one reorganisation either the history still covers the window, or the rollback
\* that shortened it followed the node to the chain that it now stays on.
Surviving ==
  LET n == Len(Tracked)
      Settled(goal) == target <= ConfirmedTip /\ Agree(goal)
  IN  reorgs <= 1 =>
        /\ phase = "poll" => Covers(n) \/ (n <= ConfirmedTip /\ Agree(n))
        /\ phase = "overlap" =>
             \/ Covers(n) /\ (n <= target \/ target <= ConfirmedTip)
             \/ n <= target /\ Settled(n)
        /\ phase \in {"reorg", "extend"} => Covers(target) \/ Settled(next - 1)
        /\ phase = "send" => Covers(target) \/ (Settled(n) /\ AgreeBatch)

\* What follows the node through one reorganisation.
Survival == Undisturbed /\ Surviving

\* The heights that the two compare are numbers.
LEMMA SurvivalFacts ==
  ASSUME IInv
  PROVE  /\ Len(Tracked) \in Nat \ {0} /\ Len(history) \in Nat
         /\ Len(history) <= Len(Tracked) /\ Len(history) <= Window
         /\ Window \in Nat /\ target \in Nat /\ next \in Nat /\ ConfirmedTip \in Nat
         /\ best \in Chains /\ reorgs \in Nat /\ IsStart(Tracked)
         /\ phase = "extend" => Len(Tracked) = next - 1 /\ next <= target + 1
         /\ phase = "send" => Len(Tracked) < next /\ next <= target + 1
         /\ phase = "reorg" => next - 1 \in 1..Len(Tracked) /\ next <= target + 1
         /\ phase \in {"poll", "overlap"} =>
              /\ current = Len(Tracked) /\ history # <<>>
              /\ Oldest(history) = Len(Tracked) - Len(history) + 1
  <1>1. PICK base : stored = base /\ Followed(base)
    BY DEF IInv
  <1>2. Tracked = Coming(base) /\ Len(Tracked) \in Nat \ {0} /\ tip \in Nat /\ Depth \in Nat
    BY <1>1, Confirms DEF IInv
  <1>3. /\ Len(history) \in Nat /\ Len(history) <= Len(Tracked) /\ Len(history) <= Window
        /\ target \in Nat /\ next \in Nat /\ best \in Chains /\ IsStart(Tracked)
        /\ Len(batch) \in Nat
    BY <1>1, <1>2, Facts
  <1>4. ConfirmedTip \in Nat
    BY <1>2 DEF ConfirmedTip, MaxOf
  <1>5. Window \in Nat /\ reorgs \in Nat
    BY <1>1, Numbers DEF Followed, NodeType
  <1>6. phase = "extend" => Len(Tracked) = next - 1 /\ next <= target + 1
    BY <1>1, <1>2 DEF Followed, Progress
  <1>7. phase = "send" => Len(Tracked) < next /\ next <= target + 1
    BY <1>1, <1>2, <1>3 DEF Followed, Progress
  <1>8. phase = "reorg" => next - 1 \in 1..Len(Tracked) /\ next <= target + 1
    <2>1. phase = "reorg" =>
            /\ next - 1 \in (Len(Tracked) - Len(history) + 1)..(Len(Tracked) - 1)
            /\ next <= target + 1
      BY <1>1, <1>2 DEF Followed, Progress
    <2> QED
      BY <1>2, <1>3, <2>1
  <1>9. phase \in {"poll", "overlap"} =>
          /\ current = Len(Tracked) /\ history # <<>>
          /\ Oldest(history) = Len(Tracked) - Len(history) + 1
    BY <1>1, <1>2, OldestMirror DEF Followed, Mirrors, Progress
  <1> QED
    BY <1>2, <1>3, <1>4, <1>5, <1>6, <1>7, <1>8, <1>9

\* What the survival of the task depends on, when all of it stays as it is.
LEMMA SurvivalFrame ==
  ASSUME Survival, Tracked' = Tracked,
         UNCHANGED <<best, tip, reorgs, phase, target, history, next, batch>>
  PROVE  Survival'
  BY DEF Survival, Undisturbed, Surviving, Agree, AgreeBatch, Covers, ConfirmedTip

\* An error ends the task.
LEMMA FailSurvives == ASSUME NEW why, Fail(why) PROVE Survival'
  BY DEF Fail, Survival, Undisturbed, Surviving

\* The store was synced to a confirmed height.
LEMMA InitSurvives == ASSUME Init PROVE Survival
  <1>1. PICK c \in Chains, start \in Heights :
          /\ start <= tip - Depth
          /\ stored = [h \in 1..start |-> [height |-> h, hash |-> c[h]]]
          /\ PipelineInit(start)
    BY DEF Init
  <1>2. NodeType
    BY Numbers DEF Init, NodeInit, NodeType
  <1>3. Followed(Start(c, start)) /\ Coming(Start(c, start)) = Start(c, start)
    BY <1>1, <1>2, InitFollowed
  <1>4. Tracked = Start(c, start)
    BY <1>1, <1>3, TrackedIs DEF Start
  <1>5. start \in Nat /\ start <= MaxHeight /\ tip \in Nat /\ Depth \in Nat
    BY <1>2, Numbers DEF NodeType
  <1>6. Len(Tracked) = start
    BY <1>4, <1>5, StartParts
  <1>7. Len(Tracked) <= ConfirmedTip
    BY <1>1, <1>5, <1>6 DEF ConfirmedTip, MaxOf
  <1> QED
    BY <1>1, <1>7 DEF PipelineInit, Survival, Undisturbed, Surviving

\* The node moves: its first reorganisation finds the history covering the window.
LEMMA NodeSurvives ==
  ASSUME IInv, Survival, ChainStep, UNCHANGED <<followVars, channel, stored>>
  PROVE  Survival'
  <1>1. /\ phase' = phase /\ target' = target /\ history' = history /\ next' = next
        /\ batch' = batch /\ stored' = stored
    BY DEF followVars
  <1>2. Tracked' = Tracked
    <2>1. PICK base : stored = base /\ Followed(base)
      BY DEF IInv
    <2>2. Coming(base)' = Coming(base)
      BY <2>1, NodeKeeps DEF ChainStep
    <2> QED
      BY <1>1, <2>1, <2>2, TrackedIs, TrackedNext
  <1>3. /\ Len(Tracked) \in Nat /\ Len(history) \in Nat /\ Window \in Nat /\ target \in Nat
        /\ next \in Nat /\ ConfirmedTip \in Nat /\ reorgs \in Nat
        /\ phase = "extend" => Len(Tracked) = next - 1 /\ next <= target + 1
        /\ phase = "send" => Len(Tracked) < next /\ next <= target + 1
    BY SurvivalFacts
  <1>4. CASE Mine
    <2>1. tip' = tip + 1 /\ best' = best /\ reorgs' = reorgs
      BY <1>4 DEF Mine
    <2>2. ConfirmedTip' \in Nat /\ ConfirmedTip <= ConfirmedTip'
      <3>1. tip \in Nat /\ Depth \in Nat
        BY Confirms DEF IInv
      <3> QED
        BY <2>1, <3>1 DEF ConfirmedTip, MaxOf
    <2>3. \A n \in Nat : n <= ConfirmedTip => n <= ConfirmedTip'
      BY <1>3, <2>2
    <2>4. Agree(Len(Tracked))' = Agree(Len(Tracked)) /\ Agree(next - 1)' = Agree(next - 1)
          /\ AgreeBatch' = AgreeBatch
          /\ Covers(Len(Tracked))' = Covers(Len(Tracked)) /\ Covers(target)' = Covers(target)
      BY <1>1, <1>2, <2>1 DEF Agree, AgreeBatch, Covers
    <2>5. Undisturbed'
      BY <1>1, <1>2, <1>3, <2>1, <2>3, <2>4 DEF Survival, Undisturbed
    <2>6. Surviving'
      BY <1>1, <1>2, <1>3, <2>1, <2>3, <2>4 DEF Survival, Surviving
    <2> QED
      BY <2>5, <2>6 DEF Survival
  <1>5. CASE Reorganise
    <2>1. reorgs' = reorgs + 1
      BY <1>5 DEF Reorganise
    <2>2. Undisturbed'
      BY <1>3, <2>1 DEF Undisturbed
    <2>3. ASSUME reorgs = 0
          PROVE  /\ phase = "poll" => Covers(Len(Tracked))
                 /\ phase = "overlap" => Covers(Len(Tracked)) /\ Len(Tracked) <= target
                 /\ phase # "reorg"
                 /\ phase \in {"extend", "send"} => Covers(target)
      <3>1. phase \notin {"failed", "connect"} => Covers(Len(Tracked)) /\ phase # "reorg"
        BY <2>3 DEF Survival, Undisturbed
      <3>2. phase \in {"extend", "send"} => Len(Tracked) <= target
        BY <1>3
      <3>3. Covers(Len(Tracked)) /\ Len(Tracked) <= target => Covers(target)
        BY <1>3 DEF Covers
      <3>4. phase = "overlap" => Len(Tracked) <= target
        BY <2>3 DEF Survival, Undisturbed
      <3> QED
        BY <3>1, <3>2, <3>3, <3>4
    <2>4. Covers(Len(Tracked))' = Covers(Len(Tracked)) /\ Covers(target)' = Covers(target)
      BY <1>1, <1>2 DEF Covers
    <2>5. reorgs' <= 1 => reorgs = 0
      BY <1>3, <2>1
    <2>6. Surviving'
      BY <1>1, <1>2, <2>3, <2>4, <2>5 DEF Surviving
    <2> QED
      BY <2>2, <2>6 DEF Survival
  <1> QED
    BY <1>4, <1>5 DEF ChainStep, NodeStep

\* The consumer handles an event: what it will hold in the end does not change.
LEMMA ConsumeSurvives == ASSUME IInv, Survival, Consume PROVE Survival'
  <1>1. PICK base : stored = base /\ Followed(base)
    BY DEF IInv
  <1>2. PICK after : after = Apply(base, Head(channel))
    OBVIOUS
  <1>3. /\ channel # <<>> /\ channel' = Tail(channel) /\ UNCHANGED <<nodeVars, followVars>>
        /\ stored' = after
    BY <1>1, <1>2 DEF Consume
  <1>4. Coming(after)' = Coming(base)
    BY <1>1, <1>2, <1>3, ConsumeKeeps
  <1>5. Tracked' = Tracked
    BY <1>1, <1>3, <1>4, TrackedIs, TrackedNext
  <1>6. UNCHANGED <<best, tip, reorgs, phase, target, history, next, batch>>
    BY <1>3 DEF nodeVars, followVars
  <1> QED
    BY <1>5, <1>6, SurvivalFrame

\* The channel is as it was: so is what the consumer will hold.
LEMMA TrackedFrame == ASSUME IInv, channel' = channel, stored' = stored PROVE Tracked' = Tracked
  BY DEF Tracked

\* get_latest_block: the poll aims at the confirmed tip.
LEMMA PollSurvives == ASSUME IInv, Survival, Poll, UNCHANGED stored PROVE Survival'
  <1>1. CASE Fail("window")
    BY <1>1, FailSurvives
  <1>2. CASE ~ Fail("window")
    <2>1. /\ phase = "poll" /\ phase' = "overlap" /\ target' = ConfirmedTip /\ history' = history
          /\ channel' = channel /\ best' = best /\ tip' = tip /\ reorgs' = reorgs
      BY <1>2 DEF Poll, Answered
    <2>2. Tracked' = Tracked
      BY <2>1, TrackedFrame
    <2>3. ConfirmedTip' = ConfirmedTip /\ Agree(Len(Tracked))' = Agree(Len(Tracked))
          /\ Covers(Len(Tracked))' = Covers(Len(Tracked))
      BY <2>1, <2>2 DEF ConfirmedTip, Agree, Covers
    <2>4. Len(Tracked) \in Nat /\ ConfirmedTip \in Nat
      BY SurvivalFacts
    <2>5. Undisturbed'
      BY <2>1, <2>2, <2>3, <2>4 DEF Survival, Undisturbed
    <2>6. Surviving'
      BY <2>1, <2>2, <2>3, <2>4 DEF Survival, Surviving
    <2> QED
      BY <2>5, <2>6 DEF Survival
  <1> QED
    BY <1>1, <1>2

\* find_fork_point: the node's chain holds the fork, and so every block below it.
LEMMA ForkSurvives == ASSUME IInv, Survival, FindFork, UNCHANGED stored PROVE Survival'
  <1>1. CASE \E why \in {"range", "window"} : Fail(why)
    BY <1>1, FailSurvives
  <1>2. CASE ~ \E why \in {"range", "window"} : Fail(why)
    <2>1. PICK base : stored = base /\ Followed(base)
      BY DEF IInv
    <2>2. /\ phase = "overlap" /\ phase' \in {"reorg", "extend"} /\ target' = target
          /\ current' = current /\ history' = history
          /\ channel' = channel /\ best' = best /\ tip' = tip /\ reorgs' = reorgs
          /\ stored' = base
      BY <1>2, <2>1 DEF FindFork, Answered
    <2>3. Tracked' = Tracked /\ Tracked = Coming(base) /\ Coming(base)' = Coming(base)
      BY <2>1, <2>2, TrackedFrame, TrackedIs, ComingFrame
    <2>4. /\ Followed(base)'
          /\ current <= target /\ best[current] = Tracked[current].hash => phase' # "reorg"
          /\ best[next' - 1] = Tracked[next' - 1].hash
      BY <2>1, <2>2, <2>3, ForkKeeps
    <2>5. /\ Len(Tracked) \in Nat \ {0} /\ Len(history) \in Nat /\ Len(history) <= Len(Tracked)
          /\ target \in Nat /\ ConfirmedTip \in Nat /\ Window \in Nat
          /\ IsStart(Tracked) /\ best \in Chains /\ current = Len(Tracked)
      BY <2>2, SurvivalFacts
    <2>6. next' \in Nat /\ next' - 1 \in 1..Len(Tracked)
      <3>1. next' \in Nat
        BY <2>4, Numbers DEF Followed, TaskType
      <3>2. /\ phase' = "extend" => Len(Tracked) = next' - 1
            /\ phase' = "reorg" => next' - 1 \in (Len(Tracked) - Len(history) + 1)..(Len(Tracked) - 1)
        BY <2>2, <2>3, <2>4 DEF Followed, Progress
      <3>3. (Len(Tracked) - Len(history) + 1)..(Len(Tracked) - 1) \subseteq 1..Len(Tracked)
        BY <2>5
      <3>4. Len(Tracked) \in 1..Len(Tracked)
        BY <2>5
      <3> QED
        BY <2>2, <3>1, <3>2, <3>3, <3>4
    <2> DEFINE fork == next' - 1
    <2>7. \A h \in 1..fork : Tracked[h].hash = best[h]
      <3>1. PICK c \in Chains : \A h \in 1..Len(Tracked) : Tracked[h].hash = c[h]
        BY <2>5, IsStartParts
      <3>2. fork \in 1..Len(Tracked) /\ best[fork] = c[fork]
        BY <2>4, <2>6, <3>1
      <3>3. fork \in Heights /\ fork \in Nat
        <4>1. Len(Tracked) \in Heights
          BY <2>5, IsStartParts
        <4> QED
          BY <2>5, <3>2, <4>1, Numbers
      <3> HIDE DEF fork
      <3>4. \A h \in 1..fork : best[h] = c[h]
        BY <2>5, <3>2, <3>3, HashesAgree
      <3>5. \A h \in 1..fork : h \in 1..Len(Tracked)
        BY <2>5, <3>2, <3>3
      <3> QED
        BY <3>1, <3>4, <3>5
    <2>8. Agree(next - 1)' /\ ConfirmedTip' = ConfirmedTip
      BY <2>2, <2>3, <2>7 DEF Agree, ConfirmedTip
    <2>9. /\ Agree(Len(Tracked))' = Agree(Len(Tracked)) /\ Covers(Len(Tracked))' = Covers(Len(Tracked))
          /\ Covers(target)' = Covers(target)
      BY <2>2, <2>3 DEF Agree, Covers
    <2>10. Covers(Len(Tracked)) /\ Len(Tracked) <= target => Covers(target)
      BY <2>5 DEF Covers
    <2>11. reorgs = 0 => phase' # "reorg"
      <3> SUFFICES ASSUME reorgs = 0 PROVE phase' # "reorg"
        OBVIOUS
      <3>1. Agree(Len(Tracked)) /\ Len(Tracked) <= target
        BY <2>2 DEF Survival, Undisturbed
      <3>2. best[current] = Tracked[current].hash
        BY <2>5, <3>1 DEF Agree
      <3> QED
        BY <2>4, <2>5, <3>1, <3>2
    <2>12. Undisturbed'
      BY <2>2, <2>3, <2>8, <2>9, <2>11 DEF Survival, Undisturbed
    <2>13. Surviving'
      BY <2>2, <2>3, <2>8, <2>9, <2>10 DEF Survival, Surviving
    <2> QED
      BY <2>12, <2>13 DEF Survival
  <1> QED
    BY <1>1, <1>2

\* The rollback shortens the history and the tracked blocks alike.
LEMMA ReorgSurvives == ASSUME IInv, Survival, SendReorg, UNCHANGED stored PROVE Survival'
  <1>1. PICK base : stored = base /\ Followed(base)
    BY DEF IInv
  <1>2. /\ phase = "reorg" /\ phase' = "extend" /\ target' = target /\ next' = next
        /\ history' = PopHistory(history, next - 1)
        /\ best' = best /\ tip' = tip /\ reorgs' = reorgs /\ stored' = base
    BY <1>1 DEF SendReorg, nodeVars
  <1>3. /\ Len(Coming(base)') = next - 1
        /\ \A h \in 1..(next - 1) : Coming(base)'[h] = Coming(base)[h]
    BY <1>1, ReorgKeeps
  <1>4. Tracked = Coming(base) /\ Tracked' = Coming(base)'
    BY <1>1, <1>2, TrackedIs, TrackedNext
  <1>5. /\ Len(Tracked) \in Nat \ {0} /\ Len(history) \in Nat /\ Len(history) <= Len(Tracked)
        /\ Window \in Nat /\ target \in Nat /\ next \in Nat
        /\ IsStart(Tracked)
    BY SurvivalFacts
  <1> DEFINE fork == next - 1
  <1>6. fork \in (Len(Tracked) - Len(history) + 1)..(Len(Tracked) - 1) /\ Mirror(history, Tracked)
    BY <1>1, <1>2, <1>4 DEF Followed, Mirrors, Progress
  <1>7. Len(history') = fork - (Len(Tracked) - Len(history))
    <2> DEFINE blocks == Tracked
    <2>1. /\ IsStart(blocks) /\ Mirror(history, blocks) /\ Len(history) \in Nat
          /\ fork \in (Len(blocks) - Len(history) + 1)..Len(blocks)
      BY <1>5, <1>6
    <2> HIDE DEF blocks, fork
    <2>2. Len(PopHistory(history, fork)) = fork - (Len(blocks) - Len(history))
      BY <2>1, MirrorPop
    <2> QED
      BY <1>2, <2>2 DEF blocks, fork
  <1>8. Covers(target)' = Covers(target)
    <2>1. /\ Len(Tracked') = fork /\ fork \in Nat
          /\ Len(history') >= Len(Tracked') <=> Len(history) >= Len(Tracked)
          /\ Len(Tracked') - Len(history') = Len(Tracked) - Len(history)
      BY <1>3, <1>4, <1>5, <1>6, <1>7
    <2> QED
      BY <1>2, <2>1 DEF Covers
  <1>9. Agree(next - 1) => Agree(next - 1)'
    BY <1>2, <1>3, <1>4 DEF Agree
  <1>10. ConfirmedTip' = ConfirmedTip
    BY <1>2 DEF ConfirmedTip
  <1>11. reorgs # 0
    BY <1>2 DEF Survival, Undisturbed
  <1>12. Undisturbed'
    BY <1>2, <1>11 DEF Undisturbed
  <1>13. Surviving'
    BY <1>2, <1>8, <1>9, <1>10 DEF Survival, Surviving
  <1> QED
    BY <1>12, <1>13 DEF Survival

\* fetch_validated: the batch was read from the chain the node serves.
LEMMA FetchSurvives == ASSUME IInv, Survival, FetchBatch, UNCHANGED stored PROVE Survival'
  <1>1. CASE Fail("range")
    BY <1>1, FailSurvives
  <1>2. CASE ~ Fail("range")
    <2>1. PICK base : stored = base /\ Followed(base)
      BY DEF IInv
    <2>2. /\ phase = "extend" /\ phase' = "send" /\ target' = target /\ history' = history
          /\ channel' = channel /\ best' = best /\ tip' = tip /\ reorgs' = reorgs
      BY <1>2 DEF FetchBatch, Answered
    <2>3. Tracked' = Tracked
      BY <2>2, TrackedFrame
    <2>4. AgreeBatch'
      <3>1. \A i \in DOMAIN batch' : batch'[i].hash = best[batch'[i].height]
        BY <2>1, <2>2, FetchKeeps
      <3> QED
        BY <2>2, <3>1 DEF AgreeBatch
    <2>5. /\ ConfirmedTip' = ConfirmedTip /\ Agree(Len(Tracked))' = Agree(Len(Tracked))
          /\ Covers(Len(Tracked))' = Covers(Len(Tracked)) /\ Covers(target)' = Covers(target)
      BY <2>2, <2>3 DEF ConfirmedTip, Agree, Covers
    <2>6. next - 1 = Len(Tracked)
      BY <2>2, SurvivalFacts
    <2>7. Undisturbed'
      BY <2>2, <2>3, <2>4, <2>5 DEF Survival, Undisturbed
    <2>8. Surviving'
      BY <2>2, <2>3, <2>4, <2>5, <2>6 DEF Survival, Surviving
    <2> QED
      BY <2>7, <2>8 DEF Survival
  <1> QED
    BY <1>1, <1>2

\* push_history grows the history until it fills the window.
LEMMA PushLength ==
  ASSUME NEW b, [height |-> b.height, hash |-> b.hash] \in Records,
         history \in Seq(Records), Len(history) <= Window
  PROVE  Len(PushHistory(history, b)) =
           IF Len(history) < Window THEN Len(history) + 1 ELSE Window
  <1> DEFINE record == [height |-> b.height, hash |-> b.hash]
             longer == Append(history, record)
  <1>1. Window \in Nat \ {0} /\ Len(history) \in Nat
    BY Numbers
  <1>2. longer \in Seq(Records) /\ Len(longer) = Len(history) + 1
    <2>1. record \in Records
      OBVIOUS
    <2> HIDE DEF record
    <2> QED
      BY <1>1, <2>1
  <1>3. PushHistory(history, b) = IF Len(longer) > Window THEN Tail(longer) ELSE longer
    BY DEF PushHistory
  <1> HIDE DEF longer
  <1>4. Len(Tail(longer)) = Len(longer) - 1
    BY <1>1, <1>2
  <1> QED
    BY <1>1, <1>2, <1>3, <1>4

\* One block of the batch goes into the channel, and into the history.
LEMMA SendSurvives == ASSUME IInv, Survival, SendBlock, UNCHANGED stored PROVE Survival'
  <1> DEFINE n == Len(Tracked) + 1
             b == Head(batch)
  <1>1. PICK base : stored = base /\ Followed(base)
    BY DEF IInv
  <1>2. /\ phase = "send" /\ phase' \in {"extend", "send"} /\ target' = target /\ next' = next
        /\ history' = PushHistory(history, b) /\ batch' = Tail(batch)
        /\ best' = best /\ tip' = tip /\ reorgs' = reorgs /\ stored' = base
    BY <1>1 DEF SendBlock, nodeVars
  <1>3. Tracked = Coming(base) /\ Tracked' = Coming(base)'
    BY <1>1, <1>2, TrackedIs, TrackedNext
  <1>4. /\ Followed(base)'
        /\ Len(Tracked') = n /\ n <= target
        /\ \A h \in 1..(n - 1) : Tracked'[h] = Tracked[h]
        /\ Tracked'[n].hash = b.hash /\ b.height = n
    BY <1>1, <1>3, SendKeeps
  <1>5. /\ Len(Tracked) \in Nat \ {0} /\ Len(history) \in Nat /\ Len(history) <= Window
        /\ Len(history) <= Len(Tracked) /\ Window \in Nat /\ target \in Nat /\ next \in Nat
        /\ ConfirmedTip \in Nat
    BY SurvivalFacts
  <1>6. /\ batch # <<>> /\ history \in Seq(Records)
        /\ batch \in Seq([height : Heights, hash : Hashes, prev : Hashes \cup {NoHash}])
    BY <1>1, <1>2 DEF Followed, TaskType, Progress
  <1>7. /\ b = batch[1] /\ 1 \in DOMAIN batch /\ b \in [height : Heights, hash : Hashes, prev : Hashes \cup {NoHash}]
        /\ \A i \in DOMAIN Tail(batch) : i + 1 \in DOMAIN batch /\ Tail(batch)[i] = batch[i + 1]
    <2>1. b = batch[1] /\ 1 \in DOMAIN batch
      BY <1>6
    <2>2. b \in [height : Heights, hash : Hashes, prev : Hashes \cup {NoHash}]
      <3> DEFINE BlockType == [height : Heights, hash : Hashes, prev : Hashes \cup {NoHash}]
      <3>1. batch \in Seq(BlockType)
        BY <1>6
      <3> HIDE DEF b, BlockType
      <3>2. batch[1] \in BlockType
        BY <2>1, <3>1
      <3> QED
        BY <2>1, <3>2 DEF BlockType
    <2>3. \A i \in DOMAIN Tail(batch) : i + 1 \in DOMAIN batch /\ Tail(batch)[i] = batch[i + 1]
      BY <1>6
    <2> QED
      BY <2>1, <2>2, <2>3
  <1>8. Len(history') = IF Len(history) < Window THEN Len(history) + 1 ELSE Window
    <2>1. b.height \in Heights /\ b.hash \in Hashes
      BY <1>7
    <2> HIDE DEF b
    <2>2. [height |-> b.height, hash |-> b.hash] \in Records
      BY <2>1 DEF Records
    <2> QED
      BY <1>2, <1>5, <1>6, <2>2, PushLength
  <1>9. ASSUME AgreeBatch PROVE AgreeBatch' /\ (Agree(Len(Tracked)) => Agree(Len(Tracked))')
    <2>1. AgreeBatch'
      BY <1>2, <1>7, <1>9 DEF AgreeBatch
    <2>2. b.hash = best[n]
      BY <1>4, <1>7, <1>9 DEF AgreeBatch
    <2>3. ASSUME Agree(Len(Tracked)), NEW h \in 1..n PROVE Tracked'[h].hash = best[h]
      <3>1. h = n \/ h \in 1..(n - 1)
        BY <1>5
      <3>2. n - 1 = Len(Tracked)
        BY <1>5
      <3> QED
        BY <1>4, <2>2, <2>3, <3>1, <3>2 DEF Agree
    <2> QED
      BY <1>2, <1>4, <2>1, <2>3 DEF Agree
  <1> HIDE DEF b
  <1>10. Covers(target) => Covers(target)'
    BY <1>2, <1>4, <1>5, <1>8 DEF Covers
  <1>11. Covers(Len(Tracked)) => Covers(Len(Tracked))'
    BY <1>4, <1>5, <1>8 DEF Covers
  <1>12. ConfirmedTip' = ConfirmedTip
    BY <1>2 DEF ConfirmedTip
  <1>13. phase' = "extend" => Len(Tracked') = next' - 1
    BY <1>2, <1>3, <1>4 DEF Followed, Progress
  <1>14. n \in Nat
    BY <1>5
  <1> HIDE DEF n
  <1>15. target <= ConfirmedTip => Len(Tracked') <= ConfirmedTip
    BY <1>4, <1>5, <1>14
  <1>16. Undisturbed'
    BY <1>2, <1>9, <1>11, <1>12, <1>15 DEF Survival, Undisturbed
  <1>17. Surviving'
    <2> SUFFICES ASSUME reorgs <= 1
                 PROVE  \/ Covers(target)'
                        \/ target <= ConfirmedTip /\ Agree(Len(Tracked))' /\ AgreeBatch'
      <3>1. phase' = "extend" => Agree(next - 1)' = Agree(Len(Tracked))'
        BY <1>13
      <3> QED
        BY <1>2, <1>12, <3>1 DEF Surviving
    <2>1. Covers(target) \/ (target <= ConfirmedTip /\ Agree(Len(Tracked)) /\ AgreeBatch)
      BY <1>2 DEF Survival, Surviving
    <2> QED
      BY <1>9, <1>10, <2>1
  <1> QED
    BY <1>16, <1>17 DEF Survival

\* The history is read back: it covers the window, and the node's chain holds it.
LEMMA LoadSurvives ==
  ASSUME IInv, Survival, LoadHistory(Last(stored).hash), UNCHANGED stored
  PROVE  Survival'
  <1>1. CASE \E why \in {"range", "window"} : Fail(why)
    BY <1>1, FailSurvives
  <1>2. CASE ~ \E why \in {"range", "window"} : Fail(why)
    <2>1. PICK base : stored = base /\ Followed(base)
      BY DEF IInv
    <2>2. /\ phase = "connect" /\ phase' = "poll"
          /\ channel' = channel /\ best' = best /\ tip' = tip /\ reorgs' = reorgs
      BY <1>2 DEF LoadHistory, Answered
    <2>3. Tracked' = Tracked /\ Tracked = Coming(base)
      BY <2>1, <2>2, TrackedFrame, TrackedIs
    <2>4. /\ Followed(base)'
          /\ \A h \in 1..Len(Tracked) : Tracked[h].hash = best[h]
          /\ Len(history') >= Len(Tracked) \/ Len(history') >= Window
      <3>1. LoadHistory(Last(base).hash)
        BY <2>1
      <3> QED
        BY <2>1, <2>2, <2>3, <3>1, LoadKeeps
    <2>5. Len(Tracked) \in Nat /\ Window \in Nat /\ Len(history') \in Nat
      <3>1. history' \in Seq(Records)
        BY <2>4 DEF Followed, TaskType
      <3> QED
        BY <3>1, SurvivalFacts
    <2>6. Covers(Len(Tracked))'
      BY <2>3, <2>4, <2>5 DEF Covers
    <2>7. Agree(Len(Tracked))' /\ ConfirmedTip' = ConfirmedTip
      BY <2>2, <2>3, <2>4 DEF Agree, ConfirmedTip
    <2>8. Undisturbed'
      BY <2>2, <2>3, <2>6, <2>7 DEF Survival, Undisturbed
    <2>9. Surviving'
      BY <2>2, <2>6 DEF Surviving
    <2> QED
      BY <2>8, <2>9 DEF Survival
  <1> QED
    BY <1>1, <1>2

\* The poll is over: the consumer will hold every block up to its target.
LEMMA EndPollSurvives == ASSUME IInv, Survival, EndPoll, UNCHANGED stored PROVE Survival'
  <1>1. /\ phase = "extend" /\ next > target /\ phase' = "poll" /\ history' = history
        /\ channel' = channel /\ best' = best /\ tip' = tip /\ reorgs' = reorgs
    BY DEF EndPoll, nodeVars
  <1>2. Tracked' = Tracked
    BY <1>1, TrackedFrame
  <1>3. next - 1 = Len(Tracked) /\ target = Len(Tracked)
    <2>1. Len(Tracked) = next - 1 /\ next <= target + 1 /\ next \in Nat /\ target \in Nat
      BY <1>1, SurvivalFacts
    <2> QED
      BY <1>1, <2>1
  <1>4. /\ ConfirmedTip' = ConfirmedTip /\ Agree(Len(Tracked))' = Agree(Len(Tracked))
        /\ Covers(Len(Tracked))' = Covers(Len(Tracked))
    BY <1>1, <1>2 DEF ConfirmedTip, Agree, Covers
  <1>5. Undisturbed'
    BY <1>1, <1>2, <1>4 DEF Survival, Undisturbed
  <1>6. Surviving'
    BY <1>1, <1>2, <1>3, <1>4 DEF Survival, Surviving
  <1> QED
    BY <1>5, <1>6 DEF Survival

\* Every step keeps it.
LEMMA NextSurvives == IInv /\ Survival /\ [Next]_vars => Survival'
  <1> SUFFICES ASSUME IInv, Survival, [Next]_vars PROVE Survival'
    OBVIOUS
  <1>1. CASE ChainStep /\ UNCHANGED <<followVars, channel, stored>>
    BY <1>1, NodeSurvives
  <1>2. CASE (Producer \/ RpcError) /\ UNCHANGED <<observerVars, stored>>
    <2>1. UNCHANGED stored
      BY <1>2
    <2>2. CASE LoadHistory(Last(stored).hash)
      BY <2>1, <2>2, LoadSurvives
    <2>3. CASE Poll
      BY <2>1, <2>3, PollSurvives
    <2>4. CASE FindFork
      BY <2>1, <2>4, ForkSurvives
    <2>5. CASE SendReorg
      BY <2>1, <2>5, ReorgSurvives
    <2>6. CASE FetchBatch
      BY <2>1, <2>6, FetchSurvives
    <2>7. CASE SendBlock
      BY <2>1, <2>7, SendSurvives
    <2>8. CASE EndPoll
      BY <2>1, <2>8, EndPollSurvives
    <2>9. CASE RpcError
      BY <2>9, FailSurvives DEF RpcError
    <2> QED
      BY <1>2, <2>2, <2>3, <2>4, <2>5, <2>6, <2>7, <2>8, <2>9 DEF Producer
  <1>3. CASE Consume
    BY <1>3, ConsumeSurvives
  <1>4. CASE UNCHANGED vars
    <2>1. /\ channel' = channel /\ stored' = stored
          /\ UNCHANGED <<best, tip, reorgs, phase, target, history, next, batch>>
      BY <1>4 DEF vars, pipelineVars, nodeVars, followVars
    <2> QED
      BY <2>1, TrackedFrame, SurvivalFrame
  <1> QED
    BY <1>1, <1>2, <1>3, <1>4 DEF Next

\* Only these two steps of a following task return ReorgBeyondWindow.
LEMMA GivesUpWhere == ASSUME IInv, [Next]_vars, GivesUp PROVE Poll \/ FindFork
  <1>1. cause' # cause /\ cause' = "window" /\ phase # "connect"
    BY DEF GivesUp
  <1>2. (Producer \/ RpcError) /\ ~ Consume
    BY <1>1 DEF Next, vars, pipelineVars, followVars, Consume
  <1>3. ~ RpcError
    BY <1>1 DEF RpcError, Fail
  <1>4. ~ LoadHistory(Last(stored).hash)
    BY <1>1 DEF LoadHistory
  <1>5. ~ SendReorg /\ ~ SendBlock /\ ~ EndPoll
    BY <1>1 DEF SendReorg, SendBlock, EndPoll
  <1>6. ~ FetchBatch
    BY <1>1 DEF FetchBatch, Fail
  <1> QED
    BY <1>2, <1>3, <1>4, <1>5, <1>6 DEF Producer

\* When it does, the history covers the window, and the node has left all of it.
LEMMA GivesUpBeyond ==
  ASSUME IInv, Survival, [Next]_vars, GivesUp, reorgs <= 1
  PROVE  BeyondWindow
  <1> DEFINE L == Len(Tracked)
             oldest == L - Len(history) + 1
             deepest == MaxOf(L - (Window - 1), 1)
  <1>1. PICK base : stored = base /\ Followed(base)
    BY DEF IInv
  <1>2. cause' = "window" /\ cause # "window"
    BY DEF GivesUp
  <1>3. phase \in {"poll", "overlap"}
    BY GivesUpWhere DEF Poll, FindFork
  <1>4. /\ L \in Nat \ {0} /\ Len(history) \in Nat /\ Len(history) <= L
        /\ Len(history) <= Window /\ Window \in Nat /\ target \in Nat /\ ConfirmedTip \in Nat
        /\ IsStart(Tracked) /\ current = L /\ history # <<>> /\ Oldest(history) = oldest
    BY <1>3, SurvivalFacts
  <1>5. NewestTracked = L
    <2>1. Tracked \in Seq(Records) /\ \A h \in 1..L : Tracked[h].height = h
      BY <1>4, IsStartParts
    <2> QED
      BY <1>4, <2>1 DEF NewestTracked, Last
  <1>6. Len(history) >= 1
    <2>1. history \in Seq(Records)
      BY <1>1, Facts
    <2> QED
      BY <1>4, <2>1
  <1>7. oldest \in 1..L
    BY <1>4, <1>6
  <1>8. Covers(L) => oldest = deepest
    BY <1>4 DEF Covers, MaxOf
  <1>9. CASE Poll
    <2>1. phase = "poll" /\ MinOf(current, ConfirmedTip) < Oldest(history)
      BY <1>2, <1>9 DEF Poll
    <2>2. ConfirmedTip < oldest
      BY <1>4, <1>7, <2>1 DEF MinOf
    <2>3. Covers(L)
      <3>1. Covers(L) \/ L <= ConfirmedTip
        BY <2>1 DEF Survival, Surviving
      <3> QED
        BY <1>4, <1>7, <2>2, <3>1
    <2> QED
      BY <1>5, <1>8, <2>2, <2>3 DEF BeyondWindow
  <1>10. CASE FindFork
    <2>1. phase = "overlap"
      BY <1>10 DEF FindFork
    <2>2. best[oldest] # Tracked[oldest].hash
      <3>1. Tracked = Coming(base)
        BY <1>1, TrackedIs
      <3> QED
        BY <1>1, <1>2, <1>10, <3>1, ForkKeeps
    <2>3. ~ Agree(L)
      BY <1>7, <2>2 DEF Agree
    <2>4. Covers(L)
      BY <2>1, <2>3 DEF Survival, Surviving
    <2> QED
      BY <1>5, <1>8, <2>2, <2>4 DEF BeyondWindow
  <1> QED
    BY <1>9, <1>10, GivesUpWhere

\* While following, one reorganisation of the node never ends the task with
\* ReorgBeyondWindow, wherever in a poll it strikes and however short an earlier rollback
\* left the history, unless the node has left the deepest tracked block of the window or
\* its confirmed tip lies below that block.
THEOREM SurvivesReorg == Spec => SurvivesOneReorg
  <1>1. Init => Survival
    BY InitSurvives
  <1>2. IInv /\ Survival /\ [Next]_vars => Survival'
    BY NextSurvives
  <1>3. Spec => []Survival
    BY <1>1, <1>2, InvariantHolds, PTL DEF Spec
  <1>4. IInv /\ Survival /\ [Next]_vars => [GivesUp /\ reorgs <= 1 => BeyondWindow]_vars
    BY GivesUpBeyond
  <1> QED
    BY <1>3, <1>4, InvariantHolds, PTL DEF Spec, SurvivesOneReorg

-----------------------------------------------------------------------------
(* The follower implements ChainFollower *)

\* The hashes of these blocks: held, for the blocks of the store.
Hashed(blocks) == [i \in DOMAIN blocks |-> blocks[i].hash]

\* The hashes of the start of a chain.
LEMMA HeldStart ==
  ASSUME NEW blocks, NEW c \in Chains, NEW n \in Nat, n <= MaxHeight, blocks = Start(c, n)
  PROVE  /\ Hashed(blocks) = SubSeq(c, 1, n)
         /\ Len(SubSeq(c, 1, n)) = n /\ SubSeq(c, 1, n) \in Seq(Hashes)
         /\ \A h \in 1..n : SubSeq(c, 1, n)[h] = c[h]
  <1> DEFINE hashes == [i \in DOMAIN blocks |-> blocks[i].hash]
  <1>1. c \in Seq(Hashes) /\ Len(c) = MaxHeight
    BY ChainAssumption
  <1>2. \A h \in 1..n : c[h] \in Hashes
    BY <1>1, Numbers
  <1>3. /\ SubSeq(c, 1, n) \in Seq(Hashes) /\ Len(SubSeq(c, 1, n)) = IF 1 <= n THEN n - 1 + 1 ELSE 0
        /\ \A i \in 1..(n - 1 + 1) : SubSeq(c, 1, n)[i] = c[1 + i - 1]
    BY <1>2, SubSeqProperties
  <1>4. Len(SubSeq(c, 1, n)) = n /\ \A h \in 1..n : SubSeq(c, 1, n)[h] = c[h]
    BY <1>3
  <1>5. DOMAIN blocks = 1..n /\ \A h \in 1..n : blocks[h].hash = c[h]
    BY DEF Start
  <1>6. hashes = [i \in 1..n |-> c[i]]
    BY <1>5
  <1>7. hashes \in Seq(Hashes) /\ Len(hashes) = n /\ \A h \in 1..n : hashes[h] = c[h]
    BY <1>2, <1>6
  <1> HIDE DEF hashes
  <1>8. hashes = SubSeq(c, 1, n)
    BY <1>3, <1>4, <1>7, SeqEqual
  <1> QED
    BY <1>3, <1>4, <1>8 DEF hashes, Hashed

\* The store starts as the start of a chain.
LEMMA InitFollows == Init => Follower!Init
  <1> SUFFICES ASSUME Init PROVE Follower!Init
    OBVIOUS
  <1>1. PICK c \in Chains, n \in Heights : stored = Start(c, n)
    BY DEF Init, Start
  <1>2. n \in Nat /\ 1 <= n /\ n <= MaxHeight /\ Len(c) = MaxHeight
    BY Numbers, ChainAssumption
  <1>3. held = SubSeq(c, 1, n) /\ Len(SubSeq(c, 1, n)) = n /\ SubSeq(c, 1, n) \in Seq(Hashes)
    <2>1. Hashed(stored) = SubSeq(c, 1, n) /\ Len(SubSeq(c, 1, n)) = n
          /\ SubSeq(c, 1, n) \in Seq(Hashes)
      BY <1>1, <1>2, HeldStart
    <2> QED
      BY <2>1 DEF held, Hashed
  <1>4. held # <<>>
    BY <1>2, <1>3
  <1>5. SubSeq(c, 1, n) \in Follower!PrefixOf(c)
    <2>1. n \in 0..Len(c)
      BY <1>2
    <2> QED
      BY <2>1 DEF Follower!PrefixOf
  <1> QED
    BY <1>3, <1>4, <1>5 DEF Follower!Init

\* A block event adds the next block of a chain that holds all the earlier ones.
LEMMA BlockFollows ==
  ASSUME IInv, Consume, Head(channel).type = "NewBlock"
  PROVE  Follower!Extend
  <1> DEFINE e == Head(channel)
             L == Len(stored)
             record == [height |-> e.height, hash |-> e.hash]
  <1>1. channel # <<>> /\ stored' = Apply(stored, e) /\ channel \in Seq(Events)
        /\ Queue(stored, channel)
    <2>1. PICK base : stored = base /\ Followed(base)
      BY DEF IInv
    <2> QED
      BY <2>1 DEF Consume, Followed, TaskType, Queued
  <1>2. e \in Events /\ IsStart(stored) /\ IsStart(stored') /\ e.type = "NewBlock"
    BY <1>1, QueueTake
  <1>3. stored' = Append(stored, record)
    BY <1>1, <1>2 DEF Apply
  <1>4. PICK c \in Chains : stored = Start(c, L)
    BY <1>2, IsStartParts
  <1>5. PICK d \in Chains : stored' = Start(d, Len(stored'))
    BY <1>2, IsStartParts
  <1>6. /\ stored \in Seq(Records) /\ L \in Nat \ {0}
        /\ stored' \in Seq(Records) /\ Len(stored') \in Heights
    BY <1>2, IsStartParts
  <1>7. Len(stored') = L + 1 /\ \A h \in 1..L : stored'[h] = stored[h]
    <2> HIDE DEF e, record
    <2> QED
      BY <1>3, <1>6
  <1> HIDE DEF e, L, record
  <1>8. L + 1 \in Nat /\ L + 1 <= MaxHeight /\ L <= MaxHeight
    BY <1>6, <1>7, Numbers
  <1>9. \A h \in 1..L : c[h] = d[h]
    <2>1. \A h \in 1..L : stored[h].hash = c[h]
      <3> TAKE h \in 1..L
      <3>1. stored[h] = [height |-> h, hash |-> c[h]]
        BY <1>4 DEF Start
      <3> QED
        BY <3>1
    <2>2. \A h \in 1..(L + 1) : stored'[h].hash = d[h]
      <3> TAKE h \in 1..(L + 1)
      <3>1. stored'[h] = [height |-> h, hash |-> d[h]]
        BY <1>5, <1>7 DEF Start
      <3> QED
        BY <3>1
    <2>3. \A h \in 1..L : h \in 1..(L + 1)
      BY <1>6
    <2> QED
      BY <1>7, <2>1, <2>2, <2>3
  <1>10. stored = Start(d, L)
    BY <1>4, <1>9 DEF Start
  <1>11. held = SubSeq(d, 1, L) /\ Len(SubSeq(d, 1, L)) = L
    <2>1. L \in Nat /\ L <= MaxHeight
      BY <1>6, <1>8
    <2>2. Hashed(stored) = SubSeq(d, 1, L) /\ Len(SubSeq(d, 1, L)) = L
      BY <1>10, <2>1, HeldStart
    <2> QED
      BY <2>2 DEF held, Hashed
  <1>12. held' = SubSeq(d, 1, L + 1)
    <2> DEFINE n == L + 1
    <2>1. stored' = Start(d, n)
      BY <1>5, <1>7
    <2>2. n \in Nat /\ n <= MaxHeight
      BY <1>8
    <2> HIDE DEF n
    <2>3. /\ Hashed(stored') = SubSeq(d, 1, n)
          /\ Len(SubSeq(d, 1, n)) = n /\ SubSeq(d, 1, n) \in Seq(Hashes)
          /\ \A h \in 1..n : SubSeq(d, 1, n)[h] = d[h]
      BY <2>1, <2>2, HeldStart
    <2> QED
      BY <2>3 DEF held, Hashed, n
  <1>13. Len(held) = L /\ L < Len(d)
    BY <1>6, <1>8, <1>11, Numbers, ChainAssumption
  <1> QED
    BY <1>11, <1>12, <1>13 DEF Follower!Extend

\* A reorg event drops blocks from the end, fewer than the window holds.
LEMMA ReorgFollows ==
  ASSUME IInv, Consume, Head(channel).type = "Reorg"
  PROVE  Follower!Retract
  <1> DEFINE e == Head(channel)
             L == Len(stored)
             fork == e.rollback_to
  <1>1. channel # <<>> /\ stored' = Apply(stored, e) /\ channel \in Seq(Events)
        /\ Queue(stored, channel)
    <2>1. PICK base : stored = base /\ Followed(base)
      BY DEF IInv
    <2> QED
      BY <2>1 DEF Consume, Followed, TaskType, Queued
  <1>2. /\ e \in Events /\ IsStart(stored) /\ e.type = "Reorg"
        /\ fork \in (L - Window + 1)..(L - 1)
    BY <1>1, QueueTake
  <1>3. fork \in Heights
    BY <1>2 DEF Events
  <1>4. stored' = SubSeq(stored, 1, Kept(stored, fork))
    BY <1>1, <1>2 DEF Apply
  <1>5. PICK c \in Chains : stored = Start(c, L)
    BY <1>2, IsStartParts
  <1>6. /\ stored \in Seq(Records) /\ L \in Nat \ {0} /\ L <= MaxHeight
        /\ \A h \in 1..L : stored[h].height = h
    BY <1>2, IsStartParts, Numbers
  <1> HIDE DEF e, fork
  <1>7. /\ fork \in Nat /\ fork >= 1 /\ fork <= L /\ L - fork <= Window - 1
        /\ fork \in 0..L /\ fork <= MaxHeight
    BY <1>2, <1>3, <1>6, Numbers
  <1>8. Kept(stored, fork) = fork
    <2> DEFINE none == 0
    <2>1. /\ DOMAIN stored = 1..Len(stored) /\ Len(stored) \in Nat /\ none \in Nat
          /\ \A i \in 1..Len(stored) : stored[i].height = none + i
          /\ fork \in none..(none + Len(stored))
      BY <1>6, <1>7
    <2> HIDE DEF none
    <2>2. Kept(stored, fork) = fork - none
      BY <2>1, KeptCount
    <2> QED
      BY <1>7, <2>2 DEF none
  <1> HIDE DEF L
  <1>9. stored' = Start(c, fork)
    BY <1>4, <1>5, <1>6, <1>7, <1>8, StartPrefix
  <1>10. /\ held = SubSeq(c, 1, L) /\ Len(held) = L /\ held \in Seq(Hashes)
         /\ \A h \in 1..L : held[h] = c[h]
    <2>1. L \in Nat /\ L <= MaxHeight
      BY <1>6
    <2>2. /\ Hashed(stored) = SubSeq(c, 1, L)
          /\ Len(SubSeq(c, 1, L)) = L /\ SubSeq(c, 1, L) \in Seq(Hashes)
          /\ \A h \in 1..L : SubSeq(c, 1, L)[h] = c[h]
      BY <1>5, <2>1, HeldStart
    <2> QED
      BY <2>2 DEF held, Hashed
  <1>11. /\ held' = SubSeq(c, 1, fork) /\ Len(held') = fork /\ held' \in Seq(Hashes)
         /\ \A h \in 1..fork : held'[h] = c[h]
    <2>1. /\ Hashed(stored') = SubSeq(c, 1, fork)
          /\ Len(SubSeq(c, 1, fork)) = fork /\ SubSeq(c, 1, fork) \in Seq(Hashes)
          /\ \A h \in 1..fork : SubSeq(c, 1, fork)[h] = c[h]
      BY <1>7, <1>9, HeldStart
    <2> QED
      BY <2>1 DEF held, Hashed
  <1>12. held' = SubSeq(held, 1, fork)
    <2> DEFINE before == held
               after == held'
               kept == SubSeq(before, 1, fork)
    <2>1. /\ Len(before) = L /\ before \in Seq(Hashes) /\ \A h \in 1..L : before[h] = c[h]
          /\ Len(after) = fork /\ after \in Seq(Hashes) /\ \A h \in 1..fork : after[h] = c[h]
      BY <1>10, <1>11
    <2> HIDE DEF before, after
    <2>2. \A h \in 1..fork : h \in 1..L /\ before[h] \in Hashes
      BY <1>6, <1>7, <2>1
    <2>3. /\ kept \in Seq(Hashes) /\ Len(kept) = IF 1 <= fork THEN fork - 1 + 1 ELSE 0
          /\ \A i \in 1..(fork - 1 + 1) : kept[i] = before[1 + i - 1]
      BY <1>7, <2>2, SubSeqProperties
    <2>4. Len(kept) = fork /\ \A i \in 1..fork : kept[i] = before[i]
      BY <1>7, <2>3
    <2> HIDE DEF kept
    <2>5. after = kept
      BY <2>1, <2>2, <2>3, <2>4, SeqEqual
    <2> QED
      BY <2>5 DEF kept, before, after
  <1>13. fork \in 0..Len(held) /\ Len(held) - fork <= Window - 1
    BY <1>7, <1>10
  <1> QED
    BY <1>12, <1>13 DEF Follower!Retract

\* Every step is a step of the abstract follower, or leaves the store alone.
LEMMA NextFollows == IInv /\ [Next]_vars => [Follower!Next]_held
  <1> SUFFICES ASSUME IInv, [Next]_vars PROVE Follower!Next \/ held' = held
    OBVIOUS
  <1>1. CASE Consume
    <2>1. CASE Head(channel).type = "NewBlock"
      BY <1>1, <2>1, BlockFollows DEF Follower!Next
    <2>2. CASE Head(channel).type # "NewBlock"
      <3>1. channel # <<>> /\ channel \in Seq(Events)
        BY <1>1 DEF Consume, IInv, Followed, TaskType
      <3>2. Head(channel) \in Events
        BY <3>1
      <3>3. Head(channel).type = "Reorg"
        BY <2>2, <3>2 DEF Events
      <3> QED
        BY <1>1, <3>3, ReorgFollows DEF Follower!Next
    <2> QED
      BY <2>1, <2>2
  <1>2. CASE stored' = stored
    BY <1>2 DEF held
  <1>3. Consume \/ stored' = stored
    BY DEF Next, vars
  <1> QED
    BY <1>1, <1>2, <1>3

\* What the consumer stores is at every moment the start of one chain, and moves by one
\* child block or by dropping fewer blocks than the window holds.
THEOREM ImplementsFollower == Spec => FollowsOneChain
  <1> QED
    BY InitFollows, NextFollows, InvariantHolds, PTL DEF Spec, FollowsOneChain, Follower!Spec
=============================================================================
