------------------------------ MODULE Pipeline ------------------------------
(***************************************************************************)
(* The producer half of the shared ingest pipeline (server/src/ingest/     *)
(* pipeline.rs): follow_blocks keeps a bounded history of the block hashes *)
(* it has announced, polls the node, finds the fork point and sends Reorg  *)
(* and NewBlock events through a bounded channel.  Each await point of the *)
(* code is a step boundary, so the node may move between any two calls.    *)
(***************************************************************************)
EXTENDS BlockRange

CONSTANTS
  Window,       \* reorg_window (2 * CONFIRMATION_DEPTH)
  ChannelCap    \* capacity of the event channel (100)

ASSUME PipelineAssumption == {Window, ChannelCap} \subseteq Nat \ {0}

VARIABLES
  phase,         \* where follow_blocks is waiting
  cause,         \* why it returned an error
  current,       \* current_height
  target,        \* target of the running poll
  history,       \* VecDeque of (height, hash)
  next,          \* next height to fetch; next - 1 is the fork until then
  expectedPrev,  \* expected_prev
  batch,         \* validated blocks not yet handed to `consume`
  channel        \* events sent and not yet received

followVars == <<phase, cause, current, target, history, next, expectedPrev, batch>>
pipelineVars == <<nodeVars, followVars, channel>>

Records == [height : Heights, hash : Hashes]
Events ==
  [type : {"NewBlock"}, height : Heights, hash : Hashes]
    \cup [type : {"Reorg"}, rollback_to : Heights]

NewBlock(b) == [type |-> "NewBlock", height |-> b.height, hash |-> b.hash]
Reorg(h) == [type |-> "Reorg", rollback_to |-> h]

-----------------------------------------------------------------------------
\* hash_at
HashAt(hist, h) ==
  IF \E i \in DOMAIN hist : hist[i].height = h
  THEN hist[CHOOSE i \in DOMAIN hist : hist[i].height = h].hash
  ELSE NoHash

\* Mutated form of PushHistory: the oldest entry is never dropped.
PushHistoryUnbounded(hist, b) ==
  Append(hist, [height |-> b.height, hash |-> b.hash])

\* push_history
PushHistory(hist, b) ==
  LET longer == Append(hist, [height |-> b.height, hash |-> b.hash])
  IN  IF Len(longer) > Window THEN Tail(longer) ELSE longer

\* Mutated form of PopHistory: the orphaned entries stay.
PopHistoryNothing(hist, fork) == hist

\* `while back() > fork { pop_back() }` keeps this many entries.
Kept(entries, fork) == Max({0} \cup {i \in DOMAIN entries : entries[i].height <= fork})

PopHistory(hist, fork) == SubSeq(hist, 1, Kept(hist, fork))

Oldest(hist) == IF hist = <<>> THEN current ELSE hist[1].height

\* The task returns an error; nothing restarts it within the process.
Fail(why) ==
  /\ phase' = "failed"
  /\ cause' = why
  /\ Answered
  /\ UNCHANGED <<current, target, history, next, expectedPrev, batch, channel>>

-----------------------------------------------------------------------------
\* The task is spawned for a store whose newest block is `start`.
PipelineInit(start) ==
  /\ phase = "connect"
  /\ cause = "none"
  /\ current = start
  /\ target = 0
  /\ history = <<>>
  /\ next = 0
  /\ expectedPrev = NoHash
  /\ batch = <<>>
  /\ channel = <<>>

\* Mutated form of HistoryStart: one block short.
HistoryStartShort == MaxOf(current - (Window - 2), 1)

HistoryStart == MaxOf(current - (Window - 1), 1)

\* The history is read back from the node and must end in the stored tip.
LoadHistory(startHash) ==
  /\ phase = "connect"
  /\ \E blocks \in Streams(HistoryStart, current) :
       IF ~ValidRange(blocks, HistoryStart, current, NoHash)
       THEN Fail("range")
       ELSE IF Last(blocks).hash # startHash
       THEN Fail("window")
       ELSE /\ phase' = "poll"
            /\ history' = [i \in DOMAIN blocks |->
                             [height |-> blocks[i].height, hash |-> blocks[i].hash]]
            /\ Answered
            /\ UNCHANGED <<cause, current, target, next, expectedPrev, batch, channel>>

\* Mutated form of Poll: one block short of the confirmation depth.
PollShort ==
  /\ phase = "poll"
  /\ LET goal == MinOf(ConfirmedTip + 1, tip)
     IN  IF MinOf(current, goal) < Oldest(history)
         THEN Fail("window")
         ELSE /\ target' = goal
              /\ phase' = "overlap"
              /\ Answered
              /\ UNCHANGED <<cause, current, history, next, expectedPrev, batch, channel>>

\* get_latest_block, and the test that the overlap with the history is not empty.
Poll ==
  /\ phase = "poll"
  /\ LET goal == ConfirmedTip
     IN  IF MinOf(current, goal) < Oldest(history)
         THEN Fail("window")
         ELSE /\ target' = goal
              /\ phase' = "overlap"
              /\ Answered
              /\ UNCHANGED <<cause, current, history, next, expectedPrev, batch, channel>>

\* Fetch the overlap and take the highest block it shares with the history.
FindFork ==
  /\ phase = "overlap"
  /\ LET lo == Oldest(history)
         hi == MinOf(current, target)
     IN  \E blocks \in Streams(lo, hi) :
           LET shared == {i \in DOMAIN blocks :
                            HashAt(history, blocks[i].height) = blocks[i].hash}
           IN  IF ~ValidRange(blocks, lo, hi, NoHash)
               THEN Fail("range")
               ELSE IF shared = {}
               THEN Fail("window")
               ELSE LET fork == blocks[Max(shared)].height
                    IN  /\ next' = fork + 1
                        /\ expectedPrev' = HashAt(history, fork)
                        /\ phase' = IF fork < current THEN "reorg" ELSE "extend"
                        /\ Answered
                        /\ UNCHANGED <<cause, current, target, history, batch, channel>>

\* Mutated form of SendReorg: poll again without extending the chain first.
SendReorgAndPoll ==
  /\ phase = "reorg"
  /\ Len(channel) < ChannelCap
  /\ channel' = Append(channel, Reorg(next - 1))
  /\ history' = PopHistory(history, next - 1)
  /\ phase' = "poll"
  /\ UNCHANGED <<nodeVars, cause, current, target, next, expectedPrev, batch>>

\* Announce the reorg, then forget the orphaned part of the history.
SendReorg ==
  /\ phase = "reorg"
  /\ Len(channel) < ChannelCap
  /\ channel' = Append(channel, Reorg(next - 1))
  /\ history' = PopHistory(history, next - 1)
  /\ phase' = "extend"
  /\ UNCHANGED <<nodeVars, cause, current, target, next, expectedPrev, batch>>

\* Fetch and validate the next batch above the fork.
FetchBatch ==
  /\ phase = "extend"
  /\ next <= target
  /\ LET end == MinOf(next + BatchSize - 1, target)
     IN  \E blocks \in Streams(next, end) :
           IF ~ValidRange(blocks, next, end, expectedPrev)
           THEN Fail("range")
           ELSE /\ batch' = blocks
                /\ expectedPrev' = Last(blocks).hash
                /\ next' = end + 1
                /\ phase' = "send"
                /\ Answered
                /\ UNCHANGED <<cause, current, target, history, channel>>

\* Remember a block and hand it to the channel, waiting while it is full.
SendBlock ==
  /\ phase = "send"
  /\ Len(channel) < ChannelCap
  /\ channel' = Append(channel, NewBlock(Head(batch)))
  /\ history' = PushHistory(history, Head(batch))
  /\ batch' = Tail(batch)
  /\ phase' = IF Tail(batch) = <<>> THEN "extend" ELSE "send"
  /\ UNCHANGED <<nodeVars, cause, current, target, next, expectedPrev>>

\* The poll is finished: sleep(poll_interval) and start over.
EndPoll ==
  /\ phase = "extend"
  /\ next > target
  /\ current' = target
  /\ phase' = "poll"
  /\ UNCHANGED <<nodeVars, cause, target, history, next, expectedPrev, batch, channel>>

\* Any RPC may fail, or deliver a block whose hashes are not 32 bytes.
RpcError ==
  /\ \/ phase \in {"connect", "poll", "overlap"}
     \/ phase = "extend" /\ next <= target
  /\ Fail("rpc")

-----------------------------------------------------------------------------
(* The events, as the loop of every consumer applies them to its blocks *)

\* A Reorg drops the blocks above the fork, a NewBlock adds one.
Apply(blocks, event) ==
  IF event.type = "Reorg"
  THEN SubSeq(blocks, 1, Kept(blocks, event.rollback_to))
  ELSE Append(blocks, [height |-> event.height, hash |-> event.hash])

\* What the consumer holds after n of these events, for every n.
Handled(blocks, events) ==
  LET after[n \in 0..Len(events)] == IF n = 0 THEN blocks ELSE Apply(after[n - 1], events[n])
  IN  after
=============================================================================
