------------------------------- MODULE Follow -------------------------------
(***************************************************************************)
(* The pipeline with the consumer at the other end of its channel: a store *)
(* that keeps one record per block, as CommitmentTreeDb.blocks does, drops *)
(* the records above rollback_to on a Reorg and appends one on a NewBlock. *)
(* CombinedServer gives that consumer its real state.                      *)
(***************************************************************************)
EXTENDS Pipeline, ConfirmedChain

VARIABLE stored     \* block records of the consumer, lowest first

vars == <<pipelineVars, observerVars, stored>>

-----------------------------------------------------------------------------
\* The store was synced to a confirmed height, or resumed from a snapshot: it holds
\* the start of some chain, which need not be the one the node serves now.
Init ==
  /\ NodeInit
  /\ \E c \in Chains, start \in Heights :
       /\ start <= tip - Depth
       /\ stored = [h \in 1..start |-> [height |-> h, hash |-> c[h]]]
       /\ PipelineInit(start)
       /\ ObserverInit
       /\ deep = \E h \in 1..start : c[h] # best[h]

\* block_rx.recv and the handling of the event.
Consume ==
  /\ channel # <<>>
  /\ stored' = Apply(stored, Head(channel))
  /\ channel' = Tail(channel)
  /\ UNCHANGED <<nodeVars, followVars, observerVars>>

Producer ==
  \/ LoadHistory(Last(stored).hash)
  \/ Poll
  \/ FindFork
  \/ SendReorg
  \/ FetchBatch
  \/ SendBlock
  \/ EndPoll

Next ==
  \/ ChainStep /\ UNCHANGED <<followVars, channel, stored>>
  \/ (Producer \/ RpcError) /\ UNCHANGED <<observerVars, stored>>
  \/ Consume

\* The runtime keeps polling both tasks; the node and the network owe nothing.
Spec == Init /\ [][Next]_vars /\ WF_vars(Producer /\ UNCHANGED <<observerVars, stored>>) /\ WF_vars(Consume)

-----------------------------------------------------------------------------
\* The store as it will be once every queued event has been handled.
Tracked == Handled(stored, channel)[Len(channel)]

NewestTracked == IF Tracked = <<>> THEN 0 ELSE Last(Tracked).height

\* Every variable of follow_blocks and of its consumer holds a value of its type.
TypeOK ==
  /\ best \in Chains
  /\ tip \in Heights
  /\ reorgs \in 0..MaxReorgs
  /\ best \in served /\ served \subseteq Chains
  /\ phase \in {"connect", "poll", "overlap", "reorg", "extend", "send", "failed"}
  /\ cause \in {"none", "rpc", "range", "window"}
  /\ phase = "failed" <=> cause # "none"
  /\ {current, target} \subseteq 0..MaxHeight
  /\ next \in 0..(MaxHeight + 1)
  /\ history \in Seq(Records) /\ Len(history) <= Window
  /\ expectedPrev \in Hashes \cup {NoHash}
  /\ batch \in Seq([height : Heights, hash : Hashes, prev : Hashes \cup {NoHash}])
  /\ channel \in Seq(Events) /\ Len(channel) <= ChannelCap
  /\ stored \in Seq(Records)

\* The follower's private history is always exactly the newest part of what the
\* consumer holds after the events still in the channel: the fork point that
\* follow_blocks computes from the one is a fork point of the other.
HistoryMatchesConsumer ==
  /\ phase \notin {"connect", "failed"} => history # <<>>
  /\ Len(history) <= Len(Tracked)
  /\ history = SubSeq(Tracked, Len(Tracked) - Len(history) + 1, Len(Tracked))

\* The tip is read once per poll and blocks are fetched after it, while the node may
\* reorganise between and during the calls.  Yet what reaches the consumer are
\* confirmed blocks of the network's chain, as long as the network keeps its confirmed
\* blocks; and unless a replica lags as well, no reorg is ever announced.
OnlyConfirmed ==
  /\ ConfirmedBlocks([h \in DOMAIN Tracked |-> Tracked[h].hash])
  /\ ~deep /\ ~lagged => \A i \in DOMAIN channel : channel[i].type = "NewBlock"

\* The node has left the stored chain for Window - 1 blocks or more, or its
\* confirmed tip (now, or when this poll read it) lies that far back.
BeyondWindow ==
  LET deepest == MaxOf(NewestTracked - (Window - 1), 1)
  IN  \/ best[deepest] # Tracked[deepest].hash
      \/ ConfirmedTip < deepest
      \/ phase = "overlap" /\ target < deepest

GivesUp == cause' = "window" /\ cause # "window" /\ phase # "connect"

\* While following, one reorganisation of the node never ends the task with
\* ReorgBeyondWindow, wherever in a poll it strikes, unless it goes beyond the window.
SurvivesOneReorg == [][GivesUp /\ reorgs <= 1 => BeyondWindow]_vars

\* What the error's text says of a block that no longer matches: the fork exceeds the
\* tracking window.  The same, for any number of reorganisations, of the error raised
\* when no overlap block matches the history.
GivesUpOnlyBeyondWindow == [][GivesUp /\ phase = "overlap" => BeyondWindow]_vars

\* Every RPC that fails validation fails before a block of it reaches the
\* consumer, so the store is always the start of one chain and moves by one
\* child block or by dropping at most Window - 1 blocks: it implements ChainFollower.
held == [i \in DOMAIN stored |-> stored[i].hash]
Follower == INSTANCE ChainFollower WITH MaxDrop <- Window - 1
FollowsOneChain == Follower!Spec

\* Once the node settles, the consumer catches up with the confirmed part of
\* its chain, unless the task ended with an error.
CatchesUp ==
  <>[](phase = "failed" \/ held = SubSeq(best, 1, ConfirmedTip))
=============================================================================
