---------------------------- MODULE ClientProofs ----------------------------
(***************************************************************************)
(* The two ends of a client's query.  Below it, the session: for every set *)
(* of connections, requests and message lengths, replies reach the callers *)
(* they belong to, callers wait only for workers, and the generations of   *)
(* the session replace one another cleanly.  Above it, the witnesses: for  *)
(* every height of the tree, every log and every window, the paths that    *)
(* are put together from rows and broadcasts are those of the tree.        *)
(***************************************************************************)
EXTENDS P2PSession, WitnessClient, Induction, SequenceTheorems, TLAPS

-----------------------------------------------------------------------------
(* The session *)

Active(c) == worker[c] \in {"idle"} \cup Exchanging

\* Frames of one request, and how far they go: all flagged MORE, or a message's end.
Carries(frames, r) == \A i \in 1..Len(frames) : frames[i].req = r
Unfinished(frames) == \A i \in 1..Len(frames) : frames[i].more
Complete(frames) ==
  /\ frames # <<>>
  /\ \A i \in 1..Len(frames) : frames[i].more <=> i < Len(frames)

\* Nothing is on its way in either direction.
Silent(c) == wire[c] = <<>> /\ assembled[c] = None /\ responses[c] = <<>> /\ reply[c] = <<>>

\* Where the one exchange of a connection that waits for its reply can be.
Asked(c) == Complete(wire[c]) /\ responses[c] = <<>> /\ reply[c] = <<>>
Taken(c) == wire[c] = <<>> /\ assembled[c] = None
Answering(c) == Taken(c) /\ Complete(responses[c]) /\ Unfinished(reply[c])
Answered(c) == Taken(c) /\ responses[c] = <<>> /\ Complete(reply[c])
Lost(c) == Taken(c) /\ responses[c] = <<>> /\ Unfinished(reply[c]) /\ serving[c] = "over"

\* What a connection carries belongs to the exchange its worker is in, and no reply
\* outlives its exchange unless the connection's worker goes with it.
Flow(c) ==
  /\ worker[c] \in {"none", "idle"} => Silent(c)
  /\ worker[c] # "sending" => unsent[c] = <<>>
  /\ worker[c] # "receiving" => decoder[c] = None
  /\ serving[c] = "over" => Taken(c) /\ responses[c] = <<>>
  /\ worker[c] = "sending" =>
       Complete(unsent[c]) /\ Unfinished(wire[c]) /\ responses[c] = <<>> /\ reply[c] = <<>>
  /\ worker[c] = "receiving" => Asked(c) \/ Answering(c) \/ Answered(c) \/ Lost(c)
  /\ worker[c] \in Exchanging =>
       /\ \A frames \in {unsent[c], wire[c], responses[c], reply[c]} : Carries(frames, job[c])
       /\ \A partial \in {assembled[c], decoder[c]} :
            partial # None => partial.payload = {job[c]}

\* The published generation has a worker; the others were told to stop.
Generations ==
  /\ current # 0 => worker[current] \notin {"none", "refused"}
  /\ \A c \in cancelled : worker[c] # "none" /\ c # current
  /\ \A c \in Conns : worker[c] = "ended" => c \in cancelled \cup closed

\* Whoever waits does so at a connection.
Placed == \A r \in Requests : caller[r].at \in Waiting => caller[r].conn \in Conns

\* The inductive invariant.
IInv ==
  /\ TypeOK
  /\ \A c \in Conns : Flow(c)
  /\ AnswersMatch
  /\ Placed
  /\ WaitingIsHeld
  /\ Generations
  /\ OnlyCurrentWorks

-----------------------------------------------------------------------------
\* What frames makes of a payload: frames of one request, the last one alone not flagged.
LEMMA FramesType ==
  ASSUME NEW type \in MessageTypes, NEW r \in Requests, NEW n \in Nat \ {0}
  PROVE  /\ Frames(type, r, n) \in Seq(Frame)
         /\ Carries(Frames(type, r, n), r)
         /\ Complete(Frames(type, r, n))
  <1>1. \A i \in 1..n : [type |-> type, req |-> r, more |-> i < n] \in Frame
    BY DEF Frame
  <1>2. Frames(type, r, n) \in Seq(Frame) /\ Len(Frames(type, r, n)) = n
    BY <1>1 DEF Frames
  <1> QED
    BY <1>2 DEF Frames, Carries, Complete

\* The type invariant holds initially.
LEMMA InitType == Init => TypeOK
  BY SessionAssumption DEF Init, TypeOK, Exchanging, Waiting

\* Results of an exchange; states of a caller.
Results == {"Ok", "Remote", "Protocol", "Timeout", "Disconnected"}
CallerStates ==
  [at : {"new", "Ok", "Remote", "Protocol", "Timeout", "Disconnected"} \cup Waiting,
   conn : Conns \cup {0}, answer : SUBSET Requests]

\* Telling callers leaves each in a state callers can be in.
LEMMA ToldType ==
  ASSUME NEW state \in [Requests -> CallerStates], NEW rs,
         NEW result \in Results, NEW answer \in SUBSET Requests
  PROVE  Told(state, rs, result, answer) \in [Requests -> CallerStates]
  BY DEF Told, CallerStates, Results

\* So does a caller's turn to wait.
LEMMA CallerWaits ==
  ASSUME NEW state \in [Requests -> CallerStates], NEW r \in Requests
  PROVE  [state EXCEPT ![r].at = "waiting"] \in [Requests -> CallerStates]
  <1>1. /\ state[r].conn \in Conns \cup {0} /\ state[r].answer \in SUBSET Requests
        /\ state[r] = [at |-> state[r].at, conn |-> state[r].conn, answer |-> state[r].answer]
    BY DEF CallerStates
  <1>2. [state[r] EXCEPT !.at = "waiting"]
          = [at |-> "waiting", conn |-> state[r].conn, answer |-> state[r].answer]
    BY <1>1
  <1>3. [state[r] EXCEPT !.at = "waiting"] \in CallerStates
    BY <1>1, <1>2 DEF CallerStates, Waiting
  <1> QED
    BY <1>3

\* What the end of an exchange leaves of a connection: an idle worker with the rest of
\* the stream, or no worker.
Stopped(c, arrived) ==
  /\ worker' = [worker EXCEPT ![c] = "ended"]
  /\ queue' = [queue EXCEPT ![c] = <<>>]
  /\ reply' = [arrived EXCEPT ![c] = <<>>]
  /\ closed' = closed \cup {c}

Rested(c, arrived) ==
  /\ worker' = [worker EXCEPT ![c] = "idle"]
  /\ reply' = arrived
  /\ UNCHANGED <<closed, queue>>

Cleared(c) ==
  /\ job' = [job EXCEPT ![c] = None]
  /\ unsent' = [unsent EXCEPT ![c] = <<>>]
  /\ decoder' = [decoder EXCEPT ![c] = None]
  /\ UNCHANGED <<current, cancelled>>

\* The cases of Finish.
LEMMA FinishLeaves ==
  ASSUME TypeOK, NEW c \in Conns, NEW result \in Results, NEW answer \in SUBSET Requests,
         NEW arrived, Finish(c, result, answer, arrived)
  PROVE  /\ Stopped(c, arrived) \/ Rested(c, arrived)
         /\ Fatal(result) => Stopped(c, arrived)
         /\ Cleared(c)
         /\ caller' \in [Requests -> CallerStates]
  <1> DEFINE told == Told(caller, {job[c]}, result, answer)
  <1>1. told \in [Requests -> CallerStates]
    BY ToldType DEF TypeOK, CallerStates
  <1>2. Told(told, {queue[c][i] : i \in DOMAIN queue[c]}, "Disconnected", {})
          \in [Requests -> CallerStates]
    BY <1>1, ToldType DEF Results
  <1> HIDE DEF told
  <1>3. CASE Fatal(result)
    BY <1>2, <1>3 DEF Finish, Drop, Stopped, Cleared, told
  <1>4. CASE ~Fatal(result)
    BY <1>1, <1>4 DEF Finish, Rested, Cleared, told
  <1> QED
    BY <1>3, <1>4

\* The end of an exchange keeps the types.
LEMMA FinishKeepsType ==
  ASSUME TypeOK, NEW c \in Conns, NEW result \in Results, NEW answer \in SUBSET Requests,
         NEW arrived \in [Conns -> Seq(Frame)], Finish(c, result, answer, arrived),
         UNCHANGED <<wire, serverVars>>
  PROVE  TypeOK'
  <1>1. Stopped(c, arrived) \/ Rested(c, arrived)
    BY FinishLeaves
  <1>2. Cleared(c) /\ caller' \in [Requests -> CallerStates]
    BY FinishLeaves
  <1>3. UNCHANGED <<current, cancelled, wire, serving, assembled, responses>>
    BY <1>2 DEF Cleared, serverVars
  <1>4. closed' \subseteq Conns
    BY <1>1 DEF TypeOK, Stopped, Rested
  <1>5. job' \in [Conns -> Requests \cup {None}] /\ decoder' \in [Conns -> Message \cup {None}]
    BY <1>2 DEF TypeOK, Cleared
  <1>6. worker' \in [Conns -> {"none", "refused", "idle", "ended", "gone"} \cup Exchanging]
    BY <1>1 DEF TypeOK, Stopped, Rested
  <1>7. \A d \in Conns : (job'[d] # None) <=> (worker'[d] \in Exchanging)
    <2> SUFFICES ASSUME NEW d \in Conns
                 PROVE  (job'[d] # None) <=> (worker'[d] \in Exchanging)
      OBVIOUS
    <2>1. CASE d = c
      <3>1. job'[d] = None
        BY <1>2, <2>1 DEF Cleared, TypeOK
      <3>2. worker'[d] \in {"ended", "idle"}
        BY <1>1, <2>1 DEF Stopped, Rested, TypeOK
      <3> QED
        BY <3>1, <3>2 DEF Exchanging
    <2>2. CASE d # c
      <3>1. job'[d] = job[d]
        BY <1>2, <2>2 DEF Cleared, TypeOK
      <3>2. worker'[d] = worker[d]
        BY <1>1, <2>2 DEF Stopped, Rested, TypeOK
      <3> QED
        BY <3>1, <3>2 DEF TypeOK
    <2> QED
      BY <2>1, <2>2
  <1>8. unsent' \in [Conns -> Seq(Frame)] /\ reply' \in [Conns -> Seq(Frame)]
    <2>1. <<>> \in Seq(Frame)
      OBVIOUS
    <2>2. unsent' \in [Conns -> Seq(Frame)]
      BY <1>2, <2>1 DEF TypeOK, Cleared
    <2>3. reply' \in [Conns -> Seq(Frame)]
      BY <1>1, <2>1 DEF Stopped, Rested
    <2> QED
      BY <2>2, <2>3
  <1>9. queue' \in [Conns -> {<<>>} \cup {<<r>> : r \in Requests}]
    BY <1>1 DEF TypeOK, Stopped, Rested
  <1> QED
    BY <1>2, <1>3, <1>4, <1>5, <1>6, <1>7, <1>8, <1>9 DEF CallerStates, TypeOK

\* MessageDecoder::push makes a partial message.
LEMMA PushedType ==
  ASSUME NEW partial \in Message \cup {None}, NEW frame \in Frame
  PROVE  Pushed(partial, frame) \in Message
  <1>1. CASE partial = None
    BY <1>1 DEF Pushed, Message, Frame
  <1>2. CASE partial # None
    BY <1>2 DEF Pushed, Message, Frame
  <1> QED
    BY <1>1, <1>2

\* The end of the server's loop keeps the types of what it changes.
LEMMA StopServingType ==
  ASSUME TypeOK, NEW c \in Conns, StopServing(c)
  PROVE  /\ serving' \in [Conns -> {"none", "on", "over"}]
         /\ wire' \in [Conns -> Seq(Frame)]
         /\ assembled' \in [Conns -> Message \cup {None}]
         /\ responses' \in [Conns -> Seq(Frame)]
  <1>1. <<>> \in Seq(Frame)
    OBVIOUS
  <1>2. serving' \in [Conns -> {"none", "on", "over"}]
    BY DEF StopServing, TypeOK
  <1>3. wire' \in [Conns -> Seq(Frame)]
    BY <1>1 DEF StopServing, TypeOK
  <1>4. responses' \in [Conns -> Seq(Frame)]
    BY <1>1 DEF StopServing, TypeOK
  <1>5. assembled' \in [Conns -> Message \cup {None}]
    BY DEF StopServing, TypeOK
  <1> QED
    BY <1>2, <1>3, <1>4, <1>5

\* What one frame of a reply does: it ends the exchange, or it is kept as part of a message.
Left(c) == [reply EXCEPT ![c] = Tail(@)]
Extended(c) == Pushed(decoder[c], Head(reply[c]))

Kept(c) ==
  /\ Head(reply[c]).more
  /\ decoder' = [decoder EXCEPT ![c] = Extended(c)]
  /\ reply' = Left(c)
  /\ UNCHANGED <<current, cancelled, closed, worker, job, unsent, queue, caller>>

\* The cases of ReceiveFrame.
LEMMA ReceiveCases ==
  ASSUME NEW c \in Conns, ReceiveFrame(c)
  PROVE  /\ worker[c] = "receiving" /\ reply[c] # <<>>
         /\ UNCHANGED <<wire, serverVars>>
         /\ \/ Finish(c, "Protocol", {}, Left(c))
            \/ Kept(c)
            \/ /\ ~Head(reply[c]).more
               /\ \E result \in {"Remote", "Ok", "Protocol"} :
                    Finish(c, result, Extended(c).payload, Left(c))
  <1> DEFINE frame == Head(reply[c])
  <1>1. CASE TypeChanged(decoder[c], frame)
    BY <1>1 DEF ReceiveFrame, Left
  <1>2. CASE frame.more /\ ~TypeChanged(decoder[c], frame)
    BY <1>2 DEF ReceiveFrame, Kept, Left, Extended
  <1>3. CASE ~frame.more /\ ~TypeChanged(decoder[c], frame)
    BY <1>3 DEF ReceiveFrame, Left, Extended
  <1> QED
    BY <1>1, <1>2, <1>3

\* A step keeps the types.  That there is a frame to send is Flow's to say.
LEMMA NextType == TypeOK /\ (\A c \in Conns : Flow(c)) /\ [Next]_vars => TypeOK'
  <1> SUFFICES ASSUME TypeOK, \A c \in Conns : Flow(c), [Next]_vars PROVE TypeOK'
    OBVIOUS
  <1> USE SessionAssumption DEF vars, clientVars, serverVars
  <1>1. ASSUME NEW c \in Conns, AddPeer(c) PROVE TypeOK'
    BY <1>1 DEF AddPeer, Install, TypeOK, Exchanging
  <1>2. ASSUME NEW c \in Conns, RemovePeer(c) PROVE TypeOK'
    BY <1>2 DEF RemovePeer, RemoveGeneration, TypeOK
  <1>3. ASSUME NEW c \in Conns, Disconnect(c) PROVE TypeOK'
    BY <1>3 DEF Disconnect, TypeOK
  <1>4. ASSUME NEW c \in Conns, Take(c) PROVE TypeOK'
    <2> DEFINE r == Head(queue[c])
    <2>1. r \in Requests
      <3>1. queue[c] \in {<<q>> : q \in Requests}
        BY <1>4 DEF Take, TypeOK
      <3> QED
        BY <3>1
    <2>2. Frames(TypeOf[r], r, RequestFrames[r]) \in Seq(Frame)
      BY <2>1, FramesType DEF MessageTypes
    <2>3. /\ worker' = [worker EXCEPT ![c] = "sending"]
          /\ job' = [job EXCEPT ![c] = r]
          /\ queue' = [queue EXCEPT ![c] = <<>>]
          /\ unsent' = [unsent EXCEPT ![c] = Frames(TypeOf[r], r, RequestFrames[r])]
          /\ UNCHANGED <<current, cancelled, decoder, closed, wire, reply, serverVars, caller>>
      BY <1>4 DEF Take
    <2> HIDE DEF r
    <2>4. unsent' \in [Conns -> Seq(Frame)]
      BY <2>2, <2>3 DEF TypeOK
    <2>5. job' \in [Conns -> Requests \cup {None}]
      BY <2>1, <2>3 DEF TypeOK
    <2>6. queue' \in [Conns -> {<<>>} \cup {<<q>> : q \in Requests}]
      BY <2>3 DEF TypeOK
    <2>7. worker' \in [Conns -> {"none", "refused", "idle", "ended", "gone"} \cup Exchanging]
      BY <2>3 DEF TypeOK, Exchanging
    <2>8. \A d \in Conns : (job'[d] # None) <=> (worker'[d] \in Exchanging)
      BY <2>1, <2>3 DEF TypeOK, Exchanging
    <2> QED
      BY <2>3, <2>4, <2>5, <2>6, <2>7, <2>8 DEF TypeOK
  <1>5. ASSUME NEW c \in Conns, SendFrame(c) PROVE TypeOK'
    <2>0. unsent[c] # <<>>
      BY <1>5 DEF SendFrame, Flow, Complete
    <2>1. Head(unsent[c]) \in Frame /\ Tail(unsent[c]) \in Seq(Frame)
      BY <2>0 DEF TypeOK
    <2>2. unsent' \in [Conns -> Seq(Frame)]
      BY <1>5, <2>1 DEF SendFrame, TypeOK
    <2>3. wire' \in [Conns -> Seq(Frame)]
      BY <1>5, <2>1 DEF SendFrame, TypeOK
    <2>4. worker' \in [Conns -> {"none", "refused", "idle", "ended", "gone"} \cup Exchanging]
      BY <1>5 DEF SendFrame, TypeOK, Exchanging
    <2>5. \A d \in Conns : (job'[d] # None) <=> (worker'[d] \in Exchanging)
      BY <1>5 DEF SendFrame, TypeOK, Exchanging
    <2> QED
      BY <1>5, <2>2, <2>3, <2>4, <2>5 DEF SendFrame, TypeOK
  <1>6. ASSUME NEW c \in Conns, ReceiveFrame(c) PROVE TypeOK'
    <2>1. reply[c] # <<>> /\ UNCHANGED <<wire, serverVars>>
      BY <1>6, ReceiveCases
    <2>2. Head(reply[c]) \in Frame /\ Left(c) \in [Conns -> Seq(Frame)]
      BY <2>1 DEF TypeOK, Left
    <2>3. Extended(c) \in Message
      BY <2>2, PushedType DEF TypeOK, Extended
    <2>4. Extended(c).payload \in SUBSET Requests
      BY <2>3 DEF Message
    <2>5. CASE Finish(c, "Protocol", {}, Left(c))
      BY <2>1, <2>2, <2>5, FinishKeepsType DEF Results
    <2>6. CASE Kept(c)
      BY <2>1, <2>2, <2>3, <2>6 DEF Kept, TypeOK
    <2>7. ASSUME NEW result \in {"Remote", "Ok", "Protocol"},
                 Finish(c, result, Extended(c).payload, Left(c))
          PROVE  TypeOK'
      <3>1. result \in Results
        BY DEF Results
      <3> HIDE DEF Left, Extended
      <3> QED
        BY <2>1, <2>2, <2>4, <2>7, <3>1, FinishKeepsType
    <2> QED
      BY <1>6, <2>5, <2>6, <2>7, ReceiveCases
  <1>7. ASSUME NEW c \in Conns, WorkerTimeout(c) PROVE TypeOK'
    BY <1>7, FinishKeepsType DEF WorkerTimeout, TypeOK, Results
  <1>8. ASSUME NEW c \in Conns, Interrupted(c) PROVE TypeOK'
    BY <1>8, FinishKeepsType DEF Interrupted, TypeOK, Results
  <1>9. ASSUME NEW c \in Conns, WorkerStops(c) PROVE TypeOK'
    <2>1. caller' \in [Requests -> CallerStates]
      BY <1>9, ToldType DEF WorkerStops, Drop, TypeOK, CallerStates, Results
    <2>2. /\ worker' = [worker EXCEPT ![c] = "ended"]
          /\ reply' = [reply EXCEPT ![c] = <<>>]
          /\ queue' = [queue EXCEPT ![c] = <<>>]
          /\ worker[c] = "idle"
      BY <1>9 DEF WorkerStops, Drop
    <2>3. \A d \in Conns : (job'[d] # None) <=> (worker'[d] \in Exchanging)
      BY <1>9, <2>2 DEF WorkerStops, TypeOK, Exchanging
    <2>4. reply' \in [Conns -> Seq(Frame)]
      BY <2>2 DEF TypeOK
    <2> QED
      BY <1>9, <2>1, <2>2, <2>3, <2>4 DEF WorkerStops, TypeOK, CallerStates
  <1>10. ASSUME NEW c \in Conns, Cleanup(c) PROVE TypeOK'
    BY <1>10 DEF Cleanup, RemoveGeneration, TypeOK, Exchanging
  <1>11. ASSUME NEW c \in Conns, Accept(c) PROVE TypeOK'
    BY <1>11 DEF Accept, TypeOK
  <1>12. ASSUME NEW c \in Conns, Serve(c) PROVE TypeOK'
    <2> DEFINE frame == Head(wire[c])
    <2>1. /\ frame \in Frame /\ Tail(wire[c]) \in Seq(Frame)
          /\ UNCHANGED <<clientVars, reply, caller>>
      BY <1>12 DEF Serve, TypeOK
    <2>2. CASE TypeChanged(assembled[c], frame)
      <3>1. StopServing(c) /\ closed' = closed \cup {c}
        BY <1>12, <2>2 DEF Serve
      <3> QED
        BY <2>1, <3>1, StopServingType DEF TypeOK
    <2>3. CASE ~TypeChanged(assembled[c], frame)
      <3>1. /\ wire' = [wire EXCEPT ![c] = Tail(@)]
            /\ assembled' = [assembled EXCEPT ![c] = IF frame.more THEN Pushed(assembled[c], frame) ELSE None]
            /\ UNCHANGED <<closed, serving>>
        BY <1>12, <2>3 DEF Serve
      <3>2. assembled' \in [Conns -> Message \cup {None}]
        BY <2>1, <3>1, PushedType DEF TypeOK
      <3>3. wire' \in [Conns -> Seq(Frame)]
        BY <2>1, <3>1 DEF TypeOK
      <3>4. \A frames \in {Frames(frame.type, frame.req, ResponseFrames[frame.req]),
                           Frames("ErrRes", frame.req, 1)} : frames \in Seq(Frame)
        <4>1. frame.type \in MessageTypes /\ frame.req \in Requests /\ "ErrRes" \in MessageTypes
          BY <2>1 DEF MessageTypes, Frame
        <4>2. ResponseFrames[frame.req] \in Nat \ {0}
          BY <4>1
        <4>3. Frames(frame.type, frame.req, ResponseFrames[frame.req]) \in Seq(Frame)
          BY <4>1, <4>2, FramesType
        <4>4. Frames("ErrRes", frame.req, 1) \in Seq(Frame)
          BY <4>1, FramesType
        <4> QED
          BY <4>3, <4>4
      <3>5. responses' \in [Conns -> Seq(Frame)]
        <4>1. \/ responses' = responses
              \/ \E frames \in {Frames(frame.type, frame.req, ResponseFrames[frame.req]),
                               Frames("ErrRes", frame.req, 1)} :
                   responses' = [responses EXCEPT ![c] = frames]
          BY <1>12, <2>3 DEF Serve
        <4>2. CASE responses' = responses
          BY <4>2 DEF TypeOK
        <4>3. ASSUME NEW frames \in Seq(Frame), responses' = [responses EXCEPT ![c] = frames]
              PROVE  responses' \in [Conns -> Seq(Frame)]
          BY <4>3 DEF TypeOK
        <4> QED
          BY <3>4, <4>1, <4>2, <4>3
      <3> QED
        BY <2>1, <3>1, <3>2, <3>3, <3>5 DEF TypeOK
    <2> QED
      BY <2>2, <2>3
  <1>13. ASSUME NEW c \in Conns, SendResponse(c) PROVE TypeOK'
    <2>1. Head(responses[c]) \in Frame /\ Tail(responses[c]) \in Seq(Frame)
      BY <1>13 DEF SendResponse, TypeOK
    <2>2. reply' \in [Conns -> Seq(Frame)]
      BY <1>13, <2>1 DEF SendResponse, TypeOK
    <2>3. responses' \in [Conns -> Seq(Frame)]
      BY <1>13, <2>1 DEF SendResponse, TypeOK
    <2> QED
      BY <1>13, <2>2, <2>3 DEF SendResponse, TypeOK
  <1>14. ASSUME NEW c \in Conns, ServerStops(c) PROVE TypeOK'
    BY <1>14, StopServingType DEF ServerStops, TypeOK
  <1>15. ASSUME NEW r \in Requests, Request(r) PROVE TypeOK'
    <2>1. PICK c \in Conns :
            caller' = [caller EXCEPT ![r] = [at |-> "sending", conn |-> c, answer |-> {}]]
      BY <1>15 DEF Request
    <2>2. [at |-> "sending", conn |-> c, answer |-> {}] \in CallerStates
      BY DEF CallerStates, Waiting
    <2>3. caller' \in [Requests -> CallerStates]
      BY <2>1, <2>2 DEF TypeOK, CallerStates
    <2> QED
      BY <1>15, <2>3 DEF Request, TypeOK, CallerStates
  <1>16. ASSUME NEW r \in Requests, Enqueue(r) PROVE TypeOK'
    <2>1. queue' \in [Conns -> {<<>>} \cup {<<q>> : q \in Requests}]
      BY <1>16 DEF Enqueue, TypeOK
    <2>2. caller' = [caller EXCEPT ![r].at = "waiting"]
      BY <1>16 DEF Enqueue
    <2>3. caller \in [Requests -> CallerStates]
      BY DEF TypeOK, CallerStates
    <2>4. caller' \in [Requests -> CallerStates]
      BY <2>2, <2>3, CallerWaits
    <2> QED
      BY <1>16, <2>1, <2>4 DEF Enqueue, TypeOK, CallerStates
  <1>17. ASSUME NEW r \in Requests, SessionClosed(r) PROVE TypeOK'
    BY <1>17 DEF SessionClosed, Ended, TypeOK
  <1>18. ASSUME NEW r \in Requests, CallerTimeout(r) PROVE TypeOK'
    BY <1>18 DEF CallerTimeout, Ended, TypeOK
  <1>19. CASE UNCHANGED vars
    BY <1>19 DEF TypeOK
  <1> QED
    BY <1>1, <1>2, <1>3, <1>4, <1>5, <1>6, <1>7, <1>8, <1>9, <1>10, <1>11, <1>12, <1>13,
       <1>14, <1>15, <1>16, <1>17, <1>18, <1>19
    DEF Next, WorkerStep, ServerStep

-----------------------------------------------------------------------------
\* Taking a frame off the front of a stream, and putting one at its end.
LEMMA TailFrames ==
  ASSUME NEW s \in Seq(Frame), s # <<>>
  PROVE  /\ Head(s) \in Frame /\ Tail(s) \in Seq(Frame)
         /\ \A r : Carries(s, r) => Head(s).req = r /\ Carries(Tail(s), r)
         /\ Unfinished(s) => Head(s).more /\ Unfinished(Tail(s))
         /\ Complete(s) /\ Head(s).more => Complete(Tail(s))
         /\ Complete(s) /\ ~Head(s).more => Tail(s) = <<>>
  <1>1. /\ Head(s) = s[1] /\ Len(s) \in Nat /\ Len(s) >= 1
        /\ Tail(s) \in Seq(Frame) /\ Len(Tail(s)) = Len(s) - 1
        /\ \A i \in 1..Len(Tail(s)) : i + 1 \in 1..Len(s) /\ Tail(s)[i] = s[i + 1]
    OBVIOUS
  <1>2. ASSUME NEW r, Carries(s, r) PROVE Head(s).req = r /\ Carries(Tail(s), r)
    <2>1. Head(s).req = r
      BY <1>1, <1>2 DEF Carries
    <2>2. \A i \in 1..Len(Tail(s)) : Tail(s)[i].req = r
      BY <1>1, <1>2 DEF Carries
    <2> QED
      BY <2>1, <2>2 DEF Carries
  <1>3. ASSUME Unfinished(s) PROVE Head(s).more /\ Unfinished(Tail(s))
    <2>1. Head(s).more
      BY <1>1, <1>3 DEF Unfinished
    <2>2. \A i \in 1..Len(Tail(s)) : Tail(s)[i].more
      BY <1>1, <1>3 DEF Unfinished
    <2> QED
      BY <2>1, <2>2 DEF Unfinished
  <1>4. ASSUME Complete(s), Head(s).more PROVE Complete(Tail(s))
    <2>1. 1 < Len(s)
      BY <1>1, <1>4 DEF Complete
    <2>2. Tail(s) # <<>>
      <3>1. Len(Tail(s)) = Len(s) - 1 /\ Len(s) \in Nat
        BY <1>1
      <3> DEFINE n == Len(s)
                 k == Len(Tail(s))
      <3>2. Len(<<>>) = 0
        OBVIOUS
      <3>3. k # 0
        <4>1. 1 < n /\ n \in Nat /\ k = n - 1
          BY <2>1, <3>1
        <4> HIDE DEF n, k
        <4> QED
          BY <4>1
      <3> QED
        BY <3>2, <3>3
    <2>3. ASSUME NEW i \in 1..Len(Tail(s)) PROVE Tail(s)[i].more <=> i < Len(Tail(s))
      <3>1. i + 1 \in 1..Len(s) /\ Tail(s)[i] = s[i + 1]
        BY <1>1
      <3>2. s[i + 1].more <=> i + 1 < Len(s)
        BY <1>4, <3>1 DEF Complete
      <3>3. i + 1 < Len(s) <=> i < Len(Tail(s))
        BY <1>1
      <3> QED
        BY <3>1, <3>2, <3>3
    <2> QED
      BY <2>2, <2>3 DEF Complete
  <1>5. ASSUME Complete(s), ~Head(s).more PROVE Tail(s) = <<>>
    <2>1. Len(s) = 1
      BY <1>1, <1>5 DEF Complete
    <2> QED
      BY <1>1, <2>1
  <1> QED
    BY <1>1, <1>2, <1>3, <1>4, <1>5

\* A stream of one request's frames with one more of its frames at the end.
LEMMA AppendFrame ==
  ASSUME NEW s \in Seq(Frame), NEW f \in Frame
  PROVE  /\ Append(s, f) \in Seq(Frame)
         /\ \A r : Carries(s, r) /\ f.req = r => Carries(Append(s, f), r)
         /\ Unfinished(s) /\ f.more => Unfinished(Append(s, f))
         /\ Unfinished(s) /\ ~f.more => Complete(Append(s, f))
  <1>1. /\ Append(s, f) \in Seq(Frame) /\ Append(s, f) # <<>>
        /\ Len(Append(s, f)) = Len(s) + 1 /\ Len(s) \in Nat
        /\ \A i \in 1..Len(s) : Append(s, f)[i] = s[i]
        /\ Append(s, f)[Len(s) + 1] = f
    OBVIOUS
  <1>2. \A i \in 1..Len(Append(s, f)) : i \in 1..Len(s) \/ i = Len(s) + 1
    BY <1>1
  <1>3. \A r : Carries(s, r) /\ f.req = r => Carries(Append(s, f), r)
    BY <1>1, <1>2 DEF Carries
  <1>4. Unfinished(s) /\ f.more => Unfinished(Append(s, f))
    BY <1>1, <1>2 DEF Unfinished
  <1>5. Unfinished(s) /\ ~f.more => Complete(Append(s, f))
    BY <1>1, <1>2 DEF Unfinished, Complete
  <1> QED
    BY <1>1, <1>3, <1>4, <1>5

\* An empty stream.
LEMMA EmptyFrames ==
  /\ <<>> \in Seq(Frame) /\ Unfinished(<<>>) /\ ~Complete(<<>>)
  /\ \A r : Carries(<<>>, r)
  BY DEF Unfinished, Carries, Complete

\* A frame added to a partial message of the same request.
LEMMA PushedPayload ==
  ASSUME NEW partial, NEW frame, NEW r, frame.req = r,
         partial # None => partial.payload = {r}
  PROVE  Pushed(partial, frame).payload = {r}
  <1>1. CASE partial = None
    BY <1>1 DEF Pushed
  <1>2. CASE partial # None
    BY <1>2 DEF Pushed
  <1> QED
    BY <1>1, <1>2

\* A connection whose part of the state does not change.
Untouched(d) ==
  /\ worker'[d] = worker[d] /\ job'[d] = job[d] /\ unsent'[d] = unsent[d]
  /\ decoder'[d] = decoder[d] /\ wire'[d] = wire[d] /\ reply'[d] = reply[d]
  /\ serving'[d] = serving[d] /\ assembled'[d] = assembled[d]
  /\ responses'[d] = responses[d]

\* Flow is about one connection's variables.
LEMMA UntouchedFlows == ASSUME NEW d \in Conns, Flow(d), Untouched(d) PROVE Flow(d)'
  <1>1. (Taken(d)' <=> Taken(d)) /\ (Silent(d)' <=> Silent(d))
    BY DEF Untouched, Taken, Silent
  <1>2. (Asked(d)' <=> Asked(d)) /\ (Answering(d)' <=> Answering(d))
    BY <1>1 DEF Untouched, Asked, Answering
  <1>3. (Answered(d)' <=> Answered(d)) /\ (Lost(d)' <=> Lost(d))
    BY <1>1 DEF Untouched, Answered, Lost
  <1>4. worker[d] \in Exchanging =>
          /\ \A frames \in {unsent'[d], wire'[d], responses'[d], reply'[d]} :
               Carries(frames, job'[d])
          /\ \A partial \in {assembled'[d], decoder'[d]} :
               partial # None => partial.payload = {job'[d]}
    BY DEF Untouched, Flow
  <1>5. worker[d] = "sending" => /\ Complete(unsent'[d]) /\ Unfinished(wire'[d])
                                 /\ responses'[d] = <<>> /\ reply'[d] = <<>>
    BY DEF Untouched, Flow
  <1> QED
    BY <1>1, <1>2, <1>3, <1>4, <1>5 DEF Untouched, Flow

\* Nothing flows initially.
LEMMA InitFlow == Init => \A c \in Conns : Flow(c)
  <1>1. SUFFICES ASSUME Init, NEW c \in Conns PROVE Flow(c)
    OBVIOUS
  <1>2. /\ worker[c] = "none" /\ serving[c] = "none"
        /\ decoder[c] = None /\ assembled[c] = None
        /\ unsent[c] = <<>> /\ wire[c] = <<>> /\ reply[c] = <<>> /\ responses[c] = <<>>
    BY <1>1 DEF Init
  <1> QED
    BY <1>2 DEF Flow, Silent, Exchanging

\* An exchange ends for good, or with nothing of its reply on the way.
LEMMA FinishFlows ==
  ASSUME TypeOK, \A d \in Conns : Flow(d),
         NEW c \in Conns, NEW result \in Results, NEW answer \in SUBSET Requests,
         NEW arrived \in [Conns -> Seq(Frame)], Finish(c, result, answer, arrived),
         UNCHANGED <<wire, serverVars>>,
         \A d \in Conns \ {c} : arrived[d] = reply[d],
         Fatal(result) \/ (Taken(c) /\ responses[c] = <<>> /\ arrived[c] = <<>>)
  PROVE  \A d \in Conns : Flow(d)'
  <1>1. /\ Stopped(c, arrived) \/ Rested(c, arrived)
        /\ Fatal(result) => Stopped(c, arrived)
        /\ Cleared(c)
    BY FinishLeaves
  <1>2. UNCHANGED <<wire, serving, assembled, responses>>
    BY DEF serverVars
  <1>3. ASSUME NEW d \in Conns \ {c} PROVE Flow(d)'
    <2>1. worker'[d] = worker[d] /\ reply'[d] = reply[d]
      BY <1>1 DEF Stopped, Rested, TypeOK
    <2>2. job'[d] = job[d] /\ unsent'[d] = unsent[d] /\ decoder'[d] = decoder[d]
      BY <1>1 DEF Cleared, TypeOK
    <2> QED
      BY <1>2, <2>1, <2>2, UntouchedFlows DEF Untouched
  <1>4. unsent'[c] = <<>> /\ decoder'[c] = None
    BY <1>1 DEF Cleared, TypeOK
  <1>5. serving'[c] = "over" => Taken(c)' /\ responses'[c] = <<>>
    BY <1>2 DEF Flow, Taken
  <1>6. CASE Stopped(c, arrived)
    <2>1. worker'[c] = "ended"
      BY <1>6 DEF Stopped, TypeOK
    <2> QED
      BY <1>3, <1>4, <1>5, <2>1 DEF Flow, Exchanging
  <1>7. CASE Rested(c, arrived) /\ Taken(c) /\ responses[c] = <<>> /\ arrived[c] = <<>>
    <2>1. worker'[c] = "idle" /\ Silent(c)'
      BY <1>2, <1>7 DEF Rested, TypeOK, Silent, Taken
    <2> QED
      BY <1>3, <1>4, <1>5, <2>1 DEF Flow, Exchanging
  <1> QED
    BY <1>1, <1>6, <1>7

\* What a worker puts together from a reply holds its own request's bytes, and no other's.
LEMMA ReplyOfJob ==
  ASSUME TypeOK, NEW c \in Conns, Flow(c), worker[c] = "receiving", reply[c] # <<>>
  PROVE  Extended(c) \in Message /\ Extended(c).payload = {job[c]}
  <1>1. Head(reply[c]) \in Frame /\ Head(reply[c]).req = job[c]
    BY TailFrames DEF Flow, Exchanging, TypeOK
  <1>2. decoder[c] \in Message \cup {None}
    BY DEF TypeOK
  <1>3. decoder[c] # None => decoder[c].payload = {job[c]}
    BY DEF Flow, Exchanging
  <1>4. Pushed(decoder[c], Head(reply[c])) \in Message
    BY <1>1, <1>2, PushedType
  <1>5. Pushed(decoder[c], Head(reply[c])).payload = {job[c]}
    BY <1>1, <1>3, PushedPayload
  <1> QED
    BY <1>4, <1>5 DEF Extended

\* Every step keeps what flows matched to the exchange.
LEMMA NextFlow ==
  TypeOK /\ (\A c \in Conns : Flow(c)) /\ [Next]_vars => \A c \in Conns : Flow(c)'
  <1> SUFFICES ASSUME TypeOK, \A d \in Conns : Flow(d), [Next]_vars
               PROVE  \A d \in Conns : Flow(d)'
    OBVIOUS
  <1> USE SessionAssumption DEF vars, clientVars, serverVars
  <1>1. ASSUME NEW c \in Conns, AddPeer(c) PROVE \A d \in Conns : Flow(d)'
    <2>1. \A d \in Conns \ {c} : Untouched(d)
      BY <1>1 DEF AddPeer, TypeOK, Untouched
    <2>2. worker[c] = "none" /\ worker'[c] \in {"refused", "idle"}
      BY <1>1 DEF AddPeer, TypeOK
    <2>3. Flow(c)'
      BY <1>1, <2>2 DEF AddPeer, Flow, Silent, Taken, Exchanging
    <2> QED
      BY <2>1, <2>3, UntouchedFlows
  <1>2. ASSUME UNCHANGED <<worker, job, unsent, decoder, wire, reply, serverVars>>
        PROVE  \A d \in Conns : Flow(d)'
    BY <1>2, UntouchedFlows DEF Untouched
  <1>3. ASSUME NEW c \in Conns, Take(c) PROVE \A d \in Conns : Flow(d)'
    <2> DEFINE r == Head(queue[c])
    <2>1. r \in Requests
      <3>1. queue[c] \in {<<q>> : q \in Requests}
        BY <1>3 DEF Take, TypeOK
      <3> QED
        BY <3>1
    <2>2. /\ worker[c] = "idle"
          /\ worker' = [worker EXCEPT ![c] = "sending"]
          /\ job' = [job EXCEPT ![c] = r]
          /\ unsent' = [unsent EXCEPT ![c] = Frames(TypeOf[r], r, RequestFrames[r])]
          /\ UNCHANGED <<decoder, wire, reply, serving, assembled, responses>>
      BY <1>3 DEF Take
    <2> HIDE DEF r
    <2>3. \A d \in Conns \ {c} : Untouched(d)
      BY <2>2 DEF TypeOK, Untouched
    <2>4. Silent(c) /\ decoder[c] = None
      BY <2>2 DEF Flow
    <2>5. Carries(unsent'[c], r) /\ Complete(unsent'[c])
      BY <2>1, <2>2, FramesType DEF TypeOK, MessageTypes
    <2>6. worker'[c] = "sending" /\ job'[c] = r /\ Silent(c)' /\ decoder'[c] = None
      BY <2>2, <2>4 DEF TypeOK, Silent
    <2>7. Flow(c)'
      BY <2>5, <2>6, EmptyFrames DEF Flow, Silent, Taken, Exchanging
    <2> QED
      BY <2>3, <2>7, UntouchedFlows
  <1>4. ASSUME NEW c \in Conns, SendFrame(c) PROVE \A d \in Conns : Flow(d)'
    <2> DEFINE f == Head(unsent[c])
    <2>1. \A d \in Conns \ {c} : Untouched(d)
      BY <1>4 DEF SendFrame, TypeOK, Untouched
    <2>2. /\ worker[c] = "sending" /\ Complete(unsent[c]) /\ Unfinished(wire[c])
          /\ responses[c] = <<>> /\ reply[c] = <<>> /\ decoder[c] = None
          /\ \A frames \in {unsent[c], wire[c]} : Carries(frames, job[c])
          /\ assembled[c] # None => assembled[c].payload = {job[c]}
          /\ serving[c] = "over" => Taken(c)
          /\ unsent[c] \in Seq(Frame) /\ unsent[c] # <<>> /\ wire[c] \in Seq(Frame)
      BY <1>4 DEF SendFrame, Flow, Exchanging, Complete, TypeOK
    <2>3. /\ wire'[c] = IF serving[c] = "over" THEN wire[c] ELSE Append(wire[c], f)
          /\ unsent'[c] = Tail(unsent[c])
          /\ worker'[c] = IF Tail(unsent[c]) = <<>> THEN "receiving" ELSE "sending"
          /\ UNCHANGED <<job, decoder, reply, serving, assembled, responses>>
      BY <1>4, <2>2 DEF SendFrame, TypeOK
    <2>4. /\ f \in Frame /\ f.req = job[c] /\ Carries(Tail(unsent[c]), job[c])
          /\ f.more => Complete(Tail(unsent[c]))
          /\ ~f.more => Tail(unsent[c]) = <<>>
      BY <2>2, TailFrames
    <2> HIDE DEF f
    <2>5. Carries(wire'[c], job[c])
      <3>1. Carries(wire[c], job[c])
        BY <2>2
      <3>2. Carries(Append(wire[c], f), job[c])
        BY <2>2, <2>4, <3>1, AppendFrame
      <3> QED
        BY <2>3, <3>1, <3>2
    <2>6. CASE f.more
      <3>1. Complete(unsent'[c]) /\ worker'[c] = "sending"
        BY <2>3, <2>4, <2>6 DEF Complete
      <3>2. Unfinished(wire'[c])
        BY <2>2, <2>3, <2>4, <2>6, AppendFrame
      <3>3. serving[c] = "over" => wire'[c] = <<>> /\ assembled[c] = None
        BY <2>2, <2>3 DEF Taken
      <3>4. Flow(c)'
        BY <2>2, <2>3, <2>4, <2>5, <3>1, <3>2, <3>3, EmptyFrames DEF Flow, Taken, Exchanging
      <3> QED
        BY <2>1, <3>4, UntouchedFlows
    <2>7. CASE ~f.more
      <3>1. unsent'[c] = <<>> /\ worker'[c] = "receiving"
        BY <2>3, <2>4, <2>7
      <3>2. Asked(c)' \/ Lost(c)'
        <4>1. CASE serving[c] = "over"
          BY <2>2, <2>3, <4>1, EmptyFrames DEF Lost, Taken
        <4>2. CASE serving[c] # "over"
          BY <2>2, <2>3, <2>4, <2>7, <4>2, AppendFrame DEF Asked
        <4> QED
          BY <4>1, <4>2
      <3>3. serving[c] = "over" => wire'[c] = <<>> /\ assembled[c] = None
        BY <2>2, <2>3 DEF Taken
      <3>4. Flow(c)'
        BY <2>2, <2>3, <2>5, <3>1, <3>2, <3>3, EmptyFrames DEF Flow, Taken, Exchanging
      <3> QED
        BY <2>1, <3>4, UntouchedFlows
    <2> QED
      BY <2>6, <2>7
  <1>5. ASSUME NEW c \in Conns, ReceiveFrame(c) PROVE \A d \in Conns : Flow(d)'
    <2> DEFINE f == Head(reply[c])
    <2>1. /\ worker[c] = "receiving" /\ reply[c] # <<>> /\ UNCHANGED <<wire, serverVars>>
          /\ reply[c] \in Seq(Frame)
      BY <1>5, ReceiveCases DEF TypeOK
    <2>2. /\ f \in Frame /\ Tail(reply[c]) \in Seq(Frame)
          /\ f.req = job[c] /\ Carries(Tail(reply[c]), job[c])
          /\ Unfinished(reply[c]) => f.more /\ Unfinished(Tail(reply[c]))
          /\ Complete(reply[c]) /\ f.more => Complete(Tail(reply[c]))
          /\ Complete(reply[c]) /\ ~f.more => Tail(reply[c]) = <<>>
      BY <2>1, TailFrames DEF Flow, Exchanging
    <2>3. /\ Left(c) \in [Conns -> Seq(Frame)] /\ Left(c)[c] = Tail(reply[c])
          /\ \A d \in Conns \ {c} : Left(c)[d] = reply[d]
      BY <2>2 DEF Left, TypeOK
    <2>4. Extended(c) \in Message /\ Extended(c).payload = {job[c]}
      BY <2>1, ReplyOfJob
    <2>5. job[c] \in Requests
      BY <2>1 DEF TypeOK, Exchanging
    <2>6. ASSUME Finish(c, "Protocol", {}, Left(c)) PROVE \A d \in Conns : Flow(d)'
      <3>1. "Protocol" \in Results /\ Fatal("Protocol") /\ {} \in SUBSET Requests
        BY DEF Results, Fatal
      <3> QED
        BY <2>1, <2>3, <2>6, <3>1, FinishFlows
    <2>7. CASE Kept(c)
      <3>1. \A d \in Conns \ {c} : Untouched(d)
        BY <2>1, <2>3, <2>7 DEF Kept, Untouched, TypeOK
      <3>2. /\ decoder'[c] = Extended(c) /\ reply'[c] = Tail(reply[c]) /\ f.more
            /\ UNCHANGED <<worker, job, unsent, wire, serving, assembled, responses>>
        BY <2>1, <2>3, <2>7 DEF Kept, TypeOK
      <3>3. Answering(c)' \/ Answered(c)' \/ Lost(c)'
        <4>1. Answering(c) \/ Answered(c) \/ Lost(c)
          BY <2>1 DEF Flow, Asked
        <4> QED
          BY <2>2, <3>2, <4>1 DEF Answering, Answered, Lost, Taken
      <3>4. Flow(c)'
        BY <2>1, <2>2, <2>4, <3>2, <3>3 DEF Flow, Taken, Exchanging
      <3> QED
        BY <3>1, <3>4, UntouchedFlows
    <2>8. ASSUME ~f.more, NEW result \in {"Remote", "Ok", "Protocol"},
                 Finish(c, result, Extended(c).payload, Left(c))
          PROVE  \A d \in Conns : Flow(d)'
      <3>1. Answered(c)
        BY <2>1, <2>2, <2>8 DEF Flow, Asked, Answering, Lost
      <3>2. Taken(c) /\ responses[c] = <<>> /\ Left(c)[c] = <<>>
        BY <2>2, <2>3, <2>8, <3>1 DEF Answered
      <3>3. result \in Results /\ Extended(c).payload \in SUBSET Requests
        BY <2>4, <2>5 DEF Results
      <3> QED
        BY <2>1, <2>3, <2>8, <3>2, <3>3, FinishFlows
    <2> QED
      BY <1>5, <2>6, <2>7, <2>8, ReceiveCases
  <1>6. ASSUME NEW c \in Conns, WorkerTimeout(c) PROVE \A d \in Conns : Flow(d)'
    BY <1>6, FinishFlows DEF WorkerTimeout, TypeOK, Results, Fatal
  <1>7. ASSUME NEW c \in Conns, Interrupted(c) PROVE \A d \in Conns : Flow(d)'
    BY <1>7, FinishFlows DEF Interrupted, TypeOK, Results, Fatal
  <1>8. ASSUME NEW c \in Conns, WorkerStops(c) PROVE \A d \in Conns : Flow(d)'
    <2>1. \A d \in Conns \ {c} : Untouched(d)
      BY <1>8 DEF WorkerStops, Drop, Untouched, TypeOK
    <2>2. worker'[c] = "ended" /\ worker[c] = "idle"
      BY <1>8 DEF WorkerStops, Drop, TypeOK
    <2>3. Flow(c)'
      BY <1>8, <2>2 DEF WorkerStops, Flow, Taken, Exchanging
    <2> QED
      BY <2>1, <2>3, UntouchedFlows
  <1>9. ASSUME NEW c \in Conns, Cleanup(c) PROVE \A d \in Conns : Flow(d)'
    <2>1. \A d \in Conns \ {c} : Untouched(d)
      BY <1>9 DEF Cleanup, Untouched, TypeOK
    <2>2. worker'[c] = "gone" /\ worker[c] = "ended"
      BY <1>9 DEF Cleanup, TypeOK
    <2>3. Flow(c)'
      BY <1>9, <2>2 DEF Cleanup, Flow, Taken, Exchanging
    <2> QED
      BY <2>1, <2>3, UntouchedFlows
  <1>10. ASSUME NEW c \in Conns, Accept(c) PROVE \A d \in Conns : Flow(d)'
    <2>1. \A d \in Conns \ {c} : Untouched(d)
      BY <1>10 DEF Accept, Untouched, TypeOK
    <2>2. serving'[c] = "on" /\ serving[c] = "none"
      BY <1>10 DEF Accept, TypeOK
    <2>3. Flow(c)'
      BY <1>10, <2>2 DEF Accept, Flow, Silent, Asked, Taken, Answering, Answered, Lost
    <2> QED
      BY <2>1, <2>3, UntouchedFlows
  <1>11. ASSUME NEW c \in Conns, StopServing(c), UNCHANGED <<clientVars, reply>>
         PROVE  \A d \in Conns : Flow(d)'
    <2>1. \A d \in Conns \ {c} : Untouched(d)
      BY <1>11 DEF StopServing, Untouched, TypeOK
    <2>2. serving'[c] = "over" /\ Taken(c)' /\ responses'[c] = <<>>
      BY <1>11 DEF StopServing, Taken, TypeOK
    <2>3. worker[c] = "receiving" => Answered(c)' \/ Lost(c)'
      BY <1>11, <2>2, EmptyFrames DEF Flow, Asked, Answering, Answered, Lost
    <2>4. Flow(c)'
      BY <1>11, <2>2, <2>3, EmptyFrames DEF Flow, Silent, Taken
    <2> QED
      BY <2>1, <2>4, UntouchedFlows
  <1>12. ASSUME NEW c \in Conns, Serve(c) PROVE \A d \in Conns : Flow(d)'
    <2> DEFINE f == Head(wire[c])
    <2>1. CASE TypeChanged(assembled[c], f)
      BY <1>11, <1>12, <2>1 DEF Serve
    <2>2. CASE ~TypeChanged(assembled[c], f)
      <3>1. /\ serving[c] = "on" /\ responses[c] = <<>> /\ wire[c] # <<>>
            /\ wire' = [wire EXCEPT ![c] = Tail(@)]
            /\ assembled' = [assembled EXCEPT
                               ![c] = IF f.more THEN Pushed(assembled[c], f) ELSE None]
            /\ UNCHANGED <<clientVars, reply, serving>>
        BY <1>12, <2>2 DEF Serve
      <3>2. \/ f.more /\ responses' = responses
            \/ /\ ~f.more
               /\ \E frames \in {Frames(f.type, f.req, ResponseFrames[f.req]),
                                Frames("ErrRes", f.req, 1)} :
                    responses' = [responses EXCEPT ![c] = frames]
        BY <1>12, <2>2 DEF Serve
      <3>3. \A d \in Conns \ {c} : Untouched(d)
        BY <3>1, <3>2 DEF Untouched, TypeOK
      <3>4. /\ f \in Frame /\ Tail(wire[c]) \in Seq(Frame)
            /\ \A r : Carries(wire[c], r) => f.req = r /\ Carries(Tail(wire[c]), r)
            /\ Unfinished(wire[c]) => f.more /\ Unfinished(Tail(wire[c]))
            /\ Complete(wire[c]) /\ f.more => Complete(Tail(wire[c]))
            /\ Complete(wire[c]) /\ ~f.more => Tail(wire[c]) = <<>>
        BY <3>1, TailFrames DEF TypeOK
      <3>5. /\ wire'[c] = Tail(wire[c])
            /\ assembled'[c] = IF f.more THEN Pushed(assembled[c], f) ELSE None
        BY <3>1 DEF TypeOK
      <3>6. CASE worker[c] \notin Exchanging
        BY <3>1, <3>3, <3>6, UntouchedFlows DEF Flow, Silent, Exchanging
      <3>7. CASE worker[c] \in Exchanging
        <4>1. f.req = job[c] /\ Carries(wire'[c], job[c])
          BY <3>4, <3>5, <3>7 DEF Flow
        <4>2. assembled'[c] # None => assembled'[c].payload = {job[c]}
          <5>1. assembled[c] # None => assembled[c].payload = {job[c]}
            BY <3>7 DEF Flow
          <5>2. Pushed(assembled[c], f).payload = {job[c]}
            BY <4>1, <5>1, PushedPayload
          <5> QED
            BY <3>5, <5>2
        <4>3. CASE f.more
          <5>1. UNCHANGED responses
            BY <3>2, <4>3
          <5>2. worker[c] = "sending" => Unfinished(wire'[c])
            BY <3>4, <3>5 DEF Flow
          <5>3. worker[c] = "receiving" => Asked(c)'
            BY <3>1, <3>4, <3>5, <4>3, <5>1 DEF Flow, Asked, Answering, Answered, Lost, Taken
          <5>4. Flow(c)'
            BY <3>1, <3>7, <4>1, <4>2, <5>1, <5>2, <5>3 DEF Flow, Exchanging
          <5> QED
            BY <3>3, <5>4, UntouchedFlows
        <4>4. CASE ~f.more
          <5>1. worker[c] = "receiving" /\ Asked(c)
            BY <3>1, <3>4, <3>7, <4>4
            DEF Flow, Exchanging, Asked, Answering, Answered, Lost, Taken
          <5>2. Taken(c)'
            BY <3>4, <3>5, <4>4, <5>1 DEF Taken, Asked
          <5>3. Complete(responses'[c]) /\ Carries(responses'[c], job[c])
            <6>1. f.type \in MessageTypes /\ "ErrRes" \in MessageTypes /\ job[c] \in Requests
              BY <3>4, <4>1 DEF MessageTypes, Frame
            <6>2. ResponseFrames[job[c]] \in Nat \ {0}
              BY <6>1
            <6>3. \A frames \in {Frames(f.type, f.req, ResponseFrames[f.req]),
                                Frames("ErrRes", f.req, 1)} :
                    Complete(frames) /\ Carries(frames, job[c])
              BY <4>1, <6>1, <6>2, FramesType
            <6> QED
              BY <3>2, <4>4, <6>3 DEF TypeOK
          <5>4. Answering(c)'
            BY <3>1, <5>1, <5>2, <5>3, EmptyFrames DEF Answering, Asked
          <5>5. Flow(c)'
            BY <3>1, <3>7, <4>1, <4>2, <5>1, <5>2, <5>3, <5>4 DEF Flow, Exchanging
          <5> QED
            BY <3>3, <5>5, UntouchedFlows
        <4> QED
          BY <4>3, <4>4
      <3> QED
        BY <3>6, <3>7
    <2> QED
      BY <2>1, <2>2
  <1>13. ASSUME NEW c \in Conns, SendResponse(c) PROVE \A d \in Conns : Flow(d)'
    <2> DEFINE f == Head(responses[c])
    <2>1. \A d \in Conns \ {c} : Untouched(d)
      BY <1>13 DEF SendResponse, Untouched, TypeOK
    <2>2. /\ serving[c] = "on" /\ responses[c] # <<>> /\ worker[c] \notin {"ended", "gone", "refused"}
          /\ reply'[c] = Append(reply[c], f) /\ responses'[c] = Tail(responses[c])
          /\ UNCHANGED <<clientVars, wire, serving, assembled>>
          /\ reply[c] \in Seq(Frame) /\ responses[c] \in Seq(Frame)
      BY <1>13 DEF SendResponse, ClientGone, TypeOK
    <2>3. worker[c] = "receiving" /\ Answering(c)
      <3>1. worker[c] \in {"none", "refused", "idle", "ended", "gone"} \cup Exchanging
        BY DEF TypeOK
      <3> QED
        BY <2>2, <3>1 DEF Flow, Silent, Asked, Answered, Lost, Exchanging
    <2>4. /\ f \in Frame /\ f.req = job[c] /\ Carries(Tail(responses[c]), job[c])
          /\ f.more => Complete(Tail(responses[c]))
          /\ ~f.more => Tail(responses[c]) = <<>>
      BY <2>2, <2>3, TailFrames DEF Flow, Exchanging, Answering
    <2>5. Carries(reply'[c], job[c])
      <3>1. Carries(reply[c], job[c])
        BY <2>3 DEF Flow, Exchanging
      <3> HIDE DEF f
      <3>2. Carries(Append(reply[c], f), job[c])
        BY <2>2, <2>4, <3>1, AppendFrame
      <3> QED
        BY <2>2, <3>2
    <2>6. Answering(c)' \/ Answered(c)'
      <3>1. CASE f.more
        BY <2>2, <2>3, <2>4, <3>1, AppendFrame DEF Answering, Taken
      <3>2. CASE ~f.more
        BY <2>2, <2>3, <2>4, <3>2, AppendFrame DEF Answering, Answered, Taken
      <3> QED
        BY <3>1, <3>2
    <2>7. Flow(c)'
      BY <2>2, <2>3, <2>4, <2>5, <2>6 DEF Flow, Exchanging
    <2> QED
      BY <2>1, <2>7, UntouchedFlows
  <1>14. ASSUME NEW c \in Conns, ServerStops(c) PROVE \A d \in Conns : Flow(d)'
    BY <1>11, <1>14 DEF ServerStops
  <1>15. ASSUME NEW c \in Conns, RemovePeer(c) \/ Disconnect(c) PROVE \A d \in Conns : Flow(d)'
    BY <1>2, <1>15 DEF RemovePeer, Disconnect
  <1>16. ASSUME NEW r \in Requests, Request(r) \/ Enqueue(r) \/ SessionClosed(r) \/ CallerTimeout(r)
         PROVE  \A d \in Conns : Flow(d)'
    BY <1>2, <1>16 DEF Request, Enqueue, SessionClosed, CallerTimeout
  <1>17. CASE UNCHANGED vars
    BY <1>2, <1>17
  <1> QED
    BY <1>1, <1>3, <1>4, <1>5, <1>6, <1>7, <1>8, <1>9, <1>10, <1>12, <1>13, <1>14, <1>15,
       <1>16, <1>17
    DEF Next, WorkerStep, ServerStep

-----------------------------------------------------------------------------
\* AnswersMatch, of any table of callers.
Right(state) ==
  \A r \in Requests : state[r].at \in {"Ok", "Remote"} => state[r].answer = {r}

\* Telling callers keeps every answer right, if a good result tells the one it answers.
LEMMA ToldRight ==
  ASSUME NEW state, NEW rs, NEW result, NEW answer, Right(state),
         result \in {"Ok", "Remote"} => \A r \in rs : answer = {r}
  PROVE  Right(Told(state, rs, result, answer))
  BY DEF Right, Told

\* The end of an exchange tells its request, and those in the queue of a worker that stops.
LEMMA FinishTells ==
  ASSUME NEW c \in Conns, NEW result, NEW answer, NEW arrived,
         Finish(c, result, answer, arrived)
  PROVE  LET told == Told(caller, {job[c]}, result, answer)
             queued == {queue[c][i] : i \in DOMAIN queue[c]}
         IN  \/ Rested(c, arrived) /\ caller' = told
             \/ Stopped(c, arrived) /\ caller' = Told(told, queued, "Disconnected", {})
  BY DEF Finish, Drop, Rested, Stopped

\* An exchange ends with right answers, if its good result is the request's own.
LEMMA FinishRight ==
  ASSUME AnswersMatch, NEW c \in Conns, NEW result, NEW answer, NEW arrived,
         Finish(c, result, answer, arrived),
         result \in {"Ok", "Remote"} => answer = {job[c]}
  PROVE  AnswersMatch'
  <1> DEFINE told == Told(caller, {job[c]}, result, answer)
             queued == {queue[c][i] : i \in DOMAIN queue[c]}
  <1>1. Right(told)
    BY ToldRight DEF AnswersMatch, Right
  <1> HIDE DEF told
  <1>2. Right(Told(told, queued, "Disconnected", {}))
    BY <1>1, ToldRight
  <1>3. caller' = told \/ caller' = Told(told, queued, "Disconnected", {})
    BY FinishTells DEF told
  <1>4. Right(caller')
    BY <1>1, <1>2, <1>3
  <1> QED
    BY <1>4 DEF AnswersMatch, Right

\* A step keeps the answers right.
LEMMA NextAnswers == IInv /\ [Next]_vars => AnswersMatch'
  <1> SUFFICES ASSUME IInv, [Next]_vars PROVE AnswersMatch'
    OBVIOUS
  <1> USE DEF IInv
  <1>1. ASSUME UNCHANGED caller PROVE AnswersMatch'
    BY <1>1 DEF AnswersMatch
  <1>2. ASSUME NEW c \in Conns, ReceiveFrame(c) PROVE AnswersMatch'
    <2>1. worker[c] = "receiving" /\ reply[c] # <<>>
      BY <1>2, ReceiveCases
    <2>2. Extended(c).payload = {job[c]}
      BY <2>1, ReplyOfJob
    <2>3. CASE Finish(c, "Protocol", {}, Left(c))
      BY <2>3, FinishRight
    <2>4. CASE Kept(c)
      BY <1>1, <2>4 DEF Kept
    <2>5. ASSUME NEW result \in {"Remote", "Ok", "Protocol"},
                 Finish(c, result, Extended(c).payload, Left(c))
          PROVE  AnswersMatch'
      BY <2>2, <2>5, FinishRight
    <2> QED
      BY <1>2, <2>3, <2>4, <2>5, ReceiveCases
  <1>3. ASSUME NEW c \in Conns, WorkerTimeout(c) PROVE AnswersMatch'
    BY <1>3, FinishRight DEF WorkerTimeout
  <1>4. ASSUME NEW c \in Conns, Interrupted(c) PROVE AnswersMatch'
    BY <1>4, FinishRight DEF Interrupted
  <1>5. ASSUME NEW c \in Conns, WorkerStops(c) PROVE AnswersMatch'
    <2> DEFINE queued == {queue[c][i] : i \in DOMAIN queue[c]}
    <2>1. caller' = Told(caller, queued, "Disconnected", {})
      BY <1>5 DEF WorkerStops, Drop
    <2>2. Right(Told(caller, queued, "Disconnected", {}))
      BY ToldRight DEF AnswersMatch, Right
    <2> QED
      BY <2>1, <2>2 DEF AnswersMatch, Right
  <1>6. ASSUME NEW c \in Conns,
               \/ AddPeer(c) \/ RemovePeer(c) \/ Disconnect(c) \/ Take(c) \/ SendFrame(c)
               \/ Cleanup(c) \/ Accept(c) \/ ServerStep(c)
        PROVE  AnswersMatch'
    <2>1. UNCHANGED caller
      BY <1>6 DEF AddPeer, RemovePeer, Disconnect, Take, SendFrame, Cleanup, Accept,
                  ServerStep, Serve, SendResponse, ServerStops
    <2> QED
      BY <1>1, <2>1
  <1>7. ASSUME NEW r \in Requests, Request(r) \/ Enqueue(r) \/ SessionClosed(r) \/ CallerTimeout(r)
        PROVE  AnswersMatch'
    <2>1. /\ \A q \in Requests \ {r} : caller'[q] = caller[q]
          /\ caller'[r].at \notin {"Ok", "Remote"}
      BY <1>7 DEF Request, Enqueue, SessionClosed, CallerTimeout, Ended, TypeOK
    <2> QED
      BY <2>1 DEF AnswersMatch
  <1>8. CASE UNCHANGED vars
    BY <1>1, <1>8 DEF vars
  <1> QED
    BY <1>2, <1>3, <1>4, <1>5, <1>6, <1>7, <1>8 DEF Next, WorkerStep

-----------------------------------------------------------------------------
\* A caller's request is in the queue of a worker, or in its hands.
Held(r) ==
  LET c == caller[r].conn IN
  /\ worker[c] \in {"idle"} \cup Exchanging
  /\ queue[c] = <<r>> \/ job[c] = r

\* Nothing happens to the worker of a connection and its channel.
Busy(c) == worker'[c] = worker[c] /\ queue'[c] = queue[c] /\ job'[c] = job[c]

\* Who still waits after callers were told has not been told.
LEMMA ToldWaiting ==
  ASSUME NEW state, NEW rs, NEW result \in Results, NEW answer, NEW r \in Requests,
         Told(state, rs, result, answer)[r].at \in Waiting
  PROVE  /\ Told(state, rs, result, answer)[r] = state[r]
         /\ state[r].at = "waiting" => r \notin rs
  BY DEF Told, Results, Waiting

\* The end of an exchange: who still waits is held, and where it was.
LEMMA FinishHeld ==
  ASSUME TypeOK, Placed, WaitingIsHeld, NEW c \in Conns, NEW result \in Results, NEW answer,
         NEW arrived, Finish(c, result, answer, arrived), Cleared(c)
  PROVE  Placed' /\ WaitingIsHeld'
  <1> DEFINE told == Told(caller, {job[c]}, result, answer)
             queued == {queue[c][i] : i \in DOMAIN queue[c]}
  <1>1. ASSUME NEW r \in Requests, caller'[r].at \in Waiting
        PROVE  /\ caller'[r] = caller[r]
               /\ caller[r].at = "waiting" => r # job[c] /\ (Rested(c, arrived) \/ r \notin queued)
    <2>1. CASE Rested(c, arrived) /\ caller' = told
      BY <1>1, <2>1, ToldWaiting
    <2>2. CASE Stopped(c, arrived) /\ caller' = Told(told, queued, "Disconnected", {})
      <3> HIDE DEF told, queued
      <3> DEFINE after == Told(told, queued, "Disconnected", {})
      <3>0. after[r].at \in Waiting /\ "Disconnected" \in Results
        BY <1>1, <2>2 DEF Results
      <3>1. caller'[r] = told[r] /\ (told[r].at = "waiting" => r \notin queued)
        BY <2>2, <3>0, ToldWaiting
      <3>2. told[r] = caller[r] /\ (caller[r].at = "waiting" => r # job[c])
        BY <1>1, <3>1, ToldWaiting DEF told
      <3> QED
        BY <3>1, <3>2
    <2> QED
      BY <2>1, <2>2, FinishTells
  <1>2. Placed'
    BY <1>1 DEF Placed
  <1>3. \A d \in Conns \ {c} : Busy(d)
    <2>1. Rested(c, arrived) \/ Stopped(c, arrived)
      BY FinishTells
    <2> QED
      BY <2>1 DEF Rested, Stopped, Cleared, Busy, TypeOK
  <1>4. ASSUME NEW r \in Requests, caller'[r].at = "waiting" PROVE Held(r)'
    <2>1. /\ caller'[r] = caller[r] /\ caller[r].at = "waiting"
          /\ r # job[c] /\ (Rested(c, arrived) \/ r \notin queued)
      BY <1>1, <1>4 DEF Waiting
    <2>2. caller[r].conn \in Conns /\ Held(r)
      BY <2>1 DEF Placed, WaitingIsHeld, Held, Waiting
    <2>3. CASE caller[r].conn # c
      BY <1>3, <2>1, <2>2, <2>3 DEF Held, Busy
    <2>4. CASE caller[r].conn = c
      <3>1. queue[c] = <<r>>
        BY <2>1, <2>2, <2>4 DEF Held
      <3>2. r \in queued
        BY <3>1
      <3>3. worker'[c] = "idle" /\ queue'[c] = <<r>>
        BY <2>1, <3>1, <3>2 DEF Rested, TypeOK
      <3> QED
        BY <2>1, <2>4, <3>3 DEF Held
    <2> QED
      BY <2>3, <2>4
  <1> QED
    BY <1>2, <1>4 DEF WaitingIsHeld, Held

\* A request that waits at a connection where nothing happens is held as before.
LEMMA HeldElsewhere ==
  ASSUME Placed, WaitingIsHeld, NEW r \in Requests, caller'[r] = caller[r],
         Busy(caller[r].conn)
  PROVE  caller'[r].at = "waiting" => Held(r)'
  BY DEF WaitingIsHeld, Held, Busy

\* A step leaves who waits in the queue or the hands of a worker.
LEMMA NextHeld == IInv /\ [Next]_vars => Placed' /\ WaitingIsHeld'
  <1> SUFFICES ASSUME IInv, [Next]_vars PROVE Placed' /\ WaitingIsHeld'
    OBVIOUS
  <1> USE DEF IInv
  <1>1. ASSUME UNCHANGED <<worker, queue, job, caller>> PROVE Placed' /\ WaitingIsHeld'
    BY <1>1 DEF Placed, WaitingIsHeld
  <1>2. ASSUME NEW c \in Conns, worker[c] \notin {"idle"} \cup Exchanging,
               worker' = [worker EXCEPT ![c] = worker'[c]],
               UNCHANGED <<queue, job, caller>>
        PROVE  Placed' /\ WaitingIsHeld'
    <2>1. \A d \in Conns \ {c} : Busy(d)
      BY <1>2 DEF Busy, TypeOK
    <2>2. Placed'
      BY <1>2 DEF Placed
    <2>3. ASSUME NEW r \in Requests, caller[r].at = "waiting" PROVE Held(r)'
      <3>1. caller[r].conn \in Conns \ {c}
        BY <1>2, <2>3 DEF Placed, WaitingIsHeld, Waiting
      <3> QED
        BY <1>2, <2>1, <2>3, <3>1, HeldElsewhere
    <2> QED
      BY <1>2, <2>2, <2>3 DEF WaitingIsHeld, Held
  <1>3. ASSUME NEW c \in Conns, Take(c) PROVE Placed' /\ WaitingIsHeld'
    <2>1. \A d \in Conns \ {c} : Busy(d)
      BY <1>3 DEF Take, Busy, TypeOK
    <2>2. Placed'
      BY <1>3 DEF Take, Placed
    <2>3. job[c] = None /\ worker'[c] = "sending" /\ job'[c] = Head(queue[c])
      BY <1>3 DEF Take, TypeOK, Exchanging
    <2>4. ASSUME NEW r \in Requests, caller[r].at = "waiting" PROVE Held(r)'
      <3>1. caller[r].conn \in Conns /\ Held(r) /\ caller'[r] = caller[r]
        BY <1>3, <2>4 DEF Placed, WaitingIsHeld, Held, Waiting, Take
      <3>2. CASE caller[r].conn # c
        BY <2>1, <2>4, <3>1, <3>2, HeldElsewhere
      <3>3. CASE caller[r].conn = c
        <4>1. queue[c] = <<r>>
          BY <2>3, <3>1, <3>3, SessionAssumption DEF Held
        <4>2. job'[c] = r
          BY <2>3, <4>1
        <4> QED
          BY <2>3, <3>1, <3>3, <4>2 DEF Held, Exchanging
      <3> QED
        BY <3>2, <3>3
    <2> QED
      BY <1>3, <2>2, <2>4 DEF WaitingIsHeld, Held, Take
  <1>4. ASSUME NEW c \in Conns, SendFrame(c) PROVE Placed' /\ WaitingIsHeld'
    <2>1. /\ UNCHANGED <<queue, job, caller>>
          /\ worker' = [worker EXCEPT ![c] = worker'[c]]
          /\ worker'[c] \in Exchanging
      BY <1>4 DEF SendFrame, TypeOK, Exchanging
    <2>2. \A d \in Conns : worker[d] \in {"idle"} \cup Exchanging
                           => worker'[d] \in {"idle"} \cup Exchanging
      BY <2>1 DEF TypeOK
    <2> QED
      BY <2>1, <2>2 DEF Placed, WaitingIsHeld, Waiting
  <1>5. ASSUME NEW c \in Conns, ReceiveFrame(c) PROVE Placed' /\ WaitingIsHeld'
    <2>1. worker[c] = "receiving" /\ reply[c] # <<>>
      BY <1>5, ReceiveCases
    <2>2. Extended(c).payload = {job[c]}
      BY <2>1, ReplyOfJob
    <2>3. job[c] \in Requests
      BY <2>1 DEF TypeOK, Exchanging
    <2>4. ASSUME NEW result \in {"Remote", "Ok", "Protocol"}, NEW answer \in SUBSET Requests,
                 Finish(c, result, answer, Left(c))
          PROVE  Placed' /\ WaitingIsHeld'
      <3>1. result \in Results
        BY DEF Results
      <3>2. Cleared(c)
        BY <2>4, <3>1, FinishLeaves
      <3> QED
        BY <2>4, <3>1, <3>2, FinishHeld
    <2>5. CASE Kept(c)
      BY <1>1, <2>5 DEF Kept
    <2> QED
      BY <1>5, <2>2, <2>3, <2>4, <2>5, ReceiveCases
  <1>6. ASSUME NEW c \in Conns, NEW result \in Results, Finish(c, result, {}, reply)
        PROVE  Placed' /\ WaitingIsHeld'
    <2>1. Cleared(c)
      BY <1>6, FinishLeaves
    <2> QED
      BY <1>6, <2>1, FinishHeld
  <1>7. ASSUME NEW c \in Conns, WorkerTimeout(c) \/ Interrupted(c) PROVE Placed' /\ WaitingIsHeld'
    BY <1>6, <1>7 DEF WorkerTimeout, Interrupted, Results
  <1>8. ASSUME NEW c \in Conns, WorkerStops(c) PROVE Placed' /\ WaitingIsHeld'
    <2> DEFINE queued == {queue[c][i] : i \in DOMAIN queue[c]}
    <2>1. caller' = Told(caller, queued, "Disconnected", {}) /\ job[c] = None
      BY <1>8 DEF WorkerStops, Drop, TypeOK, Exchanging
    <2>2. \A d \in Conns \ {c} : Busy(d)
      BY <1>8 DEF WorkerStops, Drop, Busy, TypeOK
    <2>3. ASSUME NEW r \in Requests, caller'[r].at \in Waiting
          PROVE  caller'[r] = caller[r] /\ (caller[r].at = "waiting" => r \notin queued)
      <3> HIDE DEF queued
      <3>1. Told(caller, queued, "Disconnected", {})[r].at \in Waiting /\ "Disconnected" \in Results
        BY <2>1, <2>3 DEF Results
      <3> QED
        BY <2>1, <3>1, ToldWaiting
    <2>4. Placed'
      BY <2>3 DEF Placed
    <2>5. ASSUME NEW r \in Requests, caller'[r].at = "waiting" PROVE Held(r)'
      <3>1. caller'[r] = caller[r] /\ r \notin queued
        BY <2>3, <2>5 DEF Waiting
      <3>2. caller[r].conn \in Conns /\ Held(r)
        BY <2>5, <3>1 DEF Placed, WaitingIsHeld, Held, Waiting
      <3>3. caller[r].conn # c
        BY <2>1, <3>1, <3>2, SessionAssumption DEF Held
      <3> QED
        BY <2>2, <2>5, <3>1, <3>2, <3>3, HeldElsewhere
    <2> QED
      BY <2>4, <2>5 DEF WaitingIsHeld, Held
  <1>9. ASSUME NEW c \in Conns, AddPeer(c) \/ Cleanup(c) PROVE Placed' /\ WaitingIsHeld'
    BY <1>2, <1>9 DEF AddPeer, Cleanup, TypeOK, Exchanging
  <1>10. ASSUME NEW c \in Conns, RemovePeer(c) \/ Disconnect(c) \/ Accept(c) \/ ServerStep(c)
         PROVE  Placed' /\ WaitingIsHeld'
    BY <1>1, <1>10 DEF RemovePeer, Disconnect, Accept, ServerStep, Serve, SendResponse,
                       ServerStops, clientVars
  <1>11. ASSUME NEW r \in Requests, Request(r) \/ SessionClosed(r) \/ CallerTimeout(r)
         PROVE  Placed' /\ WaitingIsHeld'
    <2>1. /\ \A q \in Requests \ {r} : caller'[q] = caller[q]
          /\ caller'[r].at # "waiting"
          /\ caller'[r].at \in Waiting => caller'[r].conn \in Conns
          /\ UNCHANGED <<worker, queue, job>>
      BY <1>11 DEF Request, SessionClosed, CallerTimeout, Ended, TypeOK, clientVars, Waiting
    <2> QED
      BY <2>1 DEF Placed, WaitingIsHeld
  <1>12. ASSUME NEW r \in Requests, Enqueue(r) PROVE Placed' /\ WaitingIsHeld'
    <2> DEFINE c == caller[r].conn
    <2>1. /\ \A q \in Requests \ {r} : caller'[q] = caller[q]
          /\ caller[r].at = "sending" /\ caller'[r].conn = c
          /\ worker[c] \in {"idle"} \cup Exchanging /\ queue[c] = <<>>
          /\ queue' = [queue EXCEPT ![c] = <<r>>]
          /\ UNCHANGED <<worker, job>>
      BY <1>12 DEF Enqueue, TypeOK
    <2>2. c \in Conns
      BY <2>1 DEF Placed, Waiting
    <2> HIDE DEF c
    <2>3. Placed'
      BY <2>1, <2>2 DEF Placed
    <2>4. Held(r)'
      BY <2>1, <2>2 DEF Held, TypeOK
    <2>5. \A d \in Conns \ {c} : Busy(d)
      BY <2>1, <2>2 DEF Busy, TypeOK
    <2>6. ASSUME NEW q \in Requests \ {r}, caller[q].at = "waiting" PROVE Held(q)'
      <3>1. caller[q].conn \in Conns /\ Held(q) /\ caller'[q] = caller[q]
        BY <2>1, <2>6 DEF Placed, WaitingIsHeld, Held, Waiting
      <3>2. CASE caller[q].conn # c
        BY <2>5, <2>6, <3>1, <3>2, HeldElsewhere
      <3>3. CASE caller[q].conn = c
        BY <2>1, <3>1, <3>3 DEF Held
      <3> QED
        BY <3>2, <3>3
    <2> QED
      BY <2>1, <2>3, <2>4, <2>6 DEF WaitingIsHeld, Held
  <1>13. CASE UNCHANGED vars
    BY <1>1, <1>13 DEF vars, clientVars
  <1> QED
    BY <1>3, <1>4, <1>5, <1>7, <1>8, <1>9, <1>10, <1>11, <1>12, <1>13 DEF Next, WorkerStep

-----------------------------------------------------------------------------
\* A step leaves one generation at work.
LEMMA NextGenerations == IInv /\ [Next]_vars => Generations' /\ OnlyCurrentWorks'
  <1> SUFFICES ASSUME IInv, [Next]_vars PROVE Generations' /\ OnlyCurrentWorks'
    OBVIOUS
  <1> DEFINE On(c) == worker[c] \in {"idle"} \cup Exchanging
  <1>a. /\ TypeOK /\ \A c \in Conns : Flow(c)
        /\ current \in Conns \cup {0} /\ Conns \subseteq Nat /\ 0 \notin Conns
        /\ cancelled \subseteq Conns /\ DOMAIN worker = Conns
    BY SessionAssumption DEF IInv, TypeOK
  <1>b. /\ current # 0 => worker[current] \notin {"none", "refused"}
        /\ \A c \in cancelled : worker[c] # "none" /\ c # current
        /\ \A c \in Conns : worker[c] = "ended" => c \in cancelled \cup closed
    BY DEF IInv, Generations
  <1>c. \A c \in Conns : On(c) /\ c \notin cancelled => current = c
    BY DEF IInv, OnlyCurrentWorks
  <1>d. \A c \in Conns : On(c) => worker[c] \notin {"none", "refused", "ended", "gone"}
    BY DEF Exchanging
  <1>e. ASSUME /\ current' # 0 => worker'[current'] \notin {"none", "refused"}
               /\ \A c \in cancelled' : worker'[c] # "none" /\ c # current'
               /\ \A c \in Conns : worker'[c] = "ended" => c \in cancelled' \cup closed'
               /\ \A c \in Conns : On(c)' /\ c \notin cancelled' => current' = c
        PROVE  Generations' /\ OnlyCurrentWorks'
    BY <1>e DEF Generations, OnlyCurrentWorks
  <1>1. ASSUME UNCHANGED <<current, cancelled, worker>>, closed \subseteq closed'
        PROVE  Generations' /\ OnlyCurrentWorks'
    BY <1>1 DEF IInv, Generations, OnlyCurrentWorks
  <1>2. ASSUME NEW c \in Conns, On(c), NEW w, worker' = [worker EXCEPT ![c] = w],
               w \in {"idle"} \cup Exchanging \/ (w = "ended" /\ c \in cancelled \cup closed'),
               UNCHANGED <<current, cancelled>>, closed \subseteq closed'
        PROVE  Generations' /\ OnlyCurrentWorks'
    <2>1. w \notin {"none", "refused"} /\ (w = "ended" => c \in cancelled \cup closed')
      BY <1>2 DEF Exchanging
    <2>2. worker'[c] = w /\ \A d \in Conns \ {c} : worker'[d] = worker[d]
      BY <1>2, <1>a
    <2>3. \A d \in Conns : On(d)' => On(d)
      BY <1>2, <2>2
    <2> HIDE DEF On
    <2> QED
      BY <1>2, <1>a, <1>b, <1>c, <1>e, <2>1, <2>2, <2>3
  <1>3. ASSUME NEW c \in Conns, AddPeer(c) PROVE Generations' /\ OnlyCurrentWorks'
    <2>1. CASE current >= c
      <3>1. /\ worker'[c] = "refused" /\ \A d \in Conns \ {c} : worker'[d] = worker[d]
            /\ worker[c] = "none"
            /\ UNCHANGED <<current, cancelled>> /\ closed \subseteq closed'
        BY <1>3, <1>a, <2>1 DEF AddPeer
      <3>2. ~On(c)' /\ \A d \in Conns \ {c} : On(d)' => On(d)
        BY <3>1 DEF Exchanging
      <3> HIDE DEF On
      <3> QED
        BY <1>a, <1>b, <1>c, <1>e, <3>1, <3>2
    <2>2. CASE current < c
      <3>1. /\ worker'[c] = "idle" /\ \A d \in Conns \ {c} : worker'[d] = worker[d]
            /\ worker[c] = "none"
            /\ current' = c /\ cancelled' = cancelled \cup ({current} \ {0})
            /\ closed' = closed
        BY <1>3, <1>a, <2>2 DEF AddPeer, Install
      <3>2. \A d \in Conns \ {c} : On(d)' => On(d)
        BY <3>1
      <3> HIDE DEF On
      <3> QED
        BY <1>a, <1>b, <1>c, <1>e, <2>2, <3>1, <3>2
    <2> QED
      BY <1>3, <1>a, <2>1, <2>2
  <1>4. ASSUME NEW c \in Conns, RemovePeer(c) PROVE Generations' /\ OnlyCurrentWorks'
    <2>1. worker' = worker /\ closed' = closed /\ RemoveGeneration(c)
      BY <1>4 DEF RemovePeer
    <2>2. \A d \in Conns : On(d)' => On(d)
      BY <2>1
    <2> HIDE DEF On
    <2> QED
      BY <1>a, <1>b, <1>c, <1>e, <2>1, <2>2 DEF RemoveGeneration
  <1>5. ASSUME NEW c \in Conns, Cleanup(c) PROVE Generations' /\ OnlyCurrentWorks'
    <2>1. /\ worker'[c] = "gone" /\ \A d \in Conns \ {c} : worker'[d] = worker[d]
          /\ closed' = closed /\ RemoveGeneration(c)
      BY <1>5, <1>a DEF Cleanup
    <2>2. ~On(c)' /\ \A d \in Conns \ {c} : On(d)' => On(d)
      BY <2>1 DEF Exchanging
    <2> HIDE DEF On
    <2> QED
      BY <1>a, <1>b, <1>c, <1>e, <2>1, <2>2 DEF RemoveGeneration
  <1>6. ASSUME NEW c \in Conns, NEW result \in Results, NEW answer \in SUBSET Requests, NEW arrived,
               worker[c] \in Exchanging, Finish(c, result, answer, arrived)
        PROVE  Generations' /\ OnlyCurrentWorks'
    <2>1. (Stopped(c, arrived) \/ Rested(c, arrived)) /\ Cleared(c)
      BY <1>6, <1>a, FinishLeaves
    <2>2. On(c) /\ UNCHANGED <<current, cancelled>>
      BY <1>6, <2>1 DEF Cleared
    <2>3. \/ worker' = [worker EXCEPT ![c] = "ended"] /\ closed' = closed \cup {c}
          \/ worker' = [worker EXCEPT ![c] = "idle"] /\ closed' = closed
      BY <2>1 DEF Stopped, Rested
    <2> HIDE DEF On
    <2> QED
      BY <1>2, <2>2, <2>3
  <1>7. ASSUME NEW c \in Conns, ReceiveFrame(c) PROVE Generations' /\ OnlyCurrentWorks'
    <2>1. worker[c] = "receiving" /\ reply[c] # <<>>
      BY <1>7, ReceiveCases
    <2>2. Extended(c).payload = {job[c]}
      BY <1>a, <2>1, ReplyOfJob
    <2>3. worker[c] \in Exchanging /\ {job[c]} \in SUBSET Requests /\ {} \in SUBSET Requests
      BY <1>a, <2>1 DEF TypeOK, Exchanging
    <2>4. {"Remote", "Ok", "Protocol"} \subseteq Results
      BY DEF Results
    <2>5. CASE Kept(c)
      BY <1>1, <2>5 DEF Kept
    <2> QED
      BY <1>6, <1>7, <2>2, <2>3, <2>4, <2>5, ReceiveCases
  <1>8. ASSUME NEW c \in Conns, WorkerTimeout(c) \/ Interrupted(c)
        PROVE  Generations' /\ OnlyCurrentWorks'
    BY <1>6, <1>8 DEF WorkerTimeout, Interrupted, Results
  <1>9. ASSUME NEW c \in Conns, Take(c) \/ SendFrame(c) \/ WorkerStops(c)
        PROVE  Generations' /\ OnlyCurrentWorks'
    <2>1. On(c) /\ UNCHANGED <<current, cancelled, closed>>
      BY <1>9 DEF Take, SendFrame, WorkerStops, Exchanging
    <2>2. \/ worker' = [worker EXCEPT ![c] = "sending"]
          \/ worker' = [worker EXCEPT ![c] = "receiving"]
          \/ worker' = [worker EXCEPT ![c] = "ended"] /\ c \in cancelled \cup closed
      <3>1. CASE Take(c)
        BY <3>1 DEF Take
      <3>2. CASE SendFrame(c)
        BY <3>2, <1>a DEF SendFrame
      <3>3. CASE WorkerStops(c)
        BY <3>3 DEF WorkerStops, Drop
      <3> QED
        BY <1>9, <3>1, <3>2, <3>3
    <2>3. {"sending", "receiving"} \subseteq Exchanging
      BY DEF Exchanging
    <2> HIDE DEF On
    <2> QED
      BY <1>2, <2>1, <2>2, <2>3
  <1>10. ASSUME NEW c \in Conns, Disconnect(c) \/ Accept(c) \/ ServerStep(c)
         PROVE  Generations' /\ OnlyCurrentWorks'
    BY <1>1, <1>10 DEF Disconnect, Accept, ServerStep, Serve, SendResponse, ServerStops, clientVars
  <1>11. ASSUME NEW r \in Requests, Request(r) \/ Enqueue(r) \/ SessionClosed(r) \/ CallerTimeout(r)
         PROVE  Generations' /\ OnlyCurrentWorks'
    BY <1>1, <1>11 DEF Request, Enqueue, SessionClosed, CallerTimeout, clientVars
  <1>12. CASE UNCHANGED vars
    BY <1>1, <1>12 DEF vars, clientVars
  <1> QED
    BY <1>3, <1>4, <1>5, <1>7, <1>8, <1>9, <1>10, <1>11, <1>12 DEF Next, WorkerStep

-----------------------------------------------------------------------------
\* The invariant is inductive.
LEMMA InitInv == Init => IInv
  <1> SUFFICES ASSUME Init PROVE IInv
    OBVIOUS
  <1>1. TypeOK
    BY InitType
  <1>2. \A c \in Conns : Flow(c)
    BY InitFlow
  <1>3. AnswersMatch /\ Placed /\ WaitingIsHeld
    BY DEF Init, AnswersMatch, Placed, WaitingIsHeld, Waiting
  <1>4. Generations /\ OnlyCurrentWorks
    BY DEF Init, Generations, OnlyCurrentWorks, Exchanging
  <1> QED
    BY <1>1, <1>2, <1>3, <1>4 DEF IInv

LEMMA NextInv == IInv /\ [Next]_vars => IInv'
  <1> SUFFICES ASSUME IInv, [Next]_vars PROVE IInv'
    OBVIOUS
  <1>1. TypeOK'
    BY NextType DEF IInv
  <1>2. \A c \in Conns : Flow(c)'
    BY NextFlow DEF IInv
  <1>3. AnswersMatch'
    BY NextAnswers
  <1>4. Placed' /\ WaitingIsHeld'
    BY NextHeld
  <1>5. Generations' /\ OnlyCurrentWorks'
    BY NextGenerations
  <1> QED
    BY <1>1, <1>2, <1>3, <1>4, <1>5 DEF IInv

\* The inductive invariant holds in every state.
THEOREM InvariantHolds == Spec => []IInv
  BY InitInv, NextInv, PTL DEF Spec

\* Every variable keeps its type.
THEOREM TypeCorrect == Spec => []TypeOK
  <1>1. IInv => TypeOK
    BY DEF IInv
  <1> QED
    BY <1>1, InvariantHolds, PTL

\* Replies carry no request identifier, and still no caller is answered with the reply
\* to another request: run_worker gives a connection up with the exchange it gives up.
THEOREM AnswersBelongToTheirCallers == Spec => []AnswersMatch
  <1>1. IInv => AnswersMatch
    BY DEF IInv
  <1> QED
    BY <1>1, InvariantHolds, PTL

\* A caller that waits is in the queue or in the hands of a worker that has not stopped:
\* a worker that returns drops its receiver, and with it the request queued there.
THEOREM WaitersAreHeld == Spec => []WaitingIsHeld
  <1>1. IInv => WaitingIsHeld
    BY DEF IInv
  <1> QED
    BY <1>1, InvariantHolds, PTL

\* Of all the workers add_peer started, only the published generation's has not been
\* told to stop.
THEOREM OneGenerationWorks == Spec => []OnlyCurrentWorks
  <1>1. IInv => OnlyCurrentWorks
    BY DEF IInv
  <1> QED
    BY <1>1, InvariantHolds, PTL

\* remove_generation, called late for an older connection, never takes a newer one's
\* session away.
THEOREM OnlyItsOwnEndWithdraws == Spec => WithdrawnByItsOwn
  <1> DEFINE Own == current # 0 /\ current' # current => current' > current \/ current \in closed
  <1>1. IInv /\ [Next]_vars => [Own]_vars
    <2> SUFFICES ASSUME IInv, [Next]_vars, current # 0, current' # current
                 PROVE  current' > current \/ current \in closed
      OBVIOUS
    <2> USE SessionAssumption DEF IInv
    <2>1. ASSUME NEW c \in Conns, AddPeer(c) PROVE current' > current
      BY <2>1 DEF AddPeer, Install, TypeOK
    <2>2. ASSUME NEW c \in Conns, RemovePeer(c) PROVE current \in closed
      BY <2>2 DEF RemovePeer, RemoveGeneration
    <2>3. ASSUME NEW c \in Conns, Cleanup(c) PROVE current \in closed
      BY <2>3 DEF Cleanup, RemoveGeneration, Generations
    <2>4. ASSUME NEW c \in Conns,
                 ReceiveFrame(c) \/ WorkerTimeout(c) \/ Interrupted(c) \/ WorkerStops(c)
          PROVE  FALSE
      <3>1. \A result, answer, arrived : Finish(c, result, answer, arrived) => UNCHANGED current
        BY DEF Finish
      <3>2. CASE ReceiveFrame(c)
        BY <3>1, <3>2, ReceiveCases DEF Kept
      <3> QED
        BY <2>4, <3>1, <3>2 DEF WorkerTimeout, Interrupted, WorkerStops
    <2>5. ASSUME NEW c \in Conns,
                 Disconnect(c) \/ Take(c) \/ SendFrame(c) \/ Accept(c) \/ ServerStep(c)
          PROVE  FALSE
      <3>1. CASE Disconnect(c) \/ Take(c) \/ SendFrame(c)
        BY <3>1 DEF Disconnect, Take, SendFrame, clientVars
      <3>2. CASE Accept(c) \/ ServerStep(c)
        BY <3>2 DEF Accept, ServerStep, Serve, SendResponse, ServerStops, clientVars
      <3> QED
        BY <2>5, <3>1, <3>2
    <2>6. ASSUME NEW r \in Requests,
                 Request(r) \/ Enqueue(r) \/ SessionClosed(r) \/ CallerTimeout(r)
          PROVE  FALSE
      BY <2>6 DEF Request, Enqueue, SessionClosed, CallerTimeout, clientVars
    <2>7. ~UNCHANGED vars
      BY DEF vars, clientVars
    <2> QED
      BY <2>1, <2>2, <2>3, <2>4, <2>5, <2>6, <2>7 DEF Next, WorkerStep
  <1> QED
    BY <1>1, InvariantHolds, PTL DEF Spec, WithdrawnByItsOwn

-----------------------------------------------------------------------------
(* Powers of two and the nodes on the way up from a leaf *)

LEMMA Heights4 ==
  /\ SubshardHeight \in Nat /\ SubshardHeight >= 1
  /\ ShardHeight \in Nat /\ ShardHeight = 2 * SubshardHeight
  /\ TreeDepth \in Nat /\ TreeDepth = 4 * SubshardHeight
  BY HeightAssumption DEF ShardHeight, TreeDepth

\* Pow2 is the recursive function its definition describes.
LEMMA Pow2Steps ==
  /\ Pow2 \in [0..TreeDepth -> Nat] /\ Pow2[0] = 1
  /\ \A n \in 1..TreeDepth : Pow2[n] = 2 * Pow2[n - 1]
  <1> DEFINE Eq(f) == f = [n \in 0..TreeDepth |-> IF n = 0 THEN 1 ELSE 2 * f[n - 1]]
             step == [x \in Inputs(TreeDepth, Nat) |-> 2 * x[2]]
  <1>1. TreeDepth \in Nat
    BY Heights4
  <1>2. step \in [Inputs(TreeDepth, Nat) -> Nat]
    BY DEF Inputs
  <1>3. PICK f : Runs(f, TreeDepth, Nat, 1, step)
    <2> HIDE DEF step
    <2> QED
      BY <1>1, <1>2, Recursion
  <1>4. f \in [0..TreeDepth -> Nat] /\ f[0] = 1 /\ \A n \in 1..TreeDepth : f[n] = 2 * f[n - 1]
    <2>1. \A n \in 1..TreeDepth : n - 1 \in 0..TreeDepth
      BY <1>1
    <2>2. \A n \in 1..TreeDepth : <<n, f[n - 1]>> \in Inputs(TreeDepth, Nat)
      BY <1>3, <2>1 DEF Runs, Inputs
    <2> QED
      BY <1>3, <2>2 DEF Runs
  <1>5. Eq(f)
    <2>1. \A n \in 0..TreeDepth : n # 0 => n \in 1..TreeDepth
      BY <1>1
    <2> QED
      BY <1>4, <2>1
  <1>6. Pow2 = CHOOSE g : Eq(g)
    BY DEF Pow2
  <1>7. Eq(Pow2)
    <2> HIDE DEF Eq
    <2> QED
      BY <1>5, <1>6
  <1>8. Pow2[0] = 1 /\ \A n \in 1..TreeDepth : Pow2[n] = 2 * Pow2[n - 1]
    BY <1>1, <1>7
  <1> DEFINE T == {n \in 0..TreeDepth : Pow2[n] \in Nat}
  <1>9. 0 \in T
    BY <1>1, <1>8
  <1>10. ASSUME NEW n \in 0..(TreeDepth - 1), n \in T PROVE n + 1 \in T
    <2>1. n + 1 \in 1..TreeDepth /\ (n + 1) - 1 = n /\ Pow2[n] \in Nat
      BY <1>1, <1>10
    <2>2. Pow2[n + 1] = 2 * Pow2[n]
      BY <1>8, <2>1
    <2> QED
      BY <2>1, <2>2
  <1>11. \A n \in 0..TreeDepth : n \in T
    <2> HIDE DEF T
    <2> QED
      BY <1>1, <1>9, <1>10, UpTo
  <1> QED
    BY <1>7, <1>8, <1>11

\* Powers are positive, and each is twice the one before.
LEMMA Pow2Facts ==
  /\ Pow2[0] = 1
  /\ \A n \in 0..TreeDepth : Pow2[n] \in Nat /\ Pow2[n] >= 1
  /\ \A n \in 0..(TreeDepth - 1) : Pow2[n + 1] = 2 * Pow2[n]
  <1>1. TreeDepth \in Nat
    BY Heights4
  <1>2. \A n \in 0..(TreeDepth - 1) : Pow2[n + 1] = 2 * Pow2[n]
    <2> TAKE n \in 0..(TreeDepth - 1)
    <2>1. n + 1 \in 1..TreeDepth /\ (n + 1) - 1 = n
      BY <1>1
    <2> QED
      BY <2>1, Pow2Steps
  <1> DEFINE T == {n \in 0..TreeDepth : Pow2[n] \in Nat /\ Pow2[n] >= 1}
  <1>3. 0 \in T
    BY <1>1, Pow2Steps
  <1>4. ASSUME NEW n \in 0..(TreeDepth - 1), n \in T PROVE n + 1 \in T
    BY <1>1, <1>2, <1>4
  <1>5. \A n \in 0..TreeDepth : n \in T
    <2> HIDE DEF T
    <2> QED
      BY <1>1, <1>3, <1>4, UpTo
  <1> QED
    BY <1>2, <1>5, Pow2Steps

\* Division with remainder.
LEMMA Division ==
  ASSUME NEW a \in Nat, NEW b \in Nat, b >= 1
  PROVE  /\ a \div b \in Nat /\ a % b \in Nat /\ a % b < b
         /\ a = b * (a \div b) + (a % b)
  OBVIOUS

\* Quotient and remainder are the only ones.
LEMMA QuotientIs ==
  ASSUME NEW a \in Nat, NEW b \in Nat, b >= 1, NEW q \in Nat, NEW r \in Nat, r < b, a = b * q + r
  PROVE  a \div b = q /\ a % b = r
  <1> DEFINE x == a \div b
             y == a % b
  <1>1. x \in Nat /\ y \in Nat /\ y < b /\ a = b * x + y
    BY Division
  <1> HIDE DEF x, y
  <1>2. b * (x - q) = r - y
    BY <1>1
  <1>3. ~ (x - q >= 1)
    <2>1. x - q >= 1 => b * (x - q) >= b
      BY <1>1
    <2> QED
      BY <1>1, <1>2, <2>1
  <1>4. ~ (q - x >= 1)
    <2>1. q - x >= 1 => b * (q - x) >= b
      BY <1>1
    <2> QED
      BY <1>1, <1>2, <2>1
  <1>5. x = q
    BY <1>1, <1>3, <1>4
  <1>6. y = r
    BY <1>1, <1>5
  <1> QED
    BY <1>5, <1>6 DEF x, y

\* Halving a quotient divides by the next power.
LEMMA QuotientHalves ==
  ASSUME NEW p \in Nat, NEW n \in 0..(TreeDepth - 1)
  PROVE  /\ p \div Pow2[n] \in Nat /\ p \div Pow2[n + 1] \in Nat
         /\ p \div Pow2[n + 1] = (p \div Pow2[n]) \div 2
  <1> DEFINE b == Pow2[n]
             c == Pow2[n + 1]
             q == p \div b
             h == q \div 2
             s == q % 2
  <1>1. b \in Nat /\ b >= 1 /\ c = 2 * b /\ c \in Nat /\ c >= 1
    BY Pow2Facts, Heights4
  <1> HIDE DEF b, c
  <1>2. q \in Nat /\ p % b \in Nat /\ p % b < b /\ p = b * q + (p % b)
    BY <1>1, Division
  <1> HIDE DEF q
  <1>3. h \in Nat /\ s \in {0, 1} /\ q = 2 * h + s
    BY <1>2
  <1> HIDE DEF h, s
  <1> DEFINE r == b * s + (p % b)
  <1>4. r \in Nat /\ r < c
    BY <1>1, <1>2, <1>3
  <1>5. p = c * h + r
    BY <1>1, <1>2, <1>3
  <1> HIDE DEF r
  <1>6. p \div c = h
    BY <1>1, <1>3, <1>4, <1>5, QuotientIs
  <1> QED
    BY <1>2, <1>3, <1>6 DEF b, c, q, h

-----------------------------------------------------------------------------
(* The recursive functions of the model are what their equations say *)

\* The empty roots up to a level.
Empties(f, n) == f[0] = EmptyLeaf /\ \A k \in 1..n : f[k] = Combine(k - 1, f[k - 1], f[k - 1])

LEMMA EmptyRootSteps ==
  /\ EmptyRoot[0] = EmptyLeaf
  /\ \A n \in 0..(TreeDepth - 1) : EmptyRoot[n + 1] = Combine(n, EmptyRoot[n], EmptyRoot[n])
  <1> DEFINE Eq(f) == f = [level \in 0..TreeDepth |->
                             IF level = 0 THEN EmptyLeaf
                             ELSE Combine(level - 1, f[level - 1], f[level - 1])]
             T == {n \in 0..TreeDepth : \E f : Empties(f, n)}
  <1>1. TreeDepth \in Nat
    BY Heights4
  <1>2. 0 \in T
    <2> DEFINE g == [k \in 0..0 |-> EmptyLeaf]
    <2>1. g[0] = EmptyLeaf /\ 1..0 = {}
      OBVIOUS
    <2> HIDE DEF g
    <2>2. Empties(g, 0)
      BY <2>1 DEF Empties
    <2> QED
      BY <1>1, <2>2
  <1>3. ASSUME NEW n \in 0..(TreeDepth - 1), n \in T PROVE n + 1 \in T
    <2>1. PICK f : Empties(f, n)
      BY <1>3
    <2> DEFINE new == Combine(n, f[n], f[n])
               g == [k \in 0..(n + 1) |-> IF k = n + 1 THEN new ELSE f[k]]
    <2> HIDE DEF new
    <2>2. g[n + 1] = new /\ \A k \in 0..n : g[k] = f[k]
      OBVIOUS
    <2> HIDE DEF g
    <2>3. g[0] = EmptyLeaf
      BY <2>1, <2>2 DEF Empties
    <2>4. ASSUME NEW k \in 1..(n + 1) PROVE g[k] = Combine(k - 1, g[k - 1], g[k - 1])
      <3>1. CASE k = n + 1
        <4>1. k - 1 = n /\ n \in 0..n
          BY <3>1
        <4> QED
          BY <2>2, <3>1, <4>1 DEF new
      <3>2. CASE k # n + 1
        <4>1. k \in 1..n /\ k \in 0..n /\ k - 1 \in 0..n
          BY <3>2
        <4> QED
          BY <2>1, <2>2, <4>1 DEF Empties
      <3> QED
        BY <3>1, <3>2
    <2>5. Empties(g, n + 1)
      BY <2>3, <2>4 DEF Empties
    <2> QED
      BY <1>1, <2>5
  <1>4. TreeDepth \in T
    <2> HIDE DEF T
    <2>1. \A n \in 0..TreeDepth : n \in T
      BY <1>1, <1>2, <1>3, UpTo
    <2> QED
      BY <1>1, <2>1
  <1>5. PICK f : Empties(f, TreeDepth)
    BY <1>4
  <1> DEFINE g == [k \in 0..TreeDepth |-> f[k]]
  <1>6. Eq(g)
    <2>1. ASSUME NEW k \in 0..TreeDepth
          PROVE  f[k] = IF k = 0 THEN EmptyLeaf ELSE Combine(k - 1, g[k - 1], g[k - 1])
      <3>1. k # 0 => k \in 1..TreeDepth /\ k - 1 \in 0..TreeDepth
        BY <1>1
      <3> QED
        BY <1>5, <3>1 DEF Empties
    <2> QED
      BY <2>1
  <1>7. EmptyRoot = CHOOSE h : Eq(h)
    BY DEF EmptyRoot
  <1>8. Eq(EmptyRoot)
    <2> HIDE DEF Eq, g
    <2> QED
      BY <1>6, <1>7
  <1>9. ASSUME NEW n \in 0..(TreeDepth - 1)
        PROVE  EmptyRoot[n + 1] = Combine(n, EmptyRoot[n], EmptyRoot[n])
    <2>1. n + 1 \in 0..TreeDepth /\ n + 1 # 0 /\ (n + 1) - 1 = n
      BY <1>1
    <2> QED
      BY <1>8, <2>1
  <1>10. EmptyRoot[0] = EmptyLeaf
    BY <1>1, <1>8
  <1> QED
    BY <1>9, <1>10

\* The levels of a tree: the leaves, and above each level its combined pairs.
Levels(f, leaves, n) ==
  /\ \A i \in Nat : f[0][i] = IF i < Len(leaves) THEN leaves[i + 1] ELSE EmptyLeaf
  /\ \A k \in 1..n : \A i \in Nat :
       f[k][i] = Combine(k - 1, f[k - 1][2 * i], f[k - 1][2 * i + 1])

LEMMA NodeSteps ==
  ASSUME NEW leaves
  PROVE  /\ \A i \in Nat : Node(leaves, 0, i) = IF i < Len(leaves) THEN leaves[i + 1] ELSE EmptyLeaf
         /\ \A n \in 0..(TreeDepth - 1) : \A i \in Nat :
              Node(leaves, n + 1, i) =
                Combine(n, Node(leaves, n, 2 * i), Node(leaves, n, 2 * i + 1))
  <1> DEFINE leaf(i) == IF i < Len(leaves) THEN leaves[i + 1] ELSE EmptyLeaf
             Eq(f) == f = [l \in 0..TreeDepth |->
                             [i \in Nat |-> IF l = 0
                                            THEN IF i < Len(leaves) THEN leaves[i + 1] ELSE EmptyLeaf
                                            ELSE Combine(l - 1, f[l - 1][2 * i], f[l - 1][2 * i + 1])]]
             T == {n \in 0..TreeDepth : \E f : Levels(f, leaves, n)}
  <1>1. TreeDepth \in Nat
    BY Heights4
  <1>2. 0 \in T
    <2> DEFINE g == [k \in 0..0 |-> [i \in Nat |-> leaf(i)]]
    <2> HIDE DEF leaf
    <2>1. (\A i \in Nat : g[0][i] = leaf(i)) /\ 1..0 = {}
      OBVIOUS
    <2> HIDE DEF g
    <2>2. Levels(g, leaves, 0)
      BY <2>1 DEF Levels, leaf
    <2> QED
      BY <1>1, <2>2
  <1>3. ASSUME NEW n \in 0..(TreeDepth - 1), n \in T PROVE n + 1 \in T
    <2>1. PICK f : Levels(f, leaves, n)
      BY <1>3
    <2> DEFINE new == [i \in Nat |-> Combine(n, f[n][2 * i], f[n][2 * i + 1])]
               g == [k \in 0..(n + 1) |-> IF k = n + 1 THEN new ELSE f[k]]
    <2>2. \A i \in Nat : new[i] = Combine(n, f[n][2 * i], f[n][2 * i + 1])
      OBVIOUS
    <2> HIDE DEF new
    <2>3. g[n + 1] = new /\ \A k \in 0..n : g[k] = f[k]
      OBVIOUS
    <2> HIDE DEF g
    <2>4. \A i \in Nat : g[0][i] = leaf(i)
      <3>1. g[0] = f[0]
        BY <2>3
      <3>2. \A i \in Nat : f[0][i] = leaf(i)
        BY <2>1 DEF Levels
      <3> QED
        BY <3>1, <3>2
    <2>5. ASSUME NEW k \in 1..(n + 1), NEW i \in Nat
          PROVE  g[k][i] = Combine(k - 1, g[k - 1][2 * i], g[k - 1][2 * i + 1])
      <3>1. CASE k = n + 1
        <4>1. k - 1 = n /\ n \in 0..n
          BY <3>1
        <4> QED
          BY <2>2, <2>3, <3>1, <4>1
      <3>2. CASE k # n + 1
        <4>1. k \in 1..n /\ k \in 0..n /\ k - 1 \in 0..n
          BY <3>2
        <4> QED
          BY <2>1, <2>3, <4>1 DEF Levels
      <3> QED
        BY <3>1, <3>2
    <2>6. Levels(g, leaves, n + 1)
      BY <2>4, <2>5 DEF Levels
    <2> QED
      BY <1>1, <2>6
  <1>4. TreeDepth \in T
    <2> HIDE DEF T
    <2>1. \A n \in 0..TreeDepth : n \in T
      BY <1>1, <1>2, <1>3, UpTo
    <2> QED
      BY <1>1, <2>1
  <1>5. PICK f : Levels(f, leaves, TreeDepth)
    BY <1>4
  <1> DEFINE g == [k \in 0..TreeDepth |-> [i \in Nat |-> f[k][i]]]
             value(h, l, i) == IF l = 0 THEN leaf(i)
                               ELSE Combine(l - 1, h[l - 1][2 * i], h[l - 1][2 * i + 1])
  <1>6. Eq(g)
    <2>1. ASSUME NEW k \in 0..TreeDepth, NEW i \in Nat PROVE f[k][i] = value(g, k, i)
      <3>1. k # 0 => k \in 1..TreeDepth /\ k - 1 \in 0..TreeDepth
        BY <1>1
      <3>2. 2 * i \in Nat /\ 2 * i + 1 \in Nat
        OBVIOUS
      <3> QED
        BY <1>5, <3>1, <3>2 DEF Levels
    <2> QED
      BY <2>1
  <1>7. \A level, i : Node(leaves, level, i) = (CHOOSE h : Eq(h))[level][i]
    BY DEF Node
  <1>8. PICK h : Eq(h) /\ \A level, i : Node(leaves, level, i) = h[level][i]
    <2> HIDE DEF Eq, g
    <2> QED
      BY <1>6, <1>7
  <1>9. ASSUME NEW l \in 0..TreeDepth, NEW i \in Nat PROVE h[l][i] = value(h, l, i)
    <2>1. h[l] = [j \in Nat |-> value(h, l, j)]
      BY <1>8
    <2> HIDE DEF value
    <2> QED
      BY <2>1
  <1>10. \A n \in 0..(TreeDepth - 1) : n + 1 \in 0..TreeDepth /\ n + 1 # 0 /\ (n + 1) - 1 = n
    BY <1>1
  <1>11. \A i \in Nat : h[0][i] = leaf(i)
    BY <1>1, <1>9
  <1>12. \A n \in 0..(TreeDepth - 1), i \in Nat : h[n + 1][i] = Combine(n, h[n][2 * i], h[n][2 * i + 1])
    BY <1>9, <1>10
  <1>13. \A level, i : Node(leaves, level, i) = h[level][i]
    BY <1>8
  <1> HIDE DEF Eq
  <1>14. ASSUME NEW n \in 0..(TreeDepth - 1), NEW i \in Nat
         PROVE  Node(leaves, n + 1, i) = Combine(n, Node(leaves, n, 2 * i), Node(leaves, n, 2 * i + 1))
    <2>1. /\ Node(leaves, n + 1, i) = h[n + 1][i]
          /\ Node(leaves, n, 2 * i) = h[n][2 * i] /\ Node(leaves, n, 2 * i + 1) = h[n][2 * i + 1]
      BY <1>13
    <2> QED
      BY <1>12, <2>1
  <1>15. ASSUME NEW i \in Nat PROVE Node(leaves, 0, i) = leaf(i)
    BY <1>11, <1>13
  <1> QED
    BY <1>14, <1>15

\* Nodes without a leaf below them are empty roots.
LEMMA EmptyBeyond ==
  ASSUME NEW leaves, Len(leaves) \in Nat
  PROVE  \A n \in 0..TreeDepth : \A i \in Nat :
           i * Pow2[n] >= Len(leaves) => Node(leaves, n, i) = EmptyRoot[n]
  <1> DEFINE Beyond(n) == \A i \in Nat : i * Pow2[n] >= Len(leaves) => Node(leaves, n, i) = EmptyRoot[n]
             T == {n \in 0..TreeDepth : Beyond(n)}
  <1>1. TreeDepth \in Nat
    BY Heights4
  <1>2. 0 \in T
    <2>1. \A i \in Nat : i * Pow2[0] = i
      BY Pow2Facts
    <2>2. \A i \in Nat : i >= Len(leaves) => ~ (i < Len(leaves))
      OBVIOUS
    <2>3. Beyond(0)
      BY <2>1, <2>2, NodeSteps, EmptyRootSteps
    <2> QED
      BY <1>1, <2>3
  <1>3. ASSUME NEW n \in 0..(TreeDepth - 1), n \in T PROVE n + 1 \in T
    <2>1. ASSUME NEW i \in Nat, i * Pow2[n + 1] >= Len(leaves)
          PROVE  Node(leaves, n + 1, i) = EmptyRoot[n + 1]
      <3> DEFINE b == Pow2[n]
      <3>1. b \in Nat /\ Pow2[n + 1] = 2 * b /\ n \in 0..TreeDepth
        BY <1>1, Pow2Facts
      <3> HIDE DEF b
      <3>2. i * (2 * b) >= Len(leaves)
        BY <2>1, <3>1
      <3>3. 2 * i \in Nat /\ 2 * i + 1 \in Nat /\ (2 * i) * b = i * (2 * b)
        BY <3>1
      <3>4. (2 * i + 1) * b = (2 * i) * b + b
        BY <3>1
      <3>5. (2 * i) * b >= Len(leaves) /\ (2 * i + 1) * b >= Len(leaves)
        BY <3>1, <3>2, <3>3, <3>4
      <3>6. Node(leaves, n, 2 * i) = EmptyRoot[n] /\ Node(leaves, n, 2 * i + 1) = EmptyRoot[n]
        BY <1>3, <3>3, <3>5 DEF b
      <3> QED
        BY <3>6, NodeSteps, EmptyRootSteps
    <2> QED
      BY <1>1, <2>1
  <1>4. \A n \in 0..TreeDepth : n \in T
    <2> HIDE DEF T
    <2> QED
      BY <1>1, <1>2, <1>3, UpTo
  <1> QED
    BY <1>4

\* The tiers over some nodes of a level.
Tiers(f, nodes, base, n) == f[0] = nodes /\ \A k \in 1..n : f[k] = Parents(f[k - 1], base + k - 1)

\* The sibling that extract_siblings takes at a level.
SiblingAt(f, index, base, level) ==
  IF Sibling(index \div Pow2[level - base]) < Len(f[level - base])
  THEN f[level - base][Sibling(index \div Pow2[level - base]) + 1] ELSE EmptyRoot[level]

\* extract_siblings by its tiers.
Extracts(f, nodes, index, base, levels) ==
  /\ Tiers(f, nodes, base, levels)
  /\ ExtractSiblings(nodes, index, base, levels) =
       [level \in base..(base + levels - 1) |-> SiblingAt(f, index, base, level)]

LEMMA ExtractTiers ==
  ASSUME NEW nodes, NEW index, NEW base \in Nat, NEW levels \in Nat
  PROVE  \E f : Extracts(f, nodes, index, base, levels)
  <1> DEFINE Eq(f) == f = [k \in 0..levels |-> IF k = 0 THEN nodes ELSE Parents(f[k - 1], base + k - 1)]
             T == {n \in 0..levels : \E f : Tiers(f, nodes, base, n)}
  <1>2. 0 \in T
    <2> DEFINE g == [k \in 0..0 |-> nodes]
    <2>1. g[0] = nodes /\ 1..0 = {}
      OBVIOUS
    <2> HIDE DEF g
    <2>2. Tiers(g, nodes, base, 0)
      BY <2>1 DEF Tiers
    <2> QED
      BY <2>2
  <1>3. ASSUME NEW n \in 0..(levels - 1), n \in T PROVE n + 1 \in T
    <2>1. PICK f : Tiers(f, nodes, base, n)
      BY <1>3
    <2> DEFINE new == Parents(f[n], base + n)
               g == [k \in 0..(n + 1) |-> IF k = n + 1 THEN new ELSE f[k]]
    <2> HIDE DEF new
    <2>2. g[n + 1] = new /\ \A k \in 0..n : g[k] = f[k]
      OBVIOUS
    <2> HIDE DEF g
    <2>3. g[0] = nodes
      BY <2>1, <2>2 DEF Tiers
    <2>4. ASSUME NEW k \in 1..(n + 1) PROVE g[k] = Parents(g[k - 1], base + k - 1)
      <3>1. CASE k = n + 1
        <4>1. k - 1 = n /\ n \in 0..n /\ base + k - 1 = base + n
          BY <3>1
        <4> QED
          BY <2>2, <3>1, <4>1 DEF new
      <3>2. CASE k # n + 1
        <4>1. k \in 1..n /\ k \in 0..n /\ k - 1 \in 0..n
          BY <3>2
        <4> QED
          BY <2>1, <2>2, <4>1 DEF Tiers
      <3> QED
        BY <3>1, <3>2
    <2>5. Tiers(g, nodes, base, n + 1)
      BY <2>3, <2>4 DEF Tiers
    <2> QED
      BY <2>5
  <1>4. levels \in T
    <2> HIDE DEF T
    <2>1. \A n \in 0..levels : n \in T
      BY <1>2, <1>3, UpTo
    <2> QED
      BY <2>1
  <1>5. PICK f : Tiers(f, nodes, base, levels)
    BY <1>4
  <1> DEFINE g == [k \in 0..levels |-> f[k]]
  <1>6. Eq(g)
    <2>1. ASSUME NEW k \in 0..levels
          PROVE  f[k] = IF k = 0 THEN nodes ELSE Parents(g[k - 1], base + k - 1)
      <3>1. k # 0 => k \in 1..levels /\ k - 1 \in 0..levels
        OBVIOUS
      <3> QED
        BY <1>5, <3>1 DEF Tiers
    <2> QED
      BY <2>1
  <1> DEFINE tier == CHOOSE h : Eq(h)
             at(h, level) == LET k == level - base
                                 s == Sibling(index \div Pow2[k])
                             IN  IF s < Len(h[k]) THEN h[k][s + 1] ELSE EmptyRoot[level]
  <1>7. ExtractSiblings(nodes, index, base, levels) = [level \in base..(base + levels - 1) |-> at(tier, level)]
    BY DEF ExtractSiblings
  <1>8. Eq(tier)
    <2> HIDE DEF Eq, g
    <2> QED
      BY <1>6
  <1> HIDE DEF tier
  <1>9. Tiers(tier, nodes, base, levels)
    <2>1. ASSUME NEW k \in 1..levels PROVE tier[k] = Parents(tier[k - 1], base + k - 1)
      <3>1. k \in 0..levels /\ k # 0
        OBVIOUS
      <3> QED
        BY <1>8, <3>1
    <2>2. tier[0] = nodes
      BY <1>8
    <2> QED
      BY <2>1, <2>2 DEF Tiers
  <1>10. \A level : at(tier, level) = SiblingAt(tier, index, base, level)
    BY DEF SiblingAt
  <1> HIDE DEF at, Eq
  <1>11. ExtractSiblings(nodes, index, base, levels) =
           [level \in base..(base + levels - 1) |-> SiblingAt(tier, index, base, level)]
    BY <1>7, <1>10
  <1> QED
    BY <1>9, <1>11 DEF Extracts

-----------------------------------------------------------------------------
(* extract_siblings finds the siblings in the tree *)

\* The nodes of a level from the o-th on, out of w, without empty ones at the end.
Prefix(seq, leaves, level, o, w) ==
  /\ Len(seq) \in Nat /\ Len(seq) <= w
  /\ \A i \in Nat : i < Len(seq) => seq[i + 1] = Node(leaves, level, o + i)
  /\ \A i \in Nat : Len(seq) <= i /\ i < w => Node(leaves, level, o + i) = EmptyRoot[level]

\* Their parents are the nodes of the next level.
LEMMA ParentsOfPrefix ==
  ASSUME NEW seq, NEW leaves, NEW level \in 0..(TreeDepth - 1), NEW o \in Nat, NEW w \in Nat,
         Prefix(seq, leaves, level, 2 * o, 2 * w)
  PROVE  Prefix(Parents(seq, level), leaves, level + 1, o, w)
  <1> DEFINE n == Len(seq)
             m == (n + 1) \div 2
             up == Parents(seq, level)
             pair(i) == Combine(level, seq[2 * i - 1],
                                IF 2 * i <= n THEN seq[2 * i] ELSE EmptyRoot[level])
  <1>1. n \in Nat /\ m \in Nat /\ 2 * m <= n + 1 /\ n <= 2 * m /\ m <= w
    <2>1. n \in Nat /\ n <= 2 * w
      BY DEF Prefix
    <2> HIDE DEF n
    <2> QED
      BY <2>1
  <1>2. up = [i \in 1..m |-> pair(i)]
    BY DEF Parents
  <1>3. Len(up) = m /\ \A i \in 1..m : up[i] = pair(i)
    <2> HIDE DEF up, pair, m
    <2> QED
      BY <1>1, <1>2
  <1>4. TreeDepth \in Nat
    BY Heights4
  <1>5. ASSUME NEW i \in Nat
        PROVE  Node(leaves, level + 1, o + i) =
                 Combine(level, Node(leaves, level, 2 * o + 2 * i), Node(leaves, level, 2 * o + (2 * i + 1)))
    <2>1. o + i \in Nat /\ 2 * (o + i) = 2 * o + 2 * i /\ 2 * (o + i) + 1 = 2 * o + (2 * i + 1)
      OBVIOUS
    <2> QED
      BY <2>1, NodeSteps
  <1>6. ASSUME NEW i \in Nat, i < m PROVE up[i + 1] = Node(leaves, level + 1, o + i)
    <2>1. i + 1 \in 1..m /\ 2 * i \in Nat /\ 2 * i < n /\ 2 * (i + 1) - 1 = 2 * i + 1
          /\ 2 * (i + 1) = (2 * i + 1) + 1 /\ 2 * i + 1 \in Nat
      BY <1>1, <1>6
    <2>2. seq[2 * i + 1] = Node(leaves, level, 2 * o + 2 * i)
      BY <2>1 DEF Prefix
    <2> DEFINE right == IF 2 * (i + 1) <= n THEN seq[2 * (i + 1)] ELSE EmptyRoot[level]
    <2>3. right = Node(leaves, level, 2 * o + (2 * i + 1))
      <3>1. CASE 2 * (i + 1) <= n
        <4>1. 2 * i + 1 < n
          BY <1>1, <2>1, <3>1
        <4>2. seq[(2 * i + 1) + 1] = Node(leaves, level, 2 * o + (2 * i + 1))
          BY <2>1, <4>1 DEF Prefix
        <4> QED
          BY <2>1, <3>1, <4>2
      <3>2. CASE ~ (2 * (i + 1) <= n)
        <4>1. n <= 2 * i + 1
          BY <1>1, <2>1, <3>2
        <4>2. 2 * i + 1 < 2 * w
          BY <1>1, <1>6
        <4>3. Node(leaves, level, 2 * o + (2 * i + 1)) = EmptyRoot[level]
          BY <2>1, <4>1, <4>2 DEF Prefix
        <4> QED
          BY <3>2, <4>3
      <3> QED
        BY <3>1, <3>2
    <2>4. up[i + 1] = Combine(level, seq[2 * i + 1], right)
      BY <1>3, <2>1
    <2> QED
      BY <1>5, <2>2, <2>3, <2>4
  <1>7. ASSUME NEW i \in Nat, m <= i, i < w
        PROVE  Node(leaves, level + 1, o + i) = EmptyRoot[level + 1]
    <2>1. /\ 2 * i \in Nat /\ 2 * i + 1 \in Nat /\ n <= 2 * i /\ n <= 2 * i + 1
          /\ 2 * i < 2 * w /\ 2 * i + 1 < 2 * w
      BY <1>1, <1>7
    <2>2. /\ Node(leaves, level, 2 * o + 2 * i) = EmptyRoot[level]
          /\ Node(leaves, level, 2 * o + (2 * i + 1)) = EmptyRoot[level]
      BY <2>1 DEF Prefix
    <2> QED
      BY <1>5, <2>2, EmptyRootSteps
  <1> HIDE DEF m
  <1> QED
    BY <1>1, <1>3, <1>6, <1>7 DEF Prefix

\* So every tier holds the nodes of its level.
LEMMA TiersAre ==
  ASSUME NEW leaves, NEW nodes, NEW f, NEW base \in Nat, NEW levels \in Nat, NEW q \in Nat,
         base + levels <= TreeDepth, Tiers(f, nodes, base, levels),
         Prefix(nodes, leaves, base, q * Pow2[levels], Pow2[levels])
  PROVE  \A k \in 0..levels :
           Prefix(f[k], leaves, base + k, q * Pow2[levels - k], Pow2[levels - k])
  <1> DEFINE Good(k) == Prefix(f[k], leaves, base + k, q * Pow2[levels - k], Pow2[levels - k])
             T == {k \in 0..levels : Good(k)}
  <1>1. TreeDepth \in Nat
    BY Heights4
  <1>2. 0 \in T
    <2>1. base + 0 = base /\ levels - 0 = levels /\ f[0] = nodes
      BY DEF Tiers
    <2> QED
      BY <2>1
  <1>3. ASSUME NEW k \in 0..(levels - 1), k \in T PROVE k + 1 \in T
    <2> DEFINE w == Pow2[levels - (k + 1)]
               o == q * w
    <2>1. /\ k + 1 \in 1..levels /\ (k + 1) - 1 = k /\ base + (k + 1) - 1 = base + k
          /\ base + (k + 1) = (base + k) + 1 /\ base + k \in 0..(TreeDepth - 1)
          /\ levels - (k + 1) \in 0..(TreeDepth - 1) /\ (levels - (k + 1)) + 1 = levels - k
      BY <1>1
    <2>2. w \in Nat /\ Pow2[levels - k] = 2 * w
      <3>1. levels - (k + 1) \in 0..TreeDepth
        BY <1>1, <2>1
      <3> QED
        BY <2>1, <3>1, Pow2Facts
    <2> HIDE DEF w
    <2>3. o \in Nat /\ q * (2 * w) = 2 * o
      BY <2>2
    <2> HIDE DEF o
    <2>4. Prefix(f[k], leaves, base + k, 2 * o, 2 * w)
      <3>1. Good(k)
        BY <1>3
      <3> QED
        BY <2>2, <2>3, <3>1
    <2>5. Prefix(Parents(f[k], base + k), leaves, (base + k) + 1, o, w)
      BY <2>1, <2>2, <2>3, <2>4, ParentsOfPrefix
    <2>6. f[k + 1] = Parents(f[k], base + k)
      BY <2>1 DEF Tiers
    <2>7. Good(k + 1)
      BY <2>1, <2>5, <2>6 DEF o, w
    <2> QED
      BY <2>1, <2>7
  <1> HIDE DEF T
  <1>4. \A k \in 0..levels : k \in T
    BY <1>2, <1>3, UpTo
  <1> QED
    BY <1>4 DEF T

\* An index among w nodes, and where it is in the whole level, on the way up.
WayUp(levels, q, index, i) ==
  \A k \in 0..levels :
    /\ index \div Pow2[k] \in Nat /\ index \div Pow2[k] < Pow2[levels - k]
    /\ i \div Pow2[k] = q * Pow2[levels - k] + (index \div Pow2[k])

LEMMA IndexOnTheWayUp ==
  ASSUME NEW levels \in 0..TreeDepth, NEW q \in Nat, NEW index \in Nat, index < Pow2[levels]
  PROVE  WayUp(levels, q, index, q * Pow2[levels] + index)
  <1> DEFINE g == q * Pow2[levels] + index
             Good(k) == /\ index \div Pow2[k] \in Nat /\ index \div Pow2[k] < Pow2[levels - k]
                        /\ g \div Pow2[k] = q * Pow2[levels - k] + (index \div Pow2[k])
             T == {k \in 0..levels : Good(k)}
  <1>1. TreeDepth \in Nat /\ levels \in Nat /\ Pow2[levels] \in Nat /\ Pow2[0] = 1
    BY Heights4, Pow2Facts
  <1>2. g \in Nat
    BY <1>1
  <1> HIDE DEF g
  <1>3. 0 \in T
    <2>1. levels - 0 = levels /\ index \div 1 = index /\ g \div 1 = g
      BY <1>1, <1>2
    <2>2. Good(0)
      BY <1>1, <2>1 DEF g
    <2> QED
      BY <1>1, <2>2
  <1>4. ASSUME NEW k \in 0..(levels - 1), k \in T PROVE k + 1 \in T
    <2> DEFINE w == Pow2[levels - (k + 1)]
               x == index \div Pow2[k]
               o == q * w
    <2>1. /\ k \in 0..(TreeDepth - 1) /\ k + 1 \in 0..levels
          /\ levels - (k + 1) \in 0..(TreeDepth - 1) /\ (levels - (k + 1)) + 1 = levels - k
          /\ levels - (k + 1) \in 0..TreeDepth
      BY <1>1
    <2>2. w \in Nat /\ Pow2[levels - k] = 2 * w
      BY <2>1, Pow2Facts
    <2> HIDE DEF w
    <2>3. o \in Nat /\ q * (2 * w) = 2 * o
      BY <2>2
    <2>4. x \in Nat /\ x < 2 * w /\ g \div Pow2[k] = q * (2 * w) + x
      BY <1>4, <2>2
    <2>5. index \div Pow2[k + 1] = x \div 2 /\ g \div Pow2[k + 1] = (g \div Pow2[k]) \div 2
      BY <1>2, <2>1, QuotientHalves
    <2> HIDE DEF x, o
    <2>6. x \div 2 \in Nat /\ x \div 2 < w /\ (2 * o + x) \div 2 = o + (x \div 2)
      BY <2>2, <2>3, <2>4
    <2>7. g \div Pow2[k + 1] = o + (x \div 2)
      BY <2>3, <2>4, <2>5, <2>6
    <2>8. Good(k + 1)
      BY <2>5, <2>6, <2>7 DEF w, o
    <2> QED
      BY <2>1, <2>8
  <1> HIDE DEF T
  <1>5. \A k \in 0..levels : k \in T
    BY <1>1, <1>3, <1>4, UpTo
  <1>6. WayUp(levels, q, index, g)
    BY <1>5 DEF WayUp, T
  <1> QED
    BY <1>6 DEF g

\* extract_siblings over the nodes below one node.
FoundBelow(leaves, nodes, index, base, levels, q) ==
  \A k \in 0..(levels - 1) :
    ExtractSiblings(nodes, index, base, levels)[base + k] =
      Node(leaves, base + k, Sibling((q * Pow2[levels] + index) \div Pow2[k]))
PrefixBelow(nodes, leaves, base, levels, q) ==
  Prefix(nodes, leaves, base, q * Pow2[levels], Pow2[levels])

LEMMA SiblingsAre ==
  ASSUME NEW leaves, NEW nodes, NEW base \in Nat, NEW levels \in Nat, NEW q \in Nat,
         NEW index \in Nat, base + levels <= TreeDepth, index < Pow2[levels],
         PrefixBelow(nodes, leaves, base, levels, q)
  PROVE  FoundBelow(leaves, nodes, index, base, levels, q)
  <1>below. Prefix(nodes, leaves, base, q * Pow2[levels], Pow2[levels])
    BY DEF PrefixBelow
  <1> USE DEF FoundBelow
  <1>0. PICK f : Extracts(f, nodes, index, base, levels)
    BY ExtractTiers
  <1>1. /\ Tiers(f, nodes, base, levels)
        /\ ExtractSiblings(nodes, index, base, levels) =
             [level \in base..(base + levels - 1) |-> SiblingAt(f, index, base, level)]
    BY <1>0 DEF Extracts
  <1> TAKE k \in 0..(levels - 1)
  <1> DEFINE w == Pow2[levels - (k + 1)]
             x == index \div Pow2[k]
             o == q * w
             s == Sibling(x)
             tier == f[k]
  <1>2. TreeDepth \in Nat /\ levels \in 0..TreeDepth
    BY Heights4
  <1>3. /\ k \in 0..levels /\ base + k \in base..(base + levels - 1) /\ (base + k) - base = k
        /\ levels - (k + 1) \in 0..(TreeDepth - 1) /\ (levels - (k + 1)) + 1 = levels - k
        /\ levels - (k + 1) \in 0..TreeDepth
    BY <1>2
  <1>4. w \in Nat /\ Pow2[levels - k] = 2 * w
    BY <1>3, Pow2Facts
  <1> HIDE DEF w
  <1>5. o \in Nat /\ q * (2 * w) = 2 * o
    BY <1>4
  <1>6. x \in Nat /\ x < 2 * w /\ (q * Pow2[levels] + index) \div Pow2[k] = q * (2 * w) + x
    <2>1. WayUp(levels, q, index, q * Pow2[levels] + index)
      BY <1>2, IndexOnTheWayUp
    <2> QED
      BY <1>3, <1>4, <2>1 DEF WayUp
  <1>7. Prefix(tier, leaves, base + k, 2 * o, 2 * w)
    <2>1. Prefix(f[k], leaves, base + k, q * Pow2[levels - k], Pow2[levels - k])
      BY <1>1, <1>below, <1>3, TiersAre
    <2> QED
      BY <1>4, <1>5, <2>1
  <1> HIDE DEF o, x
  <1>8. s \in Nat /\ s < 2 * w /\ Sibling(2 * o + x) = 2 * o + s
    BY <1>4, <1>5, <1>6 DEF Sibling
  <1>9. (IF s < Len(tier) THEN tier[s + 1] ELSE EmptyRoot[base + k]) = Node(leaves, base + k, 2 * o + s)
    <2> HIDE DEF s, tier
    <2>1. Len(tier) \in Nat
      BY <1>7 DEF Prefix
    <2>2. ~ (s < Len(tier)) => Len(tier) <= s
      BY <1>8, <2>1
    <2> QED
      BY <1>7, <1>8, <2>2 DEF Prefix
  <1>10. ExtractSiblings(nodes, index, base, levels)[base + k] = SiblingAt(f, index, base, base + k)
    BY <1>1, <1>3
  <1>11. SiblingAt(f, index, base, base + k) = IF s < Len(tier) THEN tier[s + 1] ELSE EmptyRoot[base + k]
    BY <1>3 DEF SiblingAt, x
  <1> QED
    BY <1>5, <1>6, <1>8, <1>9, <1>10, <1>11

\* The same, where the nodes from the first-th on and the position g among them are given.
Found(leaves, nodes, index, base, levels, g) ==
  \A k \in 0..(levels - 1) : \A level \in Nat :
    level = base + k =>
      ExtractSiblings(nodes, index, base, levels)[level] =
        Node(leaves, level, Sibling(g \div Pow2[k]))

LEMMA SiblingsFound ==
  ASSUME NEW leaves, NEW nodes, NEW base \in Nat, NEW levels \in Nat, NEW q \in Nat,
         NEW index \in Nat, base + levels <= TreeDepth, index < Pow2[levels],
         NEW first, first = q * Pow2[levels], NEW g, g = first + index,
         Prefix(nodes, leaves, base, first, Pow2[levels])
  PROVE  Found(leaves, nodes, index, base, levels, g)
  <1>1. PrefixBelow(nodes, leaves, base, levels, q)
    BY DEF PrefixBelow
  <1>2. FoundBelow(leaves, nodes, index, base, levels, q)
    BY <1>1, SiblingsAre
  <1> QED
    BY <1>2 DEF Found, FoundBelow

-----------------------------------------------------------------------------
(* compute_root_from_path climbs the tree *)

\* The hashes on the way up to a level.
Climbs(f, position, leaf, siblings, n) ==
  /\ f[0] = leaf
  /\ \A k \in 1..n :
       f[k] = IF (position \div Pow2[k - 1]) % 2 = 0
              THEN Combine(k - 1, f[k - 1], siblings[k - 1])
              ELSE Combine(k - 1, siblings[k - 1], f[k - 1])
Ascends(f, position, leaf, siblings) ==
  Climbs(f, position, leaf, siblings, TreeDepth) /\ RootFromPath(position, leaf, siblings) = f[TreeDepth]

LEMMA RootClimbs ==
  ASSUME NEW position, NEW leaf, NEW siblings
  PROVE  \E f : Ascends(f, position, leaf, siblings)
  <1> DEFINE up(f, k) == IF (position \div Pow2[k - 1]) % 2 = 0
                         THEN Combine(k - 1, f[k - 1], siblings[k - 1])
                         ELSE Combine(k - 1, siblings[k - 1], f[k - 1])
             Eq(f) == f = [level \in 0..TreeDepth |->
                             IF level = 0 THEN leaf
                             ELSE IF (position \div Pow2[level - 1]) % 2 = 0
                                  THEN Combine(level - 1, f[level - 1], siblings[level - 1])
                                  ELSE Combine(level - 1, siblings[level - 1], f[level - 1])]
             T == {n \in 0..TreeDepth : \E f : Climbs(f, position, leaf, siblings, n)}
  <1>1. TreeDepth \in Nat
    BY Heights4
  <1>2. 0 \in T
    <2> DEFINE g == [k \in 0..0 |-> leaf]
    <2>1. g[0] = leaf /\ 1..0 = {}
      OBVIOUS
    <2> HIDE DEF g
    <2>2. Climbs(g, position, leaf, siblings, 0)
      BY <2>1 DEF Climbs
    <2> QED
      BY <1>1, <2>2
  <1>3. ASSUME NEW n \in 0..(TreeDepth - 1), n \in T PROVE n + 1 \in T
    <2>1. PICK f : Climbs(f, position, leaf, siblings, n)
      BY <1>3
    <2> DEFINE new == up(f, n + 1)
               g == [k \in 0..(n + 1) |-> IF k = n + 1 THEN new ELSE f[k]]
    <2> HIDE DEF new
    <2>2. g[n + 1] = new /\ \A k \in 0..n : g[k] = f[k]
      OBVIOUS
    <2> HIDE DEF g
    <2>3. g[0] = leaf
      BY <2>1, <2>2 DEF Climbs
    <2>4. ASSUME NEW k \in 1..(n + 1) PROVE g[k] = up(g, k)
      <3>0. k - 1 \in 0..n /\ g[k - 1] = f[k - 1]
        BY <2>2
      <3>1. CASE k = n + 1
        BY <2>2, <3>0, <3>1 DEF new
      <3>2. CASE k # n + 1
        <4>1. k \in 1..n /\ k \in 0..n
          BY <3>2
        <4> QED
          BY <2>1, <2>2, <3>0, <4>1 DEF Climbs
      <3> QED
        BY <3>1, <3>2
    <2>5. Climbs(g, position, leaf, siblings, n + 1)
      BY <2>3, <2>4 DEF Climbs
    <2> QED
      BY <1>1, <2>5
  <1>4. TreeDepth \in T
    <2> HIDE DEF T
    <2>1. \A n \in 0..TreeDepth : n \in T
      BY <1>1, <1>2, <1>3, UpTo
    <2> QED
      BY <1>1, <2>1
  <1>5. PICK f : Climbs(f, position, leaf, siblings, TreeDepth)
    BY <1>4
  <1> DEFINE g == [k \in 0..TreeDepth |-> f[k]]
  <1>6. Eq(g)
    <2>1. ASSUME NEW k \in 0..TreeDepth PROVE f[k] = IF k = 0 THEN leaf ELSE up(g, k)
      <3>1. k # 0 => k \in 1..TreeDepth /\ k - 1 \in 0..TreeDepth
        BY <1>1
      <3> QED
        BY <1>5, <3>1 DEF Climbs
    <2> QED
      BY <2>1
  <1> DEFINE node == CHOOSE h : Eq(h)
  <1>7. RootFromPath(position, leaf, siblings) = node[TreeDepth]
    BY DEF RootFromPath
  <1>8. Eq(node)
    <2> HIDE DEF Eq, g
    <2> QED
      BY <1>6
  <1> HIDE DEF node
  <1>9. ASSUME NEW k \in 1..TreeDepth PROVE node[k] = up(node, k)
    <2>1. k \in 0..TreeDepth /\ k # 0
      BY <1>1
    <2> QED
      BY <1>8, <2>1
  <1>10. node[0] = leaf
    BY <1>1, <1>8
  <1>11. Climbs(node, position, leaf, siblings, TreeDepth)
    BY <1>9, <1>10 DEF Climbs
  <1> HIDE DEF Eq
  <1> QED
    BY <1>7, <1>11 DEF Ascends

\* Along the siblings in a tree the way up leads through its nodes.
LEMMA ClimbInTree ==
  ASSUME NEW leaves, NEW f, NEW position, NEW leaf, NEW siblings, NEW index \in Nat,
         NEW n \in 0..TreeDepth, Climbs(f, position, leaf, siblings, n),
         leaf = Node(leaves, 0, index),
         \A k \in 0..(n - 1) :
           /\ siblings[k] = Node(leaves, k, Sibling(index \div Pow2[k]))
           /\ (position \div Pow2[k]) % 2 = (index \div Pow2[k]) % 2
  PROVE  f[n] = Node(leaves, n, index \div Pow2[n])
  <1> DEFINE T == {k \in 0..n : f[k] = Node(leaves, k, index \div Pow2[k])}
  <1>1. TreeDepth \in Nat /\ n \in Nat /\ Pow2[0] = 1
    BY Heights4, Pow2Facts
  <1>2. 0 \in T
    <2>1. index \div 1 = index
      OBVIOUS
    <2> QED
      BY <1>1, <2>1 DEF Climbs
  <1>3. ASSUME NEW k \in 0..(n - 1), k \in T PROVE k + 1 \in T
    <2> DEFINE x == index \div Pow2[k]
    <2>1. k \in 0..(TreeDepth - 1) /\ k + 1 \in 1..n /\ k + 1 \in 0..n /\ (k + 1) - 1 = k
      BY <1>1
    <2>2. x \in Nat /\ index \div Pow2[k + 1] = x \div 2
      BY <2>1, QuotientHalves
    <2>3. /\ f[k + 1] = IF (position \div Pow2[k]) % 2 = 0
                        THEN Combine(k, f[k], siblings[k]) ELSE Combine(k, siblings[k], f[k])
          /\ (position \div Pow2[k]) % 2 = x % 2
          /\ siblings[k] = Node(leaves, k, Sibling(x)) /\ f[k] = Node(leaves, k, x)
      BY <1>3, <2>1 DEF Climbs
    <2> HIDE DEF x
    <2> DEFINE y == x \div 2
    <2>4. y \in Nat /\ Node(leaves, k + 1, y) = Combine(k, Node(leaves, k, 2 * y), Node(leaves, k, 2 * y + 1))
      <3>1. y \in Nat
        BY <2>2
      <3> HIDE DEF y
      <3> QED
        BY <2>1, <3>1, NodeSteps
    <2>5. CASE x % 2 = 0
      <3>1. x = 2 * y /\ Sibling(x) = 2 * y + 1
        BY <2>2, <2>5 DEF Sibling
      <3> HIDE DEF y
      <3>2. f[k + 1] = Node(leaves, k + 1, y)
        BY <2>3, <2>4, <2>5, <3>1
      <3> QED
        BY <2>1, <2>2, <3>2 DEF y
    <2>6. CASE x % 2 # 0
      <3>1. x = 2 * y + 1 /\ Sibling(x) = 2 * y
        BY <2>2, <2>6 DEF Sibling
      <3> HIDE DEF y
      <3>2. f[k + 1] = Node(leaves, k + 1, y)
        BY <2>3, <2>4, <2>6, <3>1
      <3> QED
        BY <2>1, <2>2, <3>2 DEF y
    <2> QED
      BY <2>5, <2>6
  <1>4. n \in T
    <2> HIDE DEF T
    <2>1. \A k \in 0..n : k \in T
      BY <1>1, <1>2, <1>3, UpTo
    <2> QED
      BY <1>1, <2>1
  <1> QED
    BY <1>4

\* Two ways up that meet, and go on alike, end alike.
LEMMA ClimbTogether ==
  ASSUME NEW f, NEW g, NEW p, NEW q, NEW leaf1, NEW leaf2, NEW siblings1, NEW siblings2,
         NEW n \in Nat, NEW m \in 0..n,
         Climbs(f, p, leaf1, siblings1, n), Climbs(g, q, leaf2, siblings2, n), f[m] = g[m],
         \A k \in m..(n - 1) : p \div Pow2[k] = q \div Pow2[k] /\ siblings1[k] = siblings2[k]
  PROVE  f[n] = g[n]
  <1> DEFINE T == {j \in 0..(n - m) : f[m + j] = g[m + j]}
  <1>1. n - m \in Nat /\ m + (n - m) = n /\ m + 0 = m
    OBVIOUS
  <1>2. 0 \in T
    BY <1>1
  <1>3. ASSUME NEW j \in 0..((n - m) - 1), j \in T PROVE j + 1 \in T
    <2> DEFINE k == m + j
    <2>1. /\ m + (j + 1) = k + 1 /\ k \in m..(n - 1) /\ k + 1 \in 1..n /\ (k + 1) - 1 = k
          /\ j + 1 \in 0..(n - m)
      BY <1>1
    <2>2. f[k] = g[k]
      BY <1>3
    <2> HIDE DEF k
    <2>3. f[k + 1] = g[k + 1]
      BY <2>1, <2>2 DEF Climbs
    <2> QED
      BY <2>1, <2>3
  <1>4. n - m \in T
    <2> HIDE DEF T
    <2>1. \A j \in 0..(n - m) : j \in T
      BY <1>1, <1>2, <1>3, UpTo
    <2> QED
      BY <1>1, <2>1
  <1> QED
    BY <1>1, <1>4

-----------------------------------------------------------------------------
(* Where a position is *)

\* Dividing by one power and then by another divides by both; both together are a power.
LEMMA PowersChain ==
  ASSUME NEW p \in Nat, NEW m \in Nat, NEW n \in Nat, m + n <= TreeDepth
  PROVE  \A k \in 0..n : /\ p \div Pow2[m] \in Nat
                         /\ (p \div Pow2[m]) \div Pow2[k] = p \div Pow2[m + k]
                         /\ Pow2[m + k] = Pow2[m] * Pow2[k]
  <1> DEFINE s == p \div Pow2[m]
             T == {k \in 0..n : s \div Pow2[k] = p \div Pow2[m + k] /\ Pow2[m + k] = Pow2[m] * Pow2[k]}
  <1>1. TreeDepth \in Nat /\ m \in 0..TreeDepth /\ Pow2[0] = 1 /\ Pow2[m] \in Nat /\ Pow2[m] >= 1
    <2>1. TreeDepth \in Nat
      BY Heights4
    <2>2. m \in 0..TreeDepth
      BY <2>1
    <2> QED
      BY <2>1, <2>2, Pow2Facts
  <1>2. s \in Nat
    BY <1>1, Division
  <1> HIDE DEF s
  <1>3. 0 \in T
    <2>1. s \div 1 = s /\ m + 0 = m /\ Pow2[m] * 1 = Pow2[m]
      BY <1>1, <1>2
    <2>2. s \div Pow2[0] = p \div Pow2[m + 0]
      BY <1>1, <2>1 DEF s
    <2> QED
      BY <1>1, <2>1, <2>2
  <1>4. ASSUME NEW k \in 0..(n - 1), k \in T PROVE k + 1 \in T
    <2>1. /\ k \in 0..(TreeDepth - 1) /\ m + k \in 0..(TreeDepth - 1) /\ m + (k + 1) = (m + k) + 1
          /\ k \in 0..TreeDepth /\ k + 1 \in 0..n
      BY <1>1
    <2>2. s \div Pow2[k + 1] = (s \div Pow2[k]) \div 2
      BY <1>2, <2>1, QuotientHalves
    <2>3. p \div Pow2[(m + k) + 1] = (p \div Pow2[m + k]) \div 2
      BY <2>1, QuotientHalves
    <2>4. s \div Pow2[k] = p \div Pow2[m + k] /\ Pow2[m + k] = Pow2[m] * Pow2[k]
      BY <1>4
    <2>5. Pow2[m + (k + 1)] = Pow2[m] * Pow2[k + 1]
      <3>1. Pow2[k] \in Nat /\ Pow2[k + 1] = 2 * Pow2[k] /\ Pow2[(m + k) + 1] = 2 * Pow2[m + k]
        BY <2>1, Pow2Facts
      <3> DEFINE a == Pow2[m]
                 b == Pow2[k]
      <3>2. a \in Nat /\ b \in Nat
        BY <1>1, <3>1
      <3> HIDE DEF a, b
      <3>3. 2 * (a * b) = a * (2 * b)
        BY <3>2
      <3> QED
        BY <2>1, <2>4, <3>1, <3>3 DEF a, b
    <2> QED
      BY <2>1, <2>2, <2>3, <2>4, <2>5
  <1>5. \A k \in 0..n : k \in T
    <2> HIDE DEF T
    <2> QED
      BY <1>3, <1>4, UpTo
  <1> QED
    BY <1>2, <1>5 DEF s

\* The widths of the tiers.
LEMMA Widths ==
  /\ SubshardLeaves \in Nat /\ SubshardLeaves >= 1 /\ SubshardLeaves = Pow2[SubshardHeight]
  /\ SubshardsPerShard = Pow2[SubshardHeight]
  /\ ShardLeaves \in Nat /\ ShardLeaves >= 1 /\ ShardLeaves = Pow2[ShardHeight]
  /\ ShardLeaves = SubshardLeaves * SubshardsPerShard
  /\ Pow2[TreeDepth] = ShardLeaves * ShardLeaves
  <1>1. /\ SubshardHeight \in 0..TreeDepth /\ ShardHeight \in 0..TreeDepth
        /\ ShardHeight \in Nat /\ SubshardHeight \in Nat
        /\ SubshardHeight + SubshardHeight = ShardHeight
        /\ ShardHeight + ShardHeight = TreeDepth
        /\ SubshardHeight + SubshardHeight <= TreeDepth
        /\ SubshardHeight \in 0..SubshardHeight
        /\ ShardHeight + ShardHeight <= TreeDepth
        /\ ShardHeight \in 0..ShardHeight
    BY Heights4
  <1>2. Pow2[SubshardHeight + SubshardHeight] = Pow2[SubshardHeight] * Pow2[SubshardHeight]
    <2>1. 0 \in Nat
      OBVIOUS
    <2> QED
      BY <1>1, <2>1, PowersChain
  <1>3. Pow2[ShardHeight + ShardHeight] = Pow2[ShardHeight] * Pow2[ShardHeight]
    <2>1. 0 \in Nat
      OBVIOUS
    <2> QED
      BY <1>1, <2>1, PowersChain
  <1> QED
    BY <1>1, <1>2, <1>3, Pow2Facts DEF SubshardLeaves, SubshardsPerShard, ShardLeaves

\* A position by its shard, sub-shard and leaf.
LEMMA PositionParts ==
  ASSUME NEW p \in Nat
  PROVE  LET s == p \div SubshardLeaves IN
         /\ s \in Nat /\ ShardOf(p) \in Nat /\ SubshardOf(p) \in Nat /\ LeafOf(p) \in Nat
         /\ SubshardOf(p) < SubshardsPerShard /\ LeafOf(p) < SubshardLeaves
         /\ p = s * SubshardLeaves + LeafOf(p)
         /\ s = ShardOf(p) * SubshardsPerShard + SubshardOf(p)
         /\ \A k \in 0..SubshardHeight : s \div Pow2[k] = p \div Pow2[SubshardHeight + k]
         /\ \A k \in 0..ShardHeight : ShardOf(p) \div Pow2[k] = p \div Pow2[ShardHeight + k]
         /\ ShardOf(p) < ShardLeaves => p \div Pow2[TreeDepth] = 0
  <1> DEFINE s == p \div SubshardLeaves
             b == SubshardLeaves
             l == p % b
  <1>1. b \in Nat /\ b >= 1 /\ b = Pow2[SubshardHeight] /\ b = SubshardsPerShard
        /\ ShardLeaves \in Nat /\ ShardLeaves >= 1 /\ ShardLeaves = Pow2[ShardHeight]
    BY Widths
  <1>2. /\ SubshardHeight \in Nat /\ ShardHeight \in Nat /\ SubshardHeight \in 0..SubshardHeight
        /\ SubshardHeight + SubshardHeight = ShardHeight /\ ShardHeight + ShardHeight = TreeDepth
        /\ SubshardHeight + SubshardHeight <= TreeDepth /\ ShardHeight + ShardHeight <= TreeDepth
        /\ ShardHeight \in 0..ShardHeight
    BY Heights4
  <1>3. \A k \in 0..SubshardHeight : s \div Pow2[k] = p \div Pow2[SubshardHeight + k]
    <2>1. \A k \in 0..SubshardHeight :
            (p \div Pow2[SubshardHeight]) \div Pow2[k] = p \div Pow2[SubshardHeight + k]
      BY <1>2, PowersChain
    <2> QED
      BY <1>1, <2>1
  <1>4. \A k \in 0..ShardHeight : ShardOf(p) \div Pow2[k] = p \div Pow2[ShardHeight + k]
    BY <1>1, <1>2, PowersChain DEF ShardOf
  <1>5. s \in Nat /\ l \in Nat /\ l < b /\ p = b * s + l
    <2> HIDE DEF b
    <2> QED
      BY <1>1, Division DEF b
  <1>6. ShardOf(p) = s \div b
    <2>1. s \div Pow2[SubshardHeight] = p \div Pow2[SubshardHeight + SubshardHeight]
      BY <1>2, <1>3
    <2> QED
      BY <1>1, <1>2, <2>1 DEF ShardOf
  <1>7. SubshardOf(p) = s % b /\ LeafOf(p) = l
    BY <1>1 DEF SubshardOf, LeafOf
  <1> HIDE DEF s, l, b
  <1>8. s \div b \in Nat /\ s % b \in Nat /\ s % b < b /\ s = b * (s \div b) + (s % b)
    BY <1>1, <1>5, Division
  <1>9. p = s * b + l /\ s = (s \div b) * b + (s % b)
    BY <1>1, <1>5, <1>8
  <1>10. ASSUME ShardOf(p) < ShardLeaves PROVE p \div Pow2[TreeDepth] = 0
    <2> DEFINE x == ShardOf(p)
    <2>1. x \in Nat /\ x = ShardLeaves * 0 + x /\ 0 \in Nat
      BY <1>1, <1>6, <1>8
    <2> HIDE DEF x
    <2>2. x < ShardLeaves
      BY <1>10 DEF x
    <2>3. x \div ShardLeaves = 0
      BY <1>1, <2>1, <2>2, QuotientIs
    <2>4. x \div Pow2[ShardHeight] = p \div Pow2[ShardHeight + ShardHeight]
      BY <1>2, <1>4 DEF x
    <2> QED
      BY <1>1, <1>2, <2>3, <2>4
  <1> QED
    BY <1>1, <1>3, <1>4, <1>5, <1>6, <1>7, <1>8, <1>9, <1>10 DEF s, b

-----------------------------------------------------------------------------
(* Rows, broadcasts and the witnesses made of them *)

\* The trees a server can publish.
Tree(t) ==
  /\ t.leaves \in Seq(Commitments) /\ Len(t.leaves) \in Nat
  /\ Len(t.leaves) >= 1 /\ Len(t.leaves) <= Pow2[TreeDepth] /\ t.offset \in Nat

LEMMA PublishedTrees ==
  ASSUME NEW t \in Published
  PROVE  Tree(t)
  <1>0. PICK log \in Logs : t \in [leaves : {SubSeq(log, 1, n) : n \in 1..Len(log)}, offset : Offsets]
    BY DEF Published
  <1>1. PICK n \in 1..Len(log) : t.leaves = SubSeq(log, 1, n) /\ t.offset \in Offsets
    BY <1>0
  <1>2. log \in Seq(Commitments) /\ Len(log) \in Nat /\ Len(log) <= Pow2[TreeDepth]
    BY ClientAssumption, CapacityAssumption
  <1>3. t.leaves \in Seq(Commitments) /\ Len(t.leaves) = n
    BY <1>1, <1>2
  <1>4. t.offset \in Nat
    BY <1>1, ClientAssumption
  <1>5. Pow2[TreeDepth] \in Nat
    BY Pow2Facts, Heights4
  <1> QED
    BY <1>2, <1>3, <1>4, <1>5 DEF Tree

\* A window is at most MaxShards long, and whole when the tree fits it.
LEMMA WindowParts ==
  ASSUME NEW t, Tree(t)
  PROVE  /\ Populated(t) \in Nat /\ Populated(t) >= 1 /\ Populated(t) <= ShardLeaves
         /\ \A i \in Nat : i >= Populated(t) => i * ShardLeaves >= Len(t.leaves)
         /\ WindowShards(t) \in Int /\ WindowShards(t) <= MaxShards
         /\ InWindow(t) => t.offset + WindowShards(t) = Populated(t)
  <1> DEFINE n == Len(t.leaves)
             b == ShardLeaves
             x == (n - 1) \div b
  <1>1. n \in Nat /\ n >= 1 /\ n <= b * b /\ b \in Nat /\ b >= 1 /\ t.offset \in Nat
    BY Widths DEF Tree
  <1>2. Populated(t) = x + 1
    BY DEF Populated
  <1> HIDE DEF n, b
  <1>3. x \in Nat /\ (n - 1) % b \in Nat /\ (n - 1) % b < b /\ n - 1 = b * x + ((n - 1) % b)
    BY <1>1, Division
  <1> HIDE DEF x
  <1>4. x < b
    <2>1. x >= b => b * x >= b * b
      BY <1>1, <1>3
    <2> QED
      BY <1>1, <1>3, <2>1
  <1>5. ASSUME NEW i \in Nat, i >= x + 1 PROVE i * b >= n
    <2>1. i * b >= (x + 1) * b
      BY <1>1, <1>3, <1>5
    <2>2. (x + 1) * b = b * x + b
      BY <1>1, <1>3
    <2> QED
      BY <1>1, <1>3, <2>1, <2>2
  <1>6. MaxShards \in Nat
    BY ClientAssumption
  <1>7. /\ WindowShards(t) \in Int /\ WindowShards(t) <= MaxShards
        /\ InWindow(t) => t.offset + WindowShards(t) = x + 1
    BY <1>1, <1>2, <1>3, <1>6 DEF WindowShards, InWindow
  <1> QED
    BY <1>1, <1>2, <1>3, <1>4, <1>5, <1>7 DEF n, b

\* A position is in the window of a tree.
Within(p, t) == ShardOf(p) >= t.offset /\ ShardOf(p) < t.offset + WindowShards(t)

\* The row of a position: where it is in the matrix and in the tree.
LEMMA RowIndexIs ==
  ASSUME NEW p \in Nat, NEW t, Tree(t), Within(p, t)
  PROVE  LET r == RowIndex(p, t.offset) IN
         /\ r \in Nat /\ r < WindowShards(t) * SubshardsPerShard
         /\ r < MaxShards * SubshardsPerShard
         /\ t.offset * ShardLeaves + r * SubshardLeaves = (p \div SubshardLeaves) * SubshardLeaves
  <1> DEFINE o == t.offset
             x == ShardOf(p)
             y == SubshardOf(p)
             b == SubshardsPerShard
             d == x - o
             w == WindowShards(t)
  <1>1. /\ o \in Nat /\ x \in Nat /\ y \in Nat /\ y < b /\ d \in Nat
        /\ b \in Nat /\ b >= 1 /\ b = SubshardLeaves /\ ShardLeaves = b * b
        /\ w \in Int /\ w <= MaxShards /\ MaxShards \in Nat /\ d + 1 <= w
    <2>1. /\ o \in Nat /\ w \in Int /\ w <= MaxShards /\ MaxShards \in Nat /\ x >= o /\ x < o + w
      BY WindowParts, ClientAssumption DEF Tree, Within
    <2>2. x \in Nat /\ y \in Nat /\ y < b
      BY PositionParts
    <2>3. b \in Nat /\ b >= 1 /\ b = SubshardLeaves /\ ShardLeaves = b * b
      BY Widths
    <2> QED
      BY <2>1, <2>2, <2>3
  <1>2. p \div SubshardLeaves = x * b + y
    BY PositionParts
  <1>3. RowIndex(p, t.offset) = d * b + y
    BY DEF RowIndex
  <1>4. x = o + d
    BY <1>1
  <1> HIDE DEF o, x, y, b, d, w
  <1>5. d * b + y \in Nat /\ d * b + y < (d + 1) * b
    BY <1>1
  <1>6. (d + 1) * b <= w * b /\ w * b <= MaxShards * b
    <2>1. d + 1 \in Int
      BY <1>1
    <2> QED
      BY <1>1, <2>1
  <1>7. o * (b * b) + (d * b + y) * b = (x * b + y) * b
    BY <1>1, <1>4
  <1>8. w * b \in Int /\ MaxShards * b \in Int /\ (d + 1) * b \in Int
    BY <1>1
  <1>9. d * b + y < w * b /\ d * b + y < MaxShards * b
    BY <1>5, <1>6, <1>8
  <1> QED
    BY <1>1, <1>2, <1>3, <1>5, <1>7, <1>9 DEF o, b, w

\* The row of a position holds the leaves of its sub-shard, empty ones filled in.
LEMMA RowHolds ==
  ASSUME NEW p \in Nat, NEW t, Tree(t), Within(p, t)
  PROVE  LET row == RowOf(t, RowIndex(p, t.offset))
             first == (p \div SubshardLeaves) * SubshardLeaves
         IN  /\ row = [j \in 1..SubshardLeaves |->
                         IF first + j <= Len(t.leaves) THEN t.leaves[first + j] ELSE EmptyLeaf]
             /\ Len(row) = SubshardLeaves /\ first \in Nat
             /\ \A j \in 1..SubshardLeaves :
                  row[j] = IF first + j <= Len(t.leaves) THEN t.leaves[first + j] ELSE EmptyLeaf
  <1> DEFINE r == RowIndex(p, t.offset)
             first == (p \div SubshardLeaves) * SubshardLeaves
             at(j) == IF first + j <= Len(t.leaves) THEN t.leaves[first + j] ELSE EmptyLeaf
             w == WindowShards(t)
  <1>1. SubshardLeaves \in Nat /\ first \in Nat
    <2> DEFINE s == p \div SubshardLeaves
    <2>1. SubshardLeaves \in Nat
      BY Widths
    <2>2. s \in Nat
      BY PositionParts
    <2> HIDE DEF s
    <2> QED
      BY <2>1, <2>2 DEF s
  <1>2. r \in Nat /\ r < w * SubshardsPerShard /\ t.offset * ShardLeaves + r * SubshardLeaves = first
    BY RowIndexIs
  <1>3. w * SubshardsPerShard \in Int
    BY Widths, WindowParts
  <1>4. ~ (r >= w * SubshardsPerShard)
    BY <1>2, <1>3
  <1> HIDE DEF r, first, w
  <1>5. RowOf(t, r) = [j \in 1..SubshardLeaves |-> at(j)]
    BY <1>2, <1>4 DEF RowOf, w
  <1> HIDE DEF at
  <1>6. Len(RowOf(t, r)) = SubshardLeaves /\ \A j \in 1..SubshardLeaves : RowOf(t, r)[j] = at(j)
    BY <1>1, <1>5
  <1> QED
    BY <1>1, <1>5, <1>6 DEF at, r, first

\* As nodes of the tree they are the leaves below the sub-shard's root ...
LEMMA RowPrefix ==
  ASSUME NEW p \in Nat, NEW t, Tree(t), Within(p, t)
  PROVE  Prefix(RowOf(t, RowIndex(p, t.offset)), t.leaves, 0,
                (p \div SubshardLeaves) * Pow2[SubshardHeight], Pow2[SubshardHeight])
  <1> DEFINE row == RowOf(t, RowIndex(p, t.offset))
             first == (p \div SubshardLeaves) * SubshardLeaves
             n == Len(t.leaves)
             b == SubshardLeaves
  <1>1. /\ Len(row) = b /\ first \in Nat
        /\ \A j \in 1..b : row[j] = IF first + j <= n THEN t.leaves[first + j] ELSE EmptyLeaf
    BY RowHolds
  <1>2. b \in Nat /\ b = Pow2[SubshardHeight] /\ n \in Nat
    BY Widths DEF Tree
  <1> HIDE DEF row, first, n, b
  <1>3. ASSUME NEW i \in Nat, i < b PROVE row[i + 1] = Node(t.leaves, 0, first + i)
    <2>1. i + 1 \in 1..b /\ first + (i + 1) = (first + i) + 1 /\ first + i \in Nat
      BY <1>1, <1>2, <1>3
    <2>2. first + (i + 1) <= n <=> first + i < n
      BY <1>1, <1>2
    <2>3. Node(t.leaves, 0, first + i) = IF first + i < n THEN t.leaves[(first + i) + 1] ELSE EmptyLeaf
      BY <2>1, NodeSteps DEF n
    <2> QED
      BY <1>1, <2>1, <2>2, <2>3
  <1>4. Prefix(row, t.leaves, 0, first, b)
    BY <1>1, <1>2, <1>3 DEF Prefix
  <1> QED
    BY <1>2, <1>4 DEF row, first, b

\* ... and of a row taken as a tree of its own, its leaves.
LEMMA OwnPrefix ==
  ASSUME NEW row, Len(row) = SubshardLeaves
  PROVE  Prefix(row, row, 0, 0 * Pow2[SubshardHeight], Pow2[SubshardHeight])
  <1> DEFINE b == SubshardLeaves
  <1>1. b \in Nat /\ b = Pow2[SubshardHeight] /\ 0 * b = 0
    BY Widths
  <1> HIDE DEF b
  <1>2. ASSUME NEW i \in Nat, i < b PROVE row[i + 1] = Node(row, 0, 0 + i)
    <2>1. 0 + i = i
      OBVIOUS
    <2> QED
      BY <1>2, <2>1, NodeSteps DEF b
  <1>3. Prefix(row, row, 0, 0, b)
    BY <1>1, <1>2 DEF Prefix, b
  <1> QED
    BY <1>1, <1>3

\* The broadcast holds the sub-shard roots of the shard ...
LEMMA SubshardPrefix ==
  ASSUME NEW p \in Nat, NEW t, Tree(t), Within(p, t)
  PROVE  Prefix(Broadcast(t).subshard_roots[ShardOf(p) - t.offset + 1], t.leaves, SubshardHeight,
                ShardOf(p) * Pow2[SubshardHeight], Pow2[SubshardHeight])
  <1> DEFINE b == SubshardsPerShard
             x == ShardOf(p)
             o == t.offset
             w == WindowShards(t)
             roots(i) == [k \in 1..b |-> Node(t.leaves, SubshardHeight, (o + i - 1) * b + k - 1)]
             seq == Broadcast(t).subshard_roots[x - o + 1]
  <1>1. b \in Nat /\ b = Pow2[SubshardHeight]
    BY Widths
  <1>2. x \in Nat /\ o \in Nat /\ w \in Int /\ x - o + 1 \in 1..w
    <2>1. x \in Nat
      BY PositionParts
    <2>2. o \in Nat /\ w \in Int /\ x >= o /\ x < o + w
      BY WindowParts DEF Tree, Within
    <2> HIDE DEF x, o, w
    <2> QED
      BY <2>1, <2>2
  <1>3. Broadcast(t).subshard_roots = [i \in 1..w |-> roots(i)]
    BY DEF Broadcast
  <1>4. o + (x - o + 1) - 1 = x
    BY <1>2
  <1> HIDE DEF roots, x, w, o, b
  <1>5. seq = roots(x - o + 1)
    BY <1>2, <1>3
  <1>6. seq = [k \in 1..b |-> Node(t.leaves, SubshardHeight, x * b + k - 1)]
    BY <1>4, <1>5 DEF roots
  <1>7. Len(seq) = b /\ \A k \in 1..b : seq[k] = Node(t.leaves, SubshardHeight, x * b + k - 1)
    <2> HIDE DEF seq
    <2> QED
      BY <1>1, <1>6
  <1> HIDE DEF seq
  <1>8. ASSUME NEW i \in Nat, i < b PROVE seq[i + 1] = Node(t.leaves, SubshardHeight, x * b + i)
    <2>1. x * b \in Nat
      BY <1>1, <1>2
    <2>2. i + 1 \in 1..b /\ x * b + (i + 1) - 1 = x * b + i
      BY <1>1, <1>8, <2>1
    <2> QED
      BY <1>7, <2>2
  <1>9. Prefix(seq, t.leaves, SubshardHeight, x * b, b)
    BY <1>1, <1>7, <1>8 DEF Prefix
  <1> QED
    BY <1>1, <1>9 DEF seq, x, o

\* ... and of a tree that fits its window, the roots of all populated shards.
LEMMA ShardPrefix ==
  ASSUME NEW t, Tree(t), InWindow(t)
  PROVE  Prefix(Broadcast(t).shard_roots, t.leaves, ShardHeight, 0 * Pow2[ShardHeight], Pow2[ShardHeight])
  <1> DEFINE n == Populated(t)
             b == ShardLeaves
             seq == Broadcast(t).shard_roots
             len == Len(t.leaves)
  <1>1. /\ n \in Nat /\ n <= b /\ t.offset + WindowShards(t) = n
        /\ \A i \in Nat : i >= n => i * b >= len
    BY WindowParts
  <1>2. b \in Nat /\ b = Pow2[ShardHeight] /\ 0 * b = 0 /\ ShardHeight \in 0..TreeDepth
    BY Widths, Heights4
  <1> HIDE DEF n, b
  <1>3. seq = [i \in 1..n |-> Node(t.leaves, ShardHeight, i - 1)]
    BY <1>1 DEF Broadcast
  <1>4. Len(seq) = n /\ \A i \in 1..n : seq[i] = Node(t.leaves, ShardHeight, i - 1)
    <2> HIDE DEF seq
    <2> QED
      BY <1>1, <1>3
  <1> HIDE DEF seq
  <1>5. ASSUME NEW i \in Nat, i < n PROVE seq[i + 1] = Node(t.leaves, ShardHeight, 0 + i)
    <2>1. i + 1 \in 1..n /\ (i + 1) - 1 = 0 + i
      BY <1>1, <1>5
    <2> QED
      BY <1>4, <2>1
  <1>6. ASSUME NEW i \in Nat, n <= i PROVE Node(t.leaves, ShardHeight, 0 + i) = EmptyRoot[ShardHeight]
    <2>1. i * Pow2[ShardHeight] >= len /\ 0 + i = i
      BY <1>1, <1>2, <1>6
    <2>2. Len(t.leaves) \in Nat
      BY DEF Tree
    <2> QED
      BY <1>2, <2>1, <2>2, EmptyBeyond
  <1>7. Prefix(seq, t.leaves, ShardHeight, 0, b)
    BY <1>1, <1>2, <1>4, <1>5, <1>6 DEF Prefix
  <1> QED
    BY <1>2, <1>7 DEF seq

\* The three tiers of a witness.
Lower(p, row) == ExtractSiblings(row, LeafOf(p), 0, SubshardHeight)
Middle(p, b) ==
  ExtractSiblings(b.subshard_roots[ShardOf(p) - b.window_start + 1], SubshardOf(p),
                  SubshardHeight, SubshardHeight)
Upper(p, b) == ExtractSiblings(b.shard_roots, ShardOf(p), ShardHeight, ShardHeight)

Reconstructed(w, p, row, b) ==
  /\ w.position = p
  /\ w.siblings = [level \in 0..(TreeDepth - 1) |-> w.siblings[level]]
  /\ \A k \in 0..(SubshardHeight - 1) :
       /\ w.siblings[k] = Lower(p, row)[0 + k]
       /\ w.siblings[SubshardHeight + k] = Middle(p, b)[SubshardHeight + k]
  /\ \A k \in 0..(ShardHeight - 1) :
       w.siblings[ShardHeight + k] = Upper(p, b)[ShardHeight + k]
  /\ w.anchor_root = RootFromPath(p, row[LeafOf(p) + 1], w.siblings)

LEMMA ReconstructIs ==
  ASSUME NEW p, NEW row, NEW b
  PROVE  Reconstructed(Reconstruct(p, row, b), p, row, b)
  <1> DEFINE at(level) == IF level < SubshardHeight THEN Lower(p, row)[level]
                          ELSE IF level < ShardHeight THEN Middle(p, b)[level]
                          ELSE Upper(p, b)[level]
             siblings == [level \in 0..(TreeDepth - 1) |-> at(level)]
  <1>1. Reconstruct(p, row, b) = [position |-> p, siblings |-> siblings,
                                  anchor_root |-> RootFromPath(p, row[LeafOf(p) + 1], siblings)]
    BY DEF Reconstruct, Lower, Middle, Upper
  <1>2. /\ SubshardHeight \in Nat /\ ShardHeight \in Nat /\ TreeDepth \in Nat
        /\ ShardHeight = SubshardHeight + SubshardHeight /\ TreeDepth = ShardHeight + ShardHeight
    BY Heights4
  <1> HIDE DEF at
  <1>3. \A level \in 0..(TreeDepth - 1) : siblings[level] = at(level)
    OBVIOUS
  <1>4. ASSUME NEW k \in 0..(SubshardHeight - 1)
        PROVE  siblings[k] = Lower(p, row)[0 + k]
    <2>1. k \in 0..(TreeDepth - 1) /\ k < SubshardHeight /\ 0 + k = k
      BY <1>2
    <2> QED
      BY <1>3, <2>1 DEF at
  <1>5. ASSUME NEW k \in 0..(SubshardHeight - 1)
        PROVE  siblings[SubshardHeight + k] = Middle(p, b)[SubshardHeight + k]
    <2>1. /\ SubshardHeight + k \in 0..(TreeDepth - 1) /\ ~ (SubshardHeight + k < SubshardHeight)
          /\ SubshardHeight + k < ShardHeight
      BY <1>2
    <2> QED
      BY <1>3, <2>1 DEF at
  <1>6. ASSUME NEW k \in 0..(ShardHeight - 1)
        PROVE  siblings[ShardHeight + k] = Upper(p, b)[ShardHeight + k]
    <2>1. /\ ShardHeight + k \in 0..(TreeDepth - 1) /\ ~ (ShardHeight + k < SubshardHeight)
          /\ ~ (ShardHeight + k < ShardHeight)
      BY <1>2
    <2> QED
      BY <1>3, <2>1 DEF at
  <1>7. siblings = [level \in 0..(TreeDepth - 1) |-> siblings[level]]
    OBVIOUS
  <1> HIDE DEF siblings
  <1> DEFINE w == Reconstruct(p, row, b)
  <1>8. /\ w.position = p /\ w.siblings = siblings
        /\ w.anchor_root = RootFromPath(p, row[LeafOf(p) + 1], siblings)
    BY <1>1
  <1> HIDE DEF w
  <1>9. /\ w.position = p
        /\ w.siblings = [level \in 0..(TreeDepth - 1) |-> w.siblings[level]]
        /\ w.anchor_root = RootFromPath(p, row[LeafOf(p) + 1], w.siblings)
    BY <1>7, <1>8
  <1>10. \A k \in 0..(SubshardHeight - 1) :
           /\ w.siblings[k] = Lower(p, row)[0 + k]
           /\ w.siblings[SubshardHeight + k] = Middle(p, b)[SubshardHeight + k]
    BY <1>4, <1>5, <1>8
  <1>11. \A k \in 0..(ShardHeight - 1) :
           w.siblings[ShardHeight + k] = Upper(p, b)[ShardHeight + k]
    BY <1>6, <1>8
  <1> QED
    BY <1>9, <1>10, <1>11 DEF w, Reconstructed

\* From a row and a broadcast of one tree comes the path of the position, up to its root.
LEMMA SameTreeWitness ==
  ASSUME NEW p \in Nat, NEW t, Tree(t), Within(p, t), InWindow(t)
  PROVE  LET w == Reconstruct(p, RowOf(t, RowIndex(p, t.offset)), Broadcast(t))
         IN  /\ w.position = p
             /\ w.siblings = AuthPath(t.leaves, p)
             /\ w.anchor_root = TreeRoot(t.leaves)
  <1> DEFINE row == RowOf(t, RowIndex(p, t.offset))
             b == Broadcast(t)
             w == Reconstruct(p, row, b)
             s == p \div SubshardLeaves
             h == SubshardHeight
             leaves == t.leaves
             path(level) == Node(leaves, level, Sibling(p \div Pow2[level]))
  <1>1. /\ h \in Nat /\ ShardHeight \in Nat /\ TreeDepth \in Nat /\ h >= 1
        /\ ShardHeight = h + h /\ TreeDepth = ShardHeight + ShardHeight
        /\ h \in 0..TreeDepth /\ ShardHeight \in 0..TreeDepth
        /\ 0 + h <= TreeDepth /\ h + h <= TreeDepth /\ ShardHeight + ShardHeight <= TreeDepth
    BY Heights4
  <1>2. /\ s \in Nat /\ ShardOf(p) \in Nat /\ SubshardOf(p) \in Nat /\ LeafOf(p) \in Nat
        /\ SubshardOf(p) < Pow2[h] /\ LeafOf(p) < Pow2[h]
        /\ p = s * Pow2[h] + LeafOf(p) /\ s = ShardOf(p) * Pow2[h] + SubshardOf(p)
        /\ \A k \in 0..h : s \div Pow2[k] = p \div Pow2[h + k]
        /\ \A k \in 0..ShardHeight : ShardOf(p) \div Pow2[k] = p \div Pow2[ShardHeight + k]
    BY PositionParts, Widths
  <1>3. ShardOf(p) < Pow2[ShardHeight] /\ p \div Pow2[TreeDepth] = 0
    <2> DEFINE x == ShardOf(p)
               n == Populated(t)
               o == t.offset + WindowShards(t)
    <2>1. x < o /\ o = n /\ n \in Nat /\ n <= ShardLeaves /\ x \in Nat /\ ShardLeaves \in Nat
      BY <1>2, WindowParts, Widths DEF Within
    <2> HIDE DEF x, n, o
    <2>2. x < ShardLeaves
      BY <2>1
    <2> QED
      BY <2>2, PositionParts, Widths DEF x
  <1> HIDE DEF s, h
  <1>4. ASSUME NEW k \in 0..(h - 1) PROVE Lower(p, row)[0 + k] = path(k)
    <2>1. Prefix(row, leaves, 0, s * Pow2[h], Pow2[h])
      BY RowPrefix DEF s, h
    <2>2. Found(leaves, row, LeafOf(p), 0, h, p)
      <3> HIDE DEF row, leaves
      <3>1. 0 \in Nat /\ h \in Nat /\ 0 + h <= TreeDepth
        BY <1>1
      <3>2. s \in Nat /\ LeafOf(p) \in Nat /\ LeafOf(p) < Pow2[h] /\ p = s * Pow2[h] + LeafOf(p)
        BY <1>2
      <3> QED
        BY <2>1, <3>1, <3>2, SiblingsFound
    <2>3. 0 + k = k /\ k \in Nat
      BY <1>1
    <2> QED
      BY <2>2, <2>3 DEF Found, Lower, h
  <1>5. ASSUME NEW k \in 0..(h - 1) PROVE Middle(p, b)[h + k] = path(h + k)
    <2> DEFINE seq == b.subshard_roots[ShardOf(p) - t.offset + 1]
    <2>1. Prefix(seq, leaves, h, ShardOf(p) * Pow2[h], Pow2[h])
      BY SubshardPrefix DEF h
    <2>2. Found(leaves, seq, SubshardOf(p), h, h, s)
      <3> HIDE DEF seq, leaves
      <3>1. h \in Nat /\ h + h <= TreeDepth
        BY <1>1
      <3>2. /\ ShardOf(p) \in Nat /\ SubshardOf(p) \in Nat /\ SubshardOf(p) < Pow2[h]
            /\ s = ShardOf(p) * Pow2[h] + SubshardOf(p)
        BY <1>2
      <3> QED
        BY <2>1, <3>1, <3>2, SiblingsFound
    <2>3. k \in 0..h /\ h + k \in Nat /\ b.window_start = t.offset
      BY <1>1 DEF Broadcast
    <2>4. s \div Pow2[k] = p \div Pow2[h + k]
      BY <1>2, <2>3
    <2>5. Middle(p, b) = ExtractSiblings(seq, SubshardOf(p), h, h)
      BY <2>3 DEF Middle, h
    <2> HIDE DEF seq
    <2> QED
      BY <2>2, <2>3, <2>4, <2>5 DEF Found
  <1>6. ASSUME NEW k \in 0..(ShardHeight - 1) PROVE Upper(p, b)[ShardHeight + k] = path(ShardHeight + k)
    <2> DEFINE seq == b.shard_roots
    <2>1. Prefix(seq, leaves, ShardHeight, 0 * Pow2[ShardHeight], Pow2[ShardHeight])
      BY ShardPrefix
    <2>2. Found(leaves, seq, ShardOf(p), ShardHeight, ShardHeight, ShardOf(p))
      <3> HIDE DEF seq, leaves
      <3>1. ShardHeight \in Nat /\ ShardHeight + ShardHeight <= TreeDepth
        BY <1>1
      <3>2. ShardOf(p) \in Nat /\ ShardOf(p) < Pow2[ShardHeight]
        BY <1>2, <1>3
      <3> DEFINE first == 0 * Pow2[ShardHeight]
                 x == ShardOf(p)
      <3>3. 0 \in Nat /\ x = first + x
        BY <1>1, <3>2, Pow2Facts
      <3> HIDE DEF first, x
      <3>4. Found(leaves, seq, x, ShardHeight, ShardHeight, x)
        BY <2>1, <3>1, <3>2, <3>3, SiblingsFound DEF first, x
      <3> QED
        BY <3>4 DEF x
    <2>3. ShardHeight + k \in Nat /\ k \in 0..ShardHeight
      BY <1>1
    <2>4. ShardOf(p) \div Pow2[k] = p \div Pow2[ShardHeight + k]
      BY <1>2, <2>3
    <2> HIDE DEF seq
    <2>5. Upper(p, b) = ExtractSiblings(seq, ShardOf(p), ShardHeight, ShardHeight)
      BY DEF Upper, seq
    <2> QED
      BY <2>2, <2>3, <2>4, <2>5 DEF Found
  <1>7. /\ w.position = p
        /\ w.siblings = [level \in 0..(TreeDepth - 1) |-> w.siblings[level]]
        /\ \A k \in 0..(h - 1) :
             w.siblings[k] = Lower(p, row)[0 + k] /\ w.siblings[h + k] = Middle(p, b)[h + k]
        /\ \A k \in 0..(ShardHeight - 1) : w.siblings[ShardHeight + k] = Upper(p, b)[ShardHeight + k]
        /\ w.anchor_root = RootFromPath(p, row[LeafOf(p) + 1], w.siblings)
    <2>1. Reconstructed(w, p, row, b)
      BY ReconstructIs
    <2> HIDE DEF row, b, w
    <2> QED
      BY <2>1 DEF h, Reconstructed
  <1> HIDE DEF path, w
  <1>8. ASSUME NEW level \in 0..(TreeDepth - 1) PROVE w.siblings[level] = path(level)
    <2>1. CASE level \in 0..(h - 1)
      BY <1>4, <1>7, <2>1
    <2>2. CASE level \in h..(ShardHeight - 1)
      <3> DEFINE k == level - h
      <3>1. k \in 0..(h - 1) /\ level = h + k
        BY <1>1, <2>2
      <3> HIDE DEF k
      <3> QED
        BY <1>5, <1>7, <3>1
    <2>3. CASE level \in ShardHeight..(TreeDepth - 1)
      <3> DEFINE k == level - ShardHeight
      <3>1. k \in 0..(ShardHeight - 1) /\ level = ShardHeight + k
        BY <1>1, <2>3
      <3> HIDE DEF k
      <3> QED
        BY <1>6, <1>7, <3>1
    <2> QED
      BY <1>1, <2>1, <2>2, <2>3
  <1>9. w.siblings = AuthPath(leaves, p)
    <2>1. AuthPath(leaves, p) = [level \in 0..(TreeDepth - 1) |-> path(level)]
      BY DEF AuthPath, path
    <2> QED
      BY <1>7, <1>8, <2>1
  <1>10. row[LeafOf(p) + 1] = Node(leaves, 0, p)
    <2>1. Prefix(row, leaves, 0, s * Pow2[h], Pow2[h])
      BY RowPrefix DEF s, h
    <2>2. Len(row) = Pow2[h]
      BY RowHolds, Widths DEF h
    <2> HIDE DEF row, leaves
    <2>3. row[LeafOf(p) + 1] = Node(leaves, 0, s * Pow2[h] + LeafOf(p))
      BY <1>2, <2>1, <2>2 DEF Prefix
    <2> QED
      BY <1>2, <2>3
  <1>11. w.anchor_root = TreeRoot(leaves)
    <2> DEFINE leaf == row[LeafOf(p) + 1]
    <2>1. PICK f : Ascends(f, p, leaf, w.siblings)
      BY RootClimbs
    <2>2. Climbs(f, p, leaf, w.siblings, TreeDepth) /\ w.anchor_root = f[TreeDepth]
      BY <1>7, <2>1 DEF Ascends
    <2>3. leaf = Node(leaves, 0, p)
      BY <1>10
    <2>4. \A k \in 0..(TreeDepth - 1) : w.siblings[k] = Node(leaves, k, Sibling(p \div Pow2[k]))
      BY <1>8 DEF path
    <2>5. TreeDepth \in 0..TreeDepth
      BY <1>1
    <2> HIDE DEF leaf, leaves
    <2>6. f[TreeDepth] = Node(leaves, TreeDepth, p \div Pow2[TreeDepth])
      BY <2>2, <2>3, <2>4, <2>5, ClimbInTree
    <2> QED
      BY <1>3, <2>2, <2>6 DEF TreeRoot
  <1> QED
    BY <1>7, <1>9, <1>11 DEF w

-----------------------------------------------------------------------------
(* Witnesses of one row *)

\* The way up from a leaf of a row leads to the root of the row, whichever leaf it is.
FromRow(f, p, row, siblings) ==
  /\ \A k \in 0..(SubshardHeight - 1) : siblings[k] = Lower(p, row)[0 + k]
  /\ Climbs(f, p, row[LeafOf(p) + 1], siblings, TreeDepth)

LEMMA RowRoot ==
  ASSUME NEW p \in Nat, NEW row, Len(row) = SubshardLeaves, NEW siblings, NEW f,
         FromRow(f, p, row, siblings)
  PROVE  f[SubshardHeight] = Node(row, SubshardHeight, 0)
  <1> DEFINE h == SubshardHeight
             l == LeafOf(p)
             s == p \div SubshardLeaves
  <1>1. h \in Nat /\ h \in 0..TreeDepth /\ TreeDepth \in Nat /\ 0 + h <= TreeDepth /\ h >= 1 /\ 0 \in Nat
    BY Heights4
  <1>2. /\ s \in Nat /\ l \in Nat /\ l < Pow2[h] /\ p = s * Pow2[h] + l
        /\ Len(row) = Pow2[h] /\ Pow2[h] \in Nat
    BY PositionParts, Widths
  <1>3. Prefix(row, row, 0, 0 * Pow2[h], Pow2[h])
    BY OwnPrefix
  <1>4. 0 * Pow2[h] + l = l
    BY <1>2
  <1>5. Climbs(f, p, row[l + 1], siblings, h)
    <2>1. \A k \in 1..h : k \in 1..TreeDepth
      BY <1>1
    <2>2. Climbs(f, p, row[l + 1], siblings, TreeDepth)
      BY DEF FromRow
    <2> HIDE DEF h, l
    <2> QED
      BY <2>1, <2>2 DEF Climbs
  <1> HIDE DEF h, l, s
  <1>6. ASSUME NEW k \in 0..(h - 1)
        PROVE  /\ siblings[k] = Node(row, k, Sibling(l \div Pow2[k]))
               /\ (p \div Pow2[k]) % 2 = (l \div Pow2[k]) % 2
    <2>1. k \in 0..h /\ 0 + k = k
      BY <1>1
    <2>2. Found(row, row, l, 0, h, l)
      <3> DEFINE first == 0 * Pow2[h]
      <3>1. 0 \in Nat /\ h \in Nat /\ 0 + h <= TreeDepth
        BY <1>1
      <3>2. l \in Nat /\ l < Pow2[h] /\ l = first + l
        BY <1>2, <1>4
      <3> HIDE DEF first
      <3> QED
        BY <1>3, <3>1, <3>2, SiblingsFound DEF first
    <2>3. siblings[k] = ExtractSiblings(row, l, 0, h)[0 + k]
      BY DEF FromRow, Lower, h, l
    <2> DEFINE x == l \div Pow2[k]
               w == Pow2[h - (k + 1)]
    <2>4. /\ h - (k + 1) \in 0..(TreeDepth - 1) /\ h - (k + 1) \in 0..TreeDepth
          /\ (h - (k + 1)) + 1 = h - k
      BY <1>1
    <2>5. w \in Nat /\ Pow2[h - k] = 2 * w
      BY <2>4, Pow2Facts
    <2>6. x \in Nat /\ p \div Pow2[k] = s * Pow2[h - k] + x
      <3>1. WayUp(h, s, l, p)
        BY <1>1, <1>2, IndexOnTheWayUp
      <3> QED
        BY <2>1, <3>1 DEF WayUp
    <2> HIDE DEF x, w
    <2> DEFINE y == s * w
    <2>7. y \in Nat /\ s * (2 * w) = 2 * y
      BY <1>2, <2>5
    <2> HIDE DEF y
    <2>8. (2 * y + x) % 2 = x % 2
      BY <2>6, <2>7
    <2> QED
      <3>1. k \in Nat
        BY <1>1
      <3>2. siblings[k] = Node(row, k, Sibling(l \div Pow2[k]))
        BY <2>1, <2>2, <2>3, <3>1 DEF Found
      <3>3. (p \div Pow2[k]) % 2 = x % 2
        BY <2>5, <2>6, <2>7, <2>8
      <3> QED
        BY <3>2, <3>3 DEF x
  <1>7. row[l + 1] = Node(row, 0, l)
    BY <1>2, NodeSteps
  <1>8. f[h] = Node(row, h, l \div Pow2[h])
    <2>1. l \in Nat /\ h \in 0..TreeDepth
      BY <1>1, <1>2
    <2> QED
      BY <1>5, <1>6, <1>7, <2>1, ClimbInTree
  <1>9. l \div Pow2[h] = 0
    <2>1. l = Pow2[h] * 0 + l /\ Pow2[h] >= 1
      BY <1>2
    <2> QED
      BY <1>1, <1>2, <2>1, QuotientIs
  <1> QED
    BY <1>8, <1>9 DEF h

\* Positions of one sub-shard differ below its root only.
SameSubshard(p, q) == p \div SubshardLeaves = q \div SubshardLeaves

LEMMA SameSubshardParts ==
  ASSUME NEW p \in Nat, NEW q \in Nat, SameSubshard(p, q)
  PROVE  /\ \A k \in 0..SubshardHeight :
              p \div Pow2[SubshardHeight + k] = q \div Pow2[SubshardHeight + k]
         /\ ShardOf(p) = ShardOf(q) /\ SubshardOf(p) = SubshardOf(q)
  <1> DEFINE h == SubshardHeight
             s == p \div SubshardLeaves
  <1>1. /\ \A k \in 0..h : s \div Pow2[k] = p \div Pow2[h + k] /\ s \div Pow2[k] = q \div Pow2[h + k]
    BY PositionParts DEF SameSubshard
  <1>2. \A k \in 0..h : p \div Pow2[h + k] = q \div Pow2[h + k]
    BY <1>1
  <1>3. ShardOf(p) = ShardOf(q)
    <2>1. h \in 0..h /\ h + h = ShardHeight
      BY Heights4
    <2>2. p \div Pow2[h + h] = q \div Pow2[h + h]
      BY <1>2, <2>1
    <2> QED
      BY <2>1, <2>2, Widths DEF ShardOf
  <1>4. SubshardOf(p) = SubshardOf(q)
    BY DEF SubshardOf, SameSubshard
  <1> QED
    BY <1>2, <1>3, <1>4

\* Witnesses made of one row and one broadcast share their root.
LEMMA SameRowWitnesses ==
  ASSUME NEW p \in Nat, NEW q \in Nat, NEW row, NEW b, Len(row) = SubshardLeaves,
         SameSubshard(p, q)
  PROVE  Reconstruct(p, row, b).anchor_root = Reconstruct(q, row, b).anchor_root
  <1> DEFINE h == SubshardHeight
             v == Reconstruct(p, row, b)
             w == Reconstruct(q, row, b)
             s == p \div SubshardLeaves
  <1>1. /\ h \in Nat /\ ShardHeight \in Nat /\ TreeDepth \in Nat /\ h \in 0..TreeDepth
        /\ ShardHeight = h + h /\ TreeDepth = ShardHeight + ShardHeight /\ h \in 0..h
    BY Heights4
  <1>2. /\ \A k \in 0..h : p \div Pow2[h + k] = q \div Pow2[h + k]
        /\ ShardOf(p) = ShardOf(q) /\ SubshardOf(p) = SubshardOf(q)
    BY SameSubshardParts
  <1>3. \A k \in 0..ShardHeight : p \div Pow2[ShardHeight + k] = q \div Pow2[ShardHeight + k]
    <2>1. \A k \in 0..ShardHeight : /\ ShardOf(p) \div Pow2[k] = p \div Pow2[ShardHeight + k]
                                    /\ ShardOf(q) \div Pow2[k] = q \div Pow2[ShardHeight + k]
      BY PositionParts
    <2> QED
      BY <1>2, <2>1
  <1>4. Middle(p, b) = Middle(q, b) /\ Upper(p, b) = Upper(q, b)
    BY <1>2 DEF Middle, Upper
  <1>5. /\ \A k \in 0..(h - 1) : v.siblings[k] = Lower(p, row)[0 + k]
        /\ \A k \in 0..(h - 1) : v.siblings[h + k] = Middle(p, b)[h + k]
        /\ \A k \in 0..(ShardHeight - 1) : v.siblings[ShardHeight + k] = Upper(p, b)[ShardHeight + k]
        /\ v.anchor_root = RootFromPath(p, row[LeafOf(p) + 1], v.siblings)
    <2>1. Reconstructed(v, p, row, b)
      BY ReconstructIs
    <2> HIDE DEF v
    <2> QED
      BY <2>1 DEF Reconstructed
  <1>6. /\ \A k \in 0..(h - 1) : w.siblings[k] = Lower(q, row)[0 + k]
        /\ \A k \in 0..(h - 1) : w.siblings[h + k] = Middle(q, b)[h + k]
        /\ \A k \in 0..(ShardHeight - 1) : w.siblings[ShardHeight + k] = Upper(q, b)[ShardHeight + k]
        /\ w.anchor_root = RootFromPath(q, row[LeafOf(q) + 1], w.siblings)
    <2>1. Reconstructed(w, q, row, b)
      BY ReconstructIs
    <2> HIDE DEF w
    <2> QED
      BY <2>1 DEF Reconstructed
  <1> HIDE DEF v, w
  <1>7. ASSUME NEW level \in h..(TreeDepth - 1)
        PROVE  p \div Pow2[level] = q \div Pow2[level] /\ v.siblings[level] = w.siblings[level]
    <2> HIDE DEF h
    <2>1. CASE level \in h..(ShardHeight - 1)
      <3> DEFINE k == level - h
      <3>1. k \in 0..(h - 1) /\ k \in 0..h /\ level = h + k
        BY <1>1, <2>1
      <3> HIDE DEF k
      <3> QED
        BY <1>2, <1>4, <1>5, <1>6, <3>1
    <2>2. CASE level \in ShardHeight..(TreeDepth - 1)
      <3> DEFINE k == level - ShardHeight
      <3>1. k \in 0..(ShardHeight - 1) /\ k \in 0..ShardHeight /\ level = ShardHeight + k
        BY <1>1, <2>2
      <3> HIDE DEF k
      <3> QED
        BY <1>3, <1>4, <1>5, <1>6, <3>1
    <2> QED
      BY <1>1, <2>1, <2>2
  <1>8. PICK f : Ascends(f, p, row[LeafOf(p) + 1], v.siblings)
    BY RootClimbs
  <1>9. PICK g : Ascends(g, q, row[LeafOf(q) + 1], w.siblings)
    BY RootClimbs
  <1>10. /\ Climbs(f, p, row[LeafOf(p) + 1], v.siblings, TreeDepth) /\ v.anchor_root = f[TreeDepth]
         /\ Climbs(g, q, row[LeafOf(q) + 1], w.siblings, TreeDepth) /\ w.anchor_root = g[TreeDepth]
    BY <1>5, <1>6, <1>8, <1>9 DEF Ascends
  <1>11. f[h] = g[h]
    <2>1. f[h] = Node(row, h, 0)
      <3>1. FromRow(f, p, row, v.siblings)
        BY <1>5, <1>10 DEF FromRow
      <3> HIDE DEF h
      <3>2. f[SubshardHeight] = Node(row, SubshardHeight, 0)
        BY <3>1, RowRoot
      <3> QED
        BY <3>2 DEF h
    <2>2. g[h] = Node(row, h, 0)
      <3>1. FromRow(g, q, row, w.siblings)
        BY <1>6, <1>10 DEF FromRow
      <3> HIDE DEF h
      <3>2. g[SubshardHeight] = Node(row, SubshardHeight, 0)
        BY <3>1, RowRoot
      <3> QED
        BY <3>2 DEF h
    <2> QED
      BY <2>1, <2>2
  <1>12. f[TreeDepth] = g[TreeDepth]
    <2> HIDE DEF h
    <2> QED
      BY <1>1, <1>7, <1>10, <1>11, ClimbTogether
  <1> QED
    BY <1>10, <1>12 DEF v, w

-----------------------------------------------------------------------------
(* The client *)

\* A sequence of whatever it holds.
IsSequence(q) == q \in Seq({q[i] : i \in DOMAIN q})

\* The decoded rows are rows of trees that were live.
RowsOfTrees == \A r \in DOMAIN rows : rows[r].of \in Published /\ rows[r].row = RowOf(rows[r].of, r)

\* A witness is put together from the broadcast and a row of the tree it names.
MadeOf(x, b) ==
  LET p == x.w.position
      r == RowIndex(p, b.of.offset)
  IN  /\ p \in Nat /\ Within(p, b.of)
      /\ x.rowOf \in Published
      /\ x.w = Reconstruct(p, RowOf(x.rowOf, r), b.data)

\* That tree is the one of the row decoded for its position.
DecodedFor(x, b, known) ==
  LET r == RowIndex(x.w.position, b.of.offset)
  IN  r \in DOMAIN known /\ x.rowOf = known[r].of

\* The inductive invariant.
WitnessInv ==
  /\ WitnessTypeOK
  /\ todo \in Seq(Nat)
  /\ RowsOfTrees
  /\ IsSequence(witnesses)
  /\ \A i \in DOMAIN witnesses : MadeOf(witnesses[i], broadcast)
  /\ entry = "async" => \A i \in DOMAIN witnesses : DecodedFor(witnesses[i], broadcast, rows)

\* Appending to a sequence.
LEMMA AppendSequence ==
  ASSUME NEW q, IsSequence(q), NEW x
  PROVE  /\ IsSequence(Append(q, x))
         /\ \A i \in DOMAIN Append(q, x) : Append(q, x)[i] = x \/ (i \in DOMAIN q /\ Append(q, x)[i] = q[i])
  <1> DEFINE S == {q[i] : i \in DOMAIN q} \cup {x}
             a == Append(q, x)
  <1>1. q \in Seq(S) /\ x \in S /\ Len(q) \in Nat /\ DOMAIN q = 1..Len(q)
    BY DEF IsSequence
  <1> HIDE DEF S
  <1>2. /\ a \in Seq(S) /\ Len(a) = Len(q) + 1 /\ DOMAIN a = 1..Len(a)
        /\ \A i \in 1..Len(q) : a[i] = q[i]
        /\ a[Len(q) + 1] = x
    BY <1>1
  <1>3. \A i \in DOMAIN a : i \in 1..Len(q) \/ i = Len(q) + 1
    BY <1>1, <1>2
  <1> HIDE DEF a
  <1>4. a \in Seq({a[i] : i \in DOMAIN a})
    BY <1>2
  <1> QED
    BY <1>1, <1>2, <1>3, <1>4 DEF IsSequence, a

\* Every row of a matrix has as many leaves as a sub-shard.
LEMMA RowLength ==
  ASSUME NEW t, NEW r
  PROVE  Len(RowOf(t, r)) = SubshardLeaves
  <1> DEFINE at(j) == LET p == t.offset * ShardLeaves + r * SubshardLeaves + j
                      IN  IF r >= WindowShards(t) * SubshardsPerShard THEN ZeroLeaf
                          ELSE IF p <= Len(t.leaves) THEN t.leaves[p] ELSE EmptyLeaf
  <1>1. RowOf(t, r) = [j \in 1..SubshardLeaves |-> at(j)]
    BY DEF RowOf
  <1>2. SubshardLeaves \in Nat
    BY Widths
  <1> HIDE DEF at
  <1> QED
    BY <1>1, <1>2

\* A tree and a longer one agree on the full sub-shards of the shorter.
Full(p, t) == p \div SubshardLeaves < Len(t.leaves) \div SubshardLeaves
Extends(t, u) ==
  /\ t.offset = u.offset
  /\ Len(u.leaves) <= Len(t.leaves) /\ u.leaves = SubSeq(t.leaves, 1, Len(u.leaves))

LEMMA FullRowsAgree ==
  ASSUME NEW p \in Nat, NEW t, NEW u, Tree(t), Tree(u), Extends(t, u), InWindow(u),
         Within(p, u), Full(p, u)
  PROVE  RowOf(t, RowIndex(p, u.offset)) = RowOf(u, RowIndex(p, u.offset))
  <1> DEFINE n == Len(u.leaves)
             m == Len(t.leaves)
             b == SubshardLeaves
             s == p \div b
             first == s * b
  <1>1. /\ n \in Nat /\ n >= 1 /\ m \in Nat /\ n <= m /\ b \in Nat /\ b >= 1
        /\ t.offset = u.offset /\ u.offset \in Nat
    BY Widths DEF Tree, Extends
  <1>2. \A i \in 1..n : u.leaves[i] = t.leaves[i]
    <2>1. t.leaves \in Seq(Commitments) /\ u.leaves = SubSeq(t.leaves, 1, n)
      BY DEF Tree, Extends
    <2>2. n \in 0..m
      BY <1>1
    <2> QED
      BY <2>1, <2>2
  <1>3. Within(p, t)
    <2> DEFINE k == ShardLeaves
               x == (n - 1) \div k
               y == (m - 1) \div k
    <2>1. k \in Nat /\ k >= 1 /\ n - 1 \in Nat /\ m - 1 \in Nat
      <3>1. k \in Nat /\ k >= 1
        BY Widths
      <3> HIDE DEF k, n, m, b, first
      <3> QED
        BY <1>1, <3>1
    <2>2. Populated(u) = x + 1 /\ Populated(t) = y + 1
      BY DEF Populated
    <2>3. x <= y
      <3> DEFINE c == (n - 1) % k
                 d == (m - 1) % k
      <3> HIDE DEF n, m, k
      <3>1. x \in Nat /\ c \in Nat /\ n - 1 = k * x + c
        BY <2>1, Division
      <3>2. y \in Nat /\ d \in Nat /\ d < k /\ m - 1 = k * y + d
        BY <2>1, Division
      <3> HIDE DEF x, y, c, d
      <3>3. x >= y + 1 => k * x >= k * (y + 1)
        BY <2>1, <3>1, <3>2
      <3>4. k * (y + 1) = k * y + k
        BY <2>1, <3>2
      <3>5. ~ (x >= y + 1)
        BY <1>1, <2>1, <3>1, <3>2, <3>3, <3>4
      <3> QED
        BY <3>1, <3>2, <3>5
    <2>4. x \in Nat /\ y \in Nat
      <3>1. Populated(u) \in Nat /\ Populated(t) \in Nat /\ Populated(u) >= 1 /\ Populated(t) >= 1
        BY WindowParts
      <3>2. x \in Int /\ y \in Int
        BY <2>1, Division
      <3> HIDE DEF x, y
      <3> QED
        BY <2>2, <3>1, <3>2
    <2> HIDE DEF x, y
    <2>5. MaxShards \in Nat
      BY ClientAssumption
    <2> DEFINE o == u.offset
               z == ShardOf(p)
               v == WindowShards(u)
               w == WindowShards(t)
    <2>6. v = x + 1 - o /\ v <= MaxShards
      <3>1. v = Populated(u) - o /\ v <= MaxShards
        <4> HIDE DEF o
        <4> QED
          BY DEF WindowShards, InWindow, o
      <3>2. o \in Nat
        BY <1>1
      <3> HIDE DEF n, m, b, s, first, k, o, v
      <3> QED
        BY <2>2, <2>4, <2>5, <3>1, <3>2
    <2>7. w = IF y + 1 - o <= MaxShards THEN y + 1 - o ELSE MaxShards
      <3>1. w = IF Populated(t) - o <= MaxShards THEN Populated(t) - o ELSE MaxShards
        BY <1>1 DEF WindowShards, InWindow
      <3>2. o \in Nat
        BY <1>1
      <3> HIDE DEF n, m, b, s, first, k, o, w
      <3> QED
        BY <2>2, <2>4, <2>5, <3>1, <3>2
    <2>8. z \in Nat /\ z >= o /\ z < o + v /\ o \in Nat
      BY <1>1, PositionParts DEF Within
    <2> HIDE DEF o, z, v, w
    <2>9. z < o + w
      BY <2>3, <2>4, <2>5, <2>6, <2>7, <2>8
    <2> QED
      BY <1>1, <2>8, <2>9 DEF Within, o, z, w
  <1>4. first \in Nat /\ \A j \in 1..b : first + j <= n /\ first + j <= m /\ first + j \in 1..n
    <2> DEFINE q == n \div b
    <2>1. s \in Nat
      BY PositionParts
    <2>2. s < q
      BY DEF Full
    <2> HIDE DEF s, n, m, b
    <2>3. q \in Nat /\ n % b \in Nat /\ n = b * q + (n % b)
      BY <1>1, Division
    <2> HIDE DEF q
    <2>4. s * b \in Nat /\ (s + 1) * b = s * b + b /\ (s + 1) * b <= q * b /\ q * b <= n
      BY <1>1, <2>1, <2>2, <2>3
    <2>5. first \in Nat /\ first + b <= n
      BY <1>1, <2>3, <2>4
    <2> HIDE DEF first
    <2> QED
      BY <1>1, <2>5
  <1>5. /\ RowOf(u, RowIndex(p, u.offset)) =
             [j \in 1..b |-> IF first + j <= n THEN u.leaves[first + j] ELSE EmptyLeaf]
        /\ RowOf(t, RowIndex(p, t.offset)) =
             [j \in 1..b |-> IF first + j <= m THEN t.leaves[first + j] ELSE EmptyLeaf]
    BY <1>3, RowHolds
  <1> HIDE DEF n, m, b, first
  <1>6. \A j \in 1..b : (IF first + j <= n THEN u.leaves[first + j] ELSE EmptyLeaf) =
                        (IF first + j <= m THEN t.leaves[first + j] ELSE EmptyLeaf)
    BY <1>2, <1>4
  <1> QED
    BY <1>1, <1>5, <1>6

\* What the invariant says of a witness.
LEMMA MadeExact ==
  ASSUME WitnessInv, NEW i \in DOMAIN witnesses, InWindow(broadcast.of),
         \/ witnesses[i].rowOf = broadcast.of
         \/ Extends(witnesses[i].rowOf, broadcast.of) /\ Full(witnesses[i].w.position, broadcast.of)
  PROVE  Exact(witnesses[i].w)
  <1> DEFINE x == witnesses[i]
             p == x.w.position
             t == broadcast.of
             r == RowIndex(p, t.offset)
  <1>1. MadeOf(x, broadcast)
    BY DEF WitnessInv
  <1>2. /\ p \in Nat /\ Within(p, t) /\ x.rowOf \in Published
        /\ x.w = Reconstruct(p, RowOf(x.rowOf, r), broadcast.data)
    BY <1>1 DEF MadeOf
  <1>3. t \in Published /\ x.rowOf \in Published /\ broadcast.data = Broadcast(t)
    BY <1>2 DEF WitnessInv, WitnessTypeOK
  <1>4. Tree(t) /\ Tree(x.rowOf)
    BY <1>3, PublishedTrees
  <1>5. RowOf(x.rowOf, r) = RowOf(t, r)
    <2>1. CASE x.rowOf = t
      BY <2>1
    <2>2. CASE Extends(x.rowOf, t) /\ Full(p, t)
      <3> HIDE DEF p, t
      <3> QED
        BY <1>2, <1>4, <2>2, FullRowsAgree DEF t
    <2> QED
      BY <2>1, <2>2
  <1>6. x.w = Reconstruct(p, RowOf(t, r), Broadcast(t))
    BY <1>2, <1>3, <1>5
  <1> DEFINE w == Reconstruct(p, RowOf(t, r), Broadcast(t))
  <1>7. w.position = p /\ w.siblings = AuthPath(t.leaves, p) /\ w.anchor_root = TreeRoot(t.leaves)
    <2> HIDE DEF p, t
    <2> QED
      BY <1>2, <1>4, SameTreeWitness DEF t
  <1> HIDE DEF w
  <1>8. x.w = w
    BY <1>6 DEF w
  <1> QED
    BY <1>7, <1>8 DEF Exact, Anchor

LEMMA InvMeansExact == WitnessInv => SameTreeExact /\ FullSubshardExact
  <1> SUFFICES ASSUME WitnessInv PROVE SameTreeExact /\ FullSubshardExact
    OBVIOUS
  <1>1. SameTreeExact
    BY MadeExact DEF SameTreeExact
  <1>2. FullSubshardExact
    BY MadeExact DEF FullSubshardExact, Extends, Full, Anchor
  <1> QED
    BY <1>1, <1>2

LEMMA InvMeansSameRoot == WitnessInv => SameRowSameRoot
  <1> SUFFICES ASSUME WitnessInv, NEW i \in DOMAIN witnesses, NEW j \in DOMAIN witnesses,
                      SameSubshard(witnesses[i].w.position, witnesses[j].w.position),
                      entry = "blocking" => witnesses[i].rowOf = witnesses[j].rowOf
               PROVE  witnesses[i].w.anchor_root = witnesses[j].w.anchor_root
    BY DEF SameRowSameRoot, SameSubshard
  <1> DEFINE p == witnesses[i].w.position
             q == witnesses[j].w.position
             o == broadcast.of.offset
             r == RowIndex(p, o)
             row == RowOf(witnesses[i].rowOf, r)
  <1>1. MadeOf(witnesses[i], broadcast) /\ MadeOf(witnesses[j], broadcast)
    BY DEF WitnessInv
  <1>2. /\ p \in Nat /\ q \in Nat
        /\ witnesses[i].w = Reconstruct(p, row, broadcast.data)
        /\ witnesses[j].w = Reconstruct(q, RowOf(witnesses[j].rowOf, RowIndex(q, o)), broadcast.data)
    BY <1>1 DEF MadeOf
  <1>3. RowIndex(p, o) = RowIndex(q, o)
    <2>1. ShardOf(p) = ShardOf(q) /\ SubshardOf(p) = SubshardOf(q)
      <3> HIDE DEF p, q
      <3> QED
        BY <1>2, SameSubshardParts DEF p, q
    <2> QED
      BY <2>1 DEF RowIndex
  <1>4. Len(row) = SubshardLeaves
    BY RowLength
  <1>5. witnesses[i].rowOf = witnesses[j].rowOf
    <2>1. CASE entry = "async"
      BY <1>3, <2>1 DEF WitnessInv, DecodedFor
    <2>2. CASE entry = "blocking"
      BY <2>2
    <2> QED
      BY <2>1, <2>2 DEF WitnessInv, WitnessTypeOK
  <1>6. Reconstruct(p, row, broadcast.data).anchor_root = Reconstruct(q, row, broadcast.data).anchor_root
    <2> HIDE DEF p, q, row
    <2> QED
      BY <1>2, <1>4, SameRowWitnesses DEF p, q
  <1> QED
    BY <1>2, <1>3, <1>5, <1>6

-----------------------------------------------------------------------------
(* The steps of the client *)

LEMMA InitWitness == WitnessInit => WitnessInv
  <1> SUFFICES ASSUME WitnessInit PROVE WitnessInv
    OBVIOUS
  <1>1. DOMAIN rows = {} /\ DOMAIN witnesses = {} /\ witnesses = <<>>
    BY DEF WitnessInit, NoRows
  <1>2. WitnessTypeOK
    BY <1>1, ClientAssumption DEF WitnessInit, WitnessTypeOK
  <1>3. IsSequence(witnesses)
    BY <1>1 DEF IsSequence
  <1> QED
    BY <1>1, <1>2, <1>3 DEF WitnessInit, WitnessInv, RowsOfTrees

\* What holds of a client without rows and witnesses.
LEMMA EmptyHanded ==
  ASSUME rows' = NoRows \/ (UNCHANGED rows /\ RowsOfTrees), witnesses' = <<>>
  PROVE  RowsOfTrees' /\ IsSequence(witnesses)' /\ DOMAIN witnesses' = {}
  <1>1. DOMAIN witnesses' = {}
    OBVIOUS
  <1>2. IsSequence(witnesses')
    BY DEF IsSequence
  <1>3. RowsOfTrees'
    BY DEF RowsOfTrees, NoRows
  <1> QED
    BY <1>1, <1>2, <1>3

\* The window of the broadcast is the window of its tree, and its row is one of the matrix.
LEMMA CoveredIs ==
  ASSUME WitnessInv, client = "asking", Covered(Head(todo))
  PROVE  /\ Head(todo) \in Nat /\ Tail(todo) \in Seq(Nat)
         /\ Within(Head(todo), broadcast.of)
         /\ HeadRow = RowIndex(Head(todo), broadcast.of.offset)
         /\ HeadRow \in 0..(MaxShards * SubshardsPerShard - 1)
  <1> DEFINE p == Head(todo)
             t == broadcast.of
  <1>1. p \in Nat /\ Tail(todo) \in Seq(Nat)
    <2>1. todo \in Seq(Nat) /\ todo # <<>>
      BY DEF WitnessInv, WitnessTypeOK
    <2> QED
      BY <2>1
  <1>2. t \in Published /\ broadcast.data = Broadcast(t)
    BY DEF WitnessInv, WitnessTypeOK
  <1>3. broadcast.data.window_start = t.offset /\ broadcast.data.window_count = WindowShards(t)
    BY <1>2 DEF Broadcast
  <1>4. Within(p, t)
    BY <1>3 DEF Covered, Within
  <1>5. HeadRow = RowIndex(p, t.offset)
    BY <1>3 DEF HeadRow
  <1>6. Tree(t)
    BY <1>2, PublishedTrees
  <1> HIDE DEF p, t
  <1> DEFINE r == RowIndex(p, t.offset)
             m == MaxShards * SubshardsPerShard
  <1>7. r \in 0..(m - 1)
    <2>1. r \in Nat /\ r < m
      BY <1>1, <1>4, <1>6, RowIndexIs
    <2>2. m \in Nat
      <3>1. MaxShards \in Nat /\ SubshardsPerShard \in Nat
        BY Widths, ClientAssumption
      <3> QED
        BY <3>1
    <2> HIDE DEF r, m
    <2> QED
      BY <2>1, <2>2
  <1> QED
    BY <1>1, <1>4, <1>5, <1>7 DEF p, t

\* A row joins those that were known: no known row changes, and the new witness is made of it.
Known(known) ==
  /\ DOMAIN known = DOMAIN rows \cup {HeadRow}
  /\ \A r \in DOMAIN rows : known[r] = rows[r]
  /\ \A r \in DOMAIN known : known[r].of \in Published /\ known[r].row = RowOf(known[r].of, r)

LEMMA AnswerStep ==
  ASSUME WitnessInv, client = "asking", Covered(Head(todo)), NEW known, Answer(known),
         Known(known)
  PROVE  WitnessInv'
  <1>1. /\ Head(todo) \in Nat /\ Tail(todo) \in Seq(Nat)
        /\ Within(Head(todo), broadcast.of)
        /\ HeadRow = RowIndex(Head(todo), broadcast.of.offset)
        /\ HeadRow \in 0..(MaxShards * SubshardsPerShard - 1)
    BY CoveredIs
  <1>2. /\ rows' = IF entry = "async" THEN known ELSE NoRows
        /\ todo' = Tail(todo) /\ UNCHANGED <<live, published, broadcast, entry>>
        /\ client' = IF Tail(todo) = <<>> THEN "idle" ELSE "asking"
    BY DEF Answer
  <1> DEFINE new == [w |-> Reconstruct(Head(todo), known[HeadRow].row, broadcast.data),
                     rowOf |-> known[HeadRow].of]
  <1>3. witnesses' = Append(witnesses, new)
    BY DEF Answer
  <1>4. RowsOfTrees'
    BY <1>2 DEF RowsOfTrees, Known, NoRows
  <1>5. new.w.position = Head(todo) /\ new.rowOf = known[HeadRow].of
        /\ new.w = Reconstruct(Head(todo), known[HeadRow].row, broadcast.data)
    BY DEF Reconstruct
  <1> HIDE DEF new
  <1>6. /\ IsSequence(witnesses')
        /\ \A i \in DOMAIN witnesses' :
             witnesses'[i] = new \/ (i \in DOMAIN witnesses /\ witnesses'[i] = witnesses[i])
    BY <1>3, AppendSequence DEF WitnessInv
  <1>7. MadeOf(new, broadcast) /\ DecodedFor(new, broadcast, known)
    <2>1. /\ HeadRow \in DOMAIN known /\ known[HeadRow].of \in Published
          /\ known[HeadRow].row = RowOf(known[HeadRow].of, HeadRow)
      BY DEF Known
    <2> QED
      BY <1>1, <1>5, <2>1 DEF MadeOf, DecodedFor
  <1>8. ASSUME entry = "async", NEW i \in DOMAIN witnesses
        PROVE  DecodedFor(witnesses[i], broadcast, known)
    <2>1. DecodedFor(witnesses[i], broadcast, rows)
      BY <1>8 DEF WitnessInv
    <2>2. \A r \in DOMAIN rows : r \in DOMAIN known /\ known[r] = rows[r]
      BY DEF Known
    <2> QED
      BY <2>1, <2>2 DEF DecodedFor
  <1>9. \A i \in DOMAIN witnesses' : MadeOf(witnesses'[i], broadcast)
    BY <1>6, <1>7 DEF WitnessInv
  <1>11. entry = "async" => \A i \in DOMAIN witnesses' : DecodedFor(witnesses'[i], broadcast, known)
    BY <1>6, <1>7, <1>8
  <1>10. WitnessTypeOK'
    <2>1. \A i \in DOMAIN witnesses' : witnesses'[i].rowOf \in Published
      BY <1>1, <1>5, <1>6 DEF WitnessInv, WitnessTypeOK, Known
    <2>2. DOMAIN rows' \subseteq 0..(MaxShards * SubshardsPerShard - 1)
      BY <1>1, <1>2 DEF WitnessInv, WitnessTypeOK, Known, NoRows
    <2> QED
      BY <1>2, <2>1, <2>2 DEF WitnessInv, WitnessTypeOK
  <1> QED
    BY <1>1, <1>2, <1>4, <1>6, <1>9, <1>10, <1>11 DEF WitnessInv

LEMMA StepWitness == WitnessInv /\ [WitnessNext]_witnessVars => WitnessInv'
  <1> SUFFICES ASSUME WitnessInv, [WitnessNext]_witnessVars PROVE WitnessInv'
    OBVIOUS
  <1> USE DEF walletVars
  <1>1. CASE Publish
    <2>1. live' \in Published /\ published' \in 0..MaxPublished
      BY <1>1, ClientAssumption DEF Publish, WitnessInv, WitnessTypeOK
    <2>2. UNCHANGED walletVars
      BY <1>1 DEF Publish
    <2>3. WitnessTypeOK'
      BY <2>1, <2>2 DEF WitnessInv, WitnessTypeOK
    <2> QED
      BY <2>2, <2>3 DEF WitnessInv, RowsOfTrees
  <1>2. CASE Fetch
    <2>1. RowsOfTrees' /\ IsSequence(witnesses)' /\ DOMAIN witnesses' = {}
      BY <1>2, EmptyHanded DEF Fetch, WitnessInv
    <2>2. WitnessTypeOK'
      BY <1>2, <2>1 DEF Fetch, WitnessInv, WitnessTypeOK
    <2> QED
      BY <1>2, <2>1, <2>2 DEF Fetch, WitnessInv
  <1>3. CASE GetWitnesses \/ GetWitnessesBlocking
    <2>1. RowsOfTrees' /\ IsSequence(witnesses)' /\ DOMAIN witnesses' = {} /\ DOMAIN rows' = {}
      BY <1>3, EmptyHanded DEF GetWitnesses, GetWitnessesBlocking, WitnessInv, NoRows
    <2>2. todo' \in Seq(Nat) /\ todo' # <<>>
      BY <1>3, ClientAssumption DEF GetWitnesses, GetWitnessesBlocking
    <2>3. WitnessTypeOK'
      BY <1>3, <2>1, <2>2 DEF GetWitnesses, GetWitnessesBlocking, WitnessInv, WitnessTypeOK
    <2> QED
      BY <2>1, <2>2, <2>3 DEF WitnessInv
  <1>4. CASE QueryRow
    <2> DEFINE known == [r \in DOMAIN rows \cup {HeadRow} |->
                           IF r = HeadRow THEN [row |-> RowOf(live, r), of |-> live] ELSE rows[r]]
    <2>1. client = "asking" /\ Covered(Head(todo)) /\ NeedsRow(HeadRow) /\ Answer(known)
      BY <1>4 DEF QueryRow
    <2>2. Known(known)
      BY <2>1 DEF Known, NeedsRow, WitnessInv, WitnessTypeOK, RowsOfTrees
    <2> HIDE DEF known
    <2> QED
      BY <2>1, <2>2, AnswerStep
  <1>5. CASE UseRow
    <2>1. client = "asking" /\ Covered(Head(todo)) /\ ~NeedsRow(HeadRow) /\ Answer(rows)
      BY <1>5 DEF UseRow
    <2>2. Known(rows)
      BY <2>1 DEF Known, NeedsRow, WitnessInv, RowsOfTrees
    <2> QED
      BY <2>1, <2>2, AnswerStep
  <1>6. CASE Refuse
    <2>1. RowsOfTrees' /\ IsSequence(witnesses)' /\ DOMAIN witnesses' = {} /\ DOMAIN rows' = {}
      BY <1>6, EmptyHanded DEF Refuse, WitnessInv, NoRows
    <2>2. WitnessTypeOK'
      BY <1>6, <2>1 DEF Refuse, WitnessInv, WitnessTypeOK
    <2> QED
      BY <1>6, <2>1, <2>2 DEF Refuse, WitnessInv
  <1>7. CASE UNCHANGED witnessVars
    BY <1>7 DEF witnessVars, WitnessInv, WitnessTypeOK, RowsOfTrees
  <1> QED
    BY <1>1, <1>2, <1>3, <1>4, <1>5, <1>6, <1>7 DEF WitnessNext

\* Rows and witnesses stay tied to the broadcast and to trees the server published.
THEOREM WitnessInvariantHolds == WitnessSpec => []WitnessInv
  BY InitWitness, StepWitness, PTL DEF WitnessSpec

\* The client of get_witnesses (client/src/witness.rs) keeps its types: a row it decoded is
\* one of the matrix, and a call that runs has positions left.
THEOREM WitnessTypeCorrect == WitnessSpec => []WitnessTypeOK
  <1>1. WitnessInv => WitnessTypeOK
    BY DEF WitnessInv
  <1> QED
    BY <1>1, WitnessInvariantHolds, PTL

\* reconstruct_witness (client/src/reconstruct.rs) puts the path of the tree together: when
\* row and broadcast are of one tree that fits the window, the siblings are those of the
\* position in that tree and the root is the tree's, at every height and for every log.
THEOREM SameTreePathsExact == WitnessSpec => []SameTreeExact
  BY InvMeansExact, WitnessInvariantHolds, PTL

\* Growth between the broadcast and the query (get_witnesses) does no harm to a position
\* whose sub-shard was full: its witness is exact in the tree of the broadcast.
THEOREM FullSubshardPathsExact == WitnessSpec => []FullSubshardExact
  BY InvMeansExact, WitnessInvariantHolds, PTL

\* decoded_rows (get_witnesses of the async client) makes the notes of one sub-shard share
\* their root, whatever the server publishes between the queries.  In a call of the blocking
\* client, which has no such rows, they do when their rows were of one tree.
THEOREM SameRowSharesRoot == WitnessSpec => []SameRowSameRoot
  BY InvMeansSameRoot, WitnessInvariantHolds, PTL
=============================================================================
