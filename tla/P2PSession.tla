----------------------------- MODULE P2PSession -----------------------------
(***************************************************************************)
(* The request/response transport over Zakura connections                  *)
(* (client/src/p2p.rs, server/src/p2p.rs, protocol/src/p2p.rs).            *)
(*                                                                         *)
(* Each connection has a stream of frames each way.  On the client it has  *)
(* a worker, fed by a channel of one request, that sends the frames of a   *)
(* request and reads one reply; the newest connection's session is the     *)
(* published one.  On the server it has a loop that reads one request and  *)
(* sends the frames of its reply.  A reply carries no request identifier:  *)
(* the frames that arrive while a worker waits are taken for its answer.   *)
(*                                                                         *)
(* A payload is the set of requests whose bytes it holds.  Connections are *)
(* numbered by their conn_id.  "closed" stands for the connection and the  *)
(* service token of a connection, which every later read finds cancelled.  *)
(* active_peers only answers Zakura's owns_connection_for_peer: left out.  *)
(***************************************************************************)
EXTENDS Naturals, Sequences

CONSTANTS
  Conns,           \* connection ids, in the order in which Zakura numbers them
  Requests,        \* bound: the requests callers ever make
  Types,           \* request message types
  TypeOf,          \* request |-> its message type
  RequestFrames,   \* request |-> frames its payload is split into
  ResponseFrames,  \* request |-> frames of the answer to it
  None             \* no request, no partial message

ASSUME SessionAssumption ==
  /\ Conns \subseteq Nat \ {0}
  /\ TypeOf \in [Requests -> Types]
  /\ RequestFrames \in [Requests -> Nat \ {0}]
  /\ ResponseFrames \in [Requests -> Nat \ {0}]
  /\ None \notin Requests /\ "ErrRes" \notin Types

VARIABLES
  current,    \* ClientService.current and .sessions: the published conn_id, 0 if none
  cancelled,  \* connections whose worker_cancel is cancelled
  closed,     \* connections whose connection_cancel or service_cancel is cancelled
  worker,     \* where run_worker of the connection is
  job,        \* the request it exchanges
  unsent,     \* frames of it still to send
  decoder,    \* MessageDecoder of the exchange
  queue,      \* the session's channel, of capacity one
  wire,       \* request frames on their way, per connection
  reply,      \* response frames on their way, per connection
  serving,    \* the server's loop for the connection
  assembled,  \* MessageDecoder of the server's loop
  responses,  \* response frames the server's loop still has to send
  caller      \* request |-> state of its caller, the session used, the answer

clientVars == <<current, cancelled, worker, job, unsent, decoder, queue>>
serverVars == <<serving, assembled, responses>>
vars == <<clientVars, closed, wire, reply, serverVars, caller>>

MessageTypes == Types \cup {"ErrRes"}
Message == [type : MessageTypes, payload : SUBSET Requests]
Frame == [type : MessageTypes, req : Requests, more : BOOLEAN]
Exchanging == {"sending", "receiving"}
Waiting == {"sending", "waiting"}

\* frames: the n frames of a payload, all but the last flagged FRAME_FLAG_MORE.
Frames(type, r, n) == [i \in 1..n |-> [type |-> type, req |-> r, more |-> i < n]]

\* MessageDecoder::push: the partial message with one more frame; the frames of a
\* message are all of one type.
TypeChanged(partial, frame) == partial # None /\ partial.type # frame.type
Pushed(partial, frame) ==
  [type |-> frame.type,
   payload |-> {frame.req} \cup (IF partial = None THEN {} ELSE partial.payload)]

Init ==
  /\ current = 0
  /\ cancelled = {} /\ closed = {}
  /\ worker = [c \in Conns |-> "none"]
  /\ serving = [c \in Conns |-> "none"]
  /\ job = [c \in Conns |-> None]
  /\ decoder = [c \in Conns |-> None]
  /\ assembled = [c \in Conns |-> None]
  /\ unsent = [c \in Conns |-> <<>>]
  /\ queue = [c \in Conns |-> <<>>]
  /\ wire = [c \in Conns |-> <<>>]
  /\ reply = [c \in Conns |-> <<>>]
  /\ responses = [c \in Conns |-> <<>>]
  /\ caller = [r \in Requests |-> [at |-> "new", conn |-> 0, answer |-> {}]]

-----------------------------------------------------------------------------
\* Generations of the client's session.

\* Mutated form of Install: the older generation's worker is left running.
InstallBeside(c) ==
  /\ current' = c
  /\ UNCHANGED cancelled

Install(c) ==
  /\ current' = c
  /\ cancelled' = cancelled \cup ({current} \ {0})

\* Mutated form of RemoveGeneration: whatever generation is current is removed.
RemoveAny(c) ==
  /\ current' = 0
  /\ cancelled' = cancelled \cup ({current} \ {0})

\* remove_generation: only the generation the caller names.
RemoveGeneration(c) ==
  IF current = c
  THEN /\ current' = 0
       /\ cancelled' = cancelled \cup {c}
  ELSE UNCHANGED <<current, cancelled>>

\* add_peer of the client, in the order Zakura calls it.
AddPeer(c) ==
  /\ worker[c] = "none"
  /\ \/ /\ current >= c
        /\ closed' = closed \cup {c}
        /\ worker' = [worker EXCEPT ![c] = "refused"]
        /\ UNCHANGED <<current, cancelled>>
     \/ /\ current < c
        /\ Install(c)
        /\ worker' = [worker EXCEPT ![c] = "idle"]
        /\ UNCHANGED closed
  /\ UNCHANGED <<job, unsent, decoder, queue, wire, reply, serverVars, caller>>

\* remove_peer of the client, once the connection is over.
RemovePeer(c) ==
  /\ c \in closed
  /\ RemoveGeneration(c)
  /\ UNCHANGED <<closed, worker, job, unsent, decoder, queue, wire, reply, serverVars, caller>>

\* The connection is lost.
Disconnect(c) ==
  /\ worker[c] # "none"
  /\ closed' = closed \cup {c}
  /\ UNCHANGED <<clientVars, wire, reply, serverVars, caller>>

-----------------------------------------------------------------------------
\* Callers: P2pPirSession::request under its timeout.

\* request returns an error to its caller, which forgets the session.
Ended(r, error) == [caller EXCEPT ![r] = [at |-> error, conn |-> 0, answer |-> {}]]

\* A caller has a session (any one ever published: sessions are cloned) and asks.
Request(r) ==
  /\ caller[r].at = "new"
  /\ \E c \in Conns :
       /\ worker[c] \notin {"none", "refused"}
       /\ caller' = [caller EXCEPT ![r] = [at |-> "sending", conn |-> c, answer |-> {}]]
  /\ UNCHANGED <<clientVars, closed, wire, reply, serverVars>>

\* Mutated form of Enqueue: the channel is unbounded.
EnqueueAlways(r) ==
  LET c == caller[r].conn IN
  /\ caller[r].at = "sending"
  /\ worker[c] \in {"idle"} \cup Exchanging
  /\ queue' = [queue EXCEPT ![c] = Append(@, r)]
  /\ caller' = [caller EXCEPT ![r].at = "waiting"]
  /\ UNCHANGED <<current, cancelled, worker, job, unsent, decoder, closed, wire, reply, serverVars>>

\* send of the channel: it waits for the place, as long as the worker holds the receiver.
Enqueue(r) ==
  LET c == caller[r].conn IN
  /\ caller[r].at = "sending"
  /\ worker[c] \in {"idle"} \cup Exchanging
  /\ queue[c] = <<>>
  /\ queue' = [queue EXCEPT ![c] = <<r>>]
  /\ caller' = [caller EXCEPT ![r].at = "waiting"]
  /\ UNCHANGED <<current, cancelled, worker, job, unsent, decoder, closed, wire, reply, serverVars>>

\* The worker is gone, and with it the receiving end of the channel.
SessionClosed(r) ==
  /\ caller[r].at = "sending"
  /\ worker[caller[r].conn] \in {"ended", "gone"}
  /\ caller' = Ended(r, "Disconnected")
  /\ UNCHANGED <<clientVars, closed, wire, reply, serverVars>>

\* REQUEST_TIMEOUT of the caller.  What was enqueued stays in the queue.
CallerTimeout(r) ==
  /\ caller[r].at \in Waiting
  /\ caller' = Ended(r, "Timeout")
  /\ UNCHANGED <<clientVars, closed, wire, reply, serverVars>>

-----------------------------------------------------------------------------
\* The worker: run_worker and exchange.

\* The receivers of a request's oneshot learn its result, if they still wait.
Told(state, rs, result, answer) ==
  [r \in Requests |->
     IF r \in rs /\ state[r].at = "waiting"
     THEN [at |-> result, conn |-> 0, answer |-> answer] ELSE state[r]]

\* Mutated form of Fatal: a timeout leaves the worker running.
FatalButTimeout(result) == result \in {"Disconnected", "Protocol"}

Fatal(result) == result \in {"Disconnected", "Protocol", "Timeout"}

\* Mutated form of Drop: the request in the queue is left there.
DropWorker(c, state, arrived) ==
  /\ worker' = [worker EXCEPT ![c] = "ended"]
  /\ reply' = [arrived EXCEPT ![c] = <<>>]
  /\ caller' = state
  /\ UNCHANGED queue

\* The worker returns: its receiver is dropped with the request queued in it, and its
\* end of the stream with the frames that have arrived.
Drop(c, state, arrived) ==
  /\ worker' = [worker EXCEPT ![c] = "ended"]
  /\ reply' = [arrived EXCEPT ![c] = <<>>]
  /\ queue' = [queue EXCEPT ![c] = <<>>]
  /\ caller' = Told(state, {queue[c][i] : i \in DOMAIN queue[c]}, "Disconnected", {})

\* The exchange of the worker's request ends with a result.
Finish(c, result, answer, arrived) ==
  LET told == Told(caller, {job[c]}, result, answer) IN
  /\ IF Fatal(result)
     THEN /\ closed' = closed \cup {c}
          /\ Drop(c, told, arrived)
     ELSE /\ worker' = [worker EXCEPT ![c] = "idle"]
          /\ caller' = told
          /\ reply' = arrived
          /\ UNCHANGED <<closed, queue>>
  /\ job' = [job EXCEPT ![c] = None]
  /\ unsent' = [unsent EXCEPT ![c] = <<>>]
  /\ decoder' = [decoder EXCEPT ![c] = None]
  /\ UNCHANGED <<current, cancelled>>

Take(c) ==
  /\ worker[c] = "idle"
  /\ queue[c] # <<>>
  /\ worker' = [worker EXCEPT ![c] = "sending"]
  /\ job' = [job EXCEPT ![c] = Head(queue[c])]
  /\ queue' = [queue EXCEPT ![c] = <<>>]
  /\ LET r == Head(queue[c])
     IN  unsent' = [unsent EXCEPT ![c] = Frames(TypeOf[r], r, RequestFrames[r])]
  /\ UNCHANGED <<current, cancelled, decoder, closed, wire, reply, serverVars, caller>>

SendFrame(c) ==
  /\ worker[c] = "sending"
  /\ wire' = [wire EXCEPT ![c] = IF serving[c] = "over" THEN @ ELSE Append(@, Head(unsent[c]))]
  /\ unsent' = [unsent EXCEPT ![c] = Tail(@)]
  /\ worker' = [worker EXCEPT ![c] = IF Tail(unsent[c]) = <<>> THEN "receiving" ELSE @]
  /\ UNCHANGED <<current, cancelled, job, decoder, queue, closed, reply, serverVars, caller>>

\* One frame of the reply.  ErrRes is a result; another type than the request's answer,
\* or a type that changes within a message, is a protocol error.
ReceiveFrame(c) ==
  LET frame == Head(reply[c])
      left == [reply EXCEPT ![c] = Tail(@)]
      message == Pushed(decoder[c], frame)
  IN
  /\ worker[c] = "receiving"
  /\ reply[c] # <<>>
  /\ CASE TypeChanged(decoder[c], frame) -> Finish(c, "Protocol", {}, left)
       [] frame.more /\ ~TypeChanged(decoder[c], frame) ->
            /\ decoder' = [decoder EXCEPT ![c] = message]
            /\ reply' = left
            /\ UNCHANGED <<current, cancelled, closed, worker, job, unsent, queue, caller>>
       [] OTHER ->
            Finish(c, IF frame.type = "ErrRes" THEN "Remote"
                      ELSE IF frame.type = TypeOf[job[c]] THEN "Ok" ELSE "Protocol",
                   message.payload, left)
  /\ UNCHANGED <<wire, serverVars>>

\* REQUEST_TIMEOUT of the worker.
WorkerTimeout(c) ==
  /\ worker[c] \in Exchanging
  /\ Finish(c, "Timeout", {}, reply)
  /\ UNCHANGED <<wire, serverVars>>

\* A cancelled token, or the other end of the stream gone: the select! takes any branch
\* that is ready, so a worker may go on for a while after a cancellation.
Interrupted(c) ==
  /\ worker[c] \in Exchanging
  /\ c \in cancelled \cup closed \/ (serving[c] = "over" /\ reply[c] = <<>>)
  /\ Finish(c, "Disconnected", {}, reply)
  /\ UNCHANGED <<wire, serverVars>>

\* Mutated form of WorkerStops: an idle worker listens for its replacement only.
WorkerStopsIfReplaced(c) ==
  /\ worker[c] = "idle"
  /\ c \in cancelled
  /\ Drop(c, caller, reply)
  /\ UNCHANGED <<current, cancelled, job, unsent, decoder, closed, wire, serverVars>>

WorkerStops(c) ==
  /\ worker[c] = "idle"
  /\ c \in cancelled \cup closed
  /\ Drop(c, caller, reply)
  /\ UNCHANGED <<current, cancelled, job, unsent, decoder, closed, wire, serverVars>>

\* remove_generation at the end of the worker's task.
Cleanup(c) ==
  /\ worker[c] = "ended"
  /\ worker' = [worker EXCEPT ![c] = "gone"]
  /\ RemoveGeneration(c)
  /\ UNCHANGED <<job, unsent, decoder, queue, closed, wire, reply, serverVars, caller>>

-----------------------------------------------------------------------------
\* The server: add_peer and its loop, forward, remove_peer.

Accept(c) ==
  /\ serving[c] = "none"
  /\ serving' = [serving EXCEPT ![c] = "on"]
  /\ UNCHANGED <<clientVars, closed, wire, reply, assembled, responses, caller>>

\* The loop returns: its end of the stream is dropped with what it held.
StopServing(c) ==
  /\ serving' = [serving EXCEPT ![c] = "over"]
  /\ wire' = [wire EXCEPT ![c] = <<>>]
  /\ assembled' = [assembled EXCEPT ![c] = None]
  /\ responses' = [responses EXCEPT ![c] = <<>>]

\* A frame of a request; the last one is forwarded, and answered or refused
\* (ServiceUnavailable before the first PIR state, QueryError).
Serve(c) ==
  LET frame == Head(wire[c])
      message == Pushed(assembled[c], frame)
  IN
  /\ serving[c] = "on" /\ responses[c] = <<>> /\ wire[c] # <<>>
  /\ IF TypeChanged(assembled[c], frame)
     THEN /\ closed' = closed \cup {c}
          /\ StopServing(c)
     ELSE /\ wire' = [wire EXCEPT ![c] = Tail(@)]
          /\ assembled' = [assembled EXCEPT ![c] = IF frame.more THEN message ELSE None]
          /\ \/ frame.more /\ UNCHANGED responses
             \/ /\ ~frame.more
                /\ \E frames \in {Frames(frame.type, frame.req, ResponseFrames[frame.req]),
                                  Frames("ErrRes", frame.req, 1)} :
                     responses' = [responses EXCEPT ![c] = frames]
          /\ UNCHANGED <<closed, serving>>
  /\ UNCHANGED <<clientVars, reply, caller>>

\* The client's end of the stream is there until its worker returns.
ClientGone(c) == worker[c] \in {"refused", "ended", "gone"}

SendResponse(c) ==
  /\ serving[c] = "on" /\ responses[c] # <<>> /\ ~ClientGone(c)
  /\ reply' = [reply EXCEPT ![c] = Append(@, Head(responses[c]))]
  /\ responses' = [responses EXCEPT ![c] = Tail(@)]
  /\ UNCHANGED <<clientVars, closed, wire, serving, assembled, caller>>

\* The service is cancelled, or a frame cannot be sent or received any more.
ServerStops(c) ==
  /\ serving[c] = "on"
  /\ c \in closed \/ ClientGone(c)
  /\ StopServing(c)
  /\ UNCHANGED <<clientVars, closed, reply, caller>>

-----------------------------------------------------------------------------
WorkerStep(c) ==
  \/ Take(c) \/ SendFrame(c) \/ ReceiveFrame(c) \/ WorkerTimeout(c)
  \/ Interrupted(c) \/ WorkerStops(c) \/ Cleanup(c)
ServerStep(c) == Serve(c) \/ SendResponse(c) \/ ServerStops(c)

Next ==
  \/ \E c \in Conns :
       \/ AddPeer(c) \/ RemovePeer(c) \/ Disconnect(c)
       \/ WorkerStep(c)
       \/ Accept(c) \/ ServerStep(c)
  \/ \E r \in Requests : Request(r) \/ Enqueue(r) \/ SessionClosed(r) \/ CallerTimeout(r)

\* tokio runs every task that is ready: the worker's own steps and the server's.
\* Nothing is assumed of the network, of Zakura's calls, or of callers.
Fairness == \A c \in Conns : WF_vars(WorkerStep(c)) /\ WF_vars(ServerStep(c))

Spec == Init /\ [][Next]_vars /\ Fairness

-----------------------------------------------------------------------------
TypeOK ==
  /\ current \in Conns \cup {0}
  /\ cancelled \subseteq Conns /\ closed \subseteq Conns
  /\ worker \in [Conns -> {"none", "refused", "idle", "ended", "gone"} \cup Exchanging]
  /\ job \in [Conns -> Requests \cup {None}]
  /\ \A c \in Conns : (job[c] # None) <=> (worker[c] \in Exchanging)
  /\ decoder \in [Conns -> Message \cup {None}]
  /\ assembled \in [Conns -> Message \cup {None}]
  /\ unsent \in [Conns -> Seq(Frame)] /\ responses \in [Conns -> Seq(Frame)]
  /\ wire \in [Conns -> Seq(Frame)] /\ reply \in [Conns -> Seq(Frame)]
  /\ queue \in [Conns -> {<<>>} \cup {<<r>> : r \in Requests}]
  /\ serving \in [Conns -> {"none", "on", "over"}]
  /\ caller \in [Requests ->
       [at : {"new", "Ok", "Remote", "Protocol", "Timeout", "Disconnected"} \cup Waiting,
        conn : Conns \cup {0}, answer : SUBSET Requests]]

\* An answer is the answer to the caller's own request.  Replies are matched by their
\* place in the stream alone, so an exchange that is given up with its reply still on
\* the way must take the connection with it (fatal, connection_cancel).
AnswersMatch ==
  \A r \in Requests : caller[r].at \in {"Ok", "Remote"} => caller[r].answer = {r}

\* Nobody waits for an answer that no worker will give: a request whose caller waits is
\* in the queue of a worker that will take it, or in its hands.
WaitingIsHeld ==
  \A r \in Requests : LET c == caller[r].conn IN
    caller[r].at = "waiting" =>
      /\ worker[c] \in {"idle"} \cup Exchanging
      /\ queue[c] = <<r>> \/ job[c] = r

\* Only the published generation has a worker that nobody has told to stop.
OnlyCurrentWorks ==
  \A c \in Conns :
    worker[c] \in {"idle"} \cup Exchanging /\ c \notin cancelled => current = c

\* A published session goes away only because a newer one replaces it or its own
\* connection is over: the late clean-up of an older generation leaves it alone.
WithdrawnByItsOwn ==
  [][current # 0 /\ current' # current => current' > current \/ current \in closed]_vars

\* The session of a connection that is over does not stay published.
DeadSessionWithdrawn ==
  \A c \in Conns : (c \in closed /\ current = c) ~> current # c
=============================================================================
