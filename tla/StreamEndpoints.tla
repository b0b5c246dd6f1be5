-------------------------- MODULE StreamEndpoints --------------------------
(***************************************************************************)
(* The two streaming endpoints of src/api/events.py in one container: the  *)
(* connection cap, with_heartbeat() around a subscription, the body of an  *)
(* SSE response, and the three tasks of a WebSocket (sender, receiver and  *)
(* the handler that waits for the first of them to end).  The bus below    *)
(* them is the contract EventStream; the ASGI server and Starlette are     *)
(* external.  A step runs from one await to the next.                      *)
(***************************************************************************)
EXTENDS Naturals, FiniteSets

CONSTANTS
    Sse, Ws,          \* the connections clients make, by transport
    MaxConnections,   \* STREAM_MAX_CONNECTIONS
    Topic,            \* what they subscribe to
    Ids,              \* the ids of its events
    Hidden,           \* the events that can_view() keeps from these users
    HeadWriteFails    \* whether writing the head of a response can raise

Conns == Sse \cup Ws

ASSUME StreamsAssumption ==
    /\ IsFiniteSet(Conns)
    /\ Sse \cap Ws = {}
    /\ MaxConnections \in Nat
    /\ Ids \subseteq Nat \ {0}
    /\ HeadWriteFails \in BOOLEAN

VARIABLES
    active,     \* StreamLimiter.active
    conn,       \* the state of each connection, see Fresh
    published, retained, open, position     \* the bus

Bus == INSTANCE EventStream
        WITH Subs <- Conns, Topics <- {Topic}, TopicOf <- [c \in Conns |-> Topic]

bus == <<published, retained, open, position>>
vars == <<active, conn, published, retained, open, position>>

\* `at` is where the consumer of with_heartbeat() stands: writing the head
\* ("head") or a frame ("send"), in asyncio.wait ("wait"), before the send
\* lock ("lock"), in the finally of with_heartbeat ("closing"), writing the
\* end of the response ("tail"); "orphan" when its task is gone and the
\* generator is suspended at a yield, until the event loop closes it
\* ("shutting").  `clock`: within STREAM_MAX_DURATION_SECONDS, within its last
\* half second, or past it.  `cause`: why with_heartbeat() ended.
\* `unsent` is history: the visible events the subscription yielded and no
\* frame was made of.
Fresh ==
    [at |-> "new", pending |-> "none", item |-> 0,
     clock |-> "off", cause |-> "none", gone |-> FALSE, released |-> FALSE,
     sender |-> "off", receiver |-> "off", handler |-> "off",
     close |-> "none", reason |-> "none", unsent |-> {}]

Places == {"new", "head", "wait", "lock", "send", "closing", "tail",
           "orphan", "shutting", "closed"}
Codes == {"max_duration", "server_busy", "rate_limited",
          "message_too_large", "rejected"}
Reasons == Codes \cup {"none", "client_disconnect", "server_closed", "error"}

States ==
    [at : Places,
     pending : {"none", "running", "item", "ended", "cancelled"},
     item : Ids \cup {0},
     clock : {"off", "early", "near", "over"},
     cause : {"none", "deadline", "bus", "cut"},
     gone : BOOLEAN, released : BOOLEAN,
     sender : {"off", "running", "max_duration", "server_busy", "cut"},
     receiver : {"off", "receive", "lock", "send", "left", "rate_limited",
                 "message_too_large", "raised", "cut"},
     handler : {"off", "waiting", "stopping", "closing", "ended"},
     close : Codes \cup {"none"}, reason : Reasons,
     unsent : SUBSET Ids]

TypeOK ==
    /\ active \in 0..MaxConnections
    /\ conn \in [Conns -> States]
    /\ published \subseteq Ids \X {Topic}
    /\ open \subseteq Conns

Init ==
    /\ active = 0
    /\ conn = [c \in Conns |-> Fresh]
    /\ Bus!Init

-----------------------------------------------------------------------------
(* The connection cap. *)

\* Mutant: no cap.
AcquireAnyway == active' = active + 1

TryAcquire == active < MaxConnections /\ active' = active + 1

Release == active' = IF active > 0 THEN active - 1 ELSE active

\* Mutant: release() without its flag.
ReleaseEachTime(c) == Release

\* release() of stream_events(); its caller sets the flag.
ReleaseOnce(c) == IF conn[c].released THEN UNCHANGED active ELSE Release

-----------------------------------------------------------------------------
(* The bus, as with_heartbeat() sees it: the __anext__ task starts the      *)
(* subscription, and completes with its next event or with its end.         *)

Publish(id) ==
    /\ Bus!Publish(id, Topic)
    /\ retained' = published'
    /\ UNCHANGED <<active, conn>>

Subscribe(c) ==
    /\ conn[c].pending = "running"
    /\ \E p \in {0} \cup Ids : Bus!Open(c, p)
    /\ UNCHANGED <<active, conn>>

NextItem(c) ==
    /\ conn[c].pending = "running"
    /\ \E e \in published :
        /\ Bus!Deliver(c, e)
        /\ conn' = [conn EXCEPT ![c] = [conn[c] EXCEPT
                    !.pending = "item",
                    !.item = e[1],
                    !.unsent = @ \cup ({e[1]} \ Hidden)]]
    /\ UNCHANGED active

\* A slow consumer, or a bus that is being closed.
SourceEnds(c) ==
    /\ conn[c].pending = "running"
    /\ Bus!End({c})
    /\ conn' = [conn EXCEPT ![c].pending = "ended"]
    /\ UNCHANGED active

\* Time passes for a stream, from the first step of with_heartbeat() on.
Tick(c) ==
    /\ conn[c].at \notin {"tail", "closed"}
    /\ conn[c].clock \in {"early", "near"}
    /\ conn' = [conn EXCEPT ![c].clock = IF @ = "early" THEN "near" ELSE "over"]
    /\ UNCHANGED <<active, bus>>

-----------------------------------------------------------------------------
(* with_heartbeat() and what its callers do when it ends. *)

DeadlinePassed(c) == conn[c].clock = "over"

\* Behind the loop of _sse_body(): the finally releases the slot, and the end
\* of the response is written unless the task was cancelled; the background
\* task then finds the slot released.
EndBody(c, why) ==
    /\ ReleaseOnce(c)
    /\ conn' = [conn EXCEPT ![c] = [conn[c] EXCEPT
                !.at = IF why = "cut" THEN "closed" ELSE "tail",
                !.pending = "none", !.item = 0,
                !.cause = why, !.released = TRUE,
                !.reason = IF why = "cut" THEN "client_disconnect" ELSE @]]

\* Behind the loop of _pump(): its close code, from the time it took.
EndSender(c, why) ==
    /\ conn' = [conn EXCEPT ![c] = [conn[c] EXCEPT
                !.at = "closed",
                !.pending = "none", !.item = 0,
                !.cause = why,
                !.sender = IF why = "cut" THEN "cut"
                           ELSE IF conn[c].clock \in {"near", "over"}
                           THEN "max_duration" ELSE "server_busy"]]
    /\ UNCHANGED active

SourceClosed(c, why) ==
    /\ Bus!End({c})
    /\ \/ c \in Sse /\ EndBody(c, why)
       \/ c \in Ws /\ EndSender(c, why)

\* The finally of with_heartbeat(): a pending __anext__ is cancelled and
\* awaited before the source is closed; one that is done is dropped.
Finally(c, why) ==
    IF conn[c].pending = "running"
    THEN /\ conn' = [conn EXCEPT ![c] = [conn[c] EXCEPT !.at = "closing",
                                                  !.pending = "cancelled", !.cause = why]]
         /\ UNCHANGED <<active, bus>>
    ELSE SourceClosed(c, why)

FinishClosing(c) ==
    /\ conn[c].at = "closing"
    /\ SourceClosed(c, conn[c].cause)

\* The top of the loop: nothing new is asked of the source past the deadline,
\* and a pending __anext__ is kept.
LoopTop(c) ==
    IF DeadlinePassed(c)
    THEN Finally(c, "deadline")
    ELSE /\ conn' = [conn EXCEPT ![c] = [conn[c] EXCEPT
                     !.at = "wait",
                     !.pending = IF @ = "none" THEN "running" ELSE @,
                     !.clock = IF @ = "off" THEN "early" ELSE @]]
         /\ UNCHANGED <<active, bus>>

\* A WebSocket's tasks stop at the next await once the handler cancels them.
Undisturbed(c) == c \in Ws => conn[c].handler = "waiting"

Waiting(c, pending) ==
    /\ conn[c].at = "wait"
    /\ conn[c].pending = pending
    /\ Undisturbed(c)

\* Where a caller goes with an item or a heartbeat.
ToFrame(c) == IF c \in Sse THEN "send" ELSE "lock"

TakeItem(c) ==
    /\ Waiting(c, "item")
    /\ conn[c].item \notin Hidden
    /\ conn' = [conn EXCEPT ![c] = [conn[c] EXCEPT
                !.at = ToFrame(c),
                !.pending = "none", !.item = 0,
                !.unsent = @ \ {conn[c].item}]]
    /\ UNCHANGED <<active, bus>>

\* An event that can_view() refuses: straight to the top of the loop.
SkipItem(c) ==
    /\ Waiting(c, "item")
    /\ conn[c].item \in Hidden
    /\ IF DeadlinePassed(c)
       THEN SourceClosed(c, "deadline")
       ELSE /\ conn' = [conn EXCEPT ![c] = [conn[c] EXCEPT !.pending = "running", !.item = 0]]
            /\ UNCHANGED <<active, bus>>

TakeEnd(c) == Waiting(c, "ended") /\ Finally(c, "bus")

\* Mutant: a timeout gives up the pending __anext__, done or not.
HeartbeatAnew(c) ==
    /\ conn[c].at = "wait"
    /\ conn[c].pending \in {"running", "item"}
    /\ Undisturbed(c)
    /\ ~ DeadlinePassed(c)
    /\ conn' = [conn EXCEPT ![c] = [conn[c] EXCEPT !.at = ToFrame(c),
                                             !.pending = "none", !.item = 0]]
    /\ UNCHANGED <<active, bus>>

\* Mutant: nothing is yielded when the interval passes.
HeartbeatSilent(c) == Waiting(c, "running") /\ UNCHANGED vars

\* The interval passes without an item; the pending __anext__ stays.
Heartbeat(c) ==
    /\ Waiting(c, "running")
    /\ ~ DeadlinePassed(c)
    /\ conn' = [conn EXCEPT ![c].at = ToFrame(c)]
    /\ UNCHANGED <<active, bus>>

TimeOut(c) ==
    /\ Waiting(c, "running")
    /\ DeadlinePassed(c)
    /\ Finally(c, "deadline")

\* A frame is written, and the caller asks with_heartbeat() for more.  The
\* first frame of a body comes before with_heartbeat() starts.
SendDone(c) ==
    /\ conn[c].at = "send"
    /\ Undisturbed(c)
    /\ LoopTop(c)

-----------------------------------------------------------------------------
(* A generator whose task is gone while it is suspended at a yield is       *)
(* closed by the event loop: GeneratorExit runs the finally of _sse_body(), *)
(* and then that of with_heartbeat().                                       *)

\* Mutant: the pending __anext__ is left alone; closing a generator that is
\* running raises, and the error is suppressed.
CollectBody(c) ==
    /\ conn[c].at = "orphan"
    /\ IF c \in Sse THEN ReleaseOnce(c) ELSE UNCHANGED active
    /\ conn' = [conn EXCEPT ![c] = [conn[c] EXCEPT !.at = "closed", !.released = TRUE]]
    /\ IF conn[c].pending = "running" THEN UNCHANGED bus ELSE Bus!End({c})

Collect(c) ==
    /\ conn[c].at = "orphan"
    /\ IF c \in Sse THEN ReleaseOnce(c) ELSE UNCHANGED active
    /\ IF conn[c].pending = "running"
       THEN /\ conn' = [conn EXCEPT ![c] = [conn[c] EXCEPT !.at = "shutting", !.pending = "cancelled",
                                                     !.released = c \in Sse]]
            /\ UNCHANGED bus
       ELSE /\ conn' = [conn EXCEPT ![c] = [conn[c] EXCEPT !.at = "closed", !.pending = "none",
                                                     !.item = 0, !.released = c \in Sse]]
            /\ Bus!End({c})

FinishShutting(c) ==
    /\ conn[c].at = "shutting"
    /\ conn' = [conn EXCEPT ![c] = [conn[c] EXCEPT !.at = "closed", !.pending = "none"]]
    /\ Bus!End({c})
    /\ UNCHANGED active

-----------------------------------------------------------------------------
(* SSE: stream_events() and its StreamingResponse. *)

StreamEvents(c) ==
    /\ c \in Sse
    /\ conn[c].at = "new"
    /\ TryAcquire
    /\ conn' = [conn EXCEPT ![c].at = "head"]
    /\ UNCHANGED bus

\* 503 STREAM_LIMIT_REACHED.
StreamRefused(c) ==
    /\ c \in Sse
    /\ conn[c].at = "new"
    /\ active >= MaxConnections
    /\ conn' = [conn EXCEPT ![c].at = "closed"]
    /\ UNCHANGED <<active, bus>>

HeadDone(c) ==
    /\ conn[c].at = "head"
    /\ conn' = [conn EXCEPT ![c].at = "send"]
    /\ UNCHANGED <<active, bus>>

\* The end of the response is written; then the background task runs.
TailDone(c) ==
    /\ conn[c].at = "tail"
    /\ ReleaseOnce(c)
    /\ conn' = [conn EXCEPT ![c] = [conn[c] EXCEPT !.at = "closed", !.released = TRUE,
                                             !.reason = "server_closed"]]
    /\ UNCHANGED bus

\* The client is told of, and the task that writes the response is cancelled
\* where it stands; the background task runs after it.
Disconnected(c) ==
    /\ c \in Sse
    /\ conn[c].gone
    /\ \/ /\ conn[c].at \in {"head", "send"}
          /\ ReleaseOnce(c)
          /\ conn' = [conn EXCEPT ![c] = [conn[c] EXCEPT
                      !.at = IF @ = "head" THEN "closed" ELSE "orphan",
                      !.cause = "cut", !.released = TRUE,
                      !.reason = "client_disconnect"]]
          /\ UNCHANGED bus
       \/ conn[c].at = "wait" /\ Finally(c, "cut")
       \/ /\ conn[c].at = "closing"
          /\ conn' = [conn EXCEPT ![c].cause = "cut"]
          /\ UNCHANGED <<active, bus>>
       \/ TailDone(c)

\* A write to a client that has left raises out of the response, past its
\* background task.  The middleware may have seen the disconnect as well.
WriteFails(c) ==
    /\ c \in Sse
    /\ conn[c].gone
    /\ conn[c].at = "head" => HeadWriteFails
    /\ conn[c].at \in {"head", "send", "tail"}
    /\ \E reason \in {"error", "client_disconnect"} :
        /\ conn[c].at = "tail" => reason = "error"
        /\ conn' = [conn EXCEPT ![c] = [conn[c] EXCEPT
                    !.at = IF @ = "send" THEN "orphan" ELSE "closed",
                    !.cause = IF conn[c].at = "send" THEN "cut" ELSE @,
                    !.reason = reason]]
    /\ UNCHANGED <<active, bus>>

-----------------------------------------------------------------------------
(* WebSocket: stream_ws() and its tasks _pump() and _listen(). *)

\* Closed before the slot: 4400, 4401 and 4403, or 1013 at the cap.
SocketRefused(c) ==
    /\ c \in Ws
    /\ conn[c].at = "new"
    /\ \E code \in {"rejected", "server_busy"} :
        /\ code = "server_busy" => active >= MaxConnections
        /\ conn' = [conn EXCEPT ![c] = [conn[c] EXCEPT !.at = "closed", !.reason = code]]
    /\ UNCHANGED <<active, bus>>

StreamWs(c) ==
    /\ c \in Ws
    /\ conn[c].at = "new"
    /\ TryAcquire
    /\ conn' = [conn EXCEPT ![c] = [conn[c] EXCEPT
                !.at = "wait", !.pending = "running", !.clock = "early",
                !.sender = "running", !.receiver = "receive",
                !.handler = "waiting"]]
    /\ UNCHANGED bus

\* Mutant: frames are written without the lock.
SenderBarges(c) ==
    /\ conn[c].at = "lock"
    /\ Undisturbed(c)
    /\ conn' = [conn EXCEPT ![c].at = "send"]
    /\ UNCHANGED <<active, bus>>

SenderLocks(c) == conn[c].receiver # "send" /\ SenderBarges(c)

SenderFails(c) ==
    /\ c \in Ws
    /\ conn[c].at = "send"
    /\ conn[c].gone
    /\ Undisturbed(c)
    /\ conn' = [conn EXCEPT ![c] = [conn[c] EXCEPT !.at = "orphan",
                                             !.cause = "cut", !.sender = "cut"]]
    /\ UNCHANGED <<active, bus>>

\* In its wait the sender closes with_heartbeat() first; at a frame it leaves
\* the generator behind.  A cancellation that finds it in the finally of
\* with_heartbeat() is swallowed there.
SenderCancelled(c) ==
    /\ conn[c].handler = "stopping"
    /\ conn[c].sender = "running"
    /\ \/ conn[c].at = "wait" /\ Finally(c, "cut")
       \/ /\ conn[c].at \in {"lock", "send"}
          /\ conn' = [conn EXCEPT ![c] = [conn[c] EXCEPT !.at = "orphan",
                                                   !.cause = "cut", !.sender = "cut"]]
          /\ UNCHANGED <<active, bus>>

\* One step of _listen(), from one place to another.
Listen(c, from, to) ==
    /\ conn[c].receiver = from
    /\ Undisturbed(c)
    /\ conn' = [conn EXCEPT ![c].receiver = to]
    /\ UNCHANGED <<active, bus>>

ReceiveDisconnect(c) == conn[c].gone /\ Listen(c, "receive", "left")
ReceiveTooBig(c) == Listen(c, "receive", "message_too_large")
ReceiveTooFast(c) == Listen(c, "receive", "rate_limited")

\* A message with a reply: a pong or an error, also for what json.loads refuses
\* with a ValueError ...
ReceiveMessage(c) == Listen(c, "receive", "lock")

\* ... but not for what it raises anything else for, as the RecursionError of
\* Python 3.11 for deep nesting: that ends the task, of a client still there.
ReceiveRaises(c) == Listen(c, "receive", "raised")

ReceiverLocks(c) == conn[c].at # "send" /\ Listen(c, "lock", "send")
ReplyDone(c) == Listen(c, "send", "receive")
ReplyFails(c) == conn[c].gone /\ Listen(c, "send", "cut")

ReceiverRuns(c) == conn[c].receiver \in {"receive", "lock", "send"}

ReceiverCancelled(c) ==
    /\ conn[c].handler = "stopping"
    /\ ReceiverRuns(c)
    /\ conn' = [conn EXCEPT ![c].receiver = "cut"]
    /\ UNCHANGED <<active, bus>>

\* The close code the handler decides on: the sender's result before the
\* receiver's.
CloseCode(c) ==
    IF conn[c].sender \in Codes THEN conn[c].sender
    ELSE IF conn[c].receiver \in Codes THEN conn[c].receiver ELSE "none"

\* Mutant: only the sender is asked for a code.
FirstDoneSender(c) ==
    /\ conn[c].handler = "waiting"
    /\ conn[c].sender # "running" \/ ~ ReceiverRuns(c)
    /\ conn' = [conn EXCEPT ![c] = [conn[c] EXCEPT
                !.handler = "stopping",
                !.close = IF conn[c].sender \in Codes THEN conn[c].sender ELSE "none"]]
    /\ UNCHANGED <<active, bus>>

\* The wait for the first task; both are then cancelled ...
FirstDone(c) ==
    /\ conn[c].handler = "waiting"
    /\ conn[c].sender # "running" \/ ~ ReceiverRuns(c)
    /\ conn' = [conn EXCEPT ![c] = [conn[c] EXCEPT !.handler = "stopping", !.close = CloseCode(c)]]
    /\ UNCHANGED <<active, bus>>

\* ... and waited for, before the socket is closed, if it is to be closed.
BothDone(c) ==
    /\ conn[c].handler = "stopping"
    /\ conn[c].sender # "running"
    /\ ~ ReceiverRuns(c)
    /\ IF conn[c].close = "none"
       THEN /\ conn' = [conn EXCEPT ![c] = [conn[c] EXCEPT !.handler = "ended",
                                                     !.reason = "client_disconnect"]]
            /\ Release
       ELSE /\ conn' = [conn EXCEPT ![c].handler = "closing"]
            /\ UNCHANGED active
    /\ UNCHANGED bus

\* _close(), which may raise if the client has left; the finally releases.
SocketClosed(c) ==
    /\ conn[c].handler = "closing"
    /\ \E reason \in {conn[c].close, "error"} :
        /\ reason = "error" => conn[c].gone
        /\ conn' = [conn EXCEPT ![c] = [conn[c] EXCEPT !.handler = "ended", !.reason = reason]]
    /\ Release
    /\ UNCHANGED bus

-----------------------------------------------------------------------------
\* Nothing of the connection runs any more.
Over(c) == conn[c].at = "closed" /\ conn[c].handler \in {"off", "ended"}

\* The client goes away, which nobody may notice.
Leave(c) ==
    /\ conn[c].at # "new"
    /\ ~ Over(c)
    /\ ~ conn[c].gone
    /\ conn' = [conn EXCEPT ![c].gone = TRUE]
    /\ UNCHANGED <<active, bus>>

\* The steps of the task that reads from with_heartbeat().
Reader(c) ==
    \/ HeadDone(c)
    \/ TakeItem(c)
    \/ SkipItem(c)
    \/ TakeEnd(c)
    \/ Heartbeat(c)
    \/ TimeOut(c)
    \/ SendDone(c)
    \/ FinishClosing(c)
    \/ TailDone(c)
    \/ SenderCancelled(c)

Handler(c) == FirstDone(c) \/ BothDone(c) \/ SocketClosed(c)

Receiver(c) ==
    \/ ReceiveDisconnect(c)
    \/ ReceiveTooBig(c)
    \/ ReceiveTooFast(c)
    \/ ReceiveMessage(c)
    \/ ReceiveRaises(c)
    \/ ReceiverLocks(c)
    \/ ReplyDone(c)
    \/ ReplyFails(c)

Next ==
    \/ \E id \in Ids : Publish(id)
    \/ \E c \in Conns :
        \/ Subscribe(c)
        \/ NextItem(c)
        \/ SourceEnds(c)
        \/ Tick(c)
        \/ Reader(c)
        \/ SenderLocks(c)
        \/ SenderFails(c)
        \/ Receiver(c)
        \/ ReceiverCancelled(c)
        \/ Handler(c)
        \/ Collect(c)
        \/ FinishShutting(c)
        \/ StreamEvents(c)
        \/ StreamRefused(c)
        \/ Disconnected(c)
        \/ WriteFails(c)
        \/ SocketRefused(c)
        \/ StreamWs(c)
        \/ Leave(c)

Spec == Init /\ [][Next]_vars

\* The event loop runs what is ready; timers fire; a write ends, well or
\* not, and to a client that has left not always well; the send lock is given
\* to those who wait for it in turn.
Fairness ==
    /\ \A c \in Conns :
        /\ WF_vars(Reader(c))
        /\ SF_vars(WriteFails(c) \/ SenderFails(c))
        /\ WF_vars(Collect(c) \/ FinishShutting(c))
    /\ \A c \in Ws :
        /\ SF_vars(SenderLocks(c))
        /\ WF_vars(ReplyDone(c) \/ ReplyFails(c))
        /\ WF_vars(ReceiverCancelled(c))
        /\ WF_vars(Handler(c))

FairSpec == Spec /\ Fairness

-----------------------------------------------------------------------------
(* Properties. *)

\* The connections that hold a slot of the container.
Occupies(c) ==
    IF c \in Sse
    THEN \/ conn[c].at \in {"head", "send", "wait", "closing"}
         \/ conn[c].at = "orphan" /\ ~ conn[c].released
    ELSE conn[c].handler \in {"waiting", "stopping", "closing"}

Holders == {c \in Conns : Occupies(c)}

\* Every stream that is served counts against the cap and no other does: a
\* slot is given back on every way out, and once, though the body's finally,
\* its collection and the background task all release it.
SlotsCounted == active = Cardinality(Holders)

\* Frames, replies and the close frame are written one at a time.
OneWriter ==
    \A c \in Ws :
        /\ conn[c].at = "send" => conn[c].receiver # "send"
        /\ conn[c].handler = "closing" =>
              conn[c].at # "send" /\ conn[c].receiver # "send"

\* A client is served its stream up to its position in the log: of the visible
\* events that the subscription yielded only the newest may not be a frame yet,
\* and then it is the result of the pending __anext__, whatever heartbeats,
\* hidden events and deadlines came between.
NothingSkipped ==
    \A c \in Conns : conn[c].at \in {"wait", "lock", "send"} =>
        /\ conn[c].unsent \subseteq {position[c]}
        /\ conn[c].unsent # {} => conn[c].pending = "item"

\* Nothing of a stream survives it: its subscription is closed and no
\* __anext__ is pending, also if its task was cancelled at a yield.
NothingLeft ==
    \A c \in Conns : conn[c].at = "closed" =>
        c \notin open /\ conn[c].pending = "none"

\* What is recorded of a connection (and sent to a WebSocket client) as the
\* reason of its end is the reason: full time, the end of the subscription,
\* or, where the server sent no close code, a client that left.  One client
\* that did not is recorded so: that of a message on which json.loads raised
\* what _listen() does not catch.
ReasonIsTrue ==
    \A c \in Conns : LET r == conn[c] IN
        /\ r.reason = "error" => r.gone
        /\ r.reason = "client_disconnect" => r.gone \/ r.receiver = "raised"
        /\ r.reason = "max_duration" => r.clock \in {"near", "over"}
        /\ r.reason = "server_busy" => r.clock = "off" \/ r.cause = "bus"
        /\ r.reason = "server_closed" => r.cause \in {"deadline", "bus"}
        /\ r.handler = "ended" /\ r.cause = "deadline" =>
              r.reason # "server_busy"

\* A stream ends, and everything of it, once it is past its maximum duration,
\* and before that once its client has left, though without a word: writing
\* the next heartbeat tells.
StreamsEnd ==
    \A c \in Conns : (conn[c].clock = "over" \/ conn[c].gone) ~> Over(c)

=============================================================================
