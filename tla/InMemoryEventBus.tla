-------------------------- MODULE InMemoryEventBus --------------------------
(***************************************************************************)
(* The event bus of one process, InMemoryEventBus in                       *)
(* src/adapters/events/memory.py: publish() hands the event to every       *)
(* subscriber's queue without an await, and subscribe() registers and      *)
(* takes its replay from the bounded history without an await, so that     *)
(* each of them is one step.  An event is its id; its topic is             *)
(* topicOfId[id].                                                          *)
(***************************************************************************)
EXTENDS Integers, Sequences, FiniteSets

CONSTANTS
    Subs,           \* clients, each with at most one open stream
    Topics,
    TopicOf,        \* the topic a client subscribes to
    NoId,           \* "no Last-Event-ID"
    CLOSE,          \* the sentinel that ends a stream
    MaxSeq,         \* bound: events published
    QueueSize,      \* subscriber_queue_size
    ReplaySize      \* replay_size: the history kept per topic

ASSUME BusAssumption ==
    /\ TopicOf \in [Subs -> Topics]
    /\ NoId \notin Nat
    /\ CLOSE \notin Nat
    /\ MaxSeq \in Nat
    /\ QueueSize \in Nat \ {0}
    /\ ReplaySize \in Nat

VARIABLES
    topicOfId,  \* the topic of each event; its length is _seq
    history,    \* the latest ids of each topic
    stream      \* each client's subscribe(): see Closed

vars == <<topicOfId, history, stream>>

_seq == Len(topicOfId)

\* A client without a stream remembers the id of the last event it saw.  A
\* stream adds the queue, the replayed ids still to be yielded, what it has
\* yielded and _seq when it was opened; it is registered while the bus
\* serves it.
Closed(id) ==
    [live |-> FALSE, registered |-> FALSE, queue |-> <<>>, replay |-> {},
     yielded |-> <<>>, lastId |-> id, start |-> 0]

IsLeast(m, S) == m \in S /\ \A x \in S : m <= x

Init ==
    /\ topicOfId = <<>>
    /\ history = [t \in Topics |-> {}]
    /\ stream = [s \in Subs |-> Closed(NoId)]

\* Mutants of Offered: an event that finds no room is dropped, the stream
\* goes on; a full queue takes one more.
OfferedIfRoom(st, x) ==
    IF Len(st.queue) < QueueSize THEN [st EXCEPT !.queue = Append(@, x)] ELSE st
OfferedLate(st, x) ==
    IF Len(st.queue) <= QueueSize THEN [st EXCEPT !.queue = Append(@, x)]
    ELSE [st EXCEPT !.queue = <<CLOSE>>, !.registered = FALSE]

\* A slow consumer's backlog is dropped and its stream ends.
Offered(st, x) ==
    IF Len(st.queue) < QueueSize THEN [st EXCEPT !.queue = Append(@, x)]
    ELSE [st EXCEPT !.queue = <<CLOSE>>, !.registered = FALSE]

\* deque(maxlen=replay_size).
Latest(S) == {x \in S : Cardinality({y \in S : y > x}) < ReplaySize}

Publish(t) ==
    /\ _seq < MaxSeq
    /\ topicOfId' = Append(topicOfId, t)
    /\ history' = [history EXCEPT ![t] = Latest(@ \cup {_seq + 1})]
    /\ stream' = [s \in Subs |->
           IF stream[s].registered /\ TopicOf[s] = t
           THEN Offered(stream[s], _seq + 1) ELSE stream[s]]

\* Mutant: the client's last event is replayed again.
ReplayFrom(t, id) == IF id = NoId THEN {} ELSE {x \in history[t] : x >= id}

\* _replay_after.
ReplayAfter(t, id) == IF id = NoId THEN {} ELSE {x \in history[t] : x > id}

\* subscribe() up to its first yield.  A client sends no id, the id it
\* holds, or 0 (everything retained).
Subscribe(s) ==
    /\ ~stream[s].live
    /\ \E id \in {NoId, 0, stream[s].lastId} :
          stream' = [stream EXCEPT ![s] =
              [@ EXCEPT !.live = TRUE, !.registered = TRUE, !.lastId = id,
                        !.start = _seq, !.replay = ReplayAfter(TopicOf[s], id)]]
    /\ UNCHANGED <<topicOfId, history>>

YieldReplay(s) ==
    /\ \E x \in stream[s].replay :
          /\ IsLeast(x, stream[s].replay)
          /\ stream' = [stream EXCEPT ![s] = [stream[s] EXCEPT !.replay = @ \ {x},
                                                       !.yielded = Append(@, x)]]
    /\ UNCHANGED <<topicOfId, history>>

\* The finally block.
End(s) ==
    stream' = [stream EXCEPT ![s] = Closed(
        IF @.yielded = <<>> THEN @.lastId ELSE @.yielded[Len(@.yielded)])]

\* One round of the live loop.
Get(s) ==
    /\ stream[s].replay = {} /\ stream[s].queue # <<>>
    /\ LET item == Head(stream[s].queue)
       IN  IF item = CLOSE THEN End(s)
           ELSE stream' = [stream EXCEPT ![s] = [stream[s] EXCEPT !.queue = Tail(@),
                                                          !.yielded = Append(@, item)]]
    /\ UNCHANGED <<topicOfId, history>>

\* The consumer goes away: the generator is closed wherever it waits.
Disconnect(s) ==
    /\ stream[s].live
    /\ End(s)
    /\ UNCHANGED <<topicOfId, history>>

Next ==
    \/ \E t \in Topics : Publish(t)
    \/ \E s \in Subs : Subscribe(s) \/ YieldReplay(s) \/ Get(s) \/ Disconnect(s)

Spec == Init /\ [][Next]_vars

-----------------------------------------------------------------------------
(* Properties *)

Yielded(s) == {stream[s].yielded[i] : i \in 1..Len(stream[s].yielded)}
Queued(s)  == {stream[s].queue[i] : i \in 1..Len(stream[s].queue)}

Item == Nat \cup {CLOSE}
Streams ==
    [live : BOOLEAN, registered : BOOLEAN, queue : Seq(Item),
     replay : SUBSET Nat, yielded : Seq(Nat), lastId : Nat \cup {NoId}, start : Nat]

TypeOK ==
    /\ topicOfId \in Seq(Topics) /\ _seq <= MaxSeq
    /\ history \in [Topics -> SUBSET (1.._seq)]
    /\ stream \in [Subs -> Streams]
    /\ \A t \in Topics :
          /\ Cardinality(history[t]) <= ReplaySize
          /\ \A x \in history[t] : topicOfId[x] = t
    /\ \A s \in Subs :
          /\ Len(stream[s].queue) <= QueueSize
          /\ stream[s].lastId \in (0.._seq) \cup {NoId}

Growing(q) == \A i, j \in 1..Len(q) : i < j => q[i] < q[j]

\* The replay and the queue of a stream meet at its call.  What it yielded is
\* of its topic and, going by the Last-Event-ID, new to its client, in order
\* and each event once.  While it is registered its queue goes on from there,
\* in order too, and the two hold exactly what was published on its topic
\* since the call: nothing is missed, twice, or from before in the queue.
ExactlySinceStart ==
    \A s \in Subs : LET st == stream[s] IN
        /\ Growing(st.yielded)
        /\ \A x \in Yielded(s) :
              /\ topicOfId[x] = TopicOf[s]
              /\ x > IF st.lastId = NoId THEN st.start ELSE st.lastId
        /\ st.registered =>
              /\ Growing(st.yielded \o st.queue)
              /\ {x \in (st.start + 1).._seq : topicOfId[x] = TopicOf[s]} =
                    {x \in Yielded(s) : x > st.start} \cup Queued(s)

\* The event bus contract.  A stream's position is the last event it
\* yielded, or the point it starts behind.
Position(st) ==
    IF st.yielded # <<>> THEN st.yielded[Len(st.yielded)]
    ELSE IF st.replay # {} THEN (CHOOSE x \in st.replay : IsLeast(x, st.replay)) - 1
    ELSE st.start

Published == {<<x, topicOfId[x]>> : x \in 1.._seq}
Retained  == {<<x, topicOfId[x]>> : x \in UNION {history[t] : t \in Topics}}
Open      == {s \in Subs : stream[s].live}
Positions == [s \in Subs |-> Position(stream[s])]

Contract == INSTANCE EventStream WITH
    Ids <- 1..MaxSeq, published <- Published, retained <- Retained, open <- Open,
    position <- Positions

\* The bus keeps the contract of the port, the same as PostgresEventBus:
\* growing ids, and per stream the events of its topic behind its starting
\* point, each once, in order, without a gap.
ImplementsContract == Contract!Spec

=============================================================================
