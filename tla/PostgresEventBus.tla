-------------------------- MODULE PostgresEventBus --------------------------
(***************************************************************************)
(* The shared event bus of src/adapters/events/postgres.py: an events      *)
(* table, publishers serialised by an advisory lock, one pump per          *)
(* container that copies new rows into the queues of the container's       *)
(* subscribers, and the subscribe() generator that joins a replay from     *)
(* the table to the live queue.                                            *)
(*                                                                         *)
(* An event is its seq; its topic is rowTopic[seq].  The clients live      *)
(* outside the containers: they keep a Last-Event-ID across streams and    *)
(* may resume in another container.  A container's Python code runs on     *)
(* one event loop, so a handler is interrupted only where it awaits.       *)
(***************************************************************************)
EXTENDS Integers, Sequences, FiniteSets

CONSTANTS
    Containers,     \* the processes that run the application
    Subs,           \* clients, each with at most one open stream
    Topics,
    TopicOf,        \* the topic a client subscribes to
    NoId,           \* "no Last-Event-ID"
    CLOSE,          \* the sentinel that ends a stream
    MaxSeq,         \* bound: identity values drawn from the events table
    BatchSize,      \* _BATCH: rows fetched at a time
    QueueSize,      \* subscriber_queue_size
    ReplaySize,     \* replay_size
    MaxRows,        \* max_rows kept by the pruning
    Environment     \* what the database and the platform may do, see below

\* "head_error": the read of the log head fails; "replay_error": the replay
\* query fails; "prune": rows get old enough, or many enough, to be deleted;
\* "abort": a publish transaction rolls back; "close": a container shuts
\* down; "crash": a container is killed; "leave": a client disconnects.
Disturbances ==
    {"head_error", "replay_error", "prune", "abort", "close", "crash", "leave"}

ASSUME ConstantsAssumption ==
    /\ TopicOf \in [Subs -> Topics]
    /\ NoId \notin Nat
    /\ CLOSE \notin Nat
    /\ MaxSeq \in Nat
    /\ BatchSize \in Nat \ {0}
    /\ QueueSize \in Nat \ {0}
    /\ ReplaySize \in Nat
    /\ MaxRows \in Nat \ {0}
    /\ Environment \subseteq Disturbances

VARIABLES
    \* The database
    rowTopic,       \* the topic of each identity value drawn, committed or not
    inTx,           \* rows inserted by transactions that have not ended
    committed,      \* every row that was ever committed (history)
    events,         \* the rows the table holds
    \* Each container's pump
    pump,           \* where the pump task is
    cursor,         \* the last row handed to the local subscribers
    batch,          \* rows fetched and not yet dispatched
    more,           \* the last fetch returned a full batch
    inChunk,        \* rows dispatched since the pump last let the loop run
    \* Each client's stream
    phase,          \* how far its subscribe() has come
    home,           \* the container that serves it
    registered,     \* streams in a container's _subscribers
    queue,          \* its asyncio.Queue
    regSeq,         \* its starting point in the log
    lastId,         \* the Last-Event-ID its client holds
    replay,         \* replayed rows still to be yielded
    delivered,      \* what this stream has yielded
    headAtCall      \* the newest committed row when it was opened (history)

dbVars   == <<rowTopic, inTx, committed, events>>
pumpVars == <<pump, cursor, batch, more, inChunk>>
subVars  == <<phase, home, registered, queue, regSeq, lastId, replay,
              delivered, headAtCall>>
vars     == <<dbVars, pumpVars, subVars>>

PumpStates == {"down", "drain", "yield", "dispatch", "prune_age",
               "prune_count", "closing", "closed"}
Phases     == {"idle", "registered", "started", "live", "ended"}
Active     == {"registered", "started", "live"}
Item       == Nat \cup {CLOSE}

-----------------------------------------------------------------------------
(* Helpers *)

\* Mutant: the whole batch is handed to the queues at once.
WholeBatch == BatchSize

\* The rows dispatched before _drain lets the event loop run.
Chunk == IF QueueSize \div 2 > 1 THEN QueueSize \div 2 ELSE 1

\* SELECT coalesce(max(seq), 0): h is the newest row of S, or 0.
IsNewest(h, S) == IF S = {} THEN h = 0 ELSE h \in S /\ \A x \in S : x <= h

IsLeast(m, S) == m \in S /\ \A x \in S : m <= x

\* ORDER BY seq LIMIT n.
Oldest(S, n) == {x \in S : Cardinality({y \in S : y < x}) < n}

\* Mutant: one row too few.
NewestButOne(S, n) == {x \in S : Cardinality({y \in S : y > x}) < n - 1}

\* ORDER BY seq DESC LIMIT n.
Newest(S, n) == {x \in S : Cardinality({y \in S : y > x}) < n}

\* The rows of the table on the topic of s.
RowsFor(s) == {x \in events : rowTopic[x] = TopicOf[s]}

\* The Last-Event-ID the client of s holds once its stream ends.
Seen(s) == IF delivered[s] = <<>> THEN lastId[s]
           ELSE delivered[s][Len(delivered[s])]

\* Nothing else of container c runs while its pump is inside a chunk.
LoopFree(c) == pump[c] # "dispatch"

Streams(c) == {s \in Subs : home[s] = c /\ phase[s] \in Active}

-----------------------------------------------------------------------------
Init ==
    /\ rowTopic = <<>>
    /\ inTx = {}
    /\ committed = {}
    /\ events = {}
    /\ pump = [c \in Containers |-> "down"]
    /\ cursor = [c \in Containers |-> 0]
    /\ batch = [c \in Containers |-> {}]
    /\ more = [c \in Containers |-> FALSE]
    /\ inChunk = [c \in Containers |-> 0]
    /\ phase = [s \in Subs |-> "idle"]
    /\ home \in [Subs -> Containers]
    /\ registered = {}
    /\ queue = [s \in Subs |-> <<>>]
    /\ regSeq = [s \in Subs |-> 0]
    /\ lastId = [s \in Subs |-> NoId]
    /\ replay = [s \in Subs |-> {}]
    /\ delivered = [s \in Subs |-> <<>>]
    /\ headAtCall = [s \in Subs |-> 0]

-----------------------------------------------------------------------------
(* publish(): one statement that takes the advisory lock, inserts and ends *)
(* its transaction.  The lock is released only once the row is visible.    *)

\* Mutant: the advisory lock is not taken.
InsertUnlocked(t) ==
    /\ Len(rowTopic) < MaxSeq
    /\ rowTopic' = Append(rowTopic, t)
    /\ inTx' = inTx \cup {Len(rowTopic) + 1}
    /\ UNCHANGED <<committed, events, pumpVars, subVars>>

PublishInsert(t) == inTx = {} /\ InsertUnlocked(t)

PublishCommit(x) ==
    /\ x \in inTx
    /\ inTx' = inTx \ {x}
    /\ committed' = committed \cup {x}
    /\ events' = events \cup {x}
    /\ UNCHANGED <<rowTopic, pumpVars, subVars>>

\* The identity value stays drawn: a gap in seq.
PublishAbort(x) ==
    /\ "abort" \in Environment
    /\ x \in inTx
    /\ inTx' = inTx \ {x}
    /\ UNCHANGED <<rowTopic, committed, events, pumpVars, subVars>>

-----------------------------------------------------------------------------
(* The pump *)

Start(c) ==
    /\ pump[c] = "down"
    /\ \E h \in events \cup {0} :
          /\ IsNewest(h, events)
          /\ cursor' = [cursor EXCEPT ![c] = h]
    /\ pump' = [pump EXCEPT ![c] = "drain"]
    /\ UNCHANGED <<dbVars, batch, more, inChunk, subVars>>

\* Mutant: the row at the cursor is fetched again.
RowsFromCursor(c) == {x \in events : x >= cursor[c]}

NewRows(c) == {x \in events : x > cursor[c]}

\* The query's snapshot; the rows arrive when the pump next runs.
Fetch(c) ==
    /\ pump[c] = "drain"
    /\ batch' = [batch EXCEPT ![c] = Oldest(NewRows(c), BatchSize)]
    /\ more' = [more EXCEPT ![c] = Cardinality(NewRows(c)) >= BatchSize]
    /\ pump' = [pump EXCEPT ![c] = "yield"]
    /\ UNCHANGED <<dbVars, cursor, inChunk, subVars>>

\* The pump runs again: a further chunk, the next fetch, or, once drained,
\* a pruning if one is due.  "drain" stands for the wait between polls too.
Resume(c) ==
    /\ pump[c] = "yield"
    /\ \/ /\ batch[c] # {}
          /\ pump' = [pump EXCEPT ![c] = "dispatch"]
       \/ /\ batch[c] = {}
          /\ pump' = [pump EXCEPT ![c] = "drain"]
       \/ /\ batch[c] = {} /\ ~more[c]
          /\ "prune" \in Environment
          /\ pump' = [pump EXCEPT ![c] = "prune_age"]
    /\ inChunk' = [inChunk EXCEPT ![c] = 0]
    /\ UNCHANGED <<dbVars, cursor, batch, more, subVars>>

\* Mutant: a stream counts only once its replay is fixed.
ReadyStreams(c) == {s \in registered : home[s] = c /\ phase[s] = "live"}

\* The _subscribers of c.
LocalStreams(c) == {s \in registered : home[s] = c}

\* The subscribers that _dispatch offers row x to.
Receivers(c, x) == {s \in LocalStreams(c) : TopicOf[s] = rowTopic[x]}

\* Mutant: a full queue takes one more row.
OverflowingLate(c, x) == {s \in Receivers(c, x) : Len(queue[s]) > QueueSize}

\* Those of them whose queue is full.
Overflowing(c, x) == {s \in Receivers(c, x) : Len(queue[s]) >= QueueSize}

\* _dispatch of one row and the cursor update behind it; a full queue is
\* emptied, ended with CLOSE and takes no further part.
Dispatch(c) ==
    /\ pump[c] = "dispatch"
    /\ \E x \in batch[c] :
          /\ IsLeast(x, batch[c])
          /\ queue' = [s \in Subs |->
                 IF s \in Overflowing(c, x) THEN <<CLOSE>>
                 ELSE IF s \in Receivers(c, x) THEN Append(queue[s], x)
                 ELSE queue[s]]
          /\ registered' = registered \ Overflowing(c, x)
          /\ cursor' = [cursor EXCEPT ![c] = x]
          /\ batch' = [batch EXCEPT ![c] = batch[c] \ {x}]
          /\ pump' = [pump EXCEPT ![c] =
                 IF inChunk[c] + 1 = Chunk \/ batch[c] = {x}
                 THEN "yield" ELSE "dispatch"]
    /\ inChunk' = [inChunk EXCEPT ![c] = inChunk[c] + 1]
    /\ UNCHANGED <<dbVars, more, phase, home, regSeq, lastId, replay,
                   delivered, headAtCall>>

\* DELETE by age.  A row's ts is the start of its publisher's transaction,
\* which may have waited for the lock: age order is not seq order.
PruneAge(c) ==
    /\ pump[c] = "prune_age"
    /\ \E old \in SUBSET events : events' = events \ old
    /\ pump' = [pump EXCEPT ![c] = "prune_count"]
    /\ UNCHANGED <<rowTopic, inTx, committed, cursor, batch, more, inChunk,
                   subVars>>

PruneCount(c) ==
    /\ pump[c] = "prune_count"
    /\ \E h \in events \cup {0} :
          /\ IsNewest(h, events)
          /\ events' = {x \in events : x > h - MaxRows}
    /\ pump' = [pump EXCEPT ![c] = "drain"]
    /\ UNCHANGED <<rowTopic, inTx, committed, cursor, batch, more, inChunk,
                   subVars>>

\* A failed statement ends the pruning; a failed fetch changes nothing.
PruneFails(c) ==
    /\ pump[c] \in {"prune_age", "prune_count"}
    /\ pump' = [pump EXCEPT ![c] = "drain"]
    /\ UNCHANGED <<dbVars, cursor, batch, more, inChunk, subVars>>

-----------------------------------------------------------------------------
(* subscribe() *)

\* The generator's first step: register, then await the log head.  A client
\* sends no id, the id it holds, or 0 (everything retained).
Subscribe(s, c) ==
    /\ phase[s] \in {"idle", "ended"}
    /\ pump[c] \notin {"down", "closed"} /\ LoopFree(c)
    /\ \E id \in {NoId, 0, lastId[s]} : lastId' = [lastId EXCEPT ![s] = id]
    /\ \E h \in committed \cup {0} :
          /\ IsNewest(h, committed)
          /\ headAtCall' = [headAtCall EXCEPT ![s] = h]
    /\ phase' = [phase EXCEPT ![s] = "registered"]
    /\ home' = [home EXCEPT ![s] = c]
    /\ registered' = registered \cup {s}
    /\ UNCHANGED <<dbVars, pumpVars, queue, regSeq, replay, delivered>>

\* The start is where the pump is; also a mutant of ReadHead.
StartAtCursor(s) ==
    /\ phase[s] = "registered" /\ LoopFree(home[s])
    /\ regSeq' = [regSeq EXCEPT ![s] = cursor[home[s]]]
    /\ phase' = [phase EXCEPT ![s] = "started"]
    /\ UNCHANGED <<dbVars, pumpVars, home, registered, queue, lastId, replay,
                   delivered, headAtCall>>

\* The start is the newest row of the table.
ReadHead(s) ==
    /\ phase[s] = "registered" /\ LoopFree(home[s])
    /\ \E h \in events \cup {0} :
          /\ IsNewest(h, events)
          /\ regSeq' = [regSeq EXCEPT ![s] = h]
    /\ phase' = [phase EXCEPT ![s] = "started"]
    /\ UNCHANGED <<dbVars, pumpVars, home, registered, queue, lastId, replay,
                   delivered, headAtCall>>

\* Mutant: the start is the client's id, if it has one or not.
StartAtId(s) ==
    /\ phase[s] = "registered" /\ LoopFree(home[s])
    /\ regSeq' = [regSeq EXCEPT ![s] = lastId[s]]
    /\ phase' = [phase EXCEPT ![s] = "started"]
    /\ UNCHANGED <<dbVars, pumpVars, home, registered, queue, lastId, replay,
                   delivered, headAtCall>>

\* The query fails: the pump's cursor stands in for the head.
ReadHeadFails(s) == "head_error" \in Environment /\ StartAtCursor(s)

\* Mutants: the replay has no upper end; it repeats the client's last event.
ReplayableBeyond(s) ==
    IF lastId[s] = NoId THEN {} ELSE {x \in RowsFor(s) : lastId[s] < x}
ReplayableAgain(s) ==
    IF lastId[s] = NoId THEN {}
    ELSE {x \in RowsFor(s) : lastId[s] <= x /\ x <= regSeq[s]}

\* The rows _replay asks for: newer than the client's id, up to the start.
Replayable(s) ==
    IF lastId[s] = NoId THEN {}
    ELSE {x \in RowsFor(s) : lastId[s] < x /\ x <= regSeq[s]}

FetchReplay(s) ==
    /\ phase[s] = "started" /\ LoopFree(home[s])
    /\ replay' = [replay EXCEPT ![s] = Newest(Replayable(s), ReplaySize)]
    /\ phase' = [phase EXCEPT ![s] = "live"]
    /\ UNCHANGED <<dbVars, pumpVars, home, registered, queue, regSeq, lastId,
                   delivered, headAtCall>>

\* Best effort: the stream goes on with live events only.
FetchReplayFails(s) ==
    /\ "replay_error" \in Environment
    /\ phase[s] = "started" /\ lastId[s] # NoId /\ LoopFree(home[s])
    /\ phase' = [phase EXCEPT ![s] = "live"]
    /\ UNCHANGED <<dbVars, pumpVars, home, registered, queue, regSeq, lastId,
                   replay, delivered, headAtCall>>

YieldReplay(s) ==
    /\ phase[s] = "live" /\ LoopFree(home[s])
    /\ \E x \in replay[s] :
          /\ IsLeast(x, replay[s])
          /\ delivered' = [delivered EXCEPT ![s] = Append(@, x)]
          /\ replay' = [replay EXCEPT ![s] = @ \ {x}]
    /\ UNCHANGED <<dbVars, pumpVars, phase, home, registered, queue, regSeq,
                   lastId, headAtCall>>

\* One round of the live loop: rows the replay covered are dropped.
GetEvent(s) ==
    /\ phase[s] = "live" /\ replay[s] = {} /\ LoopFree(home[s])
    /\ queue[s] # <<>> /\ Head(queue[s]) # CLOSE
    /\ delivered' = [delivered EXCEPT ![s] =
           IF Head(queue[s]) > regSeq[s] THEN Append(@, Head(queue[s])) ELSE @]
    /\ queue' = [queue EXCEPT ![s] = Tail(@)]
    /\ UNCHANGED <<dbVars, pumpVars, phase, home, registered, regSeq, lastId,
                   replay, headAtCall>>

\* The streams S are over (the generator's finally block, or its process is
\* gone): only the clients' ids survive.
EndStreams(S) ==
    /\ phase' = [s \in Subs |-> IF s \in S THEN "ended" ELSE phase[s]]
    /\ lastId' = [s \in Subs |-> IF s \in S THEN Seen(s) ELSE lastId[s]]
    /\ registered' = registered \ S
    /\ queue' = [s \in Subs |-> IF s \in S THEN <<>> ELSE queue[s]]
    /\ regSeq' = [s \in Subs |-> IF s \in S THEN 0 ELSE regSeq[s]]
    /\ replay' = [s \in Subs |-> IF s \in S THEN {} ELSE replay[s]]
    /\ delivered' = [s \in Subs |-> IF s \in S THEN <<>> ELSE delivered[s]]
    /\ headAtCall' = [s \in Subs |-> IF s \in S THEN 0 ELSE headAtCall[s]]
    /\ UNCHANGED home

GetClose(s) ==
    /\ phase[s] = "live" /\ replay[s] = {} /\ LoopFree(home[s])
    /\ queue[s] # <<>> /\ Head(queue[s]) = CLOSE
    /\ EndStreams({s})
    /\ UNCHANGED <<dbVars, pumpVars>>

\* The consumer goes away: the generator is closed wherever it waits.
Disconnect(s) ==
    /\ "leave" \in Environment
    /\ phase[s] \in Active /\ LoopFree(home[s])
    /\ EndStreams({s})
    /\ UNCHANGED <<dbVars, pumpVars>>

-----------------------------------------------------------------------------
(* close() and the end of a container *)

\* Up to the await of the cancelled tasks.
BeginClose(c) ==
    /\ "close" \in Environment
    /\ pump[c] \in {"drain", "yield", "prune_age", "prune_count"}
    /\ pump' = [pump EXCEPT ![c] = "closing"]
    /\ batch' = [batch EXCEPT ![c] = {}]
    /\ UNCHANGED <<dbVars, cursor, more, inChunk, subVars>>

FinishClose(c) ==
    /\ pump[c] = "closing"
    /\ pump' = [pump EXCEPT ![c] = "closed"]
    /\ queue' = [s \in Subs |-> IF s \in LocalStreams(c)
                                THEN <<CLOSE>> ELSE queue[s]]
    /\ UNCHANGED <<dbVars, cursor, batch, more, inChunk, phase, home,
                   registered, regSeq, lastId, replay, delivered, headAtCall>>

\* The process is gone, after close() or without it, and may start anew.
Stop(c) ==
    /\ \/ pump[c] = "closed"
       \/ "crash" \in Environment /\ pump[c] # "down"
    /\ pump' = [pump EXCEPT ![c] = "down"]
    /\ batch' = [batch EXCEPT ![c] = {}]
    /\ cursor' = [cursor EXCEPT ![c] = 0]
    /\ more' = [more EXCEPT ![c] = FALSE]
    /\ inChunk' = [inChunk EXCEPT ![c] = 0]
    /\ EndStreams(Streams(c))
    /\ UNCHANGED dbVars

-----------------------------------------------------------------------------
Publish ==
    \/ \E t \in Topics : PublishInsert(t)
    \/ \E x \in inTx : PublishCommit(x) \/ PublishAbort(x)

Pump(c) ==
    \/ Start(c) \/ Fetch(c) \/ Resume(c) \/ Dispatch(c)
    \/ PruneAge(c) \/ PruneCount(c) \/ PruneFails(c)

Stream(s) ==
    \/ \E c \in Containers : Subscribe(s, c)
    \/ ReadHead(s) \/ ReadHeadFails(s)
    \/ FetchReplay(s) \/ FetchReplayFails(s)
    \/ YieldReplay(s) \/ GetEvent(s) \/ GetClose(s) \/ Disconnect(s)

Lifecycle(c) == BeginClose(c) \/ FinishClose(c) \/ Stop(c)

Next ==
    \/ Publish
    \/ \E c \in Containers : Pump(c) \/ Lifecycle(c)
    \/ \E s \in Subs : Stream(s)

Spec == Init /\ [][Next]_vars

\* What runs by itself goes on: the pump of a container that is up, close()
\* once begun, the transaction of a publisher, and a stream whose consumer
\* keeps asking: its task waits its turn in the event loop, which the pump
\* takes and frees again and again, hence strong fairness.  Nobody has to
\* publish, subscribe, prune or shut down.
Fairness ==
    /\ WF_vars(\E x \in inTx : PublishCommit(x) \/ PublishAbort(x))
    /\ \A c \in Containers :
          /\ WF_vars(Fetch(c) \/ Resume(c) \/ Dispatch(c)
                     \/ PruneAge(c) \/ PruneCount(c) \/ PruneFails(c))
          /\ WF_vars(FinishClose(c))
    /\ \A s \in Subs :
          SF_vars(ReadHead(s) \/ ReadHeadFails(s) \/ FetchReplay(s)
                  \/ FetchReplayFails(s) \/ YieldReplay(s) \/ GetEvent(s)
                  \/ GetClose(s))

FairSpec == Spec /\ Fairness

-----------------------------------------------------------------------------
(* Properties *)

TypeOK ==
    /\ rowTopic \in Seq(Topics)
    /\ committed \subseteq 1..Len(rowTopic)
    /\ inTx \subseteq 1..Len(rowTopic)
    /\ events \subseteq committed
    /\ pump \in [Containers -> PumpStates]
    /\ cursor \in [Containers -> Nat]
    /\ batch \in [Containers -> SUBSET Nat]
    /\ more \in [Containers -> BOOLEAN]
    /\ inChunk \in [Containers -> Nat]
    /\ phase \in [Subs -> Phases]
    /\ home \in [Subs -> Containers]
    /\ registered \subseteq Subs
    /\ queue \in [Subs -> Seq(Item)]
    /\ regSeq \in [Subs -> Nat]
    /\ lastId \in [Subs -> Nat \cup {NoId}]
    /\ replay \in [Subs -> SUBSET Nat]
    /\ delivered \in [Subs -> Seq(Nat)]
    /\ headAtCall \in [Subs -> Nat]

Increasing(q) == \A i, j \in 1..Len(q) : i < j => q[i] < q[j]

\* A stream yields its events in publish order and none of them twice: the
\* replay ends where the queue takes over, whatever failed on the way.
InOrder == \A s \in Subs : Increasing(delivered[s])

\* Nothing the table holds is lost on a registered stream: what its pump
\* has passed since the starting point is yielded or still queued.  Rests on
\* seq order being commit order (the lock of publish_event), on registering
\* before the head is read, and on the cursor moving only behind what was
\* dispatched.
NothingMissed ==
    \A s \in registered : phase[s] \in {"started", "live"} =>
        \A x \in RowsFor(s) :
            (regSeq[s] < x /\ x <= cursor[home[s]] /\ pump[home[s]] # "closed") =>
                \/ \E i \in 1..Len(delivered[s]) : delivered[s][i] = x
                \/ \E i \in 1..Len(queue[s]) : queue[s][i] = x

-----------------------------------------------------------------------------
(* Why streams are in order: the inductive invariant behind InOrder and    *)
(* NothingAfterClose.                                                      *)

\* What waits to be dispatched is newer than what was, and nothing waits
\* outside the dispatching.
BatchInv(c) ==
    /\ \A x \in batch[c] : cursor[c] < x
    /\ pump[c] \notin {"yield", "dispatch"} => batch[c] = {}

\* A client between streams has left nothing behind, a stream that has not
\* fixed its replay has yielded nothing, and a served stream's container
\* runs: its cursor is not reset under it.
PhaseInv(s) ==
    /\ s \in registered => phase[s] \in Active
    /\ phase[s] \notin Active => queue[s] = <<>>
    /\ phase[s] # "live" => delivered[s] = <<>> /\ replay[s] = {}
    /\ phase[s] \in Active => pump[home[s]] # "down"

\* A queue holds rows in order, none beyond the cursor, and CLOSE only at
\* the end; a stream that the pump still serves has none.
QueueInv(s) ==
    /\ Len(queue[s]) <= QueueSize
    /\ \A i \in 1..Len(queue[s]) :
          queue[s][i] # CLOSE => queue[s][i] <= cursor[home[s]]
    /\ \A i, j \in 1..Len(queue[s]) : i < j =>
          queue[s][i] # CLOSE /\ (queue[s][j] # CLOSE => queue[s][i] < queue[s][j])
    /\ (s \in registered /\ pump[home[s]] # "closed") =>
          \A i \in 1..Len(queue[s]) : queue[s][i] # CLOSE

\* The replay ends at the starting point, and what has been yielded lies
\* before what is still to be replayed and what is still queued.
YieldInv(s) ==
    /\ \A x \in replay[s] : x <= regSeq[s]
    /\ Increasing(delivered[s])
    /\ \A i \in 1..Len(delivered[s]) :
          /\ \A x \in replay[s] : delivered[s][i] < x
          /\ \/ delivered[s][i] <= regSeq[s]
             \/ /\ delivered[s][i] <= cursor[home[s]]
                /\ \A j \in 1..Len(queue[s]) :
                      queue[s][j] # CLOSE => delivered[s][i] < queue[s][j]

\* The three parts together: no step of any actor can break the order.
StreamsOrdered ==
    /\ \A c \in Containers : BatchInv(c)
    /\ \A s \in Subs : PhaseInv(s) /\ QueueInv(s) /\ YieldInv(s)

-----------------------------------------------------------------------------
\* A stream opened with a Last-Event-ID goes on where the client was: it
\* repeats nothing the client has seen, and if it replayed fewer rows than
\* replay_size it missed none that the table still holds.
ResumeIsExact ==
    \A s \in Subs : lastId[s] # NoId =>
        LET shown == {delivered[s][i] : i \in 1..Len(delivered[s])}
            replayed == replay[s] \cup {x \in shown : x <= regSeq[s]}
        IN  /\ \A x \in shown : x > lastId[s]
            /\ (phase[s] = "live" /\ Cardinality(replayed) < ReplaySize) =>
                  Replayable(s) \subseteq replayed

\* A stream opened without one yields nothing published before the call.
NothingFromBefore ==
    \A s \in Subs : lastId[s] = NoId =>
        \A i \in 1..Len(delivered[s]) : delivered[s][i] > headAtCall[s]

\* CLOSE is the last thing in a queue and its queue holds at most its size:
\* after a stream is told to end nothing more is queued behind it.
NothingAfterClose ==
    \A s \in Subs :
        /\ Len(queue[s]) <= QueueSize
        /\ \A i \in 1..Len(queue[s]) : queue[s][i] = CLOSE => i = Len(queue[s])

\* The slow-consumer policy never ends a stream over one chunk: a queue that
\* overflows holds a backlog from before the chunk (the comment on _drain).
OnlyBacklogOverflows ==
    [][\A s \in Subs :
          (s \in registered /\ s \notin registered' /\ phase'[s] # "ended")
              => inChunk[home[s]] < QueueSize]_vars

\* Every event on a live stream's topic is yielded, or the stream ends, or
\* the event is pruned.
EventuallyDelivered ==
    \A s \in Subs : \A x \in 1..MaxSeq :
        (phase[s] = "live" /\ x \in RowsFor(s) /\ x > regSeq[s]) ~>
            \/ phase[s] # "live"
            \/ x \notin events
            \/ \E i \in 1..Len(delivered[s]) : delivered[s][i] = x

\* close() ends every stream of its container.
CloseEndsStreams ==
    \A s \in Subs :
        (phase[s] \in Active /\ pump[home[s]] = "closing")
            ~> phase[s] \notin Active

-----------------------------------------------------------------------------
(* The event bus contract.  A stream is open once its replay is fixed; its *)
(* position is the last event it yielded, or the point it starts behind.   *)

Row(x) == <<x, rowTopic[x]>>

First(S) == CHOOSE x \in S : IsLeast(x, S)

Position(s) ==
    IF phase[s] # "live" THEN 0
    ELSE IF delivered[s] # <<>> THEN delivered[s][Len(delivered[s])]
    ELSE IF replay[s] # {} THEN First(replay[s]) - 1
    ELSE regSeq[s]

Identities == 1..MaxSeq
Published  == {Row(x) : x \in committed}
Retained   == {Row(x) : x \in events}
Open       == {s \in Subs : phase[s] = "live"}
Positions  == [s \in Subs |-> Position(s)]

Contract == INSTANCE EventStream WITH
    Ids       <- Identities,
    published <- Published,
    retained  <- Retained,
    open      <- Open,
    position  <- Positions

\* The bus keeps the contract of the port, whatever the database and the
\* platform do: growing ids, and per stream the retained events of its topic
\* behind its starting point, each once, in order, without a gap.
ImplementsContract == Contract!Spec

=============================================================================
