----------------------- MODULE StreamEndpointsProofs -----------------------
(***************************************************************************)
(* Proofs about StreamEndpoints, for any number of connections, any cap    *)
(* and any events:                                                         *)
(*   - the limiter counts exactly the streams that are served, where the   *)
(*     head of a response can be written;                                  *)
(*   - and without that condition: a WebSocket's tasks write one at a      *)
(*     time, nothing of a stream survives it, and the reason recorded for  *)
(*     a connection is why it ended;                                       *)
(*   - the endpoints use the bus as its contract allows, and a client is   *)
(*     served its stream up to the position that the bus has it at.        *)
(***************************************************************************)
EXTENDS StreamEndpoints, FiniteSetTheorems, TLAPS

\* Where each transport's connection can stand, and that the flag of release()
\* tells whether the slot of an SSE stream is still held.
SlotInv ==
    /\ \A c \in Sse :
        /\ conn[c].handler = "off"
        /\ conn[c].at # "lock"
        /\ conn[c].at \in {"new", "head", "send", "wait", "closing"} =>
              ~ conn[c].released
        /\ conn[c].at = "tail" => conn[c].released
    /\ \A c \in Ws :
        /\ conn[c].at \notin {"head", "tail"}
        /\ conn[c].at = "new" => conn[c].handler = "off"

IInv == TypeOK /\ SlotInv /\ SlotsCounted

\* What a step of connection c may do to the slots: take one where one is
\* free, give its own back, or leave both the count and the holders alone.
SlotStep(c) ==
    \/ /\ Occupies(c)' = Occupies(c)
       /\ active' = active
    \/ /\ ~ Occupies(c) /\ Occupies(c)'
       /\ TryAcquire
    \/ /\ Occupies(c) /\ ~ Occupies(c)'
       /\ Release

Alone(c) == \A d \in Conns \ {c} : conn'[d] = conn[d]

\* Such a step keeps the count exact and within the cap.
LEMMA CountStep ==
    ASSUME StreamsAssumption, active \in 0..MaxConnections, SlotsCounted,
           NEW c \in Conns, Alone(c), SlotStep(c)
    PROVE  SlotsCounted' /\ active' \in 0..MaxConnections
<1> USE DEF StreamsAssumption
<1>1. \A d \in Conns \ {c} : Occupies(d)' = Occupies(d)
  BY DEF Alone, Occupies
<1>2. Holders \in SUBSET Conns
  BY DEF Holders
<1>3. IsFiniteSet(Holders) /\ Cardinality(Holders) \in Nat
  BY <1>2, FS_Subset, FS_CardinalityType
<1>4. CASE Occupies(c)' = Occupies(c) /\ active' = active
  <2>1. Holders' = Holders
    BY <1>1, <1>4 DEF Holders
  <2> QED BY <2>1, <1>4 DEF SlotsCounted
<1>5. CASE ~ Occupies(c) /\ Occupies(c)' /\ TryAcquire
  <2>1. Holders' = Holders \cup {c} /\ c \notin Holders
    BY <1>1, <1>5 DEF Holders
  <2>2. Cardinality(Holders') = Cardinality(Holders) + 1
    BY <2>1, <1>3, FS_AddElement
  <2> QED BY <2>2, <1>5, <1>3 DEF SlotsCounted, TryAcquire
<1>6. CASE Occupies(c) /\ ~ Occupies(c)' /\ Release
  <2>1. Holders' = Holders \ {c} /\ c \in Holders
    BY <1>1, <1>6 DEF Holders
  <2>2. Cardinality(Holders') = Cardinality(Holders) - 1
    BY <2>1, <1>3, FS_RemoveElement
  <2>3. IsFiniteSet(Holders') /\ Cardinality(Holders') \in Nat
    BY <2>1, <1>3, FS_RemoveElement, FS_CardinalityType
  <2> QED BY <2>2, <2>3, <1>6, <1>3 DEF SlotsCounted, Release
<1> QED BY <1>4, <1>5, <1>6 DEF SlotStep

\* The record of a connection is typed field by field.
Fields ==
    {"at", "pending", "item", "clock", "cause", "gone", "released", "sender",
     "receiver", "handler", "close", "reason", "unsent"}

Typed(r) ==
    /\ r.at \in Places
    /\ r.pending \in {"none", "running", "item", "ended", "cancelled"}
    /\ r.item \in Ids \cup {0}
    /\ r.clock \in {"off", "early", "near", "over"}
    /\ r.cause \in {"none", "deadline", "bus", "cut"}
    /\ r.gone \in BOOLEAN
    /\ r.released \in BOOLEAN
    /\ r.sender \in {"off", "running", "max_duration", "server_busy", "cut"}
    /\ r.receiver \in {"off", "receive", "lock", "send", "left",
                       "rate_limited", "message_too_large", "raised", "cut"}
    /\ r.handler \in {"off", "waiting", "stopping", "closing", "ended"}
    /\ r.close \in Codes \cup {"none"}
    /\ r.reason \in Reasons
    /\ r.unsent \in SUBSET Ids

\* A step that changes the record of c only, within its type.
Moves(c) ==
    /\ conn' = [d \in Conns |-> conn'[d]]
    /\ Alone(c)
    /\ conn'[c] = [f \in Fields |-> conn'[c][f]]
    /\ Typed(conn'[c])

\* The causes that with_heartbeat() may have, "none" if it has not ended.
Causes == {"none", "deadline", "bus", "cut"}

\* A record that replaces that of c.
LEMMA Put ==
    ASSUME TypeOK, NEW c \in Conns, NEW r, conn' = [conn EXCEPT ![c] = r],
           r = [f \in Fields |-> r[f]], Typed(r)
    PROVE  Moves(c) /\ conn'[c] = r
BY DEF Moves, Alone, TypeOK

\* The records q and r differ at most in the fields F.
Only(q, r, F) ==
    /\ "at" \notin F => r.at = q.at
    /\ "pending" \notin F => r.pending = q.pending
    /\ "item" \notin F => r.item = q.item
    /\ "clock" \notin F => r.clock = q.clock
    /\ "cause" \notin F => r.cause = q.cause
    /\ "gone" \notin F => r.gone = q.gone
    /\ "released" \notin F => r.released = q.released
    /\ "sender" \notin F => r.sender = q.sender
    /\ "receiver" \notin F => r.receiver = q.receiver
    /\ "handler" \notin F => r.handler = q.handler
    /\ "close" \notin F => r.close = q.close
    /\ "reason" \notin F => r.reason = q.reason
    /\ "unsent" \notin F => r.unsent = q.unsent

\* What an event makes of the record q of a connection.
AfterNextItem(q, r, id) ==
    /\ Only(q, r, {"pending", "item", "unsent"})
    /\ r.pending = "item" /\ r.item = id
    /\ r.unsent = q.unsent \cup ({id} \ Hidden)

\* NextItem does so, and changes no other record.
LEMMA NextItemWrites ==
    ASSUME StreamsAssumption, TypeOK, NEW c \in Conns,
           NextItem(c)
    PROVE  \E e \in published :
              /\ conn[c].pending = "running"
              /\ Bus!Deliver(c, e)
              /\ active' = active
              /\ Moves(c)
              /\ AfterNextItem(conn[c], conn'[c], e[1])
<1> DEFINE q == conn[c]
           r(e) == [q EXCEPT
                   !.pending = "item", !.item = e[1],
                   !.unsent = q.unsent \cup ({e[1]} \ Hidden)]
<1>1. PICK e \in published :
         /\ conn[c].pending = "running"
         /\ Bus!Deliver(c, e)
         /\ active' = active
         /\ conn' = [conn EXCEPT ![c] = r(e)]
  BY Zenon DEF NextItem
<1>2. q \in States /\ Typed(q)
  BY DEF TypeOK, States, Typed
<1>3. e[1] \in Ids
  BY DEF TypeOK
<1> HIDE DEF q
<1>4. r(e) = [f \in Fields |-> r(e)[f]]
  BY <1>2 DEF Fields, States
<1>5. AfterNextItem(q, r(e), e[1])
  BY <1>2 DEF AfterNextItem, Only, States
<1> HIDE DEF r
<1>6. Typed(r(e))
  BY <1>3, <1>2, <1>5 DEF Typed, AfterNextItem, Only
<1> QED BY <1>1, <1>4, <1>5, <1>6, Put DEF q

\* What the end of a body makes of the record q of a connection.
AfterBody(q, r, why) ==
    /\ Only(q, r, {"at", "pending", "item", "cause", "released", "reason"})
    /\ r.at = IF why = "cut" THEN "closed" ELSE "tail"
    /\ r.pending = "none" /\ r.item = 0 /\ r.cause = why /\ r.released = TRUE
    /\ r.reason = IF why = "cut" THEN "client_disconnect" ELSE q.reason

\* EndBody does so, and changes no other record.
LEMMA EndBodyWrites ==
    ASSUME StreamsAssumption, TypeOK, NEW c \in Conns,
           NEW why \in Causes, EndBody(c, why)
    PROVE  /\ ReleaseOnce(c)
           /\ Moves(c)
           /\ AfterBody(conn[c], conn'[c], why)
<1> DEFINE q == conn[c]
           r == [q EXCEPT
                   !.at = IF why = "cut" THEN "closed" ELSE "tail",
                   !.pending = "none", !.item = 0, !.cause = why,
                   !.released = TRUE,
                   !.reason = IF why = "cut" THEN "client_disconnect" ELSE q.reason]
<1>1. /\ ReleaseOnce(c)
      /\ conn' = [conn EXCEPT ![c] = r]
  BY Zenon DEF EndBody
<1>2. q \in States /\ Typed(q)
  BY DEF TypeOK, States, Typed
<1> HIDE DEF q
<1>4. r = [f \in Fields |-> r[f]]
  BY <1>2 DEF Fields, States
<1>5. AfterBody(q, r, why)
  BY <1>2 DEF AfterBody, Only, States
<1> HIDE DEF r
<1>6. Typed(r)
  BY <1>2, <1>5 DEF Typed, AfterBody, Only, Places, Codes, Reasons, Causes
<1> QED BY <1>1, <1>4, <1>5, <1>6, Put DEF q

\* What the end of a sender makes of the record q of a connection.
AfterSender(q, r, why) ==
    /\ Only(q, r, {"at", "pending", "item", "cause", "sender"})
    /\ r.at = "closed" /\ r.pending = "none" /\ r.item = 0 /\ r.cause = why
    /\ r.sender = IF why = "cut" THEN "cut"
               ELSE IF q.clock \in {"near", "over"}
               THEN "max_duration" ELSE "server_busy"

\* EndSender does so, and changes no other record.
LEMMA EndSenderWrites ==
    ASSUME StreamsAssumption, TypeOK, NEW c \in Conns,
           NEW why \in Causes, EndSender(c, why)
    PROVE  /\ active' = active
           /\ Moves(c)
           /\ AfterSender(conn[c], conn'[c], why)
<1> DEFINE q == conn[c]
           r == [q EXCEPT
                   !.at = "closed", !.pending = "none", !.item = 0,
                   !.cause = why,
                   !.sender = IF why = "cut" THEN "cut"
                              ELSE IF q.clock \in {"near", "over"}
                              THEN "max_duration" ELSE "server_busy"]
<1>1. /\ active' = active
      /\ conn' = [conn EXCEPT ![c] = r]
  BY Zenon DEF EndSender
<1>2. q \in States /\ Typed(q)
  BY DEF TypeOK, States, Typed
<1> HIDE DEF q
<1>4. r = [f \in Fields |-> r[f]]
  BY <1>2 DEF Fields, States
<1>5. AfterSender(q, r, why)
  BY <1>2 DEF AfterSender, Only, States
<1> HIDE DEF r
<1>6. Typed(r)
  BY <1>2, <1>5 DEF Typed, AfterSender, Only, Places, Causes
<1> QED BY <1>1, <1>4, <1>5, <1>6, Put DEF q

\* What a finally that awaits makes of the record q of a connection.
AfterCancel(q, r, why) ==
    /\ Only(q, r, {"at", "pending", "cause"})
    /\ r.at = "closing" /\ r.pending = "cancelled" /\ r.cause = why

\* Finally does so, and changes no other record.
LEMMA FinallyWrites ==
    ASSUME StreamsAssumption, TypeOK, NEW c \in Conns,
           NEW why \in Causes, Finally(c, why), conn[c].pending = "running"
    PROVE  /\ UNCHANGED <<active, bus>>
           /\ Moves(c)
           /\ AfterCancel(conn[c], conn'[c], why)
<1> DEFINE q == conn[c]
           r == [q EXCEPT
                   !.at = "closing", !.pending = "cancelled", !.cause = why]
<1>1. /\ UNCHANGED <<active, bus>>
      /\ conn' = [conn EXCEPT ![c] = r]
  BY Zenon DEF Finally
<1>2. q \in States /\ Typed(q)
  BY DEF TypeOK, States, Typed
<1> HIDE DEF q
<1>4. r = [f \in Fields |-> r[f]]
  BY <1>2 DEF Fields, States
<1>5. AfterCancel(q, r, why)
  BY <1>2 DEF AfterCancel, Only, States
<1> HIDE DEF r
<1>6. Typed(r)
  BY <1>2, <1>5 DEF Typed, AfterCancel, Only, Places, Causes
<1> QED BY <1>1, <1>4, <1>5, <1>6, Put DEF q

\* What the top of the loop makes of the record q of a connection.
AfterTop(q, r) ==
    /\ Only(q, r, {"at", "pending", "clock"})
    /\ r.at = "wait"
    /\ r.pending = IF q.pending = "none" THEN "running" ELSE q.pending
    /\ r.clock = IF q.clock = "off" THEN "early" ELSE q.clock

\* SendDone does so, and changes no other record.
LEMMA SendDoneWrites ==
    ASSUME StreamsAssumption, TypeOK, NEW c \in Conns,
           SendDone(c), ~ DeadlinePassed(c)
    PROVE  /\ conn[c].at = "send"
           /\ Undisturbed(c)
           /\ UNCHANGED <<active, bus>>
           /\ Moves(c)
           /\ AfterTop(conn[c], conn'[c])
<1> DEFINE q == conn[c]
           r == [q EXCEPT
                   !.at = "wait",
                   !.pending = IF q.pending = "none" THEN "running" ELSE q.pending,
                   !.clock = IF q.clock = "off" THEN "early" ELSE q.clock]
<1>1. /\ conn[c].at = "send"
      /\ Undisturbed(c)
      /\ UNCHANGED <<active, bus>>
      /\ conn' = [conn EXCEPT ![c] = r]
  BY Zenon DEF SendDone, LoopTop
<1>2. q \in States /\ Typed(q)
  BY DEF TypeOK, States, Typed
<1> HIDE DEF q
<1>4. r = [f \in Fields |-> r[f]]
  BY <1>2 DEF Fields, States
<1>5. AfterTop(q, r)
  BY <1>2 DEF AfterTop, Only, States
<1> HIDE DEF r
<1>6. Typed(r)
  BY <1>2, <1>5 DEF Typed, AfterTop, Only, Places
<1> QED BY <1>1, <1>4, <1>5, <1>6, Put DEF q

\* What a frame made of an event makes of the record q of a connection.
AfterTake(q, r, to) ==
    /\ Only(q, r, {"at", "pending", "item", "unsent"})
    /\ r.at = to /\ r.pending = "none" /\ r.item = 0
    /\ r.unsent = q.unsent \ {q.item}

\* TakeItem does so, and changes no other record.
LEMMA TakeItemWrites ==
    ASSUME StreamsAssumption, TypeOK, NEW c \in Conns,
           TakeItem(c)
    PROVE  /\ Waiting(c, "item")
           /\ conn[c].item \notin Hidden
           /\ UNCHANGED <<active, bus>>
           /\ Moves(c)
           /\ AfterTake(conn[c], conn'[c], ToFrame(c))
<1> DEFINE q == conn[c]
           r == [q EXCEPT
                   !.at = ToFrame(c), !.pending = "none", !.item = 0,
                   !.unsent = q.unsent \ {q.item}]
<1>1. /\ Waiting(c, "item")
      /\ conn[c].item \notin Hidden
      /\ UNCHANGED <<active, bus>>
      /\ conn' = [conn EXCEPT ![c] = r]
  BY Zenon DEF TakeItem
<1>2. q \in States /\ Typed(q)
  BY DEF TypeOK, States, Typed
<1>3. ToFrame(c) \in {"lock", "send"}
  BY DEF ToFrame
<1> HIDE DEF q
<1>4. r = [f \in Fields |-> r[f]]
  BY <1>2 DEF Fields, States
<1>5. AfterTake(q, r, ToFrame(c))
  BY <1>2 DEF AfterTake, Only, States
<1> HIDE DEF r
<1>6. Typed(r)
  BY <1>3, <1>2, <1>5 DEF Typed, AfterTake, Only, Places
<1> QED BY <1>1, <1>4, <1>5, <1>6, Put DEF q

\* What a hidden event makes of the record q of a connection.
AfterSkip(q, r) ==
    /\ Only(q, r, {"pending", "item"})
    /\ r.pending = "running" /\ r.item = 0

\* SkipItem does so, and changes no other record.
LEMMA SkipItemWrites ==
    ASSUME StreamsAssumption, TypeOK, NEW c \in Conns,
           SkipItem(c), ~ DeadlinePassed(c)
    PROVE  /\ Waiting(c, "item")
           /\ conn[c].item \in Hidden
           /\ UNCHANGED <<active, bus>>
           /\ Moves(c)
           /\ AfterSkip(conn[c], conn'[c])
<1> DEFINE q == conn[c]
           r == [q EXCEPT
                   !.pending = "running", !.item = 0]
<1>1. /\ Waiting(c, "item")
      /\ conn[c].item \in Hidden
      /\ UNCHANGED <<active, bus>>
      /\ conn' = [conn EXCEPT ![c] = r]
  BY Zenon DEF SkipItem
<1>2. q \in States /\ Typed(q)
  BY DEF TypeOK, States, Typed
<1> HIDE DEF q
<1>4. r = [f \in Fields |-> r[f]]
  BY <1>2 DEF Fields, States
<1>5. AfterSkip(q, r)
  BY <1>2 DEF AfterSkip, Only, States
<1> HIDE DEF r
<1>6. Typed(r)
  BY <1>2, <1>5 DEF Typed, AfterSkip, Only
<1> QED BY <1>1, <1>4, <1>5, <1>6, Put DEF q

\* What GeneratorExit, where an __anext__ is pending makes of the record q of a connection.
AfterExit(q, r, released) ==
    /\ Only(q, r, {"at", "pending", "released"})
    /\ r.at = "shutting" /\ r.pending = "cancelled" /\ r.released = released

\* Collect does so, and changes no other record.
LEMMA CollectAwaits ==
    ASSUME StreamsAssumption, TypeOK, NEW c \in Conns,
           Collect(c), conn[c].pending = "running"
    PROVE  /\ conn[c].at = "orphan"
           /\ IF c \in Sse THEN ReleaseOnce(c) ELSE UNCHANGED active
           /\ UNCHANGED bus
           /\ Moves(c)
           /\ AfterExit(conn[c], conn'[c], (c \in Sse))
<1> DEFINE q == conn[c]
           r == [q EXCEPT
                   !.at = "shutting", !.pending = "cancelled",
                   !.released = (c \in Sse)]
<1>1. /\ conn[c].at = "orphan"
      /\ IF c \in Sse THEN ReleaseOnce(c) ELSE UNCHANGED active
      /\ UNCHANGED bus
      /\ conn' = [conn EXCEPT ![c] = r]
  BY Zenon DEF Collect
<1>2. q \in States /\ Typed(q)
  BY DEF TypeOK, States, Typed
<1> HIDE DEF q
<1>4. r = [f \in Fields |-> r[f]]
  BY <1>2 DEF Fields, States
<1>5. AfterExit(q, r, (c \in Sse))
  BY <1>2 DEF AfterExit, Only, States
<1> HIDE DEF r
<1>6. Typed(r)
  BY <1>2, <1>5 DEF Typed, AfterExit, Only, Places
<1> QED BY <1>1, <1>4, <1>5, <1>6, Put DEF q

\* What GeneratorExit, where none is makes of the record q of a connection.
AfterCollect(q, r, released) ==
    /\ Only(q, r, {"at", "pending", "item", "released"})
    /\ r.at = "closed" /\ r.pending = "none" /\ r.item = 0
    /\ r.released = released

\* Collect does so, and changes no other record.
LEMMA CollectCloses ==
    ASSUME StreamsAssumption, TypeOK, NEW c \in Conns,
           Collect(c), conn[c].pending # "running"
    PROVE  /\ conn[c].at = "orphan"
           /\ IF c \in Sse THEN ReleaseOnce(c) ELSE UNCHANGED active
           /\ Bus!End({c})
           /\ Moves(c)
           /\ AfterCollect(conn[c], conn'[c], (c \in Sse))
<1> DEFINE q == conn[c]
           r == [q EXCEPT
                   !.at = "closed", !.pending = "none", !.item = 0,
                   !.released = (c \in Sse)]
<1>1. /\ conn[c].at = "orphan"
      /\ IF c \in Sse THEN ReleaseOnce(c) ELSE UNCHANGED active
      /\ Bus!End({c})
      /\ conn' = [conn EXCEPT ![c] = r]
  BY Zenon DEF Collect
<1>2. q \in States /\ Typed(q)
  BY DEF TypeOK, States, Typed
<1> HIDE DEF q
<1>4. r = [f \in Fields |-> r[f]]
  BY <1>2 DEF Fields, States
<1>5. AfterCollect(q, r, (c \in Sse))
  BY <1>2 DEF AfterCollect, Only, States
<1> HIDE DEF r
<1>6. Typed(r)
  BY <1>2, <1>5 DEF Typed, AfterCollect, Only, Places
<1> QED BY <1>1, <1>4, <1>5, <1>6, Put DEF q

\* What the end of that makes of the record q of a connection.
AfterShutting(q, r) ==
    /\ Only(q, r, {"at", "pending"})
    /\ r.at = "closed" /\ r.pending = "none"

\* FinishShutting does so, and changes no other record.
LEMMA FinishShuttingWrites ==
    ASSUME StreamsAssumption, TypeOK, NEW c \in Conns,
           FinishShutting(c)
    PROVE  /\ conn[c].at = "shutting"
           /\ Bus!End({c})
           /\ UNCHANGED active
           /\ Moves(c)
           /\ AfterShutting(conn[c], conn'[c])
<1> DEFINE q == conn[c]
           r == [q EXCEPT
                   !.at = "closed", !.pending = "none"]
<1>1. /\ conn[c].at = "shutting"
      /\ Bus!End({c})
      /\ UNCHANGED active
      /\ conn' = [conn EXCEPT ![c] = r]
  BY Zenon DEF FinishShutting
<1>2. q \in States /\ Typed(q)
  BY DEF TypeOK, States, Typed
<1> HIDE DEF q
<1>4. r = [f \in Fields |-> r[f]]
  BY <1>2 DEF Fields, States
<1>5. AfterShutting(q, r)
  BY <1>2 DEF AfterShutting, Only, States
<1> HIDE DEF r
<1>6. Typed(r)
  BY <1>2, <1>5 DEF Typed, AfterShutting, Only, Places
<1> QED BY <1>1, <1>4, <1>5, <1>6, Put DEF q

\* What the end of a response makes of the record q of a connection.
AfterTail(q, r) ==
    /\ Only(q, r, {"at", "released", "reason"})
    /\ r.at = "closed" /\ r.released = TRUE /\ r.reason = "server_closed"

\* TailDone does so, and changes no other record.
LEMMA TailDoneWrites ==
    ASSUME StreamsAssumption, TypeOK, NEW c \in Conns,
           TailDone(c)
    PROVE  /\ conn[c].at = "tail"
           /\ ReleaseOnce(c)
           /\ UNCHANGED bus
           /\ Moves(c)
           /\ AfterTail(conn[c], conn'[c])
<1> DEFINE q == conn[c]
           r == [q EXCEPT
                   !.at = "closed", !.released = TRUE,
                   !.reason = "server_closed"]
<1>1. /\ conn[c].at = "tail"
      /\ ReleaseOnce(c)
      /\ UNCHANGED bus
      /\ conn' = [conn EXCEPT ![c] = r]
  BY Zenon DEF TailDone
<1>2. q \in States /\ Typed(q)
  BY DEF TypeOK, States, Typed
<1> HIDE DEF q
<1>4. r = [f \in Fields |-> r[f]]
  BY <1>2 DEF Fields, States
<1>5. AfterTail(q, r)
  BY <1>2 DEF AfterTail, Only, States
<1> HIDE DEF r
<1>6. Typed(r)
  BY <1>2, <1>5 DEF Typed, AfterTail, Only, Places, Codes, Reasons
<1> QED BY <1>1, <1>4, <1>5, <1>6, Put DEF q

\* What a disconnect at a write makes of the record q of a connection.
AfterDisconnect(q, r) ==
    /\ Only(q, r, {"at", "cause", "released", "reason"})
    /\ r.at = IF q.at = "head" THEN "closed" ELSE "orphan"
    /\ r.cause = "cut" /\ r.released = TRUE /\ r.reason = "client_disconnect"

\* Disconnected does so, and changes no other record.
LEMMA DisconnectedWrites ==
    ASSUME StreamsAssumption, TypeOK, NEW c \in Conns,
           Disconnected(c), conn[c].at \in {"head", "send"}
    PROVE  /\ c \in Sse
           /\ conn[c].gone
           /\ ReleaseOnce(c)
           /\ UNCHANGED bus
           /\ Moves(c)
           /\ AfterDisconnect(conn[c], conn'[c])
<1> DEFINE q == conn[c]
           r == [q EXCEPT
                   !.at = IF q.at = "head" THEN "closed" ELSE "orphan",
                   !.cause = "cut", !.released = TRUE,
                   !.reason = "client_disconnect"]
<1>1. /\ c \in Sse
      /\ conn[c].gone
      /\ ReleaseOnce(c)
      /\ UNCHANGED bus
      /\ conn' = [conn EXCEPT ![c] = r]
  BY Zenon DEF Disconnected, TailDone
<1>2. q \in States /\ Typed(q)
  BY DEF TypeOK, States, Typed
<1> HIDE DEF q
<1>4. r = [f \in Fields |-> r[f]]
  BY <1>2 DEF Fields, States
<1>5. AfterDisconnect(q, r)
  BY <1>2 DEF AfterDisconnect, Only, States
<1> HIDE DEF r
<1>6. Typed(r)
  BY <1>2, <1>5 DEF Typed, AfterDisconnect, Only, Places, Codes, Reasons
<1> QED BY <1>1, <1>4, <1>5, <1>6, Put DEF q

\* What a write that fails makes of the record q of a connection.
AfterFailure(q, r, reason) ==
    /\ Only(q, r, {"at", "cause", "reason"})
    /\ r.at = IF q.at = "send" THEN "orphan" ELSE "closed"
    /\ r.cause = IF q.at = "send" THEN "cut" ELSE q.cause
    /\ r.reason = reason

\* WriteFails does so, and changes no other record.
LEMMA WriteFailsWrites ==
    ASSUME StreamsAssumption, TypeOK, NEW c \in Conns,
           WriteFails(c)
    PROVE  \E reason \in {"error", "client_disconnect"} :
              /\ c \in Sse
              /\ conn[c].gone
              /\ conn[c].at = "head" => HeadWriteFails
              /\ conn[c].at \in {"head", "send", "tail"}
              /\ conn[c].at = "tail" => reason = "error"
              /\ UNCHANGED <<active, bus>>
              /\ Moves(c)
              /\ AfterFailure(conn[c], conn'[c], reason)
<1> DEFINE q == conn[c]
           r(reason) == [q EXCEPT
                   !.at = IF q.at = "send" THEN "orphan" ELSE "closed",
                   !.cause = IF q.at = "send" THEN "cut" ELSE q.cause,
                   !.reason = reason]
<1>1. PICK reason \in {"error", "client_disconnect"} :
         /\ c \in Sse
         /\ conn[c].gone
         /\ conn[c].at = "head" => HeadWriteFails
         /\ conn[c].at \in {"head", "send", "tail"}
         /\ conn[c].at = "tail" => reason = "error"
         /\ UNCHANGED <<active, bus>>
         /\ conn' = [conn EXCEPT ![c] = r(reason)]
  BY Zenon DEF WriteFails
<1>2. q \in States /\ Typed(q)
  BY DEF TypeOK, States, Typed
<1> HIDE DEF q
<1>4. r(reason) = [f \in Fields |-> r(reason)[f]]
  BY <1>2 DEF Fields, States
<1>5. AfterFailure(q, r(reason), reason)
  BY <1>2 DEF AfterFailure, Only, States
<1> HIDE DEF r
<1>6. Typed(r(reason))
  BY <1>2, <1>5 DEF Typed, AfterFailure, Only, Places, Codes, Reasons
<1> QED BY <1>1, <1>4, <1>5, <1>6, Put DEF q

\* What a refusal makes of the record q of a connection.
AfterRefusal(q, r, code) ==
    /\ Only(q, r, {"at", "reason"})
    /\ r.at = "closed" /\ r.reason = code

\* SocketRefused does so, and changes no other record.
LEMMA SocketRefusedWrites ==
    ASSUME StreamsAssumption, TypeOK, NEW c \in Conns,
           SocketRefused(c)
    PROVE  \E code \in {"rejected", "server_busy"} :
              /\ c \in Ws
              /\ conn[c].at = "new"
              /\ UNCHANGED <<active, bus>>
              /\ Moves(c)
              /\ AfterRefusal(conn[c], conn'[c], code)
<1> DEFINE q == conn[c]
           r(code) == [q EXCEPT
                   !.at = "closed", !.reason = code]
<1>1. PICK code \in {"rejected", "server_busy"} :
         /\ c \in Ws
         /\ conn[c].at = "new"
         /\ UNCHANGED <<active, bus>>
         /\ conn' = [conn EXCEPT ![c] = r(code)]
  BY Zenon DEF SocketRefused
<1>2. q \in States /\ Typed(q)
  BY DEF TypeOK, States, Typed
<1> HIDE DEF q
<1>4. r(code) = [f \in Fields |-> r(code)[f]]
  BY <1>2 DEF Fields, States
<1>5. AfterRefusal(q, r(code), code)
  BY <1>2 DEF AfterRefusal, Only, States
<1> HIDE DEF r
<1>6. Typed(r(code))
  BY <1>2, <1>5 DEF Typed, AfterRefusal, Only, Places, Codes, Reasons
<1> QED BY <1>1, <1>4, <1>5, <1>6, Put DEF q

\* What a socket that is accepted makes of the record q of a connection.
AfterAccept(q, r) ==
    /\ Only(q, r, {"at", "pending", "clock", "sender", "receiver", "handler"})
    /\ r.at = "wait" /\ r.pending = "running" /\ r.clock = "early"
    /\ r.sender = "running" /\ r.receiver = "receive" /\ r.handler = "waiting"

\* StreamWs does so, and changes no other record.
LEMMA StreamWsWrites ==
    ASSUME StreamsAssumption, TypeOK, NEW c \in Conns,
           StreamWs(c)
    PROVE  /\ c \in Ws
           /\ conn[c].at = "new"
           /\ TryAcquire
           /\ UNCHANGED bus
           /\ Moves(c)
           /\ AfterAccept(conn[c], conn'[c])
<1> DEFINE q == conn[c]
           r == [q EXCEPT
                   !.at = "wait", !.pending = "running", !.clock = "early",
                   !.sender = "running", !.receiver = "receive",
                   !.handler = "waiting"]
<1>1. /\ c \in Ws
      /\ conn[c].at = "new"
      /\ TryAcquire
      /\ UNCHANGED bus
      /\ conn' = [conn EXCEPT ![c] = r]
  BY Zenon DEF StreamWs
<1>2. q \in States /\ Typed(q)
  BY DEF TypeOK, States, Typed
<1> HIDE DEF q
<1>4. r = [f \in Fields |-> r[f]]
  BY <1>2 DEF Fields, States
<1>5. AfterAccept(q, r)
  BY <1>2 DEF AfterAccept, Only, States
<1> HIDE DEF r
<1>6. Typed(r)
  BY <1>2, <1>5 DEF Typed, AfterAccept, Only, Places
<1> QED BY <1>1, <1>4, <1>5, <1>6, Put DEF q

\* What a sender that is cut at a frame makes of the record q of a connection.
AfterCut(q, r) ==
    /\ Only(q, r, {"at", "cause", "sender"})
    /\ r.at = "orphan" /\ r.cause = "cut" /\ r.sender = "cut"

\* SenderFails does so, and changes no other record.
LEMMA SenderFailsWrites ==
    ASSUME StreamsAssumption, TypeOK, NEW c \in Conns,
           SenderFails(c)
    PROVE  /\ c \in Ws
           /\ conn[c].at = "send"
           /\ conn[c].gone
           /\ Undisturbed(c)
           /\ UNCHANGED <<active, bus>>
           /\ Moves(c)
           /\ AfterCut(conn[c], conn'[c])
<1> DEFINE q == conn[c]
           r == [q EXCEPT
                   !.at = "orphan", !.cause = "cut", !.sender = "cut"]
<1>1. /\ c \in Ws
      /\ conn[c].at = "send"
      /\ conn[c].gone
      /\ Undisturbed(c)
      /\ UNCHANGED <<active, bus>>
      /\ conn' = [conn EXCEPT ![c] = r]
  BY Zenon DEF SenderFails
<1>2. q \in States /\ Typed(q)
  BY DEF TypeOK, States, Typed
<1> HIDE DEF q
<1>4. r = [f \in Fields |-> r[f]]
  BY <1>2 DEF Fields, States
<1>5. AfterCut(q, r)
  BY <1>2 DEF AfterCut, Only, States
<1> HIDE DEF r
<1>6. Typed(r)
  BY <1>2, <1>5 DEF Typed, AfterCut, Only, Places
<1> QED BY <1>1, <1>4, <1>5, <1>6, Put DEF q

\* SenderCancelled does so, and changes no other record.
LEMMA SenderCancelledWrites ==
    ASSUME StreamsAssumption, TypeOK, NEW c \in Conns,
           SenderCancelled(c), conn[c].at \in {"lock", "send"}
    PROVE  /\ conn[c].handler = "stopping"
           /\ conn[c].sender = "running"
           /\ UNCHANGED <<active, bus>>
           /\ Moves(c)
           /\ AfterCut(conn[c], conn'[c])
<1> DEFINE q == conn[c]
           r == [q EXCEPT
                   !.at = "orphan", !.cause = "cut", !.sender = "cut"]
<1>1. /\ conn[c].handler = "stopping"
      /\ conn[c].sender = "running"
      /\ UNCHANGED <<active, bus>>
      /\ conn' = [conn EXCEPT ![c] = r]
  BY Zenon DEF SenderCancelled
<1>2. q \in States /\ Typed(q)
  BY DEF TypeOK, States, Typed
<1> HIDE DEF q
<1>4. r = [f \in Fields |-> r[f]]
  BY <1>2 DEF Fields, States
<1>5. AfterCut(q, r)
  BY <1>2 DEF AfterCut, Only, States
<1> HIDE DEF r
<1>6. Typed(r)
  BY <1>2, <1>5 DEF Typed, AfterCut, Only, Places
<1> QED BY <1>1, <1>4, <1>5, <1>6, Put DEF q

\* What the first task that ends makes of the record q of a connection.
AfterFirst(q, r, code) ==
    /\ Only(q, r, {"handler", "close"})
    /\ r.handler = "stopping" /\ r.close = code

\* FirstDone does so, and changes no other record.
LEMMA FirstDoneWrites ==
    ASSUME StreamsAssumption, TypeOK, NEW c \in Conns,
           FirstDone(c)
    PROVE  /\ conn[c].handler = "waiting"
           /\ conn[c].sender # "running" \/ ~ ReceiverRuns(c)
           /\ UNCHANGED <<active, bus>>
           /\ Moves(c)
           /\ AfterFirst(conn[c], conn'[c], CloseCode(c))
<1> DEFINE q == conn[c]
           r == [q EXCEPT
                   !.handler = "stopping", !.close = CloseCode(c)]
<1>1. /\ conn[c].handler = "waiting"
      /\ conn[c].sender # "running" \/ ~ ReceiverRuns(c)
      /\ UNCHANGED <<active, bus>>
      /\ conn' = [conn EXCEPT ![c] = r]
  BY Zenon DEF FirstDone
<1>2. q \in States /\ Typed(q)
  BY DEF TypeOK, States, Typed
<1>3. CloseCode(c) \in Codes \cup {"none"}
  BY DEF CloseCode
<1> HIDE DEF q
<1>4. r = [f \in Fields |-> r[f]]
  BY <1>2 DEF Fields, States
<1>5. AfterFirst(q, r, CloseCode(c))
  BY <1>2 DEF AfterFirst, Only, States
<1> HIDE DEF r
<1>6. Typed(r)
  BY <1>3, <1>2, <1>5 DEF Typed, AfterFirst, Only, Codes, Reasons
<1> QED BY <1>1, <1>4, <1>5, <1>6, Put DEF q

\* What the end of a handler makes of the record q of a connection.
AfterEnd(q, r, reason) ==
    /\ Only(q, r, {"handler", "reason"})
    /\ r.handler = "ended" /\ r.reason = reason

\* BothDone does so, and changes no other record.
LEMMA BothDoneWrites ==
    ASSUME StreamsAssumption, TypeOK, NEW c \in Conns,
           BothDone(c), conn[c].close = "none"
    PROVE  /\ conn[c].handler = "stopping"
           /\ conn[c].sender # "running"
           /\ ~ ReceiverRuns(c)
           /\ Release
           /\ UNCHANGED bus
           /\ Moves(c)
           /\ AfterEnd(conn[c], conn'[c], "client_disconnect")
<1> DEFINE q == conn[c]
           r == [q EXCEPT
                   !.handler = "ended", !.reason = "client_disconnect"]
<1>1. /\ conn[c].handler = "stopping"
      /\ conn[c].sender # "running"
      /\ ~ ReceiverRuns(c)
      /\ Release
      /\ UNCHANGED bus
      /\ conn' = [conn EXCEPT ![c] = r]
  BY Zenon DEF BothDone
<1>2. q \in States /\ Typed(q)
  BY DEF TypeOK, States, Typed
<1> HIDE DEF q
<1>4. r = [f \in Fields |-> r[f]]
  BY <1>2 DEF Fields, States
<1>5. AfterEnd(q, r, "client_disconnect")
  BY <1>2 DEF AfterEnd, Only, States
<1> HIDE DEF r
<1>6. Typed(r)
  BY <1>2, <1>5 DEF Typed, AfterEnd, Only, Codes, Reasons
<1> QED BY <1>1, <1>4, <1>5, <1>6, Put DEF q

\* SocketClosed does so, and changes no other record.
LEMMA SocketClosedWrites ==
    ASSUME StreamsAssumption, TypeOK, NEW c \in Conns,
           SocketClosed(c)
    PROVE  \E reason \in {conn[c].close, "error"} :
              /\ conn[c].handler = "closing"
              /\ reason = "error" => conn[c].gone
              /\ Release
              /\ UNCHANGED bus
              /\ Moves(c)
              /\ AfterEnd(conn[c], conn'[c], reason)
<1> DEFINE q == conn[c]
           r(reason) == [q EXCEPT
                   !.handler = "ended", !.reason = reason]
<1>1. PICK reason \in {conn[c].close, "error"} :
         /\ conn[c].handler = "closing"
         /\ reason = "error" => conn[c].gone
         /\ Release
         /\ UNCHANGED bus
         /\ conn' = [conn EXCEPT ![c] = r(reason)]
  BY Zenon DEF SocketClosed
<1>2. q \in States /\ Typed(q)
  BY DEF TypeOK, States, Typed
<1>3. reason \in Reasons
  BY <1>2 DEF Typed, Codes, Reasons
<1> HIDE DEF q
<1>4. r(reason) = [f \in Fields |-> r(reason)[f]]
  BY <1>2 DEF Fields, States
<1>5. AfterEnd(q, r(reason), reason)
  BY <1>2 DEF AfterEnd, Only, States
<1> HIDE DEF r
<1>6. Typed(r(reason))
  BY <1>3, <1>2, <1>5 DEF Typed, AfterEnd, Only, Codes, Reasons
<1> QED BY <1>1, <1>4, <1>5, <1>6, Put DEF q
\* Such a step keeps the type of the connections.
LEMMA MovesType ==
    ASSUME TypeOK, NEW c \in Conns, Moves(c)
    PROVE  conn' \in [Conns -> States]
<1>1. conn'[c] \in States
  BY DEF Moves, Fields, Typed, States
<1>2. ASSUME NEW d \in Conns PROVE conn'[d] \in States
  BY <1>1 DEF Moves, Alone, TypeOK
<1> QED BY <1>2 DEF Moves

\* Where a head cannot be written, a stream may end and keep its slot.
SlotLost(c) == HeadWriteFails /\ ~ Occupies(c)' /\ active' = active

\* The places of the records are kept if that of the only record that
\* changes is.
SsePlace(r) ==
    /\ r.handler = "off" /\ r.at # "lock"
    /\ r.at \in {"new", "head", "send", "wait", "closing"} => ~ r.released
    /\ r.at = "tail" => r.released

WsPlace(r) == r.at \notin {"head", "tail"} /\ (r.at = "new" => r.handler = "off")

LEMMA PlacesKept ==
    ASSUME SlotInv, NEW c \in Conns, Alone(c),
           c \in Sse => SsePlace(conn'[c]), c \in Ws => WsPlace(conn'[c])
    PROVE  SlotInv'
<1>1. ASSUME NEW d \in Sse
      PROVE  SsePlace(conn'[d])
  <2>1. CASE d = c
    BY <2>1
  <2>2. CASE d # c
    <3>1. conn'[d] = conn[d]
      BY <2>2 DEF Alone, Conns
    <3> QED BY <3>1 DEF SlotInv, SsePlace
  <2> QED BY <2>1, <2>2
<1>2. ASSUME NEW d \in Ws
      PROVE  WsPlace(conn'[d])
  <2>1. CASE d = c
    BY <2>1
  <2>2. CASE d # c
    <3>1. conn'[d] = conn[d]
      BY <2>2 DEF Alone, Conns
    <3> QED BY <3>1 DEF SlotInv, WsPlace
  <2> QED BY <2>1, <2>2
<1> QED BY <1>1, <1>2 DEF SlotInv, SsePlace, WsPlace

\* What every step of a connection preserves or does.
Good(c) ==
    /\ Moves(c)
    /\ published' \subseteq Ids \X {Topic}
    /\ open' \subseteq Conns
    /\ SlotInv'
    /\ SlotStep(c) \/ SlotLost(c)

\* Closing the source ends the body, which gives the slot back, or the sender,
\* whose handler keeps it.
LEMMA SourceClosedStep ==
    ASSUME StreamsAssumption, TypeOK, SlotInv, NEW c \in Conns,
           conn[c].at \in {"wait", "send", "closing"},
           NEW why \in {"none", "deadline", "bus", "cut"}, SourceClosed(c, why)
    PROVE  Good(c)
<1> USE DEF StreamsAssumption, TypeOK, States, Places, Codes, Reasons, Undisturbed, Waiting, bus
<1>1. published' \subseteq Ids \X {Topic} /\ open' \subseteq Conns
  BY DEF SourceClosed, Bus!End
<1>2. CASE c \in Sse /\ EndBody(c, why)
  <2>1. ReleaseOnce(c) /\ Moves(c) /\ AfterBody(conn[c], conn'[c], why)
    BY <1>2, EndBodyWrites DEF Causes
  <2>2. c \notin Ws /\ ~ conn[c].released
    BY <1>2 DEF SlotInv
  <2>3. SlotInv'
    <3>1. SsePlace(conn'[c])
      BY <1>2, <2>1 DEF AfterBody, Only, SlotInv, SsePlace
    <3> QED BY <2>1, <2>2, <3>1, PlacesKept DEF Moves
  <2>4. SlotStep(c)
    BY <1>2, <2>1, <2>2 DEF AfterBody, Only, SlotStep, Occupies, ReleaseOnce
  <2> QED BY <1>1, <2>1, <2>3, <2>4 DEF Good
<1>3. CASE c \in Ws /\ EndSender(c, why)
  <2>1. active' = active /\ Moves(c) /\ AfterSender(conn[c], conn'[c], why)
    BY <1>3, EndSenderWrites DEF Causes
  <2>2. c \notin Sse
    BY <1>3
  <2>3. SlotInv'
    <3>1. WsPlace(conn'[c])
      BY <2>1 DEF AfterSender, WsPlace
    <3> QED BY <2>1, <2>2, <3>1, PlacesKept DEF Moves
  <2>4. SlotStep(c)
    BY <2>1, <2>2 DEF AfterSender, Only, SlotStep, Occupies
  <2> QED BY <1>1, <2>1, <2>3, <2>4 DEF Good
<1> QED BY <1>2, <1>3 DEF SourceClosed

\* The finally of with_heartbeat(), at once or after an await.
LEMMA FinallyStep ==
    ASSUME StreamsAssumption, TypeOK, SlotInv, NEW c \in Conns,
           conn[c].at \in {"wait", "send"},
           NEW why \in {"deadline", "bus", "cut"}, Finally(c, why)
    PROVE  Good(c)
<1> USE DEF StreamsAssumption, TypeOK, States, Places, Codes, Reasons, Undisturbed, Waiting, bus
<1>1. CASE conn[c].pending = "running"
  <2>1. UNCHANGED <<active, bus>> /\ Moves(c) /\ AfterCancel(conn[c], conn'[c], why)
    BY <1>1, FinallyWrites DEF Causes
  <2>2. SlotInv'
    <3>1. c \in Sse => SsePlace(conn'[c])
      BY <2>1 DEF AfterCancel, Only, SlotInv, SsePlace
    <3>2. c \in Ws => WsPlace(conn'[c])
      BY <2>1 DEF AfterCancel, WsPlace
    <3> QED BY <2>1, <3>1, <3>2, PlacesKept DEF Moves
  <2>3. SlotStep(c)
    BY <2>1 DEF AfterCancel, Only, SlotStep, Occupies
  <2> QED BY <2>1, <2>2, <2>3 DEF Good
<1>2. CASE conn[c].pending # "running"
  BY <1>2, SourceClosedStep DEF Finally
<1> QED BY <1>1, <1>2

\* The fields that tell who holds a slot are the same, or change within the
\* places and states in which it is held.
Quiet(c) ==
    /\ \/ conn'[c].at = conn[c].at
       \/ /\ conn[c].at \in {"wait", "send", "head", "lock"}
          /\ conn'[c].at \in {"wait", "send"}
       \/ /\ c \in Ws
          /\ conn[c].at # "new"
          /\ conn'[c].at \in {"lock", "orphan", "closing", "shutting", "closed"}
    /\ conn'[c].released = conn[c].released
    /\ \/ conn'[c].handler = conn[c].handler
       \/ /\ conn[c].handler \in {"waiting", "stopping"}
          /\ conn'[c].handler \in {"stopping", "closing"}
    /\ active' = active

\* Such a step does not concern the limiter.
LEMMA QuietStep ==
    ASSUME StreamsAssumption, TypeOK, SlotInv, NEW c \in Conns, Moves(c), Quiet(c),
           published' \subseteq Ids \X {Topic}, open' \subseteq Conns
    PROVE  Good(c)
<1> USE DEF Moves, Alone, Quiet, StreamsAssumption
<1>1. SlotInv'
  BY DEF SlotInv, Conns
<1>2. SlotStep(c)
  <2>1. CASE c \in Sse
    BY <2>1 DEF SlotStep, Occupies, SlotInv
  <2>2. CASE c \in Ws
    <3>1. c \notin Sse
      BY <2>2
    <3>2. /\ Occupies(c) <=> conn[c].handler \in {"waiting", "stopping", "closing"}
          /\ Occupies(c)' <=> conn'[c].handler \in {"waiting", "stopping", "closing"}
      BY <3>1 DEF Occupies
    <3>3. Occupies(c)' = Occupies(c)
      BY <3>1, <3>2 DEF Occupies
    <3> QED BY <3>3 DEF SlotStep
  <2> QED BY <2>1, <2>2 DEF Conns
<1> QED BY <1>1, <1>2 DEF Good

\* The steps of a connection that leave the limiter alone.
LEMMA QuietSteps ==
    ASSUME StreamsAssumption, TypeOK, SlotInv, NEW c \in Conns
    PROVE  /\ Subscribe(c) => Good(c)
           /\ NextItem(c) => Good(c)
           /\ SourceEnds(c) => Good(c)
           /\ Tick(c) => Good(c)
           /\ TakeItem(c) => Good(c)
           /\ Heartbeat(c) => Good(c)
           /\ HeadDone(c) => Good(c)
           /\ SenderLocks(c) => Good(c)
           /\ SenderFails(c) => Good(c)
           /\ ReceiverCancelled(c) => Good(c)
           /\ FirstDone(c) => Good(c)
           /\ Leave(c) => Good(c)
<1> USE DEF StreamsAssumption, TypeOK, States, Places, Codes, Reasons, Undisturbed, Waiting, bus
<1>1. ASSUME Subscribe(c) PROVE Good(c)
  <2>1. Moves(c)
    <3>1. conn' = [d \in Conns |-> conn'[d]] /\ Alone(c)
      BY <1>1 DEF Subscribe, Bus!Open, Alone
    <3>2. conn'[c] = [f \in Fields |-> conn'[c][f]]
      BY <1>1 DEF Subscribe, Bus!Open, Fields
    <3>3. Typed(conn'[c])
      BY <1>1 DEF Subscribe, Bus!Open, Typed
    <3> QED BY <3>1, <3>2, <3>3 DEF Moves
  <2>2. Quiet(c)
    BY <1>1 DEF Subscribe, Bus!Open, Quiet, SlotInv, Conns
  <2>3. published' \subseteq Ids \X {Topic} /\ open' \subseteq Conns
    BY <1>1 DEF Subscribe, Bus!Open
  <2> QED BY <2>1, <2>2, <2>3, QuietStep
<1>2. ASSUME NextItem(c) PROVE Good(c)
  <2>1. PICK e \in published :
          /\ Bus!Deliver(c, e) /\ active' = active
          /\ Moves(c) /\ AfterNextItem(conn[c], conn'[c], e[1])
    BY <1>2, NextItemWrites
  <2>2. Quiet(c)
    BY <2>1 DEF AfterNextItem, Only, Quiet
  <2>3. published' \subseteq Ids \X {Topic} /\ open' \subseteq Conns
    BY <2>1 DEF Bus!Deliver
  <2> QED BY <2>1, <2>2, <2>3, QuietStep
<1>3. ASSUME SourceEnds(c) PROVE Good(c)
  <2>1. Moves(c)
    <3>1. conn' = [d \in Conns |-> conn'[d]] /\ Alone(c)
      BY <1>3 DEF SourceEnds, Bus!End, Alone
    <3>2. conn'[c] = [f \in Fields |-> conn'[c][f]]
      BY <1>3 DEF SourceEnds, Bus!End, Fields
    <3>3. Typed(conn'[c])
      BY <1>3 DEF SourceEnds, Bus!End, Typed
    <3> QED BY <3>1, <3>2, <3>3 DEF Moves
  <2>2. Quiet(c)
    BY <1>3 DEF SourceEnds, Bus!End, Quiet, SlotInv, Conns
  <2>3. published' \subseteq Ids \X {Topic} /\ open' \subseteq Conns
    BY <1>3 DEF SourceEnds, Bus!End
  <2> QED BY <2>1, <2>2, <2>3, QuietStep
<1>4. ASSUME Tick(c) PROVE Good(c)
  <2>1. Moves(c)
    <3>1. conn' = [d \in Conns |-> conn'[d]] /\ Alone(c)
      BY <1>4 DEF Tick, Alone
    <3>2. conn'[c] = [f \in Fields |-> conn'[c][f]]
      BY <1>4 DEF Tick, Fields
    <3>3. Typed(conn'[c])
      BY <1>4 DEF Tick, Typed
    <3> QED BY <3>1, <3>2, <3>3 DEF Moves
  <2>2. Quiet(c)
    BY <1>4 DEF Tick, Quiet, SlotInv, Conns
  <2>3. published' \subseteq Ids \X {Topic} /\ open' \subseteq Conns
    BY <1>4 DEF Tick
  <2> QED BY <2>1, <2>2, <2>3, QuietStep
<1>5. ASSUME TakeItem(c) PROVE Good(c)
  <2>1. /\ Waiting(c, "item") /\ UNCHANGED <<active, bus>>
        /\ Moves(c) /\ AfterTake(conn[c], conn'[c], ToFrame(c))
    BY <1>5, TakeItemWrites
  <2>2. Quiet(c)
    BY <2>1 DEF AfterTake, Only, ToFrame, Quiet, Conns
  <2>3. published' \subseteq Ids \X {Topic} /\ open' \subseteq Conns
    BY <2>1
  <2> QED BY <2>1, <2>2, <2>3, QuietStep
<1>6. ASSUME Heartbeat(c) PROVE Good(c)
  <2>1. Moves(c)
    <3>1. conn' = [d \in Conns |-> conn'[d]] /\ Alone(c)
      BY <1>6 DEF Heartbeat, ToFrame, Alone
    <3>2. conn'[c] = [f \in Fields |-> conn'[c][f]]
      BY <1>6 DEF Heartbeat, ToFrame, Fields
    <3>3. Typed(conn'[c])
      BY <1>6 DEF Heartbeat, ToFrame, Typed
    <3> QED BY <3>1, <3>2, <3>3 DEF Moves
  <2>2. Quiet(c)
    BY <1>6 DEF Heartbeat, ToFrame, Quiet, SlotInv, Conns
  <2>3. published' \subseteq Ids \X {Topic} /\ open' \subseteq Conns
    BY <1>6 DEF Heartbeat, ToFrame
  <2> QED BY <2>1, <2>2, <2>3, QuietStep
<1>7. ASSUME HeadDone(c) PROVE Good(c)
  <2>1. Moves(c)
    <3>1. conn' = [d \in Conns |-> conn'[d]] /\ Alone(c)
      BY <1>7 DEF HeadDone, Alone
    <3>2. conn'[c] = [f \in Fields |-> conn'[c][f]]
      BY <1>7 DEF HeadDone, Fields
    <3>3. Typed(conn'[c])
      BY <1>7 DEF HeadDone, Typed
    <3> QED BY <3>1, <3>2, <3>3 DEF Moves
  <2>2. Quiet(c)
    BY <1>7 DEF HeadDone, Quiet, SlotInv, Conns
  <2>3. published' \subseteq Ids \X {Topic} /\ open' \subseteq Conns
    BY <1>7 DEF HeadDone
  <2> QED BY <2>1, <2>2, <2>3, QuietStep
<1>8. ASSUME SenderLocks(c) PROVE Good(c)
  <2>1. Moves(c)
    <3>1. conn' = [d \in Conns |-> conn'[d]] /\ Alone(c)
      BY <1>8 DEF SenderLocks, SenderBarges, Alone
    <3>2. conn'[c] = [f \in Fields |-> conn'[c][f]]
      BY <1>8 DEF SenderLocks, SenderBarges, Fields
    <3>3. Typed(conn'[c])
      BY <1>8 DEF SenderLocks, SenderBarges, Typed
    <3> QED BY <3>1, <3>2, <3>3 DEF Moves
  <2>2. Quiet(c)
    BY <1>8 DEF SenderLocks, SenderBarges, Quiet, SlotInv, Conns
  <2>3. published' \subseteq Ids \X {Topic} /\ open' \subseteq Conns
    BY <1>8 DEF SenderLocks, SenderBarges
  <2> QED BY <2>1, <2>2, <2>3, QuietStep
<1>9. ASSUME SenderFails(c) PROVE Good(c)
  <2>1. /\ c \in Ws /\ conn[c].at = "send" /\ UNCHANGED <<active, bus>>
        /\ Moves(c) /\ AfterCut(conn[c], conn'[c])
    BY <1>9, SenderFailsWrites
  <2>2. Quiet(c)
    BY <2>1 DEF AfterCut, Only, Quiet
  <2>3. published' \subseteq Ids \X {Topic} /\ open' \subseteq Conns
    BY <2>1
  <2> QED BY <2>1, <2>2, <2>3, QuietStep
<1>10. ASSUME ReceiverCancelled(c) PROVE Good(c)
  <2>1. Moves(c)
    <3>1. conn' = [d \in Conns |-> conn'[d]] /\ Alone(c)
      BY <1>10 DEF ReceiverCancelled, Alone
    <3>2. conn'[c] = [f \in Fields |-> conn'[c][f]]
      BY <1>10 DEF ReceiverCancelled, Fields
    <3>3. Typed(conn'[c])
      BY <1>10 DEF ReceiverCancelled, Typed
    <3> QED BY <3>1, <3>2, <3>3 DEF Moves
  <2>2. Quiet(c)
    BY <1>10 DEF ReceiverCancelled, Quiet, SlotInv, Conns
  <2>3. published' \subseteq Ids \X {Topic} /\ open' \subseteq Conns
    BY <1>10 DEF ReceiverCancelled
  <2> QED BY <2>1, <2>2, <2>3, QuietStep
<1>11. ASSUME FirstDone(c) PROVE Good(c)
  <2>1. /\ conn[c].handler = "waiting" /\ UNCHANGED <<active, bus>>
        /\ Moves(c) /\ AfterFirst(conn[c], conn'[c], CloseCode(c))
    BY <1>11, FirstDoneWrites
  <2>2. Quiet(c)
    BY <2>1 DEF AfterFirst, Only, Quiet
  <2>3. published' \subseteq Ids \X {Topic} /\ open' \subseteq Conns
    BY <2>1
  <2> QED BY <2>1, <2>2, <2>3, QuietStep
<1>12. ASSUME Leave(c) PROVE Good(c)
  <2>1. Moves(c)
    <3>1. conn' = [d \in Conns |-> conn'[d]] /\ Alone(c)
      BY <1>12 DEF Leave, Alone
    <3>2. conn'[c] = [f \in Fields |-> conn'[c][f]]
      BY <1>12 DEF Leave, Fields
    <3>3. Typed(conn'[c])
      BY <1>12 DEF Leave, Typed
    <3> QED BY <3>1, <3>2, <3>3 DEF Moves
  <2>2. Quiet(c)
    BY <1>12 DEF Leave, Quiet, SlotInv, Conns
  <2>3. published' \subseteq Ids \X {Topic} /\ open' \subseteq Conns
    BY <1>12 DEF Leave
  <2> QED BY <2>1, <2>2, <2>3, QuietStep
<1> QED BY <1>1, <1>2, <1>3, <1>4, <1>5, <1>6, <1>7, <1>8, <1>9, <1>10, <1>11, <1>12

\* The steps of with_heartbeat()'s loop.
LEMMA LoopSteps ==
    ASSUME StreamsAssumption, TypeOK, SlotInv, NEW c \in Conns
    PROVE  /\ SendDone(c) => Good(c)
           /\ SkipItem(c) => Good(c)
           /\ TakeEnd(c) => Good(c)
           /\ TimeOut(c) => Good(c)
           /\ FinishClosing(c) => Good(c)
<1> USE DEF StreamsAssumption, TypeOK, States, Places, Codes, Reasons, Undisturbed, Waiting, bus
<1>1. ASSUME SendDone(c) PROVE Good(c)
  <2>1. CASE DeadlinePassed(c)
    BY <1>1, <2>1, FinallyStep DEF SendDone, LoopTop
  <2>2. CASE ~ DeadlinePassed(c)
    <3>1. /\ conn[c].at = "send" /\ UNCHANGED <<active, bus>>
          /\ Moves(c) /\ AfterTop(conn[c], conn'[c])
      BY <1>1, <2>2, SendDoneWrites
    <3>2. Quiet(c)
      BY <3>1 DEF AfterTop, Only, Quiet
    <3>3. published' \subseteq Ids \X {Topic} /\ open' \subseteq Conns
      BY <3>1
    <3> QED BY <3>1, <3>2, <3>3, QuietStep
  <2> QED BY <2>1, <2>2
<1>2. ASSUME SkipItem(c) PROVE Good(c)
  <2>1. CASE DeadlinePassed(c)
    BY <1>2, <2>1, SourceClosedStep DEF SkipItem
  <2>2. CASE ~ DeadlinePassed(c)
    <3>1. /\ UNCHANGED <<active, bus>>
          /\ Moves(c) /\ AfterSkip(conn[c], conn'[c])
      BY <1>2, <2>2, SkipItemWrites
    <3>2. Quiet(c)
      BY <3>1 DEF AfterSkip, Only, Quiet
    <3>3. published' \subseteq Ids \X {Topic} /\ open' \subseteq Conns
      BY <3>1
    <3> QED BY <3>1, <3>2, <3>3, QuietStep
  <2> QED BY <2>1, <2>2
<1>3. ASSUME TakeEnd(c) PROVE Good(c)
  BY <1>3, FinallyStep DEF TakeEnd
<1>4. ASSUME TimeOut(c) PROVE Good(c)
  BY <1>4, FinallyStep DEF TimeOut
<1>5. ASSUME FinishClosing(c) PROVE Good(c)
  <2>1. conn[c].cause \in {"none", "deadline", "bus", "cut"}
    OBVIOUS
  <2> QED BY <1>5, <2>1, SourceClosedStep DEF FinishClosing
<1> QED BY <1>1, <1>2, <1>3, <1>4, <1>5

\* An SSE stream takes its slot with its request and gives it back with its
\* body, its generator or its background task, whichever is first.
LEMMA SseSteps ==
    ASSUME StreamsAssumption, TypeOK, SlotInv, NEW c \in Conns
    PROVE  /\ StreamEvents(c) => Good(c)
           /\ StreamRefused(c) => Good(c)
           /\ TailDone(c) => Good(c)
           /\ WriteFails(c) => Good(c)
           /\ Disconnected(c) => Good(c)
<1> USE DEF StreamsAssumption, TypeOK, States, Places, Codes, Reasons, Undisturbed, Waiting, bus
<1>1. ASSUME StreamEvents(c) PROVE Good(c)
  <2>1. Moves(c)
    <3>1. conn' = [d \in Conns |-> conn'[d]] /\ Alone(c)
      BY <1>1 DEF StreamEvents, TryAcquire, Alone
    <3>2. conn'[c] = [f \in Fields |-> conn'[c][f]]
      BY <1>1 DEF StreamEvents, TryAcquire, Fields
    <3>3. Typed(conn'[c])
      BY <1>1 DEF StreamEvents, TryAcquire, Typed
    <3> QED BY <3>1, <3>2, <3>3 DEF Moves
  <2>2. SlotInv'
    BY <1>1 DEF StreamEvents, TryAcquire, SlotInv, Conns
  <2>3. SlotStep(c)
    BY <1>1 DEF StreamEvents, TryAcquire, SlotStep, Occupies, SlotInv
  <2>4. published' \subseteq Ids \X {Topic} /\ open' \subseteq Conns
    BY <1>1 DEF StreamEvents, TryAcquire
  <2> QED BY <2>1, <2>2, <2>3, <2>4 DEF Good
<1>2. ASSUME StreamRefused(c) PROVE Good(c)
  <2>1. Moves(c)
    <3>1. conn' = [d \in Conns |-> conn'[d]] /\ Alone(c)
      BY <1>2 DEF StreamRefused, Alone
    <3>2. conn'[c] = [f \in Fields |-> conn'[c][f]]
      BY <1>2 DEF StreamRefused, Fields
    <3>3. Typed(conn'[c])
      BY <1>2 DEF StreamRefused, Typed
    <3> QED BY <3>1, <3>2, <3>3 DEF Moves
  <2>2. SlotInv'
    BY <1>2 DEF StreamRefused, SlotInv, Conns
  <2>3. SlotStep(c)
    BY <1>2 DEF StreamRefused, SlotStep, Occupies, SlotInv
  <2>4. published' \subseteq Ids \X {Topic} /\ open' \subseteq Conns
    BY <1>2 DEF StreamRefused
  <2> QED BY <2>1, <2>2, <2>3, <2>4 DEF Good
<1>3. ASSUME TailDone(c) PROVE Good(c)
  <2>1. /\ conn[c].at = "tail" /\ ReleaseOnce(c) /\ UNCHANGED bus
        /\ Moves(c) /\ AfterTail(conn[c], conn'[c])
    BY <1>3, TailDoneWrites
  <2>2. c \in Sse /\ c \notin Ws /\ conn[c].released
    BY <2>1 DEF SlotInv, Conns
  <2>3. SlotInv'
    <3>1. SsePlace(conn'[c])
      BY <2>1, <2>2 DEF AfterTail, Only, SlotInv, SsePlace
    <3> QED BY <2>1, <2>2, <3>1, PlacesKept DEF Moves
  <2>4. SlotStep(c)
    BY <2>1, <2>2 DEF AfterTail, ReleaseOnce, SlotStep, Occupies
  <2> QED BY <2>1, <2>3, <2>4 DEF Good
<1>4. ASSUME WriteFails(c) PROVE Good(c)
  <2>1. PICK reason \in {"error", "client_disconnect"} :
          /\ c \in Sse /\ (conn[c].at = "head" => HeadWriteFails)
          /\ conn[c].at \in {"head", "send", "tail"} /\ UNCHANGED <<active, bus>>
          /\ Moves(c) /\ AfterFailure(conn[c], conn'[c], reason)
    BY <1>4, WriteFailsWrites
  <2>2. SlotInv'
    <3>1. c \notin Ws
      BY <2>1
    <3>2. SsePlace(conn'[c])
      BY <2>1 DEF AfterFailure, Only, SlotInv, SsePlace
    <3> QED BY <2>1, <3>1, <3>2, PlacesKept DEF Moves
  <2>3. SlotStep(c) \/ SlotLost(c)
    <3>1. CASE conn[c].at = "head"
      BY <2>1, <3>1 DEF AfterFailure, SlotLost, Occupies
    <3>2. CASE conn[c].at = "send"
      <4>1. ~ conn[c].released
        BY <2>1, <3>2 DEF SlotInv
      <4> QED BY <2>1, <3>2, <4>1 DEF AfterFailure, Only, SlotStep, Occupies
    <3>3. CASE conn[c].at = "tail"
      BY <2>1, <3>3 DEF AfterFailure, SlotStep, Occupies
    <3> QED BY <2>1, <3>1, <3>2, <3>3
  <2> QED BY <2>1, <2>2, <2>3 DEF Good
<1>5. ASSUME Disconnected(c) PROVE Good(c)
  <2>1. CASE conn[c].at = "wait"
    BY <1>5, <2>1, FinallyStep DEF Disconnected, TailDone
  <2>2. CASE conn[c].at = "closing"
    <3>1. Moves(c)
      <4>1. conn' = [d \in Conns |-> conn'[d]] /\ Alone(c)
        BY <1>5, <2>2 DEF Disconnected, TailDone, Alone
      <4>2. conn'[c] = [f \in Fields |-> conn'[c][f]]
        BY <1>5, <2>2 DEF Disconnected, TailDone, Fields
      <4>3. Typed(conn'[c])
        BY <1>5, <2>2 DEF Disconnected, TailDone, Typed
      <4> QED BY <4>1, <4>2, <4>3 DEF Moves
    <3>2. Quiet(c)
      BY <1>5, <2>2 DEF Disconnected, TailDone, Quiet
    <3>3. published' \subseteq Ids \X {Topic} /\ open' \subseteq Conns
      BY <1>5, <2>2 DEF Disconnected, TailDone
    <3> QED BY <3>1, <3>2, <3>3, QuietStep
  <2>3. CASE conn[c].at = "tail"
    BY <1>5, <1>3, <2>3 DEF Disconnected
  <2>4. CASE conn[c].at \in {"head", "send"}
    <3>1. /\ c \in Sse /\ c \notin Ws /\ ReleaseOnce(c) /\ UNCHANGED bus
          /\ Moves(c) /\ AfterDisconnect(conn[c], conn'[c])
      BY <1>5, <2>4, DisconnectedWrites
    <3>2. SlotInv'
      <4>1. SsePlace(conn'[c])
        BY <3>1 DEF AfterDisconnect, Only, SlotInv, SsePlace
      <4> QED BY <3>1, <4>1, PlacesKept DEF Moves
    <3>3. SlotStep(c)
      <4>1. ~ conn[c].released
        BY <2>4, <3>1 DEF SlotInv
      <4> QED BY <2>4, <3>1, <4>1 DEF AfterDisconnect, SlotStep, Occupies, ReleaseOnce
    <3> QED BY <3>1, <3>2, <3>3 DEF Good
  <2> QED BY <1>5, <2>1, <2>2, <2>3, <2>4 DEF Disconnected, TailDone
<1> QED BY <1>1, <1>2, <1>3, <1>4, <1>5

\* A generator left behind still holds the slot of its SSE stream, unless the
\* background task has released it.
LEMMA CollectSteps ==
    ASSUME StreamsAssumption, TypeOK, SlotInv, NEW c \in Conns
    PROVE  /\ Collect(c) => Good(c)
           /\ FinishShutting(c) => Good(c)
<1> USE DEF StreamsAssumption, TypeOK, States, Places, Codes, Reasons, Undisturbed, Waiting, bus
<1>1. ASSUME Collect(c) PROVE Good(c)
  <2>1. /\ conn[c].at = "orphan"
        /\ IF c \in Sse THEN ReleaseOnce(c) ELSE UNCHANGED active
        /\ UNCHANGED bus \/ Bus!End({c})
        /\ Moves(c)
        /\ conn'[c].at \in {"shutting", "closed"} /\ conn'[c].handler = conn[c].handler
    BY <1>1, CollectAwaits, CollectCloses DEF AfterExit, AfterCollect, Only
  <2>2. SlotInv'
    <3>1. c \in Sse => SsePlace(conn'[c])
      BY <2>1 DEF SlotInv, SsePlace
    <3>2. c \in Ws => WsPlace(conn'[c])
      BY <2>1 DEF WsPlace
    <3> QED BY <2>1, <3>1, <3>2, PlacesKept DEF Moves
  <2>3. SlotStep(c)
    <3>1. CASE c \in Sse
      BY <2>1, <3>1 DEF SlotStep, Occupies, ReleaseOnce
    <3>2. CASE c \notin Sse
      BY <2>1, <3>2 DEF SlotStep, Occupies
    <3> QED BY <3>1, <3>2
  <2>4. published' \subseteq Ids \X {Topic} /\ open' \subseteq Conns
    BY <2>1 DEF Bus!End
  <2> QED BY <2>1, <2>2, <2>3, <2>4 DEF Good
<1>2. ASSUME FinishShutting(c) PROVE Good(c)
  <2>1. /\ conn[c].at = "shutting" /\ Bus!End({c}) /\ UNCHANGED active
        /\ Moves(c) /\ AfterShutting(conn[c], conn'[c])
    BY <1>2, FinishShuttingWrites
  <2>2. SlotInv'
    <3>1. c \in Sse => SsePlace(conn'[c])
      BY <2>1 DEF AfterShutting, Only, SlotInv, SsePlace
    <3>2. c \in Ws => WsPlace(conn'[c])
      BY <2>1 DEF AfterShutting, WsPlace
    <3> QED BY <2>1, <3>1, <3>2, PlacesKept DEF Moves
  <2>3. SlotStep(c)
    BY <2>1 DEF AfterShutting, Only, SlotStep, Occupies
  <2>4. published' \subseteq Ids \X {Topic} /\ open' \subseteq Conns
    BY <2>1 DEF Bus!End
  <2> QED BY <2>1, <2>2, <2>3, <2>4 DEF Good
<1> QED BY <1>1, <1>2

\* A WebSocket's slot is its handler's, from the acquisition to the finally.
LEMMA SocketSteps ==
    ASSUME StreamsAssumption, TypeOK, SlotInv, NEW c \in Conns
    PROVE  /\ SocketRefused(c) => Good(c)
           /\ StreamWs(c) => Good(c)
           /\ SenderCancelled(c) => Good(c)
           /\ BothDone(c) => Good(c)
           /\ SocketClosed(c) => Good(c)
<1> USE DEF StreamsAssumption, TypeOK, States, Places, Codes, Reasons, Undisturbed, Waiting, bus
<1>0. ASSUME conn[c].handler # "off" PROVE c \in Ws /\ c \notin Sse
  BY <1>0 DEF SlotInv, Conns
<1>1. ASSUME SocketRefused(c) PROVE Good(c)
  <2>1. PICK code \in {"rejected", "server_busy"} :
          /\ c \in Ws /\ c \notin Sse /\ conn[c].at = "new" /\ UNCHANGED <<active, bus>>
          /\ Moves(c) /\ AfterRefusal(conn[c], conn'[c], code)
    BY <1>1, SocketRefusedWrites
  <2>2. SlotInv'
    <3>1. WsPlace(conn'[c])
      BY <2>1 DEF AfterRefusal, WsPlace
    <3> QED BY <2>1, <3>1, PlacesKept DEF Moves
  <2>3. SlotStep(c)
    BY <2>1 DEF AfterRefusal, Only, SlotStep, Occupies
  <2> QED BY <2>1, <2>2, <2>3 DEF Good
<1>2. ASSUME StreamWs(c) PROVE Good(c)
  <2>1. /\ c \in Ws /\ c \notin Sse /\ conn[c].at = "new" /\ TryAcquire /\ UNCHANGED bus
        /\ Moves(c) /\ AfterAccept(conn[c], conn'[c])
    BY <1>2, StreamWsWrites
  <2>2. SlotInv'
    <3>1. WsPlace(conn'[c])
      BY <2>1 DEF AfterAccept, WsPlace
    <3> QED BY <2>1, <3>1, PlacesKept DEF Moves
  <2>3. SlotStep(c)
    <3>1. conn[c].handler = "off"
      BY <2>1 DEF SlotInv
    <3> QED BY <2>1, <3>1 DEF AfterAccept, SlotStep, Occupies
  <2> QED BY <2>1, <2>2, <2>3 DEF Good
<1>3. ASSUME SenderCancelled(c) PROVE Good(c)
  <2>0. c \in Ws
    BY <1>3, <1>0 DEF SenderCancelled
  <2>1. CASE conn[c].at = "wait"
    BY <1>3, <2>1, FinallyStep DEF SenderCancelled
  <2>2. CASE conn[c].at \in {"lock", "send"}
    <3>1. /\ UNCHANGED <<active, bus>>
          /\ Moves(c) /\ AfterCut(conn[c], conn'[c])
      BY <1>3, <2>2, SenderCancelledWrites
    <3>2. Quiet(c)
      BY <2>0, <2>2, <3>1 DEF AfterCut, Only, Quiet
    <3>3. published' \subseteq Ids \X {Topic} /\ open' \subseteq Conns
      BY <3>1
    <3> QED BY <3>1, <3>2, <3>3, QuietStep
  <2> QED BY <1>3, <2>1, <2>2 DEF SenderCancelled
<1>4. ASSUME BothDone(c) PROVE Good(c)
  <2>1. c \in Ws /\ c \notin Sse
    BY <1>0, <1>4 DEF BothDone
  <2>2. CASE conn[c].close = "none"
    <3>1. /\ conn[c].handler = "stopping" /\ Release /\ UNCHANGED bus
          /\ Moves(c) /\ AfterEnd(conn[c], conn'[c], "client_disconnect")
      BY <1>4, <2>2, BothDoneWrites
    <3>2. SlotInv'
      <4>1. WsPlace(conn'[c])
        BY <2>1, <3>1 DEF AfterEnd, Only, SlotInv, WsPlace
      <4> QED BY <2>1, <3>1, <4>1, PlacesKept DEF Moves
    <3>3. SlotStep(c)
      BY <2>1, <3>1 DEF AfterEnd, SlotStep, Occupies
    <3> QED BY <3>1, <3>2, <3>3 DEF Good
  <2>3. CASE conn[c].close # "none"
    <3>1. Moves(c)
      <4>1. conn' = [d \in Conns |-> conn'[d]] /\ Alone(c)
        BY <1>4, <2>3 DEF BothDone, Alone
      <4>2. conn'[c] = [f \in Fields |-> conn'[c][f]]
        BY <1>4, <2>3 DEF BothDone, Fields
      <4>3. Typed(conn'[c])
        BY <1>4, <2>3 DEF BothDone, Typed
      <4> QED BY <4>1, <4>2, <4>3 DEF Moves
    <3>2. Quiet(c)
      BY <1>4, <2>3 DEF BothDone, Quiet
    <3>3. published' \subseteq Ids \X {Topic} /\ open' \subseteq Conns
      BY <1>4 DEF BothDone
    <3> QED BY <3>1, <3>2, <3>3, QuietStep
  <2> QED BY <2>2, <2>3
<1>5. ASSUME SocketClosed(c) PROVE Good(c)
  <2>1. PICK reason \in {conn[c].close, "error"} :
          /\ conn[c].handler = "closing" /\ Release /\ UNCHANGED bus
          /\ Moves(c) /\ AfterEnd(conn[c], conn'[c], reason)
    BY <1>5, SocketClosedWrites
  <2>2. c \in Ws /\ c \notin Sse
    BY <1>0, <2>1
  <2>3. SlotInv'
    <3>1. WsPlace(conn'[c])
      BY <2>1, <2>2 DEF AfterEnd, Only, SlotInv, WsPlace
    <3> QED BY <2>1, <2>2, <3>1, PlacesKept DEF Moves
  <2>4. SlotStep(c)
    BY <2>1, <2>2 DEF AfterEnd, SlotStep, Occupies
  <2> QED BY <2>1, <2>3, <2>4 DEF Good
<1> QED BY <1>1, <1>2, <1>3, <1>4, <1>5

\* The receiver's steps change nothing but where it stands.
LEMMA ReceiverSteps ==
    ASSUME StreamsAssumption, TypeOK, SlotInv, NEW c \in Conns, Receiver(c)
    PROVE  Good(c)
<1> USE DEF StreamsAssumption, TypeOK, States, Places, Codes, Reasons, Undisturbed, Waiting, bus
<1> DEFINE Points == {"receive", "lock", "send", "left", "rate_limited",
                       "message_too_large", "raised", "cut"}
<1>1. \E from, to \in Points : Listen(c, from, to)
  BY DEF Receiver, ReceiveDisconnect, ReceiveTooBig, ReceiveTooFast, ReceiveMessage,
         ReceiveRaises, ReceiverLocks, ReplyDone, ReplyFails
<1>2. PICK from \in Points, to \in Points : Listen(c, from, to)
  BY <1>1
<1>3. Moves(c)
  <2>1. conn' = [d \in Conns |-> conn'[d]] /\ Alone(c)
    BY <1>2 DEF Listen, Alone
  <2>2. conn'[c] = [f \in Fields |-> conn'[c][f]]
    BY <1>2 DEF Listen, Fields
  <2>3. Typed(conn'[c])
    BY <1>2 DEF Listen, Typed
  <2> QED BY <2>1, <2>2, <2>3 DEF Moves
<1>4. Quiet(c)
  BY <1>2 DEF Listen, Quiet
<1>5. published' \subseteq Ids \X {Topic} /\ open' \subseteq Conns
  BY <1>2 DEF Listen
<1> QED BY <1>3, <1>4, <1>5, QuietStep

\* The steps of a connection.
LEMMA ConnStep ==
    ASSUME StreamsAssumption, TypeOK, SlotInv, NEW c \in Conns,
           \/ Subscribe(c) \/ NextItem(c) \/ SourceEnds(c) \/ Tick(c)
           \/ Reader(c) \/ SenderLocks(c) \/ SenderFails(c) \/ Receiver(c)
           \/ ReceiverCancelled(c) \/ Handler(c) \/ Collect(c) \/ FinishShutting(c)
           \/ StreamEvents(c) \/ StreamRefused(c) \/ Disconnected(c) \/ WriteFails(c)
           \/ SocketRefused(c) \/ StreamWs(c) \/ Leave(c)
    PROVE  Good(c)
<1>1. CASE Reader(c)
  BY <1>1, QuietSteps, LoopSteps, SseSteps, SocketSteps DEF Reader
<1>2. CASE Handler(c)
  BY <1>2, QuietSteps, SocketSteps DEF Handler
<1>3. CASE \/ Subscribe(c) \/ NextItem(c) \/ SourceEnds(c) \/ Tick(c)
           \/ SenderLocks(c) \/ SenderFails(c) \/ ReceiverCancelled(c) \/ Leave(c)
  BY <1>3, QuietSteps
<1>4. CASE \/ Collect(c) \/ FinishShutting(c) \/ StreamEvents(c)
           \/ StreamRefused(c) \/ Disconnected(c) \/ WriteFails(c)
           \/ SocketRefused(c) \/ StreamWs(c)
  BY <1>4, CollectSteps, SseSteps, SocketSteps
<1> QED BY <1>1, <1>2, <1>3, <1>4, ReceiverSteps

\* Every step keeps the types and the places, whether a head can fail or not.
LEMMA TypeStep ==
    ASSUME StreamsAssumption, TypeOK, SlotInv, [Next]_vars
    PROVE  TypeOK' /\ SlotInv'
<1>1. ASSUME NEW c \in Conns, Good(c) PROVE TypeOK' /\ SlotInv'
  <2>1. conn' \in [Conns -> States]
    BY <1>1, MovesType DEF Good
  <2>2. active' \in 0..MaxConnections
    BY <1>1 DEF Good, SlotStep, SlotLost, TryAcquire, Release, TypeOK, StreamsAssumption
  <2> QED BY <1>1, <2>1, <2>2 DEF Good, TypeOK
<1>2. ASSUME NEW id \in Ids, Publish(id) PROVE TypeOK' /\ SlotInv'
  BY <1>2 DEF Publish, Bus!Publish, TypeOK, SlotInv
<1>3. CASE UNCHANGED vars
  BY <1>3 DEF vars, TypeOK, SlotInv
<1> QED BY <1>1, <1>2, <1>3, ConnStep DEF Next

\* Every step keeps the count, where writing a head cannot fail.
LEMMA Step ==
    ASSUME StreamsAssumption, ~ HeadWriteFails, IInv, [Next]_vars
    PROVE  IInv'
<1>0. TypeOK /\ SlotInv /\ SlotsCounted
  BY DEF IInv
<1>1. ASSUME NEW c \in Conns, Good(c) PROVE SlotsCounted'
  BY <1>0, <1>1, CountStep DEF Good, SlotLost, Moves, TypeOK
<1>2. ASSUME NEW id \in Ids, Publish(id) PROVE SlotsCounted'
  BY <1>0, <1>2 DEF Publish, SlotsCounted, Holders, Occupies
<1>3. ASSUME UNCHANGED vars PROVE SlotsCounted'
  BY <1>0, <1>3 DEF vars, SlotsCounted, Holders, Occupies
<1>4. SlotsCounted'
  BY <1>0, <1>1, <1>2, <1>3, ConnStep DEF Next
<1>5. TypeOK' /\ SlotInv'
  BY <1>0, TypeStep
<1> QED BY <1>4, <1>5 DEF IInv

\* Initially no slot is taken.
LEMMA Start ==
    ASSUME StreamsAssumption, Init
    PROVE  IInv
<1> USE DEF StreamsAssumption, Init, Fresh
<1>1. TypeOK
  <2>1. Fresh \in States
    BY DEF States, Places, Codes, Reasons
  <2> QED BY <2>1 DEF TypeOK, Bus!Init
<1>2. SlotInv
  BY DEF SlotInv, Conns
<1>3. SlotsCounted
  <2>1. Holders = {}
    BY DEF Holders, Occupies, Conns
  <2> QED BY <2>1, FS_EmptySet DEF SlotsCounted
<1> QED BY <1>1, <1>2, <1>3 DEF IInv

\* The variables keep their types, the cap among them: try_acquire() and
\* release() of src/api/streaming.py never let more streams in than the cap.
THEOREM StreamTypes ==
    ASSUME StreamsAssumption
    PROVE  Spec => []TypeOK
<1>1. Init => TypeOK /\ SlotInv
  BY Start DEF IInv
<1>2. TypeOK /\ SlotInv /\ [Next]_vars => (TypeOK /\ SlotInv)'
  BY TypeStep
<1> QED BY <1>1, <1>2, PTL DEF Spec

\* The limiter counts exactly the streams that are served, on whatever way
\* they end: no slot leaks and none is given back twice.
THEOREM SlotsExact ==
    ASSUME StreamsAssumption, ~ HeadWriteFails
    PROVE  Spec => []SlotsCounted
<1>1. Init => IInv
  BY Start
<1>2. IInv /\ [Next]_vars => IInv'
  BY Step
<1>3. IInv => SlotsCounted
  BY DEF IInv
<1> QED BY <1>1, <1>2, <1>3, PTL DEF Spec

\* What is left of it where a head cannot be written: the count is never less
\* than the streams served.
SlotsCovered == Cardinality(Holders) <= active

\* A step of one connection keeps that, also one that loses its slot.
LEMMA CoverStep ==
    ASSUME StreamsAssumption, active \in 0..MaxConnections, SlotsCovered,
           NEW c \in Conns, Alone(c), SlotStep(c) \/ SlotLost(c)
    PROVE  SlotsCovered'
<1> USE DEF StreamsAssumption
<1>1. \A d \in Conns \ {c} : Occupies(d)' = Occupies(d)
  BY DEF Alone, Occupies
<1>2. IsFiniteSet(Holders) /\ Cardinality(Holders) \in Nat
  BY FS_Subset, FS_CardinalityType DEF Holders
<1>3. CASE Occupies(c)' = Occupies(c) /\ active' = active
  BY <1>1, <1>3 DEF Holders, SlotsCovered
<1>4. CASE ~ Occupies(c) /\ Occupies(c)' /\ TryAcquire
  <2>1. Holders' = Holders \cup {c} /\ c \notin Holders
    BY <1>1, <1>4 DEF Holders
  <2>2. Cardinality(Holders') = Cardinality(Holders) + 1
    BY <2>1, <1>2, FS_AddElement
  <2> QED BY <2>2, <1>4, <1>2 DEF SlotsCovered, TryAcquire
<1>5. ASSUME Occupies(c), ~ Occupies(c)', Release \/ active' = active
      PROVE  SlotsCovered'
  <2>1. Holders' = Holders \ {c} /\ c \in Holders
    BY <1>1, <1>5 DEF Holders
  <2>2. Cardinality(Holders') = Cardinality(Holders) - 1
    BY <2>1, <1>2, FS_RemoveElement
  <2> QED BY <2>2, <1>5, <1>2 DEF SlotsCovered, Release
<1>6. CASE ~ Occupies(c) /\ ~ Occupies(c)' /\ active' = active
  BY <1>1, <1>6 DEF Holders, SlotsCovered
<1> QED BY <1>3, <1>4, <1>5, <1>6 DEF SlotStep, SlotLost

\* The cap of StreamLimiter holds even so: whatever a failed write of a head
\* costs, no more streams are served than MaxConnections.
THEOREM CapHolds ==
    ASSUME StreamsAssumption
    PROVE  Spec => [](Cardinality(Holders) <= MaxConnections)
<1>1. Init => TypeOK /\ SlotInv /\ SlotsCovered
  <2> SUFFICES ASSUME Init PROVE TypeOK /\ SlotInv /\ SlotsCovered
    OBVIOUS
  <2>1. TypeOK /\ SlotInv /\ active = Cardinality(Holders)
    BY Start DEF IInv, SlotsCounted
  <2> QED BY <2>1 DEF SlotsCovered, TypeOK, StreamsAssumption
<1>2. TypeOK /\ SlotInv /\ SlotsCovered /\ [Next]_vars => (TypeOK /\ SlotInv /\ SlotsCovered)'
  <2> SUFFICES ASSUME TypeOK, SlotInv, SlotsCovered, [Next]_vars PROVE SlotsCovered'
    BY TypeStep
  <2>1. ASSUME NEW c \in Conns, Good(c) PROVE SlotsCovered'
    BY <2>1, CoverStep DEF Good, Moves, TypeOK
  <2>2. ASSUME NEW id \in Ids, Publish(id) PROVE SlotsCovered'
    BY <2>2 DEF Publish, SlotsCovered, Holders, Occupies
  <2>3. ASSUME UNCHANGED vars PROVE SlotsCovered'
    BY <2>3 DEF vars, SlotsCovered, Holders, Occupies
  <2> QED BY <2>1, <2>2, <2>3, ConnStep DEF Next
<1>3. TypeOK /\ SlotsCovered => Cardinality(Holders) <= MaxConnections
  <2> SUFFICES ASSUME TypeOK, SlotsCovered PROVE Cardinality(Holders) <= MaxConnections
    OBVIOUS
  <2>1. Cardinality(Holders) \in Nat
    BY FS_Subset, FS_CardinalityType DEF Holders, StreamsAssumption
  <2> QED BY <2>1 DEF TypeOK, SlotsCovered, StreamsAssumption
<1> QED BY <1>1, <1>2, <1>3, PTL DEF Spec

-----------------------------------------------------------------------------
(* What is behind the other invariants: where the source of a stream, its  *)
(* tasks and the causes of its end stand together.                         *)

Runs == {"receive", "lock", "send"}
Framing == {"wait", "lock", "send"}

\* The subscription of a stream and its pending __anext__: before with_
\* heartbeat() and behind it there is none, and of the events it yielded all
\* but the one at hand were made frames.
SourceInv(c) ==
    /\ conn[c].at \in {"new", "head", "tail", "closed"} =>
          c \notin open /\ conn[c].pending = "none"
    /\ conn[c].pending # "item" => conn[c].item = 0
    /\ conn[c].at \in {"closing", "shutting"} => conn[c].pending = "cancelled"
    /\ conn[c].unsent \cap Hidden = {}
    /\ conn[c].at \in {"new", "head"} => conn[c].unsent = {}
    /\ conn[c].at \in Framing => conn[c].unsent \subseteq {conn[c].item}

\* An SSE response has no tasks of its own.  A WebSocket's sender runs as
\* long as it reads from with_heartbeat(); its handler closes the socket when
\* both tasks are done; and the lock is one of them's.
TaskInv(c) ==
    /\ c \in Sse => conn[c].sender = "off" /\ conn[c].receiver = "off"
    /\ c \in Ws =>
        /\ conn[c].handler = "off" =>
              /\ conn[c].at \in {"new", "closed"}
              /\ conn[c].sender = "off"
              /\ conn[c].receiver = "off"
        /\ conn[c].handler # "off" =>
              conn[c].sender # "off" /\ conn[c].receiver # "off"
        /\ conn[c].sender = "running" <=>
              conn[c].at \in {"wait", "lock", "send", "closing"}
        /\ conn[c].handler \in {"closing", "ended"} =>
              conn[c].sender # "running" /\ conn[c].receiver \notin Runs
        /\ conn[c].at = "send" => conn[c].receiver # "send"

\* Why a stream ended, as with_heartbeat() knows it.
CauseInv(c) ==
    /\ conn[c].cause = "deadline" => conn[c].clock = "over"
    /\ conn[c].at = "closing" => conn[c].cause # "none"

\* What is recorded of an SSE response is recorded where it ends.
ResponseInv(c) ==
    /\ conn[c].cause = "cut" => conn[c].gone
    /\ conn[c].reason \in {"client_disconnect", "error"} => conn[c].gone
    /\ conn[c].at = "tail" => conn[c].cause \in {"deadline", "bus"}
    /\ conn[c].reason = "server_closed" =>
          conn[c].at = "closed" /\ conn[c].cause \in {"deadline", "bus"}
    /\ conn[c].reason \in {"none", "client_disconnect", "error", "server_closed"}
    /\ conn[c].reason # "none" => conn[c].at \in {"orphan", "shutting", "closed"}

\* What a WebSocket's handler makes of its tasks' results.
CodeInv(c) ==
    /\ conn[c].at = "new" => conn[c].reason = "none"
    /\ conn[c].handler = "off" =>
          /\ conn[c].clock = "off" /\ conn[c].cause = "none"
          /\ conn[c].reason \in {"none", "rejected", "server_busy"}
    /\ conn[c].handler = "waiting" =>
          /\ conn[c].cause = "cut" => conn[c].gone
          /\ conn[c].sender = "cut" => conn[c].gone
          /\ conn[c].receiver \in {"left", "cut"} => conn[c].gone
    /\ conn[c].handler = "stopping" /\ conn[c].close = "none" =>
          conn[c].gone \/ conn[c].receiver = "raised"
    /\ conn[c].handler = "closing" => conn[c].close # "none"
    /\ conn[c].sender = "max_duration" => conn[c].clock \in {"near", "over"}
    /\ conn[c].sender = "server_busy" => conn[c].cause = "bus"
    /\ conn[c].handler \in {"stopping", "closing"} =>
          \A code \in {"max_duration", "server_busy"} :
             conn[c].close = code => conn[c].sender = code
    /\ conn[c].handler \in {"waiting", "stopping", "closing"} =>
          conn[c].reason = "none"
    /\ conn[c].handler = "ended" =>
          /\ conn[c].reason # "server_closed"
          /\ conn[c].reason = "error" => conn[c].gone
          /\ conn[c].reason = "client_disconnect" =>
                conn[c].gone \/ conn[c].receiver = "raised"
          /\ conn[c].reason \in {"max_duration", "server_busy"} =>
                conn[c].sender = conn[c].reason

ConnInv(c) ==
    /\ SourceInv(c)
    /\ TaskInv(c)
    /\ CauseInv(c)
    /\ c \in Sse => ResponseInv(c)
    /\ c \in Ws => CodeInv(c)

ConnsWhole == \A c \in Conns : ConnInv(c)

\* The source of a stream: subscribed, an event, its end, and time.
LEMMA SourceWhole ==
    ASSUME StreamsAssumption, TypeOK, SlotInv, NEW c \in Conns, ConnInv(c)
    PROVE  /\ Subscribe(c) => ConnInv(c)'
           /\ NextItem(c) => ConnInv(c)'
           /\ SourceEnds(c) => ConnInv(c)'
           /\ Tick(c) => ConnInv(c)'
<1> USE DEF StreamsAssumption, TypeOK, States, Places, Codes, Reasons, Undisturbed,
            Waiting, bus, Runs, Framing
<1>0. SourceInv(c) /\ TaskInv(c) /\ CauseInv(c)
      /\ (c \in Sse => ResponseInv(c)) /\ (c \in Ws => CodeInv(c))
  BY DEF ConnInv
<1>1. ASSUME Subscribe(c) PROVE ConnInv(c)'
  <2>1. SourceInv(c)'
    BY <1>0, <1>1 DEF SourceInv, Subscribe, Bus!Open
  <2>2. TaskInv(c)'
    BY <1>0, <1>1 DEF TaskInv, SlotInv, Subscribe, Bus!Open
  <2>3. CauseInv(c)'
    BY <1>0, <1>1 DEF CauseInv, Subscribe, Bus!Open
  <2>4. ASSUME c \in Sse PROVE ResponseInv(c)'
    BY <1>0, <1>1, <2>4 DEF ResponseInv, CauseInv, TaskInv, SlotInv, Subscribe, Bus!Open
  <2>5. ASSUME c \in Ws PROVE CodeInv(c)'
    BY <1>0, <1>1, <2>5 DEF CodeInv, CauseInv, TaskInv, SlotInv, Subscribe, Bus!Open
  <2> QED BY <2>1, <2>2, <2>3, <2>4, <2>5 DEF ConnInv
<1>2. ASSUME NextItem(c) PROVE ConnInv(c)'
  <2>0. PICK e \in published :
          /\ conn[c].pending = "running" /\ Bus!Deliver(c, e)
          /\ AfterNextItem(conn[c], conn'[c], e[1])
    BY <1>2, NextItemWrites
  <2>1. SourceInv(c)'
    BY <1>0, <2>0 DEF SourceInv, Bus!Deliver, AfterNextItem, Only
  <2>2. TaskInv(c)'
    BY <1>0, <2>0 DEF TaskInv, SlotInv, Bus!Deliver, AfterNextItem, Only
  <2>3. CauseInv(c)'
    BY <1>0, <2>0 DEF CauseInv, Bus!Deliver, AfterNextItem, Only
  <2>4. ASSUME c \in Sse PROVE ResponseInv(c)'
    BY <1>0, <2>0, <2>4 DEF ResponseInv, CauseInv, TaskInv, SlotInv, Bus!Deliver,
       AfterNextItem, Only
  <2>5. ASSUME c \in Ws PROVE CodeInv(c)'
    BY <1>0, <2>0, <2>5 DEF CodeInv, CauseInv, TaskInv, SlotInv, Bus!Deliver,
       AfterNextItem, Only
  <2> QED BY <2>1, <2>2, <2>3, <2>4, <2>5 DEF ConnInv
<1>3. ASSUME SourceEnds(c) PROVE ConnInv(c)'
  <2>1. SourceInv(c)'
    BY <1>0, <1>3 DEF SourceInv, SourceEnds, Bus!End
  <2>2. TaskInv(c)'
    BY <1>0, <1>3 DEF TaskInv, SlotInv, SourceEnds, Bus!End
  <2>3. CauseInv(c)'
    BY <1>0, <1>3 DEF CauseInv, SourceEnds, Bus!End
  <2>4. ASSUME c \in Sse PROVE ResponseInv(c)'
    BY <1>0, <1>3, <2>4 DEF ResponseInv, CauseInv, TaskInv, SlotInv, SourceEnds, Bus!End
  <2>5. ASSUME c \in Ws PROVE CodeInv(c)'
    BY <1>0, <1>3, <2>5 DEF CodeInv, CauseInv, TaskInv, SlotInv, SourceEnds, Bus!End
  <2> QED BY <2>1, <2>2, <2>3, <2>4, <2>5 DEF ConnInv
<1>4. ASSUME Tick(c) PROVE ConnInv(c)'
  <2>1. SourceInv(c)'
    BY <1>0, <1>4 DEF SourceInv, Tick
  <2>2. TaskInv(c)'
    BY <1>0, <1>4 DEF TaskInv, SlotInv, Tick
  <2>3. CauseInv(c)'
    BY <1>0, <1>4 DEF CauseInv, Tick
  <2>4. ASSUME c \in Sse PROVE ResponseInv(c)'
    BY <1>0, <1>4, <2>4 DEF ResponseInv, CauseInv, TaskInv, SlotInv, Tick
  <2>5. ASSUME c \in Ws PROVE CodeInv(c)'
    BY <1>0, <1>4, <2>5 DEF CodeInv, CauseInv, TaskInv, SlotInv, Tick
  <2> QED BY <2>1, <2>2, <2>3, <2>4, <2>5 DEF ConnInv
<1> QED BY <1>1, <1>2, <1>3, <1>4

\* The steps of the reader that stay within with_heartbeat(), and the client
\* that leaves.
LEMMA LoopWhole ==
    ASSUME StreamsAssumption, TypeOK, SlotInv, NEW c \in Conns, ConnInv(c)
    PROVE  /\ TakeItem(c) => ConnInv(c)'
           /\ Heartbeat(c) => ConnInv(c)'
           /\ HeadDone(c) => ConnInv(c)'
           /\ Leave(c) => ConnInv(c)'
<1> USE DEF StreamsAssumption, TypeOK, States, Places, Codes, Reasons, Undisturbed,
            Waiting, bus, Runs, Framing
<1>0. SourceInv(c) /\ TaskInv(c) /\ CauseInv(c)
      /\ (c \in Sse => ResponseInv(c)) /\ (c \in Ws => CodeInv(c))
  BY DEF ConnInv
<1>1. ASSUME TakeItem(c) PROVE ConnInv(c)'
  <2>0. /\ Waiting(c, "item") /\ conn[c].item \notin Hidden /\ UNCHANGED <<active, bus>>
        /\ AfterTake(conn[c], conn'[c], ToFrame(c))
    BY <1>1, TakeItemWrites
  <2>1. SourceInv(c)'
    BY <1>0, <2>0 DEF SourceInv, ToFrame, AfterTake, Only
  <2>2. TaskInv(c)'
    BY <1>0, <2>0 DEF TaskInv, SlotInv, ToFrame, AfterTake, Only
  <2>3. CauseInv(c)'
    BY <1>0, <2>0 DEF CauseInv, ToFrame, AfterTake, Only
  <2>4. ASSUME c \in Sse PROVE ResponseInv(c)'
    BY <1>0, <2>0, <2>4 DEF ResponseInv, CauseInv, TaskInv, SlotInv, ToFrame, AfterTake,
       Only
  <2>5. ASSUME c \in Ws PROVE CodeInv(c)'
    BY <1>0, <2>0, <2>5 DEF CodeInv, CauseInv, TaskInv, SlotInv, ToFrame, AfterTake, Only
  <2> QED BY <2>1, <2>2, <2>3, <2>4, <2>5 DEF ConnInv
<1>2. ASSUME Heartbeat(c) PROVE ConnInv(c)'
  <2>1. SourceInv(c)'
    BY <1>0, <1>2 DEF SourceInv, Heartbeat, ToFrame
  <2>2. TaskInv(c)'
    BY <1>0, <1>2 DEF TaskInv, SlotInv, Heartbeat, ToFrame
  <2>3. CauseInv(c)'
    BY <1>0, <1>2 DEF CauseInv, Heartbeat, ToFrame
  <2>4. ASSUME c \in Sse PROVE ResponseInv(c)'
    BY <1>0, <1>2, <2>4 DEF ResponseInv, CauseInv, TaskInv, SlotInv, Heartbeat, ToFrame
  <2>5. ASSUME c \in Ws PROVE CodeInv(c)'
    BY <1>0, <1>2, <2>5 DEF CodeInv, CauseInv, TaskInv, SlotInv, Heartbeat, ToFrame
  <2> QED BY <2>1, <2>2, <2>3, <2>4, <2>5 DEF ConnInv
<1>3. ASSUME HeadDone(c) PROVE ConnInv(c)'
  <2>1. SourceInv(c)'
    BY <1>0, <1>3 DEF SourceInv, HeadDone
  <2>2. TaskInv(c)'
    BY <1>0, <1>3 DEF TaskInv, SlotInv, HeadDone
  <2>3. CauseInv(c)'
    BY <1>0, <1>3 DEF CauseInv, HeadDone
  <2>4. ASSUME c \in Sse PROVE ResponseInv(c)'
    BY <1>0, <1>3, <2>4 DEF ResponseInv, CauseInv, TaskInv, SlotInv, HeadDone
  <2>5. ASSUME c \in Ws PROVE CodeInv(c)'
    BY <1>0, <1>3, <2>5 DEF CodeInv, CauseInv, TaskInv, SlotInv, HeadDone
  <2> QED BY <2>1, <2>2, <2>3, <2>4, <2>5 DEF ConnInv
<1>4. ASSUME Leave(c) PROVE ConnInv(c)'
  <2>1. SourceInv(c)'
    BY <1>0, <1>4 DEF SourceInv, Leave
  <2>2. TaskInv(c)'
    BY <1>0, <1>4 DEF TaskInv, SlotInv, Leave
  <2>3. CauseInv(c)'
    BY <1>0, <1>4 DEF CauseInv, Leave
  <2>4. ASSUME c \in Sse PROVE ResponseInv(c)'
    BY <1>0, <1>4, <2>4 DEF ResponseInv, CauseInv, TaskInv, SlotInv, Leave
  <2>5. ASSUME c \in Ws PROVE CodeInv(c)'
    BY <1>0, <1>4, <2>5 DEF CodeInv, CauseInv, TaskInv, SlotInv, Leave
  <2> QED BY <2>1, <2>2, <2>3, <2>4, <2>5 DEF ConnInv
<1> QED BY <1>1, <1>2, <1>3, <1>4

\* An SSE response, from its request to its end.
LEMMA ResponseWhole ==
    ASSUME StreamsAssumption, TypeOK, SlotInv, NEW c \in Conns, ConnInv(c)
    PROVE  /\ StreamEvents(c) => ConnInv(c)'
           /\ StreamRefused(c) => ConnInv(c)'
           /\ TailDone(c) => ConnInv(c)'
           /\ WriteFails(c) => ConnInv(c)'
<1> USE DEF StreamsAssumption, TypeOK, States, Places, Codes, Reasons, Undisturbed,
            Waiting, bus, Runs, Framing
<1>0. SourceInv(c) /\ TaskInv(c) /\ CauseInv(c)
      /\ (c \in Sse => ResponseInv(c)) /\ (c \in Ws => CodeInv(c))
  BY DEF ConnInv
<1>1. ASSUME StreamEvents(c) PROVE ConnInv(c)'
  <2>1. SourceInv(c)'
    BY <1>0, <1>1 DEF SourceInv, StreamEvents, TryAcquire
  <2>2. TaskInv(c)'
    BY <1>0, <1>1 DEF TaskInv, SlotInv, StreamEvents, TryAcquire
  <2>3. CauseInv(c)'
    BY <1>0, <1>1 DEF CauseInv, StreamEvents, TryAcquire
  <2>4. ASSUME c \in Sse PROVE ResponseInv(c)'
    BY <1>0, <1>1, <2>4 DEF ResponseInv, CauseInv, TaskInv, SlotInv, StreamEvents,
       TryAcquire
  <2>5. ASSUME c \in Ws PROVE CodeInv(c)'
    BY <1>0, <1>1, <2>5 DEF CodeInv, CauseInv, TaskInv, SlotInv, StreamEvents, TryAcquire
  <2> QED BY <2>1, <2>2, <2>3, <2>4, <2>5 DEF ConnInv
<1>2. ASSUME StreamRefused(c) PROVE ConnInv(c)'
  <2>1. SourceInv(c)'
    BY <1>0, <1>2 DEF SourceInv, StreamRefused
  <2>2. TaskInv(c)'
    BY <1>0, <1>2 DEF TaskInv, SlotInv, StreamRefused
  <2>3. CauseInv(c)'
    BY <1>0, <1>2 DEF CauseInv, StreamRefused
  <2>4. ASSUME c \in Sse PROVE ResponseInv(c)'
    BY <1>0, <1>2, <2>4 DEF ResponseInv, CauseInv, TaskInv, SlotInv, StreamRefused
  <2>5. ASSUME c \in Ws PROVE CodeInv(c)'
    BY <1>0, <1>2, <2>5 DEF CodeInv, CauseInv, TaskInv, SlotInv, StreamRefused
  <2> QED BY <2>1, <2>2, <2>3, <2>4, <2>5 DEF ConnInv
<1>3. ASSUME TailDone(c) PROVE ConnInv(c)'
  <2>0. /\ conn[c].at = "tail" /\ UNCHANGED bus
        /\ AfterTail(conn[c], conn'[c])
    BY <1>3, TailDoneWrites
  <2>1. SourceInv(c)'
    BY <1>0, <2>0 DEF SourceInv, AfterTail, Only
  <2>2. TaskInv(c)'
    BY <1>0, <2>0 DEF TaskInv, SlotInv, AfterTail, Only
  <2>3. CauseInv(c)'
    BY <1>0, <2>0 DEF CauseInv, AfterTail, Only
  <2>4. ASSUME c \in Sse PROVE ResponseInv(c)'
    BY <1>0, <2>0, <2>4 DEF ResponseInv, CauseInv, TaskInv, SlotInv, AfterTail, Only
  <2>5. ASSUME c \in Ws PROVE CodeInv(c)'
    BY <1>0, <2>0, <2>5 DEF CodeInv, CauseInv, TaskInv, SlotInv, AfterTail, Only
  <2> QED BY <2>1, <2>2, <2>3, <2>4, <2>5 DEF ConnInv
<1>4. ASSUME WriteFails(c) PROVE ConnInv(c)'
  <2>0. PICK reason \in {"error", "client_disconnect"} :
          /\ c \in Sse /\ conn[c].gone /\ conn[c].at \in {"head", "send", "tail"}
          /\ (conn[c].at = "tail" => reason = "error") /\ UNCHANGED <<active, bus>>
          /\ AfterFailure(conn[c], conn'[c], reason)
    BY <1>4, WriteFailsWrites
  <2>1. SourceInv(c)'
    BY <1>0, <2>0 DEF SourceInv, AfterFailure, Only
  <2>2. TaskInv(c)'
    BY <1>0, <2>0 DEF TaskInv, SlotInv, AfterFailure, Only
  <2>3. CauseInv(c)'
    BY <1>0, <2>0 DEF CauseInv, AfterFailure, Only
  <2>4. ASSUME c \in Sse PROVE ResponseInv(c)'
    BY <1>0, <2>0, <2>4 DEF ResponseInv, CauseInv, TaskInv, SlotInv, AfterFailure, Only
  <2>5. ASSUME c \in Ws PROVE CodeInv(c)'
    BY <1>0, <2>0, <2>5 DEF CodeInv, CauseInv, TaskInv, SlotInv, AfterFailure, Only
  <2> QED BY <2>1, <2>2, <2>3, <2>4, <2>5 DEF ConnInv
<1> QED BY <1>1, <1>2, <1>3, <1>4

\* The generator that is left behind.
LEMMA OrphanWhole ==
    ASSUME StreamsAssumption, TypeOK, SlotInv, NEW c \in Conns, ConnInv(c)
    PROVE  /\ Collect(c) => ConnInv(c)'
           /\ FinishShutting(c) => ConnInv(c)'
<1> USE DEF StreamsAssumption, TypeOK, States, Places, Codes, Reasons, Undisturbed,
            Waiting, bus, Runs, Framing
<1>0. SourceInv(c) /\ TaskInv(c) /\ CauseInv(c)
      /\ (c \in Sse => ResponseInv(c)) /\ (c \in Ws => CodeInv(c))
  BY DEF ConnInv
<1>1. ASSUME Collect(c) PROVE ConnInv(c)'
  <2>1. CASE conn[c].pending = "running"
    <3>0. /\ conn[c].at = "orphan" /\ UNCHANGED bus
          /\ AfterExit(conn[c], conn'[c], c \in Sse)
      BY <1>1, <2>1, CollectAwaits
    <3>1. SourceInv(c)'
      BY <1>0, <2>1, <3>0 DEF SourceInv, AfterExit, Only
    <3>2. TaskInv(c)' /\ CauseInv(c)'
      BY <1>0, <3>0 DEF TaskInv, CauseInv, AfterExit, Only
    <3>3. ASSUME c \in Sse PROVE ResponseInv(c)'
      BY <1>0, <3>0, <3>3 DEF ResponseInv, AfterExit, Only
    <3>4. ASSUME c \in Ws PROVE CodeInv(c)'
      BY <1>0, <3>0, <3>4 DEF CodeInv, AfterExit, Only
    <3> QED BY <3>1, <3>2, <3>3, <3>4 DEF ConnInv
  <2>2. CASE conn[c].pending # "running"
    <3>0. /\ conn[c].at = "orphan" /\ Bus!End({c})
          /\ AfterCollect(conn[c], conn'[c], c \in Sse)
      BY <1>1, <2>2, CollectCloses
    <3>1. SourceInv(c)'
      BY <1>0, <3>0 DEF SourceInv, AfterCollect, Only, Bus!End
    <3>2. TaskInv(c)' /\ CauseInv(c)'
      BY <1>0, <3>0 DEF TaskInv, CauseInv, AfterCollect, Only
    <3>3. ASSUME c \in Sse PROVE ResponseInv(c)'
      BY <1>0, <3>0, <3>3 DEF ResponseInv, AfterCollect, Only
    <3>4. ASSUME c \in Ws PROVE CodeInv(c)'
      BY <1>0, <3>0, <3>4 DEF CodeInv, AfterCollect, Only
    <3> QED BY <3>1, <3>2, <3>3, <3>4 DEF ConnInv
  <2> QED BY <2>1, <2>2
<1>2. ASSUME FinishShutting(c) PROVE ConnInv(c)'
  <2>0. /\ conn[c].at = "shutting" /\ Bus!End({c})
        /\ AfterShutting(conn[c], conn'[c])
    BY <1>2, FinishShuttingWrites
  <2>1. SourceInv(c)'
    BY <1>0, <2>0 DEF SourceInv, Bus!End, AfterShutting, Only
  <2>2. TaskInv(c)'
    BY <1>0, <2>0 DEF TaskInv, SlotInv, Bus!End, AfterShutting, Only
  <2>3. CauseInv(c)'
    BY <1>0, <2>0 DEF CauseInv, Bus!End, AfterShutting, Only
  <2>4. ASSUME c \in Sse PROVE ResponseInv(c)'
    BY <1>0, <2>0, <2>4 DEF ResponseInv, CauseInv, TaskInv, SlotInv, Bus!End,
       AfterShutting, Only
  <2>5. ASSUME c \in Ws PROVE CodeInv(c)'
    BY <1>0, <2>0, <2>5 DEF CodeInv, CauseInv, TaskInv, SlotInv, Bus!End, AfterShutting,
       Only
  <2> QED BY <2>1, <2>2, <2>3, <2>4, <2>5 DEF ConnInv
<1> QED BY <1>1, <1>2

\* A WebSocket's tasks and its handler.
LEMMA SocketWhole ==
    ASSUME StreamsAssumption, TypeOK, SlotInv, NEW c \in Conns, ConnInv(c)
    PROVE  /\ SocketRefused(c) => ConnInv(c)'
           /\ StreamWs(c) => ConnInv(c)'
           /\ SenderLocks(c) => ConnInv(c)'
           /\ SenderFails(c) => ConnInv(c)'
           /\ ReceiverCancelled(c) => ConnInv(c)'
           /\ FirstDone(c) => ConnInv(c)'
           /\ BothDone(c) => ConnInv(c)'
           /\ SocketClosed(c) => ConnInv(c)'
<1> USE DEF StreamsAssumption, TypeOK, States, Places, Codes, Reasons, Undisturbed,
            Waiting, bus, Runs, Framing
<1>0. SourceInv(c) /\ TaskInv(c) /\ CauseInv(c)
      /\ (c \in Sse => ResponseInv(c)) /\ (c \in Ws => CodeInv(c))
  BY DEF ConnInv
<1>1. ASSUME SocketRefused(c) PROVE ConnInv(c)'
  <2>0. PICK code \in {"rejected", "server_busy"} :
          /\ c \in Ws /\ conn[c].at = "new" /\ UNCHANGED <<active, bus>>
          /\ AfterRefusal(conn[c], conn'[c], code)
    BY <1>1, SocketRefusedWrites
  <2>1. SourceInv(c)'
    BY <1>0, <2>0 DEF SourceInv, AfterRefusal, Only
  <2>2. TaskInv(c)'
    BY <1>0, <2>0 DEF TaskInv, SlotInv, AfterRefusal, Only
  <2>3. CauseInv(c)'
    BY <1>0, <2>0 DEF CauseInv, AfterRefusal, Only
  <2>4. ASSUME c \in Sse PROVE ResponseInv(c)'
    BY <1>0, <2>0, <2>4 DEF ResponseInv, CauseInv, TaskInv, SlotInv, AfterRefusal, Only
  <2>5. ASSUME c \in Ws PROVE CodeInv(c)'
    BY <1>0, <2>0, <2>5 DEF CodeInv, CauseInv, TaskInv, SlotInv, AfterRefusal, Only
  <2> QED BY <2>1, <2>2, <2>3, <2>4, <2>5 DEF ConnInv
<1>2. ASSUME StreamWs(c) PROVE ConnInv(c)'
  <2>0. /\ c \in Ws /\ conn[c].at = "new" /\ UNCHANGED bus
        /\ AfterAccept(conn[c], conn'[c])
    BY <1>2, StreamWsWrites
  <2>1. SourceInv(c)'
    BY <1>0, <2>0 DEF SourceInv, AfterAccept, Only
  <2>2. TaskInv(c)'
    BY <1>0, <2>0 DEF TaskInv, SlotInv, AfterAccept, Only
  <2>3. CauseInv(c)'
    BY <1>0, <2>0 DEF CauseInv, CodeInv, SlotInv, AfterAccept, Only
  <2>4. ASSUME c \in Sse PROVE ResponseInv(c)'
    BY <1>0, <2>0, <2>4 DEF ResponseInv, CauseInv, TaskInv, SlotInv, AfterAccept, Only
  <2>5. ASSUME c \in Ws PROVE CodeInv(c)'
    BY <1>0, <2>0, <2>5 DEF CodeInv, TaskInv, SlotInv, AfterAccept, Only
  <2> QED BY <2>1, <2>2, <2>3, <2>4, <2>5 DEF ConnInv
<1>3. ASSUME SenderLocks(c) PROVE ConnInv(c)'
  <2>1. SourceInv(c)'
    BY <1>0, <1>3 DEF SourceInv, SenderLocks, SenderBarges
  <2>2. TaskInv(c)'
    BY <1>0, <1>3 DEF TaskInv, SlotInv, SenderLocks, SenderBarges
  <2>3. CauseInv(c)'
    BY <1>0, <1>3 DEF CauseInv, SenderLocks, SenderBarges
  <2>4. ASSUME c \in Sse PROVE ResponseInv(c)'
    BY <1>0, <1>3, <2>4 DEF ResponseInv, CauseInv, TaskInv, SlotInv, SenderLocks,
       SenderBarges
  <2>5. ASSUME c \in Ws PROVE CodeInv(c)'
    BY <1>0, <1>3, <2>5 DEF CodeInv, CauseInv, TaskInv, SlotInv, SenderLocks, SenderBarges
  <2> QED BY <2>1, <2>2, <2>3, <2>4, <2>5 DEF ConnInv
<1>4. ASSUME SenderFails(c) PROVE ConnInv(c)'
  <2>0. /\ c \in Ws /\ conn[c].at = "send" /\ conn[c].gone /\ Undisturbed(c)
        /\ UNCHANGED <<active, bus>> /\ AfterCut(conn[c], conn'[c])
    BY <1>4, SenderFailsWrites
  <2>1. SourceInv(c)'
    BY <1>0, <2>0 DEF SourceInv, AfterCut, Only
  <2>2. TaskInv(c)'
    BY <1>0, <2>0 DEF TaskInv, SlotInv, AfterCut, Only
  <2>3. CauseInv(c)'
    BY <1>0, <2>0 DEF CauseInv, AfterCut, Only
  <2>4. ASSUME c \in Sse PROVE ResponseInv(c)'
    BY <1>0, <2>0, <2>4 DEF ResponseInv, CauseInv, TaskInv, SlotInv, AfterCut, Only
  <2>5. ASSUME c \in Ws PROVE CodeInv(c)'
    <3>1. CodeInv(c) /\ conn[c].handler = "waiting" /\ conn[c].gone
      BY <1>0, <2>0, <2>5
    <3>2. conn'[c].at = "orphan" /\ conn'[c].cause = "cut" /\ conn'[c].sender = "cut"
      BY <2>0 DEF AfterCut
    <3>3. Only(conn[c], conn'[c], {"at", "cause", "sender"})
      BY <2>0 DEF AfterCut
    <3> HIDE DEF TypeOK, States, Places, Codes, Reasons
    <3> QED BY <3>1, <3>2, <3>3 DEF CodeInv, Only
  <2> QED BY <2>1, <2>2, <2>3, <2>4, <2>5 DEF ConnInv
<1>5. ASSUME ReceiverCancelled(c) PROVE ConnInv(c)'
  <2>1. SourceInv(c)'
    BY <1>0, <1>5 DEF SourceInv, ReceiverCancelled, ReceiverRuns
  <2>2. TaskInv(c)'
    BY <1>0, <1>5 DEF TaskInv, SlotInv, ReceiverCancelled, ReceiverRuns
  <2>3. CauseInv(c)'
    BY <1>0, <1>5 DEF CauseInv, ReceiverCancelled, ReceiverRuns
  <2>4. ASSUME c \in Sse PROVE ResponseInv(c)'
    BY <1>0, <1>5, <2>4 DEF ResponseInv, CauseInv, TaskInv, SlotInv, ReceiverCancelled,
       ReceiverRuns
  <2>5. ASSUME c \in Ws PROVE CodeInv(c)'
    BY <1>0, <1>5, <2>5 DEF CodeInv, CauseInv, TaskInv, SlotInv, ReceiverCancelled,
       ReceiverRuns
  <2> QED BY <2>1, <2>2, <2>3, <2>4, <2>5 DEF ConnInv
<1>6. ASSUME FirstDone(c) PROVE ConnInv(c)'
  <2>0. /\ conn[c].handler = "waiting"
        /\ conn[c].sender # "running" \/ ~ ReceiverRuns(c)
        /\ UNCHANGED <<active, bus>> /\ AfterFirst(conn[c], conn'[c], CloseCode(c))
    BY <1>6, FirstDoneWrites
  <2>1. SourceInv(c)'
    BY <1>0, <2>0 DEF SourceInv, CloseCode, ReceiverRuns, AfterFirst, Only
  <2>2. TaskInv(c)'
    BY <1>0, <2>0 DEF TaskInv, SlotInv, CloseCode, ReceiverRuns, AfterFirst, Only
  <2>3. CauseInv(c)'
    BY <1>0, <2>0 DEF CauseInv, CloseCode, ReceiverRuns, AfterFirst, Only
  <2>4. ASSUME c \in Sse PROVE ResponseInv(c)'
    BY <1>0, <2>0, <2>4 DEF ResponseInv, CauseInv, TaskInv, SlotInv, CloseCode,
       ReceiverRuns, AfterFirst, Only
  <2>5. ASSUME c \in Ws PROVE CodeInv(c)'
    BY <1>0, <2>0, <2>5 DEF CodeInv, CauseInv, TaskInv, SlotInv, CloseCode, ReceiverRuns,
       AfterFirst, Only
  <2> QED BY <2>1, <2>2, <2>3, <2>4, <2>5 DEF ConnInv
<1>7. ASSUME BothDone(c) PROVE ConnInv(c)'
  <2>0. /\ conn[c].handler = "stopping" /\ conn[c].sender # "running" /\ ~ ReceiverRuns(c)
        /\ UNCHANGED bus
        /\ \/ /\ conn[c].close = "none" /\ conn'[c].handler = "ended"
              /\ conn'[c].reason = "client_disconnect"
           \/ /\ conn[c].close # "none" /\ conn'[c].handler = "closing"
              /\ conn'[c].reason = conn[c].reason
        /\ Only(conn[c], conn'[c], {"handler", "reason"})
    <3>1. CASE conn[c].close = "none"
      BY <1>7, <3>1, BothDoneWrites DEF AfterEnd, Only
    <3>2. CASE conn[c].close # "none"
      BY <1>7, <3>2 DEF BothDone, Only
    <3> QED BY <3>1, <3>2
  <2>1. SourceInv(c)'
    BY <1>0, <2>0 DEF SourceInv, Only
  <2>2. TaskInv(c)'
    BY <1>0, <2>0 DEF TaskInv, SlotInv, Only, ReceiverRuns
  <2>3. CauseInv(c)'
    BY <1>0, <2>0 DEF CauseInv, Only
  <2>4. c \in Ws
    BY <2>0 DEF SlotInv, Conns
  <2>5. CodeInv(c)'
    BY <1>0, <2>0, <2>4 DEF CodeInv, SlotInv, Only
  <2> QED BY <2>1, <2>2, <2>3, <2>4, <2>5 DEF ConnInv
<1>8. ASSUME SocketClosed(c) PROVE ConnInv(c)'
  <2>0. PICK reason \in {conn[c].close, "error"} :
          /\ conn[c].handler = "closing" /\ (reason = "error" => conn[c].gone)
          /\ UNCHANGED bus /\ AfterEnd(conn[c], conn'[c], reason)
    BY <1>8, SocketClosedWrites
  <2>1. SourceInv(c)'
    BY <1>0, <2>0 DEF SourceInv, AfterEnd, Only
  <2>2. TaskInv(c)'
    BY <1>0, <2>0 DEF TaskInv, SlotInv, AfterEnd, Only
  <2>3. CauseInv(c)'
    BY <1>0, <2>0 DEF CauseInv, AfterEnd, Only
  <2>4. ASSUME c \in Sse PROVE ResponseInv(c)'
    BY <1>0, <2>0, <2>4 DEF ResponseInv, CauseInv, TaskInv, SlotInv, AfterEnd, Only
  <2>5. ASSUME c \in Ws PROVE CodeInv(c)'
    BY <1>0, <2>0, <2>5 DEF CodeInv, CauseInv, TaskInv, SlotInv, AfterEnd, Only
  <2> QED BY <2>1, <2>2, <2>3, <2>4, <2>5 DEF ConnInv
<1> QED BY <1>1, <1>2, <1>3, <1>4, <1>5, <1>6, <1>7, <1>8

\* What with_heartbeat() may end for: a deadline that has passed, the end of
\* the subscription, or a cancellation, which a client that left causes or the
\* handler of a WebSocket.
Justified(c, why) ==
    /\ why \in {"deadline", "bus", "cut"}
    /\ why = "deadline" => DeadlinePassed(c)
    /\ why = "cut" => conn[c].gone \/ (c \in Ws /\ conn[c].handler # "waiting")

\* Closing the source ends the body or the sender.
LEMMA ClosedWhole ==
    ASSUME StreamsAssumption, TypeOK, SlotInv, NEW c \in Conns, ConnInv(c),
           conn[c].at \in {"wait", "send", "closing"},
           NEW why, Justified(c, why), SourceClosed(c, why)
    PROVE  ConnInv(c)'
<1> USE DEF StreamsAssumption, TypeOK, States, Places, Codes, Reasons, Runs, Framing,
            Justified, DeadlinePassed
<1>0. SourceInv(c) /\ TaskInv(c) /\ CauseInv(c)
      /\ (c \in Sse => ResponseInv(c)) /\ (c \in Ws => CodeInv(c))
  BY DEF ConnInv
<1>1. open' = open \ {c}
  BY DEF SourceClosed, Bus!End
<1>2. CASE c \in Sse /\ EndBody(c, why)
  <2>0. AfterBody(conn[c], conn'[c], why)
    BY <1>2, EndBodyWrites DEF Causes
  <2>1. SourceInv(c)'
    BY <1>0, <1>1, <2>0 DEF SourceInv, AfterBody, Only
  <2>2. TaskInv(c)' /\ CauseInv(c)'
    BY <1>0, <1>2, <2>0 DEF TaskInv, CauseInv, AfterBody, Only
  <2>3. ResponseInv(c)'
    BY <1>0, <1>2, <2>0 DEF ResponseInv, AfterBody, Only
  <2> QED BY <1>2, <2>1, <2>2, <2>3 DEF ConnInv
<1>3. CASE c \in Ws /\ EndSender(c, why)
  <2>0. AfterSender(conn[c], conn'[c], why)
    BY <1>3, EndSenderWrites DEF Causes
  <2>1. SourceInv(c)'
    BY <1>0, <1>1, <2>0 DEF SourceInv, AfterSender, Only
  <2>2. TaskInv(c)' /\ CauseInv(c)'
    BY <1>0, <1>3, <2>0 DEF TaskInv, CauseInv, AfterSender, Only
  <2>3. CodeInv(c)'
    BY <1>0, <1>3, <2>0 DEF CodeInv, TaskInv, AfterSender, Only
  <2> QED BY <1>3, <2>1, <2>2, <2>3 DEF ConnInv
<1> QED BY <1>2, <1>3 DEF SourceClosed

\* The finally of with_heartbeat() closes the source, or stops to await the
\* __anext__ it cancelled.
LEMMA FinallyWhole ==
    ASSUME StreamsAssumption, TypeOK, SlotInv, NEW c \in Conns, ConnInv(c),
           conn[c].at \in {"wait", "send"},
           NEW why, Justified(c, why), Finally(c, why)
    PROVE  ConnInv(c)'
<1> USE DEF StreamsAssumption, TypeOK, States, Places, Codes, Reasons, Runs, Framing,
            Justified, DeadlinePassed, bus
<1>0. SourceInv(c) /\ TaskInv(c) /\ CauseInv(c)
      /\ (c \in Sse => ResponseInv(c)) /\ (c \in Ws => CodeInv(c))
  BY DEF ConnInv
<1>1. CASE conn[c].pending = "running"
  <2>0. UNCHANGED bus /\ AfterCancel(conn[c], conn'[c], why)
    BY <1>1, FinallyWrites DEF Causes
  <2>1. SourceInv(c)'
    BY <1>0, <1>1, <2>0 DEF SourceInv, AfterCancel, Only
  <2>2. TaskInv(c)' /\ CauseInv(c)'
    BY <1>0, <2>0 DEF TaskInv, CauseInv, AfterCancel, Only
  <2>3. ASSUME c \in Sse PROVE ResponseInv(c)'
    BY <1>0, <2>0, <2>3 DEF ResponseInv, AfterCancel, Only
  <2>4. ASSUME c \in Ws PROVE CodeInv(c)'
    BY <1>0, <2>0, <2>4 DEF CodeInv, TaskInv, AfterCancel, Only
  <2> QED BY <2>1, <2>2, <2>3, <2>4 DEF ConnInv
<1>2. CASE conn[c].pending # "running"
  BY <1>2, ClosedWhole DEF Finally
<1> QED BY <1>1, <1>2

\* The ways into that finally, and out of its await.
LEMMA EndsWhole ==
    ASSUME StreamsAssumption, TypeOK, SlotInv, NEW c \in Conns, ConnInv(c)
    PROVE  /\ SendDone(c) => ConnInv(c)'
           /\ SkipItem(c) => ConnInv(c)'
           /\ TakeEnd(c) => ConnInv(c)'
           /\ TimeOut(c) => ConnInv(c)'
           /\ FinishClosing(c) => ConnInv(c)'
           /\ SenderCancelled(c) => ConnInv(c)'
           /\ Disconnected(c) => ConnInv(c)'
<1> USE DEF StreamsAssumption, TypeOK, States, Places, Codes, Reasons, Undisturbed,
            Waiting, Runs, Framing
<1>0. SourceInv(c) /\ TaskInv(c) /\ CauseInv(c)
      /\ (c \in Sse => ResponseInv(c)) /\ (c \in Ws => CodeInv(c))
  BY DEF ConnInv
<1>1. ASSUME SendDone(c) PROVE ConnInv(c)'
  <2>1. CASE DeadlinePassed(c)
    BY <1>1, <2>1, FinallyWhole DEF SendDone, LoopTop, Justified
  <2>2. CASE ~ DeadlinePassed(c)
    <3>0. UNCHANGED bus /\ conn[c].at = "send" /\ AfterTop(conn[c], conn'[c])
      BY <1>1, <2>2, SendDoneWrites
    <3>1. SourceInv(c)'
      BY <1>0, <1>1, <3>0 DEF SourceInv, AfterTop, Only, bus
    <3>2. TaskInv(c)' /\ CauseInv(c)'
      BY <1>0, <2>2, <3>0 DEF TaskInv, CauseInv, AfterTop, Only, DeadlinePassed
    <3>3. ASSUME c \in Sse PROVE ResponseInv(c)'
      BY <1>0, <3>0, <3>3 DEF ResponseInv, AfterTop, Only
    <3>4. ASSUME c \in Ws PROVE CodeInv(c)'
      BY <1>0, <3>0, <3>4 DEF CodeInv, TaskInv, AfterTop, Only
    <3> QED BY <3>1, <3>2, <3>3, <3>4 DEF ConnInv
  <2> QED BY <2>1, <2>2
<1>2. ASSUME SkipItem(c) PROVE ConnInv(c)'
  <2>1. CASE DeadlinePassed(c)
    BY <1>2, <2>1, ClosedWhole DEF SkipItem, Justified
  <2>2. CASE ~ DeadlinePassed(c)
    <3>0. UNCHANGED bus /\ conn[c].at = "wait" /\ AfterSkip(conn[c], conn'[c])
      BY <1>2, <2>2, SkipItemWrites
    <3>1. SourceInv(c)'
      BY <1>0, <1>2, <3>0 DEF SourceInv, AfterSkip, Only, bus, SkipItem
    <3>2. TaskInv(c)' /\ CauseInv(c)'
      BY <1>0, <2>2, <3>0 DEF TaskInv, CauseInv, AfterSkip, Only, DeadlinePassed
    <3>3. ASSUME c \in Sse PROVE ResponseInv(c)'
      BY <1>0, <3>0, <3>3 DEF ResponseInv, AfterSkip, Only
    <3>4. ASSUME c \in Ws PROVE CodeInv(c)'
      BY <1>0, <3>0, <3>4 DEF CodeInv, TaskInv, AfterSkip, Only
    <3> QED BY <3>1, <3>2, <3>3, <3>4 DEF ConnInv
  <2> QED BY <2>1, <2>2
<1>3. ASSUME TakeEnd(c) PROVE ConnInv(c)'
  BY <1>3, FinallyWhole DEF TakeEnd, Justified
<1>4. ASSUME TimeOut(c) PROVE ConnInv(c)'
  BY <1>4, FinallyWhole DEF TimeOut, Justified
<1>5. ASSUME FinishClosing(c) PROVE ConnInv(c)'
  <2>1. conn[c].at = "closing" /\ SourceClosed(c, conn[c].cause)
    BY <1>5 DEF FinishClosing
  <2>2. Justified(c, conn[c].cause)
    <3>1. conn[c].cause \in {"deadline", "bus", "cut"}
      BY <1>0, <2>1 DEF CauseInv
    <3>2. conn[c].cause = "deadline" => DeadlinePassed(c)
      BY <1>0 DEF CauseInv, DeadlinePassed
    <3>3. conn[c].cause = "cut" => conn[c].gone \/ (c \in Ws /\ conn[c].handler # "waiting")
      <4>1. ASSUME c \in Sse, conn[c].cause = "cut" PROVE conn[c].gone
        BY <1>0, <4>1 DEF ResponseInv
      <4>2. ASSUME c \in Ws, conn[c].cause = "cut", conn[c].handler = "waiting"
            PROVE  conn[c].gone
        BY <1>0, <4>2 DEF CodeInv
      <4> QED BY <4>1, <4>2 DEF Conns
    <3> QED BY <3>1, <3>2, <3>3 DEF Justified
  <2> QED BY <2>1, <2>2, ClosedWhole
<1>6. ASSUME SenderCancelled(c) PROVE ConnInv(c)'
  <2>1. c \in Ws
    BY <1>6, <1>0 DEF SenderCancelled, SlotInv, Conns
  <2>2. CASE conn[c].at = "wait"
    <3>1. Finally(c, "cut") /\ Justified(c, "cut")
      BY <1>6, <2>1, <2>2 DEF SenderCancelled, Justified
    <3> QED BY <2>2, <3>1, FinallyWhole
  <2>3. CASE conn[c].at \in {"lock", "send"}
    <3>0. /\ conn[c].handler = "stopping" /\ UNCHANGED <<active, bus>>
          /\ AfterCut(conn[c], conn'[c])
      BY <1>6, <2>3, SenderCancelledWrites
    <3>1. SourceInv(c)'
      BY <1>0, <2>3, <3>0 DEF SourceInv, AfterCut, Only, bus
    <3>2. TaskInv(c)' /\ CauseInv(c)'
      BY <1>0, <2>1, <2>3, <3>0 DEF TaskInv, CauseInv, AfterCut, Only
    <3>3. CodeInv(c)'
      BY <1>0, <2>1, <2>3, <3>0 DEF CodeInv, TaskInv, AfterCut, Only
    <3> QED BY <2>1, <3>1, <3>2, <3>3 DEF ConnInv
  <2> QED BY <1>6, <2>2, <2>3 DEF SenderCancelled
<1>7. ASSUME Disconnected(c) PROVE ConnInv(c)'
  <2>1. c \in Sse /\ conn[c].gone
    BY <1>7 DEF Disconnected
  <2>2. CASE conn[c].at = "wait"
    <3>1. Finally(c, "cut")
      BY <1>7, <2>2 DEF Disconnected, TailDone
    <3>2. Justified(c, "cut")
      BY <2>1 DEF Justified
    <3> QED BY <2>2, <3>1, <3>2, FinallyWhole
  <2>3. CASE conn[c].at = "tail"
    BY <1>7, <2>3, ResponseWhole DEF Disconnected
  <2>4. CASE conn[c].at = "closing"
    <3>1. SourceInv(c)'
      BY <1>0, <1>7, <2>4 DEF SourceInv, Disconnected, TailDone, bus
    <3>2. TaskInv(c)' /\ CauseInv(c)'
      BY <1>0, <1>7, <2>1, <2>4 DEF TaskInv, CauseInv, Disconnected, TailDone
    <3>3. ResponseInv(c)'
      BY <1>0, <1>7, <2>1, <2>4 DEF ResponseInv, Disconnected, TailDone
    <3> QED BY <2>1, <3>1, <3>2, <3>3 DEF ConnInv
  <2>5. CASE conn[c].at \in {"head", "send"}
    <3>0. UNCHANGED bus /\ AfterDisconnect(conn[c], conn'[c])
      BY <1>7, <2>5, DisconnectedWrites
    <3>1. SourceInv(c)'
      BY <1>0, <2>5, <3>0 DEF SourceInv, AfterDisconnect, Only, bus
    <3>2. TaskInv(c)' /\ CauseInv(c)'
      BY <1>0, <2>1, <2>5, <3>0 DEF TaskInv, CauseInv, AfterDisconnect, Only
    <3>3. ResponseInv(c)'
      BY <1>0, <2>1, <2>5, <3>0 DEF ResponseInv, AfterDisconnect, Only
    <3> QED BY <2>1, <3>1, <3>2, <3>3 DEF ConnInv
  <2> QED BY <1>7, <2>2, <2>3, <2>4, <2>5 DEF Disconnected, TailDone
<1> QED BY <1>1, <1>2, <1>3, <1>4, <1>5, <1>6, <1>7

\* The receiver works under the same lock, and stops for a client that left,
\* for a message it refuses, or for one that it cannot read.
LEMMA ReceiverWhole ==
    ASSUME StreamsAssumption, TypeOK, SlotInv, NEW c \in Conns, ConnInv(c), Receiver(c)
    PROVE  ConnInv(c)'
<1> USE DEF StreamsAssumption, TypeOK, States, Places, Codes, Reasons, Undisturbed,
            Runs, Framing, bus
<1>0. SourceInv(c) /\ TaskInv(c) /\ CauseInv(c)
      /\ (c \in Sse => ResponseInv(c)) /\ (c \in Ws => CodeInv(c))
  BY DEF ConnInv
<1> DEFINE Points == {"receive", "lock", "send", "left", "rate_limited",
                       "message_too_large", "raised", "cut"}
<1>1. PICK from \in Runs, to \in Points :
         /\ Listen(c, from, to)
         /\ to \in {"left", "cut"} => conn[c].gone
         /\ to = "send" => conn[c].at # "send"
  BY DEF Receiver, ReceiveDisconnect, ReceiveTooBig, ReceiveTooFast, ReceiveMessage,
         ReceiveRaises, ReceiverLocks, ReplyDone, ReplyFails
<1>2. c \in Ws /\ conn[c].handler = "waiting"
  BY <1>0, <1>1 DEF Listen, TaskInv, Conns
<1>3. SourceInv(c)'
  BY <1>0, <1>1 DEF SourceInv, Listen
<1>4. TaskInv(c)' /\ CauseInv(c)'
  BY <1>0, <1>1, <1>2 DEF TaskInv, CauseInv, Listen
<1>5. CodeInv(c)'
  BY <1>0, <1>1, <1>2 DEF CodeInv, Listen
<1> QED BY <1>2, <1>3, <1>4, <1>5 DEF ConnInv

\* What a step of a connection may ask of the bus.
Uses(c) ==
    \/ \E p \in {0} \cup Ids : Bus!Open(c, p)
    \/ \E e \in published : Bus!Deliver(c, e)
    \/ Bus!End({c})
    \/ UNCHANGED bus

\* A connection asks for one thing at a time, and of its own subscription.
LEMMA ConnUses ==
    ASSUME NEW c \in Conns,
           \/ Subscribe(c) \/ NextItem(c) \/ SourceEnds(c) \/ Tick(c)
           \/ Reader(c) \/ SenderLocks(c) \/ SenderFails(c) \/ Receiver(c)
           \/ ReceiverCancelled(c) \/ Handler(c) \/ Collect(c) \/ FinishShutting(c)
           \/ StreamEvents(c) \/ StreamRefused(c) \/ Disconnected(c) \/ WriteFails(c)
           \/ SocketRefused(c) \/ StreamWs(c) \/ Leave(c)
    PROVE  Uses(c)
<1>1. ASSUME NEW why, Finally(c, why) PROVE Bus!End({c}) \/ UNCHANGED bus
  BY <1>1 DEF Finally, SourceClosed
<1>2. CASE Reader(c)
  <2>1. CASE TakeEnd(c) \/ TimeOut(c) \/ SendDone(c) \/ SenderCancelled(c)
    BY <1>1, <2>1 DEF TakeEnd, TimeOut, SendDone, LoopTop, SenderCancelled, Uses
  <2>2. CASE SkipItem(c) \/ FinishClosing(c)
    BY <2>2 DEF SkipItem, FinishClosing, SourceClosed, Uses
  <2>3. CASE HeadDone(c) \/ TakeItem(c) \/ Heartbeat(c) \/ TailDone(c)
    BY <2>3 DEF HeadDone, TakeItem, Heartbeat, TailDone, Uses
  <2> QED BY <1>2, <2>1, <2>2, <2>3 DEF Reader
<1>3. CASE Disconnected(c)
  BY <1>1, <1>3 DEF Disconnected, TailDone, Uses
<1>4. CASE Subscribe(c) \/ NextItem(c) \/ SourceEnds(c) \/ Tick(c)
  <2>1. CASE Subscribe(c)
    BY <2>1 DEF Subscribe, Uses
  <2>2. CASE NextItem(c)
    BY <2>2 DEF NextItem, Uses
  <2>3. CASE SourceEnds(c) \/ Tick(c)
    BY <2>3 DEF SourceEnds, Tick, Uses
  <2> QED BY <1>4, <2>1, <2>2, <2>3
<1>5. CASE Collect(c) \/ FinishShutting(c)
  BY <1>5 DEF Collect, FinishShutting, Uses
<1>6. CASE Receiver(c) \/ ReceiverCancelled(c) \/ Handler(c)
  BY <1>6 DEF Receiver, ReceiveDisconnect, ReceiveTooBig, ReceiveTooFast, ReceiveMessage,
     ReceiveRaises, ReceiverLocks, ReplyDone, ReplyFails, Listen, ReceiverCancelled, Handler, FirstDone,
     BothDone, SocketClosed, Uses
<1>7. CASE \/ SenderLocks(c) \/ SenderFails(c) \/ StreamEvents(c) \/ StreamRefused(c)
           \/ WriteFails(c) \/ SocketRefused(c) \/ StreamWs(c) \/ Leave(c)
  BY <1>7 DEF SenderLocks, SenderBarges, SenderFails, StreamEvents, StreamRefused,
     WriteFails, SocketRefused, StreamWs, Leave, Uses
<1> QED BY <1>2, <1>3, <1>4, <1>5, <1>6, <1>7

\* No step of a connection touches the subscription of another.
LEMMA OpenStep ==
    ASSUME NEW c \in Conns,
           \/ Subscribe(c) \/ NextItem(c) \/ SourceEnds(c) \/ Tick(c)
           \/ Reader(c) \/ SenderLocks(c) \/ SenderFails(c) \/ Receiver(c)
           \/ ReceiverCancelled(c) \/ Handler(c) \/ Collect(c) \/ FinishShutting(c)
           \/ StreamEvents(c) \/ StreamRefused(c) \/ Disconnected(c) \/ WriteFails(c)
           \/ SocketRefused(c) \/ StreamWs(c) \/ Leave(c)
    PROVE  open' \in {open, open \cup {c}, open \ {c}}
BY ConnUses DEF Uses, bus, Bus!Open, Bus!Deliver, Bus!End

\* Every step keeps the connections whole, whether a head can fail or not.
LEMMA WholeStep ==
    ASSUME StreamsAssumption, TypeOK, SlotInv, ConnsWhole, [Next]_vars
    PROVE  ConnsWhole'
<1>1. ASSUME NEW d \in Conns, conn'[d] = conn[d], d \in open' <=> d \in open
      PROVE  ConnInv(d)'
  <2>1. ConnInv(d)
    BY DEF ConnsWhole
  <2> QED BY <1>1, <2>1 DEF ConnInv, SourceInv, TaskInv, CauseInv, ResponseInv, CodeInv
<1>2. ASSUME NEW c \in Conns, Good(c), ConnInv(c)',
             open' \in {open, open \cup {c}, open \ {c}}
      PROVE  ConnsWhole'
  <2> SUFFICES ASSUME NEW d \in Conns PROVE ConnInv(d)'
    BY DEF ConnsWhole
  <2>1. CASE d = c
    BY <1>2, <2>1
  <2>2. CASE d # c
    <3>1. conn'[d] = conn[d]
      BY <1>2, <2>2 DEF Good, Moves, Alone
    <3>2. d \in open' <=> d \in open
      BY <1>2, <2>2
    <3> QED BY <1>1, <3>1, <3>2
  <2> QED BY <2>1, <2>2
<1>3. ASSUME NEW c \in Conns,
             \/ Subscribe(c) \/ NextItem(c) \/ SourceEnds(c) \/ Tick(c)
             \/ Reader(c) \/ SenderLocks(c) \/ SenderFails(c) \/ Receiver(c)
             \/ ReceiverCancelled(c) \/ Handler(c) \/ Collect(c) \/ FinishShutting(c)
             \/ StreamEvents(c) \/ StreamRefused(c) \/ Disconnected(c) \/ WriteFails(c)
             \/ SocketRefused(c) \/ StreamWs(c) \/ Leave(c)
      PROVE  ConnsWhole'
  <2>1. ConnInv(c)
    BY DEF ConnsWhole
  <2>2. Good(c)
    BY <1>3, ConnStep
  <2>3. open' \in {open, open \cup {c}, open \ {c}}
    BY <1>3, OpenStep
  <2>4. CASE Reader(c) \/ Handler(c) \/ Receiver(c)
    BY <2>1, <2>4, LoopWhole, EndsWhole, ResponseWhole, SocketWhole, ReceiverWhole,
       <1>2, <2>2, <2>3 DEF Reader, Handler
  <2>5. CASE \/ Subscribe(c) \/ NextItem(c) \/ SourceEnds(c) \/ Tick(c) \/ Leave(c)
             \/ Collect(c) \/ FinishShutting(c)
    BY <2>1, <2>5, SourceWhole, LoopWhole, OrphanWhole, <1>2, <2>2, <2>3
  <2>6. CASE \/ SenderLocks(c) \/ SenderFails(c) \/ ReceiverCancelled(c)
             \/ StreamEvents(c) \/ StreamRefused(c) \/ Disconnected(c) \/ WriteFails(c)
             \/ SocketRefused(c) \/ StreamWs(c)
    BY <2>1, <2>6, EndsWhole, ResponseWhole, SocketWhole, <1>2, <2>2, <2>3
  <2> QED BY <1>3, <2>4, <2>5, <2>6
<1>4. ASSUME NEW id \in Ids, Publish(id) PROVE ConnsWhole'
  <2>1. UNCHANGED <<conn, open>>
    BY <1>4 DEF Publish, Bus!Publish
  <2> QED BY <1>1, <2>1 DEF ConnsWhole
<1>5. CASE UNCHANGED vars
  BY <1>1, <1>5 DEF vars, ConnsWhole
<1> QED BY <1>3, <1>4, <1>5 DEF Next

\* Initially no connection is open.
LEMMA StartWhole ==
    ASSUME StreamsAssumption, Init
    PROVE  ConnsWhole
<1> SUFFICES ASSUME NEW c \in Conns PROVE ConnInv(c)
  BY DEF ConnsWhole
<1>1. c \notin open /\ conn[c] = Fresh
  BY DEF Init, Bus!Init
<1> QED BY <1>1 DEF ConnInv, SourceInv, TaskInv, CauseInv, ResponseInv, CodeInv,
                    Fresh, Runs, Framing, Places

\* The types, the places and the connections hold together.
LEMMA WholeInvariant ==
    ASSUME StreamsAssumption
    PROVE  Spec => [](TypeOK /\ SlotInv /\ ConnsWhole)
<1>1. Init => TypeOK /\ SlotInv /\ ConnsWhole
  BY Start, StartWhole DEF IInv
<1>2. TypeOK /\ SlotInv /\ ConnsWhole /\ [Next]_vars => (TypeOK /\ SlotInv /\ ConnsWhole)'
  BY TypeStep, WholeStep
<1> QED BY <1>1, <1>2, PTL DEF Spec

\* The sender, the receiver and the handler of a WebSocket never write at the
\* same time: the send lock of stream_ws(), and the handler's wait for both
\* tasks before it closes the socket.
THEOREM WritersExclude ==
    ASSUME StreamsAssumption
    PROVE  Spec => []OneWriter
<1>1. TypeOK /\ SlotInv /\ ConnsWhole => OneWriter
  BY DEF OneWriter, ConnsWhole, ConnInv, TaskInv, Conns, Runs
<1> QED BY <1>1, WholeInvariant, PTL

\* A stream that is over has no subscription and no pending __anext__,
\* whichever way it ended: the finally of with_heartbeat(), at once or when
\* the event loop closes a generator that was left behind.
THEOREM EndedStreamsLeaveNothing ==
    ASSUME StreamsAssumption
    PROVE  Spec => []NothingLeft
<1>1. TypeOK /\ SlotInv /\ ConnsWhole => NothingLeft
  BY DEF NothingLeft, ConnsWhole, ConnInv, SourceInv
<1> QED BY <1>1, WholeInvariant, PTL

\* The reason recorded for a connection, and the close code sent to it, is why
\* it ended: the tasks' results as _pump() and _listen() return them, and the
\* order in which stream_ws() asks them.
THEOREM ReasonsAreTrue ==
    ASSUME StreamsAssumption
    PROVE  Spec => []ReasonIsTrue
<1>1. ASSUME TypeOK, SlotInv, ConnsWhole PROVE ReasonIsTrue
  <2> SUFFICES ASSUME NEW c \in Conns
               PROVE  /\ conn[c].reason = "error" => conn[c].gone
                      /\ conn[c].reason = "client_disconnect" =>
                            conn[c].gone \/ conn[c].receiver = "raised"
                      /\ conn[c].reason = "max_duration" =>
                            conn[c].clock \in {"near", "over"}
                      /\ conn[c].reason = "server_busy" =>
                            conn[c].clock = "off" \/ conn[c].cause = "bus"
                      /\ conn[c].reason = "server_closed" =>
                            conn[c].cause \in {"deadline", "bus"}
                      /\ (conn[c].handler = "ended" /\ conn[c].cause = "deadline") =>
                            conn[c].reason # "server_busy"
    BY DEF ReasonIsTrue
  <2>1. TaskInv(c) /\ (c \in Sse => ResponseInv(c)) /\ (c \in Ws => CodeInv(c))
    BY <1>1 DEF ConnsWhole, ConnInv
  <2>2. CASE c \in Sse
    BY <2>1, <2>2 DEF ResponseInv
  <2>3. CASE c \in Ws
    <3>1. conn[c].handler \in {"off", "waiting", "stopping", "closing", "ended"}
      BY <1>1 DEF TypeOK, States
    <3> QED BY <2>1, <2>3, <3>1 DEF CodeInv
  <2> QED BY <2>2, <2>3 DEF Conns
<1> QED BY <1>1, WholeInvariant, PTL

-----------------------------------------------------------------------------
(* The use the endpoints make of the bus.  They open, read and close; a      *)
(* source is closed on every way out, also one that never was subscribed,    *)
(* and that must be nothing to the bus.                                      *)

\* Who is not subscribed has no position in the log.
PositionInv ==
    /\ position \in [Conns -> Nat]
    /\ \A c \in Conns \ open : position[c] = 0

\* Such a use is a step of the contract, where closing what is not open is
\* none at all.
LEMMA UsesKeepContract ==
    ASSUME StreamsAssumption, TypeOK, PositionInv, NEW c \in Conns, Uses(c)
    PROVE  PositionInv' /\ [Bus!Next]_(Bus!vars)
<1>1. CASE \E p \in {0} \cup Ids : Bus!Open(c, p)
  <2>1. PICK p \in {0} \cup Ids : Bus!Open(c, p)
    BY <1>1
  <2>2. p \in Nat
    BY DEF StreamsAssumption
  <2>3. PositionInv'
    BY <2>1, <2>2 DEF Bus!Open, PositionInv
  <2> QED BY <2>1, <2>3 DEF Bus!Next
<1>2. CASE \E e \in published : Bus!Deliver(c, e)
  <2>1. PICK e \in published : Bus!Deliver(c, e)
    BY <1>2
  <2>2. e[1] \in Nat
    BY DEF StreamsAssumption, TypeOK
  <2>3. PositionInv'
    BY <2>1, <2>2 DEF Bus!Deliver, PositionInv
  <2> QED BY <2>1, <2>3 DEF Bus!Next
<1>3. CASE Bus!End({c}) /\ c \in open
  <2>1. PositionInv'
    BY <1>3 DEF Bus!End, PositionInv
  <2>2. {c} \in SUBSET open
    BY <1>3
  <2> QED BY <1>3, <2>1, <2>2 DEF Bus!Next
<1>4. CASE Bus!End({c}) /\ c \notin open
  <2>1. open' = open
    BY <1>4 DEF Bus!End
  <2>2. position' = position
    BY <1>4 DEF Bus!End, PositionInv
  <2>3. UNCHANGED Bus!vars
    BY <1>4, <2>1, <2>2 DEF Bus!End, Bus!vars
  <2> QED BY <2>1, <2>2, <2>3 DEF PositionInv
<1>5. CASE UNCHANGED bus
  BY <1>5 DEF bus, Bus!vars, PositionInv
<1> QED BY <1>1, <1>2, <1>3, <1>4, <1>5 DEF Uses

\* So is each step of the endpoints.
LEMMA ContractStep ==
    ASSUME StreamsAssumption, TypeOK, PositionInv, [Next]_vars
    PROVE  PositionInv' /\ [Bus!Next]_(Bus!vars)
<1>1. ASSUME NEW id \in Ids, Publish(id)
      PROVE  PositionInv' /\ [Bus!Next]_(Bus!vars)
  <2>1. Bus!Publish(id, Topic)
    BY <1>1 DEF Publish
  <2>2. UNCHANGED <<open, position>>
    BY <2>1 DEF Bus!Publish
  <2>3. Bus!Next
    BY <2>1 DEF Bus!Next
  <2>4. PositionInv'
    BY <2>2 DEF PositionInv
  <2> QED BY <2>3, <2>4
<1>2. ASSUME NEW c \in Conns,
             \/ Subscribe(c) \/ NextItem(c) \/ SourceEnds(c) \/ Tick(c)
             \/ Reader(c) \/ SenderLocks(c) \/ SenderFails(c) \/ Receiver(c)
             \/ ReceiverCancelled(c) \/ Handler(c) \/ Collect(c) \/ FinishShutting(c)
             \/ StreamEvents(c) \/ StreamRefused(c) \/ Disconnected(c) \/ WriteFails(c)
             \/ SocketRefused(c) \/ StreamWs(c) \/ Leave(c)
      PROVE  PositionInv' /\ [Bus!Next]_(Bus!vars)
  <2>1. Uses(c)
    BY <1>2, ConnUses
  <2> QED BY <2>1, UsesKeepContract
<1>3. CASE UNCHANGED vars
  BY <1>3 DEF vars, Bus!vars, PositionInv
<1> QED BY <1>1, <1>2, <1>3 DEF Next

\* At first nobody is subscribed.
LEMMA ContractStart == Init => Bus!Init /\ PositionInv
BY DEF Init, Bus!Init, PositionInv

\* The endpoints and what they subscribe to are a run of the contract that
\* both buses implement: with_heartbeat() opens a subscription once, reads from
\* one that is open, and closes it, on whichever way the stream ends.
THEOREM EndpointsKeepContract ==
    ASSUME StreamsAssumption
    PROVE  Spec => Bus!Spec
<1>1. TypeOK /\ PositionInv /\ [Next]_vars => PositionInv' /\ [Bus!Next]_(Bus!vars)
  BY ContractStep
<1> QED BY <1>1, ContractStart, StreamTypes, PTL DEF Spec, Bus!Spec

-----------------------------------------------------------------------------
(* What a client is served.  A stream's position in the log is the last      *)
(* event that its subscription yielded; between two steps of the reader that *)
(* event is the result of the pending __anext__, or has been seen to.        *)

\* The result of a pending __anext__ is the event at the stream's position.
ItemInv(c) ==
    conn[c].pending = "item" => c \in open /\ conn[c].item = position[c]

\* The end of the source drops the item; the finally may first wait for it.
LEMMA ItemDropped ==
    ASSUME StreamsAssumption, TypeOK, NEW c \in Conns, NEW why \in Causes
    PROVE  /\ SourceClosed(c, why) => conn'[c].pending # "item"
           /\ Finally(c, why) => conn'[c].pending # "item"
<1>1. ASSUME SourceClosed(c, why) PROVE conn'[c].pending = "none"
  <2>1. CASE EndBody(c, why)
    BY <2>1, EndBodyWrites DEF AfterBody
  <2>2. CASE EndSender(c, why)
    BY <2>2, EndSenderWrites DEF AfterSender
  <2> QED BY <1>1, <2>1, <2>2 DEF SourceClosed
<1>2. ASSUME Finally(c, why), conn[c].pending = "running"
      PROVE  conn'[c].pending = "cancelled"
  BY <1>2, FinallyWrites DEF AfterCancel
<1>3. ASSUME Finally(c, why), conn[c].pending # "running"
      PROVE  SourceClosed(c, why)
  BY <1>3 DEF Finally
<1> QED BY <1>1, <1>2, <1>3

\* The steps of the source, and of the reader within its loop.
LEMMA ItemLoop ==
    ASSUME StreamsAssumption, TypeOK, PositionInv, NEW c \in Conns, ItemInv(c)
    PROVE  /\ Subscribe(c) => ItemInv(c)'
           /\ NextItem(c) => ItemInv(c)'
           /\ SourceEnds(c) => ItemInv(c)'
           /\ TakeItem(c) => ItemInv(c)'
           /\ SkipItem(c) => ItemInv(c)'
           /\ TakeEnd(c) => ItemInv(c)'
           /\ TimeOut(c) => ItemInv(c)'
           /\ SendDone(c) => ItemInv(c)'
           /\ FinishClosing(c) => ItemInv(c)'
<1>1. ASSUME Subscribe(c) PROVE ItemInv(c)'
  BY <1>1 DEF Subscribe, ItemInv
<1>2. ASSUME NextItem(c) PROVE ItemInv(c)'
  <2>1. PICK e \in published :
          Bus!Deliver(c, e) /\ AfterNextItem(conn[c], conn'[c], e[1])
    BY <1>2, NextItemWrites
  <2>2. c \in open' /\ position'[c] = e[1]
    BY <2>1 DEF Bus!Deliver, PositionInv
  <2> QED BY <2>1, <2>2 DEF AfterNextItem, ItemInv
<1>3. ASSUME SourceEnds(c) PROVE ItemInv(c)'
  <2>1. conn'[c].pending = "ended"
    BY <1>3 DEF SourceEnds, TypeOK, States
  <2> QED BY <2>1 DEF ItemInv
<1>4. ASSUME TakeItem(c) PROVE ItemInv(c)'
  BY <1>4, TakeItemWrites DEF AfterTake, ItemInv
<1>5. ASSUME SkipItem(c) PROVE ItemInv(c)'
  <2>1. CASE DeadlinePassed(c)
    BY <1>5, <2>1, ItemDropped DEF SkipItem, ItemInv, Causes
  <2>2. CASE ~ DeadlinePassed(c)
    BY <1>5, <2>2, SkipItemWrites DEF AfterSkip, ItemInv
  <2> QED BY <2>1, <2>2
<1>6. ASSUME TakeEnd(c) PROVE ItemInv(c)'
  BY <1>6, ItemDropped DEF TakeEnd, ItemInv, Causes
<1>7. ASSUME TimeOut(c) PROVE ItemInv(c)'
  BY <1>7, ItemDropped DEF TimeOut, ItemInv, Causes
<1>8. ASSUME SendDone(c) PROVE ItemInv(c)'
  <2>1. CASE DeadlinePassed(c)
    BY <1>8, <2>1, ItemDropped DEF SendDone, LoopTop, ItemInv, Causes
  <2>2. CASE ~ DeadlinePassed(c)
    <3>1. UNCHANGED bus /\ AfterTop(conn[c], conn'[c])
      BY <1>8, <2>2, SendDoneWrites
    <3> QED BY <3>1 DEF AfterTop, Only, ItemInv, bus
  <2> QED BY <2>1, <2>2
<1>9. ASSUME FinishClosing(c) PROVE ItemInv(c)'
  <2>1. conn[c].cause \in Causes
    BY DEF TypeOK, States, Causes
  <2> QED BY <1>9, <2>1, ItemDropped DEF FinishClosing, ItemInv
<1> QED BY <1>1, <1>2, <1>3, <1>4, <1>5, <1>6, <1>7, <1>8, <1>9

\* The same item, or none.
Holds(c) ==
    /\ UNCHANGED <<open, position>>
    /\ conn'[c].pending = "item" =>
          conn[c].pending = "item" /\ conn'[c].item = conn[c].item

\* The other steps of a connection leave the item alone.
LEMMA ItemStays ==
    ASSUME StreamsAssumption, TypeOK, NEW c \in Conns
    PROVE  /\ Tick(c) => Holds(c)
           /\ HeadDone(c) => Holds(c)
           /\ Heartbeat(c) => Holds(c)
           /\ TailDone(c) => Holds(c)
           /\ SenderLocks(c) => Holds(c)
           /\ SenderFails(c) => Holds(c)
           /\ Receiver(c) => Holds(c)
           /\ ReceiverCancelled(c) => Holds(c)
           /\ FirstDone(c) => Holds(c)
           /\ BothDone(c) => Holds(c)
           /\ SocketClosed(c) => Holds(c)
           /\ StreamEvents(c) => Holds(c)
           /\ StreamRefused(c) => Holds(c)
           /\ WriteFails(c) => Holds(c)
           /\ SocketRefused(c) => Holds(c)
           /\ StreamWs(c) => Holds(c)
           /\ Leave(c) => Holds(c)
<1> USE DEF bus, Holds
<1>1. ASSUME Tick(c) PROVE Holds(c)
  BY <1>1 DEF Tick, TypeOK, States
<1>2. ASSUME HeadDone(c) PROVE Holds(c)
  BY <1>2 DEF HeadDone, TypeOK, States
<1>3. ASSUME Heartbeat(c) PROVE Holds(c)
  BY <1>3 DEF Heartbeat, TypeOK, States
<1>4. ASSUME TailDone(c) PROVE Holds(c)
  BY <1>4, TailDoneWrites DEF AfterTail, Only
<1>5. ASSUME SenderLocks(c) PROVE Holds(c)
  BY <1>5 DEF SenderLocks, SenderBarges, TypeOK, States
<1>6. ASSUME SenderFails(c) PROVE Holds(c)
  BY <1>6, SenderFailsWrites DEF AfterCut, Only
<1>7. ASSUME Receiver(c) PROVE Holds(c)
  <2>1. ASSUME NEW from, NEW to, Listen(c, from, to) PROVE Holds(c)
    BY <2>1 DEF Listen, TypeOK, States
  <2> QED BY <1>7, <2>1 DEF Receiver, ReceiveDisconnect, ReceiveTooBig, ReceiveTooFast,
        ReceiveMessage, ReceiveRaises, ReceiverLocks, ReplyDone, ReplyFails
<1>8. ASSUME ReceiverCancelled(c) PROVE Holds(c)
  BY <1>8 DEF ReceiverCancelled, TypeOK, States
<1>9. ASSUME FirstDone(c) PROVE Holds(c)
  BY <1>9, FirstDoneWrites DEF AfterFirst, Only
<1>10. ASSUME BothDone(c) PROVE Holds(c)
  <2>1. CASE conn[c].close = "none"
    BY <1>10, <2>1, BothDoneWrites DEF AfterEnd, Only
  <2>2. CASE conn[c].close # "none"
    BY <1>10, <2>2 DEF BothDone, TypeOK, States
  <2> QED BY <2>1, <2>2
<1>11. ASSUME SocketClosed(c) PROVE Holds(c)
  BY <1>11, SocketClosedWrites DEF AfterEnd, Only
<1>12. ASSUME StreamEvents(c) PROVE Holds(c)
  BY <1>12 DEF StreamEvents, TypeOK, States
<1>13. ASSUME StreamRefused(c) PROVE Holds(c)
  BY <1>13 DEF StreamRefused, TypeOK, States
<1>14. ASSUME WriteFails(c) PROVE Holds(c)
  BY <1>14, WriteFailsWrites DEF AfterFailure, Only
<1>15. ASSUME SocketRefused(c) PROVE Holds(c)
  BY <1>15, SocketRefusedWrites DEF AfterRefusal, Only
<1>16. ASSUME StreamWs(c) PROVE Holds(c)
  BY <1>16, StreamWsWrites DEF AfterAccept
<1>17. ASSUME Leave(c) PROVE Holds(c)
  BY <1>17 DEF Leave, TypeOK, States
<1> QED BY <1>1, <1>2, <1>3, <1>4, <1>5, <1>6, <1>7, <1>8, <1>9, <1>10, <1>11, <1>12,
           <1>13, <1>14, <1>15, <1>16, <1>17

\* Whatever way a stream ends, its item goes before its subscription does.
LEMMA ItemEnds ==
    ASSUME StreamsAssumption, TypeOK, NEW c \in Conns, ItemInv(c)
    PROVE  /\ SenderCancelled(c) => ItemInv(c)'
           /\ Disconnected(c) => ItemInv(c)'
           /\ Collect(c) => ItemInv(c)'
           /\ FinishShutting(c) => ItemInv(c)'
<1>1. ASSUME SenderCancelled(c) PROVE ItemInv(c)'
  <2>1. CASE conn[c].at \in {"lock", "send"}
    BY <1>1, <2>1, SenderCancelledWrites DEF AfterCut, Only, ItemInv, bus
  <2>2. CASE conn[c].at = "wait" /\ Finally(c, "cut")
    BY <2>2, ItemDropped DEF ItemInv, Causes
  <2> QED BY <1>1, <2>1, <2>2 DEF SenderCancelled
<1>2. ASSUME Disconnected(c) PROVE ItemInv(c)'
  <2>1. CASE conn[c].at \in {"head", "send"}
    BY <1>2, <2>1, DisconnectedWrites DEF AfterDisconnect, Only, ItemInv, bus
  <2>2. CASE conn[c].at = "wait" /\ Finally(c, "cut")
    BY <2>2, ItemDropped DEF ItemInv, Causes
  <2>3. CASE conn' = [conn EXCEPT ![c].cause = "cut"] /\ UNCHANGED <<active, bus>>
    BY <2>3 DEF ItemInv, TypeOK, States, bus
  <2>4. CASE TailDone(c)
    BY <2>4, ItemStays DEF Holds, ItemInv
  <2> QED BY <1>2, <2>1, <2>2, <2>3, <2>4 DEF Disconnected
<1>3. ASSUME Collect(c) PROVE ItemInv(c)'
  <2>1. CASE conn[c].pending = "running"
    BY <1>3, <2>1, CollectAwaits DEF AfterExit, ItemInv
  <2>2. CASE conn[c].pending # "running"
    BY <1>3, <2>2, CollectCloses DEF AfterCollect, ItemInv
  <2> QED BY <2>1, <2>2
<1>4. ASSUME FinishShutting(c) PROVE ItemInv(c)'
  BY <1>4, FinishShuttingWrites DEF AfterShutting, ItemInv
<1> QED BY <1>1, <1>2, <1>3, <1>4

\* A step of a connection keeps what is known of its item.
LEMMA ItemStep ==
    ASSUME StreamsAssumption, TypeOK, PositionInv, NEW c \in Conns, ItemInv(c),
           \/ Subscribe(c) \/ NextItem(c) \/ SourceEnds(c) \/ Tick(c)
           \/ Reader(c) \/ SenderLocks(c) \/ SenderFails(c) \/ Receiver(c)
           \/ ReceiverCancelled(c) \/ Handler(c) \/ Collect(c) \/ FinishShutting(c)
           \/ StreamEvents(c) \/ StreamRefused(c) \/ Disconnected(c) \/ WriteFails(c)
           \/ SocketRefused(c) \/ StreamWs(c) \/ Leave(c)
    PROVE  ItemInv(c)'
<1>1. ASSUME Holds(c) PROVE ItemInv(c)'
  BY <1>1 DEF Holds, ItemInv
<1>2. CASE Reader(c)
  <2>1. CASE \/ TakeItem(c) \/ SkipItem(c) \/ TakeEnd(c) \/ TimeOut(c)
             \/ SendDone(c) \/ FinishClosing(c)
    BY <2>1, ItemLoop
  <2>2. CASE HeadDone(c) \/ Heartbeat(c) \/ TailDone(c)
    BY <1>1, <2>2, ItemStays
  <2>3. CASE SenderCancelled(c)
    BY <2>3, ItemEnds
  <2> QED BY <1>2, <2>1, <2>2, <2>3 DEF Reader
<1>3. CASE Subscribe(c) \/ NextItem(c) \/ SourceEnds(c)
  BY <1>3, ItemLoop
<1>4. CASE Collect(c) \/ FinishShutting(c) \/ Disconnected(c)
  BY <1>4, ItemEnds
<1>5. CASE \/ Tick(c) \/ SenderLocks(c) \/ SenderFails(c) \/ Receiver(c)
           \/ ReceiverCancelled(c) \/ Handler(c) \/ StreamEvents(c) \/ StreamRefused(c)
           \/ WriteFails(c) \/ SocketRefused(c) \/ StreamWs(c) \/ Leave(c)
  BY <1>1, <1>5, ItemStays DEF Handler
<1> QED BY <1>2, <1>3, <1>4, <1>5

Items == \A c \in Conns : ItemInv(c)

\* Nor does any step touch the item of another connection.
LEMMA ItemsStep ==
    ASSUME StreamsAssumption, TypeOK, SlotInv, PositionInv, Items, [Next]_vars
    PROVE  Items'
<1>1. ASSUME NEW c \in Conns, conn'[c] = conn[c], position'[c] = position[c],
             c \in open' <=> c \in open
      PROVE  ItemInv(c)'
  <2>1. ItemInv(c)
    BY DEF Items
  <2> QED BY <1>1, <2>1 DEF ItemInv
<1>2. ASSUME NEW id \in Ids, Publish(id) PROVE Items'
  <2>1. UNCHANGED <<conn, open, position>>
    BY <1>2 DEF Publish, Bus!Publish
  <2> QED BY <1>1, <2>1 DEF Items
<1>3. ASSUME NEW c \in Conns,
             \/ Subscribe(c) \/ NextItem(c) \/ SourceEnds(c) \/ Tick(c)
             \/ Reader(c) \/ SenderLocks(c) \/ SenderFails(c) \/ Receiver(c)
             \/ ReceiverCancelled(c) \/ Handler(c) \/ Collect(c) \/ FinishShutting(c)
             \/ StreamEvents(c) \/ StreamRefused(c) \/ Disconnected(c) \/ WriteFails(c)
             \/ SocketRefused(c) \/ StreamWs(c) \/ Leave(c)
      PROVE  Items'
  <2>1. ItemInv(c)'
    <3>1. ItemInv(c)
      BY DEF Items
    <3> QED BY <1>3, <3>1, ItemStep
  <2>2. ASSUME NEW d \in Conns, d # c PROVE ItemInv(d)'
    <3>1. conn'[d] = conn[d]
      <4>1. Good(c)
        BY <1>3, ConnStep
      <4> QED BY <2>2, <4>1 DEF Good, Moves, Alone
    <3>2. Uses(c)
      BY <1>3, ConnUses
    <3>3. position'[d] = position[d] /\ (d \in open' <=> d \in open)
      BY <2>2, <3>2 DEF Uses, Bus!Open, Bus!Deliver, Bus!End, bus, PositionInv
    <3> QED BY <1>1, <3>1, <3>3
  <2> QED BY <2>1, <2>2 DEF Items
<1>4. CASE UNCHANGED vars
  BY <1>1, <1>4 DEF vars, Items
<1> QED BY <1>2, <1>3, <1>4 DEF Next

\* Over any bus that keeps the contract, with_heartbeat() serves a client what
\* the bus promises the stream: every visible event up to its position, which
\* goes up event by event, and none is lost to a heartbeat.
THEOREM HeartbeatsSkipNothing ==
    ASSUME StreamsAssumption
    PROVE  Spec => []NothingSkipped
<1>1. Init => Items
  BY DEF Init, Fresh, Items, ItemInv
<1>2. TypeOK /\ SlotInv /\ PositionInv /\ Items /\ [Next]_vars => Items'
  BY ItemsStep
<1>3. TypeOK /\ PositionInv /\ [Next]_vars => PositionInv'
  BY ContractStep
<1>4. ASSUME TypeOK, ConnsWhole, Items PROVE NothingSkipped
  <2> SUFFICES ASSUME NEW c \in Conns, conn[c].at \in Framing
               PROVE  /\ conn[c].unsent \subseteq {position[c]}
                      /\ conn[c].unsent # {} => conn[c].pending = "item"
    BY DEF NothingSkipped, Framing
  <2>1. conn[c].unsent \subseteq {conn[c].item} /\ conn[c].unsent \subseteq Ids
    BY <1>4 DEF ConnsWhole, ConnInv, SourceInv, TypeOK, States
  <2>2. conn[c].pending # "item" => conn[c].unsent = {}
    <3>1. conn[c].pending # "item" => conn[c].item = 0
      BY <1>4 DEF ConnsWhole, ConnInv, SourceInv
    <3>2. 0 \notin Ids
      BY DEF StreamsAssumption
    <3> QED BY <2>1, <3>1, <3>2
  <2>3. conn[c].pending = "item" => conn[c].item = position[c]
    BY <1>4 DEF Items, ItemInv
  <2> QED BY <2>1, <2>2, <2>3
<1> QED BY <1>1, <1>2, <1>3, <1>4, ContractStart, WholeInvariant, PTL DEF Spec

=============================================================================
