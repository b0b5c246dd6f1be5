----------------------- MODULE InMemoryEventBusProofs -----------------------
(***************************************************************************)
(* Proofs about InMemoryEventBus for all clients, topics, queue and        *)
(* history sizes: types, that a stream and its queue are exactly what was  *)
(* published since it was opened, and that the bus implements the contract *)
(* of the port, EventStream.                                               *)
(***************************************************************************)
EXTENDS InMemoryEventBus, FiniteSetTheorems, WellFoundedInduction, SequenceTheorems, TLAPS

Topic(x) == topicOfId[x]

\* A stream without a call is one that was just closed.
ClosedInv(s) == ~ stream[s].live => stream[s] = Closed(stream[s].lastId)

\* While the bus serves a stream its queue holds ids of its topic, from
\* behind its start, growing; when it no longer does, CLOSE and nothing else.
QueueInv(s) ==
    LET st == stream[s] IN
    stream[s].live =>
        \/ ~ st.registered /\ st.queue = <<CLOSE>>
        \/ /\ st.registered
           /\ \A i \in 1..Len(st.queue) :
                 /\ st.queue[i] \in (st.start + 1).._seq
                 /\ Topic(st.queue[i]) = TopicOf[s]
                 /\ \A j \in 1..Len(st.queue) : i < j => st.queue[i] < st.queue[j]

\* The replay lies behind what the client has seen and not behind the start;
\* what was yielded grows, and is below all that is replayed or queued.
YieldInv(s) ==
    LET st == stream[s] IN
    stream[s].live =>
        /\ st.start \in 0.._seq
        /\ st.lastId # NoId => st.lastId <= st.start
        /\ \A x \in st.replay :
              /\ x \in 1..st.start
              /\ Topic(x) = TopicOf[s]
              /\ st.lastId # NoId /\ x > st.lastId
        /\ \A i \in 1..Len(st.yielded) :
              /\ st.yielded[i] \in 1.._seq
              /\ Topic(st.yielded[i]) = TopicOf[s]
              /\ st.yielded[i] > IF st.lastId = NoId THEN st.start ELSE st.lastId
              /\ \A j \in 1..Len(st.yielded) : i < j => st.yielded[i] < st.yielded[j]
              /\ \A x \in st.replay : st.yielded[i] < x
              /\ st.registered =>
                    \A j \in 1..Len(st.queue) : st.yielded[i] < st.queue[j]

\* Nothing of the topic was published since the start but what was yielded
\* or is queued.
NoGap(s) ==
    LET st == stream[s] IN
    st.registered =>
        \A x \in (st.start + 1).._seq : Topic(x) = TopicOf[s] =>
            \/ \E i \in 1..Len(st.yielded) : st.yielded[i] = x
            \/ \E i \in 1..Len(st.queue) : st.queue[i] = x

\* What is retained from before the start and behind the position is
\* still to be replayed.
ReplayInv(s) ==
    LET st == stream[s] IN
    st.live =>
        \A x \in history[TopicOf[s]] : Position(st) < x /\ x <= st.start => x \in st.replay

StreamInv(s) == ClosedInv(s) /\ QueueInv(s) /\ YieldInv(s) /\ NoGap(s) /\ ReplayInv(s)

StreamsExact == \A s \in Subs : StreamInv(s)

-----------------------------------------------------------------------------
(* Types *)

\* A set of numbers that is not empty has a least element.
LEMMA LeastExists ==
    ASSUME NEW S \in SUBSET Nat, S # {}
    PROVE  \E m \in S : IsLeast(m, S)
<1>1. PICK m \in S : \A y \in S : ~ (<<y, m>> \in OpToRel(<, Nat))
  BY NatLessThanWellFounded, WFMin
<1>2. \A y \in S : ~ (y < m)
  BY <1>1 DEF OpToRel
<1> QED BY <1>2 DEF IsLeast

\* The history of a topic keeps at most ReplaySize events: all it keeps but
\* the oldest are newer than the oldest.
LEMMA LatestBounded ==
    ASSUME BusAssumption, NEW S \in SUBSET Nat, IsFiniteSet(S)
    PROVE  Latest(S) \subseteq S /\ Cardinality(Latest(S)) <= ReplaySize
<1>1. Latest(S) \subseteq S /\ IsFiniteSet(Latest(S))
  BY FS_Subset DEF Latest
<1>2. CASE Latest(S) = {}
  BY <1>1, <1>2, FS_EmptySet DEF BusAssumption
<1>3. CASE Latest(S) # {}
  <2>1. PICK m \in Latest(S) : IsLeast(m, Latest(S))
    BY <1>1, <1>3, LeastExists
  <2> DEFINE newer == {y \in S : y > m}
  <2>2. IsFiniteSet(newer) /\ Cardinality(newer) < ReplaySize
    BY <2>1, FS_Subset DEF Latest
  <2>3. Latest(S) \ {m} \subseteq newer
    <3> SUFFICES ASSUME NEW y \in Latest(S), y # m PROVE y \in S /\ y > m
      OBVIOUS
    <3>1. y \in S /\ y \in Nat /\ m \in Nat
      BY <1>1
    <3> QED BY <2>1, <3>1 DEF IsLeast
  <2>4. Cardinality(Latest(S) \ {m}) <= Cardinality(newer)
    BY <2>2, <2>3, FS_Subset
  <2>5. Cardinality(Latest(S) \ {m}) = Cardinality(Latest(S)) - 1
    BY <1>1, <2>1, FS_RemoveElement
  <2>6. Cardinality(Latest(S)) \in Nat /\ Cardinality(newer) \in Nat
    BY <1>1, <2>2, FS_CardinalityType
  <2> QED BY <1>1, <2>2, <2>4, <2>5, <2>6 DEF BusAssumption
<1> QED BY <1>2, <1>3

\* What a client keeps from a stream that ends is an id that exists.
LEMMA EndTypes ==
    ASSUME TypeOK, StreamsExact, NEW s \in Subs, End(s), stream[s].live
    PROVE  /\ stream' \in [Subs -> Streams]
           /\ stream'[s].lastId \in (0.._seq) \cup {NoId}
           /\ stream'[s] = Closed(stream'[s].lastId)
           /\ \A r \in Subs \ {s} : stream'[r] = stream[r]
<1> DEFINE st == stream[s]
           last == IF st.yielded = <<>> THEN st.lastId ELSE st.yielded[Len(st.yielded)]
<1>1. st \in Streams /\ _seq \in Nat
  BY DEF TypeOK, _seq
<1>2. last \in (0.._seq) \cup {NoId}
  <2>1. CASE st.yielded = <<>>
    BY <2>1 DEF TypeOK
  <2>2. CASE st.yielded # <<>>
    <3>1. Len(st.yielded) \in 1..Len(st.yielded)
      BY <1>1, <2>2 DEF Streams
    <3>2. st.yielded[Len(st.yielded)] \in 1.._seq
      BY <3>1 DEF StreamsExact, StreamInv, YieldInv
    <3> QED BY <1>1, <2>2, <3>2
  <2> QED BY <2>1, <2>2
<1>3. Closed(last) \in Streams
  BY <1>1, <1>2 DEF Closed, Streams
<1>4. stream' = [stream EXCEPT ![s] = Closed(last)]
  BY DEF End
<1>5. Closed(last).lastId = last
  BY DEF Closed
<1> QED BY <1>2, <1>3, <1>4, <1>5 DEF TypeOK

\* An event that is offered to a stream does not make its queue too long.
LEMMA OfferedTypes ==
    ASSUME BusAssumption, NEW st \in Streams, NEW x \in Nat
    PROVE  /\ Offered(st, x) \in Streams
           /\ Len(Offered(st, x).queue) <= QueueSize
           /\ Offered(st, x).lastId = st.lastId
<1>1. st.queue \in Seq(Item) /\ Len(st.queue) \in Nat
  BY DEF Streams
<1>2. CASE Len(st.queue) < QueueSize
  <2>1. /\ Append(st.queue, x) \in Seq(Item)
        /\ Len(Append(st.queue, x)) = Len(st.queue) + 1
    BY <1>1 DEF Item
  <2>2. Offered(st, x) = [st EXCEPT !.queue = Append(st.queue, x)]
    BY <1>2 DEF Offered
  <2>3. Offered(st, x) \in Streams /\ Offered(st, x).queue = Append(st.queue, x)
        /\ Offered(st, x).lastId = st.lastId
    BY <2>1, <2>2 DEF Streams
  <2> QED BY <1>1, <1>2, <2>1, <2>3 DEF BusAssumption
<1>3. CASE ~ Len(st.queue) < QueueSize
  <2>1. <<CLOSE>> \in Seq(Item) /\ Len(<<CLOSE>>) = 1
    BY DEF Item
  <2>2. Offered(st, x) = [st EXCEPT !.queue = <<CLOSE>>, !.registered = FALSE]
    BY <1>3 DEF Offered
  <2>3. Offered(st, x) \in Streams /\ Offered(st, x).queue = <<CLOSE>>
        /\ Offered(st, x).lastId = st.lastId
    BY <2>1, <2>2 DEF Streams
  <2> QED BY <2>1, <2>3 DEF BusAssumption
<1> QED BY <1>2, <1>3

\* The records that subscribe(), a replayed event and a live one leave behind.
AsOpened(st, id, n, R) ==
    [st EXCEPT !.live = TRUE, !.registered = TRUE, !.lastId = id, !.start = n, !.replay = R]
AsReplayed(st, R, Y) == [st EXCEPT !.replay = R, !.yielded = Y]
AsTaken(st, Q, Y) == [st EXCEPT !.queue = Q, !.yielded = Y]

\* A stream that was just opened.
LEMMA Opened ==
    ASSUME NEW st \in Streams, NEW id \in Nat \cup {NoId}, NEW n \in Nat, NEW R \in SUBSET Nat
    PROVE  LET new == AsOpened(st, id, n, R) IN
           /\ new \in Streams
           /\ new.live /\ new.registered /\ new.lastId = id /\ new.start = n /\ new.replay = R
           /\ new.queue = st.queue /\ new.yielded = st.yielded
<1>1. PICK new : new = AsOpened(st, id, n, R)
  OBVIOUS
<1>2. new = [live |-> TRUE, registered |-> TRUE, queue |-> st.queue, replay |-> R,
             yielded |-> st.yielded, lastId |-> id, start |-> n]
  BY <1>1 DEF Streams, AsOpened
<1> QED BY <1>1, <1>2 DEF Streams

\* A stream after an event of its replay.
LEMMA Replayed ==
    ASSUME NEW st \in Streams, NEW R \in SUBSET Nat, NEW Y \in Seq(Nat)
    PROVE  LET new == AsReplayed(st, R, Y) IN
           /\ new \in Streams /\ new.replay = R /\ new.yielded = Y
           /\ new.live = st.live /\ new.registered = st.registered /\ new.lastId = st.lastId
           /\ new.start = st.start /\ new.queue = st.queue
<1>1. PICK new : new = AsReplayed(st, R, Y)
  OBVIOUS
<1>2. new = [live |-> st.live, registered |-> st.registered, queue |-> st.queue, replay |-> R,
             yielded |-> Y, lastId |-> st.lastId, start |-> st.start]
  BY <1>1 DEF Streams, AsReplayed
<1> QED BY <1>1, <1>2 DEF Streams

\* A stream after an event of its queue.
LEMMA Taken ==
    ASSUME NEW st \in Streams, NEW Q \in Seq(Item), NEW Y \in Seq(Nat)
    PROVE  LET new == AsTaken(st, Q, Y) IN
           /\ new \in Streams /\ new.queue = Q /\ new.yielded = Y
           /\ new.live = st.live /\ new.registered = st.registered /\ new.lastId = st.lastId
           /\ new.start = st.start /\ new.replay = st.replay
<1>1. PICK new : new = AsTaken(st, Q, Y)
  OBVIOUS
<1>2. new = [live |-> st.live, registered |-> st.registered, queue |-> Q, replay |-> st.replay,
             yielded |-> Y, lastId |-> st.lastId, start |-> st.start]
  BY <1>1 DEF Streams, AsTaken
<1> QED BY <1>1, <1>2 DEF Streams

\* A step of one stream.
Changes(s) ==
    /\ stream' \in [Subs -> Streams]
    /\ \A r \in Subs \ {s} : stream'[r] = stream[r]

\* Opening keeps the types.
LEMMA SubscribeStep ==
    ASSUME BusAssumption, TypeOK, NEW s \in Subs, Subscribe(s)
    PROVE  \E id \in (0.._seq) \cup {NoId} :
              /\ Changes(s)
              /\ stream'[s].live /\ stream'[s].registered
              /\ stream'[s].lastId = id /\ stream'[s].start = _seq
              /\ stream'[s].replay = ReplayAfter(TopicOf[s], id)
              /\ stream'[s].queue = stream[s].queue /\ stream'[s].yielded = stream[s].yielded
<1>1. /\ _seq \in Nat /\ stream \in [Subs -> Streams] /\ stream[s] \in Streams
      /\ history \in [Topics -> SUBSET (1.._seq)] /\ TopicOf[s] \in Topics
  BY DEF TypeOK, _seq, BusAssumption
<1>2. PICK id \in {NoId, 0, stream[s].lastId} :
         stream' = [stream EXCEPT ![s] =
            [@ EXCEPT !.live = TRUE, !.registered = TRUE, !.lastId = id,
                      !.start = _seq, !.replay = ReplayAfter(TopicOf[s], id)]]
  BY DEF Subscribe
<1>3. ReplayAfter(TopicOf[s], id) \in SUBSET Nat
  BY <1>1 DEF ReplayAfter
<1>4. id \in (0.._seq) \cup {NoId}
  BY <1>1 DEF TypeOK
<1> DEFINE new == AsOpened(stream[s], id, _seq, ReplayAfter(TopicOf[s], id))
<1>5. /\ new \in Streams /\ new.live /\ new.registered /\ new.lastId = id /\ new.start = _seq
      /\ new.replay = ReplayAfter(TopicOf[s], id)
      /\ new.queue = stream[s].queue /\ new.yielded = stream[s].yielded
  <2>1. id \in Nat \cup {NoId}
    BY <1>4
  <2> QED BY <1>1, <1>3, <2>1, Opened
<1>6. stream' = [stream EXCEPT ![s] = new]
  BY <1>2 DEF AsOpened
<1> HIDE DEF new
<1>7. stream'[s] = new /\ Changes(s)
  BY <1>1, <1>5, <1>6 DEF Changes
<1> QED BY <1>4, <1>5, <1>7

\* Replaying keeps the types.
LEMMA YieldReplayStep ==
    ASSUME BusAssumption, TypeOK, NEW s \in Subs, YieldReplay(s)
    PROVE  \E x \in stream[s].replay :
              /\ Changes(s)
              /\ IsLeast(x, stream[s].replay)
              /\ stream'[s].replay = stream[s].replay \ {x}
              /\ stream'[s].yielded = Append(stream[s].yielded, x)
              /\ stream'[s].live = stream[s].live
              /\ stream'[s].registered = stream[s].registered
              /\ stream'[s].lastId = stream[s].lastId /\ stream'[s].start = stream[s].start
              /\ stream'[s].queue = stream[s].queue
<1>1. stream \in [Subs -> Streams] /\ stream[s] \in Streams
  BY DEF TypeOK
<1>2. PICK x \in stream[s].replay :
         /\ IsLeast(x, stream[s].replay)
         /\ stream' = [stream EXCEPT ![s] = [stream[s] EXCEPT !.replay = @ \ {x}, !.yielded = Append(@, x)]]
  BY DEF YieldReplay
<1> DEFINE R == stream[s].replay \ {x}
           Y == Append(stream[s].yielded, x)
           new == AsReplayed(stream[s], R, Y)
<1>3. R \in SUBSET Nat /\ Y \in Seq(Nat)
  BY <1>1 DEF Streams
<1>4. stream' = [stream EXCEPT ![s] = new]
  BY <1>1, <1>2 DEF Streams, AsReplayed, AsTaken
<1> HIDE DEF R, Y
<1>5. /\ new \in Streams /\ new.replay = R /\ new.yielded = Y
      /\ new.live = stream[s].live /\ new.registered = stream[s].registered
      /\ new.lastId = stream[s].lastId /\ new.start = stream[s].start
      /\ new.queue = stream[s].queue
  BY <1>1, <1>3, Replayed
<1> HIDE DEF new
<1>6. stream'[s] = new /\ Changes(s)
  BY <1>1, <1>4, <1>5 DEF Changes
<1> QED BY <1>2, <1>5, <1>6 DEF R, Y

\* Reading the queue keeps the types.
LEMMA GetStep ==
    ASSUME BusAssumption, TypeOK, NEW s \in Subs, Get(s), ~ End(s)
    PROVE  /\ Changes(s)
           /\ Head(stream[s].queue) \in Nat /\ stream[s].queue # <<>> /\ stream[s].replay = {}
           /\ stream'[s].queue = Tail(stream[s].queue)
           /\ stream'[s].yielded = Append(stream[s].yielded, Head(stream[s].queue))
           /\ stream'[s].live = stream[s].live
           /\ stream'[s].registered = stream[s].registered
           /\ stream'[s].lastId = stream[s].lastId /\ stream'[s].start = stream[s].start
           /\ stream'[s].replay = {}
<1>1. /\ stream \in [Subs -> Streams] /\ stream[s] \in Streams
      /\ stream[s].queue \in Seq(Item) /\ stream[s].yielded \in Seq(Nat)
  BY DEF TypeOK, Streams
<1>2. /\ stream[s].queue # <<>> /\ stream[s].replay = {} /\ Head(stream[s].queue) # CLOSE
      /\ stream' = [stream EXCEPT ![s] = [stream[s] EXCEPT !.queue = Tail(@),
                                                   !.yielded = Append(@, Head(stream[s].queue))]]
  BY DEF Get
<1> DEFINE Q == Tail(stream[s].queue)
           Y == Append(stream[s].yielded, Head(stream[s].queue))
           new == AsTaken(stream[s], Q, Y)
<1>3. Head(stream[s].queue) \in Nat /\ Q \in Seq(Item) /\ Y \in Seq(Nat)
  <2>1. Head(stream[s].queue) \in Item /\ Q \in Seq(Item)
    BY <1>1, <1>2
  <2> QED BY <1>1, <1>2, <2>1 DEF Item
<1>4. stream' = [stream EXCEPT ![s] = new]
  BY <1>1, <1>2 DEF Streams, AsReplayed, AsTaken
<1> HIDE DEF Q, Y
<1>5. /\ new \in Streams /\ new.queue = Q /\ new.yielded = Y
      /\ new.live = stream[s].live /\ new.registered = stream[s].registered
      /\ new.lastId = stream[s].lastId /\ new.start = stream[s].start
      /\ new.replay = stream[s].replay
  <2>1. stream[s] \in Streams /\ Q \in Seq(Item) /\ Y \in Seq(Nat)
    BY <1>1, <1>3
  <2> QED BY <2>1, Taken
<1> HIDE DEF new
<1>6. stream'[s] = new /\ Changes(s)
  BY <1>1, <1>4, <1>5 DEF Changes
<1> QED BY <1>2, <1>3, <1>5, <1>6 DEF Q, Y

\* Every step keeps the types.
LEMMA TypeStep ==
    ASSUME BusAssumption, TypeOK, StreamsExact, [Next]_vars
    PROVE  TypeOK'
<1> USE BusAssumption
<1>1. /\ _seq \in Nat /\ topicOfId \in Seq(Topics) /\ stream \in [Subs -> Streams]
      /\ history \in [Topics -> SUBSET (1.._seq)]
  BY DEF TypeOK, _seq
<1>2. ASSUME NEW t \in Topics, Publish(t) PROVE TypeOK'
  <2>1. /\ topicOfId' \in Seq(Topics) /\ _seq' = _seq + 1 /\ _seq' <= MaxSeq
        /\ \A x \in 1.._seq : topicOfId'[x] = topicOfId[x]
        /\ topicOfId'[_seq + 1] = t
    BY <1>1, <1>2 DEF Publish, _seq, BusAssumption
  <2> DEFINE longer == history[t] \cup {_seq + 1}
  <2>2. longer \in SUBSET (1..(_seq + 1)) /\ longer \in SUBSET Nat /\ IsFiniteSet(longer)
    <3>1. longer \in SUBSET (1..(_seq + 1))
      BY <1>1
    <3>2. IsFiniteSet(1..(_seq + 1))
      BY <1>1, FS_Interval
    <3> QED BY <1>1, <3>1, <3>2, FS_Subset
  <2>3. Latest(longer) \subseteq longer /\ Cardinality(Latest(longer)) <= ReplaySize
    BY <2>2, LatestBounded
  <2>4. \A u \in Topics : history'[u] = IF u = t THEN Latest(longer) ELSE history[u]
    BY <1>1, <1>2 DEF Publish
  <2>5. history' \in [Topics -> SUBSET (1.._seq')]
    <3>1. \A u \in Topics : history'[u] \in SUBSET (1.._seq')
      <4> SUFFICES ASSUME NEW u \in Topics PROVE history'[u] \subseteq 1..(_seq + 1)
        BY <2>1
      <4>1. history[u] \subseteq 1.._seq
        BY <1>1
      <4>2. CASE u = t
        BY <2>2, <2>3, <2>4, <4>2
      <4>3. CASE u # t
        BY <1>1, <2>4, <4>1, <4>3
      <4> QED BY <4>2, <4>3
    <3>2. history' = [u \in Topics |-> history'[u]]
      BY <1>1, <1>2 DEF Publish
    <3> HIDE DEF longer
    <3> QED BY <3>1, <3>2
  <2>6. \A u \in Topics : /\ Cardinality(history'[u]) <= ReplaySize
                          /\ \A x \in history'[u] : topicOfId'[x] = u
    <3> SUFFICES ASSUME NEW u \in Topics
                 PROVE  /\ Cardinality(history'[u]) <= ReplaySize
                        /\ \A x \in history'[u] : topicOfId'[x] = u
      OBVIOUS
    <3>1. \A x \in history[u] : x \in 1.._seq /\ topicOfId[x] = u
      BY <1>1 DEF TypeOK
    <3>2. Cardinality(history[u]) <= ReplaySize
      BY DEF TypeOK
    <3> HIDE DEF longer
    <3>3. CASE u = t
      <4>1. history'[u] = Latest(longer)
        BY <2>4, <3>3
      <4>2. \A x \in longer : topicOfId'[x] = u
        <5>1. ASSUME NEW x \in history[t]
              PROVE  topicOfId'[x] = u
          BY <2>1, <3>1, <3>3
        <5> QED BY <2>1, <3>3, <5>1 DEF longer
      <4> QED BY <2>3, <4>1, <4>2
    <3>4. CASE u # t
      <4>1. history'[u] = history[u]
        BY <2>4, <3>4
      <4> QED BY <2>1, <3>1, <3>2, <4>1
    <3> QED BY <3>3, <3>4
  <2>7. \A s \in Subs : /\ Offered(stream[s], _seq + 1) \in Streams
                        /\ Len(Offered(stream[s], _seq + 1).queue) <= QueueSize
                        /\ Offered(stream[s], _seq + 1).lastId = stream[s].lastId
    <3> SUFFICES ASSUME NEW s \in Subs
                 PROVE  /\ Offered(stream[s], _seq + 1) \in Streams
                        /\ Len(Offered(stream[s], _seq + 1).queue) <= QueueSize
                        /\ Offered(stream[s], _seq + 1).lastId = stream[s].lastId
      OBVIOUS
    <3>1. stream[s] \in Streams /\ stream[s].queue \in Seq(Item) /\ _seq + 1 \in Nat
      BY <1>1 DEF Streams
    <3> QED BY <3>1, OfferedTypes
  <2>8. \A s \in Subs : /\ stream'[s] \in Streams
                        /\ Len(stream'[s].queue) <= QueueSize
                        /\ stream'[s].lastId = stream[s].lastId
    BY <1>1, <1>2, <2>7 DEF Publish, TypeOK
  <2>9. stream' \in [Subs -> Streams]
    BY <1>2, <2>8 DEF Publish
  <2>10. \A s \in Subs : stream'[s].lastId \in (0.._seq') \cup {NoId}
    BY <1>1, <2>1, <2>8 DEF TypeOK
  <2> QED BY <2>1, <2>5, <2>6, <2>8, <2>9, <2>10 DEF TypeOK
<1>3. ASSUME UNCHANGED <<topicOfId, history>>, stream' \in [Subs -> Streams], NEW s \in Subs,
             Len(stream'[s].queue) <= QueueSize, stream'[s].lastId \in (0.._seq) \cup {NoId},
             \A r \in Subs \ {s} : stream'[r] = stream[r]
      PROVE  TypeOK'
  BY <1>3 DEF TypeOK, _seq
<1>4. ASSUME NEW s \in Subs, Subscribe(s) PROVE TypeOK'
  <2>1. PICK id \in (0.._seq) \cup {NoId} : Changes(s) /\ stream'[s].lastId = id
                                            /\ stream'[s].queue = stream[s].queue
    BY <1>4, SubscribeStep
  <2> QED BY <1>3, <1>4, <2>1 DEF Subscribe, TypeOK, Changes
<1>5. ASSUME NEW s \in Subs, YieldReplay(s) PROVE TypeOK'
  <2>1. /\ Changes(s) /\ stream'[s].queue = stream[s].queue
        /\ stream'[s].lastId = stream[s].lastId
    BY <1>5, YieldReplayStep
  <2> QED BY <1>3, <1>5, <2>1 DEF YieldReplay, TypeOK, Changes
<1>6. ASSUME NEW s \in Subs, End(s), stream[s].live, UNCHANGED <<topicOfId, history>> PROVE TypeOK'
  <2>1. Len(Closed(stream'[s].lastId).queue) = 0
    BY DEF Closed
  <2> QED BY <1>3, <1>6, <2>1, EndTypes
<1>7. ASSUME NEW s \in Subs, Get(s) PROVE TypeOK'
  <2>1. CASE End(s)
    <3>1. stream[s].live
      <4>1. stream[s] = Closed(stream[s].lastId) => stream[s].queue = <<>>
        BY DEF Closed
      <4> QED BY <1>7, <4>1 DEF Get, StreamsExact, StreamInv, ClosedInv
    <3> QED BY <1>6, <1>7, <2>1, <3>1 DEF Get
  <2>2. CASE ~ End(s)
    <3>1. /\ Changes(s) /\ stream'[s].lastId = stream[s].lastId
          /\ stream'[s].queue = Tail(stream[s].queue)
      BY <1>7, <2>2, GetStep
    <3>2. Len(Tail(stream[s].queue)) <= QueueSize
      BY <1>1, <1>7 DEF Get, Streams, TypeOK
    <3> QED BY <1>3, <1>7, <3>1, <3>2 DEF Get, TypeOK, Changes
  <2> QED BY <2>1, <2>2
<1>8. ASSUME NEW s \in Subs, Disconnect(s) PROVE TypeOK'
  BY <1>6, <1>8 DEF Disconnect
<1>9. CASE UNCHANGED vars
  BY <1>9 DEF vars, TypeOK, _seq
<1> QED BY <1>2, <1>4, <1>5, <1>7, <1>8, <1>9 DEF Next

-----------------------------------------------------------------------------
(* What a stream holds *)

\* A stream that takes no part in a step.
LEMMA SameStream ==
    ASSUME NEW s \in Subs, StreamInv(s), stream'[s] = stream[s], UNCHANGED <<topicOfId, history>>
    PROVE  StreamInv(s)'
<1>1. ClosedInv(s)'
  BY DEF StreamInv, ClosedInv
<1>2. QueueInv(s)'
  BY DEF StreamInv, QueueInv, Topic, _seq
<1>3. YieldInv(s)'
  BY DEF StreamInv, YieldInv, Topic, _seq
<1>4. NoGap(s)'
  BY DEF StreamInv, NoGap, Topic, _seq
<1>5. ReplayInv(s)'
  BY DEF StreamInv, ReplayInv, Position
<1> QED BY <1>1, <1>2, <1>3, <1>4, <1>5 DEF StreamInv

\* A stream that has ended.
LEMMA EndedStream ==
    ASSUME NEW s \in Subs, stream'[s] = Closed(stream'[s].lastId)
    PROVE  StreamInv(s)'
<1>1. ~ stream'[s].live /\ ~ stream'[s].registered
  <2>1. \A id : ~ Closed(id).live /\ ~ Closed(id).registered
    BY DEF Closed
  <2> QED BY <2>1
<1> QED BY <1>1 DEF StreamInv, ClosedInv, QueueInv, YieldInv, NoGap, ReplayInv

\* YieldInv looks at the queue only for what is served.
LEMMA YieldKept ==
    ASSUME NEW s \in Subs, YieldInv(s), _seq \in Nat, _seq' \in Nat, _seq <= _seq',
           \A y \in 1.._seq : topicOfId'[y] = topicOfId[y],
           stream[s].live, stream[s].start \in Nat,
           stream'[s].start = stream[s].start, stream'[s].lastId = stream[s].lastId,
           stream'[s].yielded = stream[s].yielded, stream'[s].replay = stream[s].replay,
           stream'[s].registered =>
              \A i \in 1..Len(stream[s].yielded), j \in 1..Len(stream'[s].queue) :
                 stream[s].yielded[i] < stream'[s].queue[j]
    PROVE  YieldInv(s)'
<1> DEFINE st == stream[s]
<1>1. \A y \in 1.._seq : y \in 1.._seq' /\ Topic(y)' = Topic(y)
  BY DEF Topic
<1>2. st.start \in 0.._seq /\ st.start \in 0.._seq' /\ \A y \in 1..st.start : y \in 1.._seq
  BY DEF YieldInv
<1>3. st.lastId # NoId => st.lastId <= st.start
  BY DEF YieldInv
<1>4. \A x \in st.replay : /\ x \in 1..st.start
                           /\ Topic(x)' = TopicOf[s]
                           /\ st.lastId # NoId /\ x > st.lastId
  BY <1>1, <1>2 DEF YieldInv
<1>5. \A i \in 1..Len(st.yielded) :
         /\ st.yielded[i] \in 1.._seq'
         /\ Topic(st.yielded[i])' = TopicOf[s]
  <2> SUFFICES ASSUME NEW i \in 1..Len(st.yielded)
               PROVE  st.yielded[i] \in 1.._seq' /\ Topic(st.yielded[i])' = TopicOf[s]
    BY DEF Topic
  <2>1. st.yielded[i] \in 1.._seq /\ Topic(st.yielded[i]) = TopicOf[s]
    BY DEF YieldInv
  <2> QED BY <1>1, <2>1 DEF Topic
<1>6. \A i \in 1..Len(st.yielded) :
         /\ st.yielded[i] > IF st.lastId = NoId THEN st.start ELSE st.lastId
         /\ \A j \in 1..Len(st.yielded) : i < j => st.yielded[i] < st.yielded[j]
         /\ \A x \in st.replay : st.yielded[i] < x
  BY DEF YieldInv
<1> QED BY <1>2, <1>3, <1>4, <1>5, <1>6 DEF YieldInv, Topic

\* publish() hands the event to a stream of its topic.
LEMMA PublishKeeps ==
    ASSUME BusAssumption, TypeOK, StreamsExact, NEW t \in Topics, Publish(t), NEW s \in Subs
    PROVE  StreamInv(s)'
<1> DEFINE st == stream[s]
           new == stream'[s]
           x == _seq + 1
<1>1. /\ _seq \in Nat /\ st \in Streams /\ st.queue \in Seq(Item) /\ Len(st.queue) \in Nat
      /\ st.yielded \in Seq(Nat) /\ StreamInv(s) /\ TopicOf[s] \in Topics
      /\ st.registered \in BOOLEAN /\ st.live \in BOOLEAN /\ st.start \in Nat
  BY DEF TypeOK, Streams, StreamsExact, _seq, BusAssumption
<1>2. /\ _seq' = x
      /\ \A y \in 1.._seq : topicOfId'[y] = topicOfId[y]
      /\ topicOfId'[x] = t
  BY DEF Publish, TypeOK, _seq
<1>3. \A y \in history'[TopicOf[s]] : y \in history[TopicOf[s]] \/ y = x
  <2>1. \A S : Latest(S) \subseteq S
    BY DEF Latest
  <2> QED BY <1>1, <2>1 DEF Publish, TypeOK
<1>4. new = IF st.registered /\ TopicOf[s] = t THEN Offered(st, x) ELSE st
  BY DEF Publish
<1>5. st.live => st.start <= _seq
  BY <1>1 DEF StreamInv, YieldInv
<1>6. st.registered => st.live
  <2>1. \A id : ~ Closed(id).registered
    BY DEF Closed
  <2> QED BY <1>1, <2>1 DEF StreamInv, ClosedInv
<1>7. CASE new = st
  <2>0. ~ (st.registered /\ TopicOf[s] = t)
    <3> SUFFICES ASSUME st.registered, TopicOf[s] = t, Offered(st, x) = st PROVE FALSE
      BY <1>4, <1>7
    <3>1. CASE Len(st.queue) < QueueSize
      <4>1. Offered(st, x).queue = Append(st.queue, x)
        BY <1>1, <3>1 DEF Offered, Streams
      <4> QED BY <1>1, <4>1
    <3>2. CASE ~ Len(st.queue) < QueueSize
      <4>1. ~ Offered(st, x).registered
        BY <1>1, <3>2 DEF Offered, Streams
      <4> QED BY <4>1
    <3> QED BY <3>1, <3>2
  <2>1. ClosedInv(s)'
    BY <1>1, <1>7 DEF StreamInv, ClosedInv, Closed
  <2>2. QueueInv(s)'
    <3>1. CASE ~ st.live \/ (~ st.registered /\ st.queue = <<CLOSE>>)
      BY <1>7, <3>1 DEF QueueInv
    <3>2. CASE st.live /\ st.registered
      <4>1. \A i \in 1..Len(st.queue) :
               /\ st.queue[i] \in (st.start + 1).._seq
               /\ topicOfId[st.queue[i]] = TopicOf[s]
               /\ \A j \in 1..Len(st.queue) : i < j => st.queue[i] < st.queue[j]
        BY <1>1, <3>2 DEF StreamInv, QueueInv, Topic
      <4>2. \A y \in (st.start + 1).._seq : y \in (st.start + 1)..x /\ topicOfId'[y] = topicOfId[y]
        BY <1>1, <1>2
      <4>3. \A i \in 1..Len(st.queue) :
               /\ st.queue[i] \in (st.start + 1)..x
               /\ topicOfId'[st.queue[i]] = TopicOf[s]
        BY <4>1, <4>2
      <4> QED BY <1>2, <1>7, <3>2, <4>1, <4>3 DEF QueueInv, Topic
    <3> QED BY <1>1, <3>1, <3>2 DEF StreamInv, QueueInv
  <2>3. YieldInv(s)'
    <3>1. CASE st.live
      <4>1. st.registered => \A i \in 1..Len(st.yielded), j \in 1..Len(st.queue) :
                                st.yielded[i] < st.queue[j]
        BY <1>1, <3>1 DEF StreamInv, YieldInv
      <4>2. _seq' \in Nat /\ _seq <= _seq' /\ YieldInv(s)
        BY <1>1, <1>2 DEF StreamInv
      <4> QED BY <1>1, <1>2, <1>7, <3>1, <4>1, <4>2, YieldKept
    <3>2. CASE ~ st.live
      BY <1>7, <3>2 DEF YieldInv
    <3> QED BY <3>1, <3>2
  <2>4. NoGap(s)'
    <3> SUFFICES ASSUME st.registered, NEW y \in (st.start + 1)..x, topicOfId'[y] = TopicOf[s]
                 PROVE  \/ \E i \in 1..Len(st.yielded) : st.yielded[i] = y
                        \/ \E i \in 1..Len(st.queue) : st.queue[i] = y
      BY <1>2, <1>7 DEF NoGap, Topic
    <3>1. y # x
      BY <1>2, <2>0
    <3>2. y \in (st.start + 1).._seq /\ y \in 1.._seq
      BY <1>1, <3>1
    <3>3. Topic(y) = TopicOf[s]
      BY <1>2, <3>2 DEF Topic
    <3> QED BY <1>1, <3>2, <3>3 DEF StreamInv, NoGap
  <2>5. ReplayInv(s)'
    <3>1. Position(new) = Position(st)
      BY <1>7
    <3> QED BY <1>1, <1>3, <1>5, <1>7, <3>1 DEF StreamInv, ReplayInv
  <2> QED BY <2>1, <2>2, <2>3, <2>4, <2>5 DEF StreamInv
<1>8. CASE st.registered /\ TopicOf[s] = t /\ Len(st.queue) < QueueSize
  <2>1. /\ new.queue = Append(st.queue, x) /\ new.live = st.live
        /\ new.registered = st.registered /\ new.start = st.start /\ new.lastId = st.lastId
        /\ new.yielded = st.yielded /\ new.replay = st.replay
    BY <1>1, <1>4, <1>8 DEF Offered, Streams
  <2>2. /\ Len(new.queue) = Len(st.queue) + 1
        /\ \A i \in 1..Len(st.queue) : new.queue[i] = st.queue[i]
        /\ new.queue[Len(st.queue) + 1] = x
    BY <1>1, <2>1
  <2>3. \A i \in 1..Len(st.queue) : st.queue[i] \in (st.start + 1).._seq
    <3>1. Len(<<CLOSE>>) = 1 /\ <<CLOSE>>[1] = CLOSE
      OBVIOUS
    <3> QED BY <1>1, <1>6, <1>8 DEF StreamInv, QueueInv
  <2>4. ClosedInv(s)'
    BY <1>6, <1>8, <2>1 DEF ClosedInv
  <2>5. QueueInv(s)'
    <3>1. \A i \in 1..Len(new.queue) :
             /\ new.queue[i] \in (st.start + 1)..x
             /\ topicOfId'[new.queue[i]] = TopicOf[s]
      <4> SUFFICES ASSUME NEW i \in 1..Len(new.queue)
                   PROVE  new.queue[i] \in (st.start + 1)..x /\ topicOfId'[new.queue[i]] = TopicOf[s]
        OBVIOUS
      <4>1. CASE i = Len(st.queue) + 1
        BY <1>1, <1>2, <1>5, <1>6, <1>8, <2>2, <4>1
      <4>2. CASE i # Len(st.queue) + 1
        <5>1. i \in 1..Len(st.queue)
          BY <1>1, <2>2, <4>2
        <5>2. st.queue[i] \in (st.start + 1).._seq /\ topicOfId[st.queue[i]] = TopicOf[s]
          BY <1>1, <1>6, <1>8, <2>3, <5>1 DEF StreamInv, QueueInv, Topic
        <5> DEFINE y == st.queue[i]
        <5>3. y \in 1.._seq /\ y \in (st.start + 1)..x
          BY <1>1, <5>2
        <5> HIDE DEF y
        <5>4. topicOfId'[y] = TopicOf[s]
          BY <1>2, <5>2, <5>3 DEF y
        <5> QED BY <2>2, <5>1, <5>3, <5>4 DEF y
      <4> QED BY <4>1, <4>2
    <3>2. \A i, j \in 1..Len(new.queue) : i < j => new.queue[i] < new.queue[j]
      <4> SUFFICES ASSUME NEW i \in 1..Len(new.queue), NEW j \in 1..Len(new.queue), i < j
                   PROVE  new.queue[i] < new.queue[j]
        OBVIOUS
      <4>1. i \in 1..Len(st.queue) /\ st.queue[i] \in (st.start + 1).._seq
        BY <1>1, <2>2, <2>3
      <4>2. CASE j = Len(st.queue) + 1
        BY <1>1, <2>2, <4>1, <4>2
      <4>3. CASE j # Len(st.queue) + 1
        <5>1. j \in 1..Len(st.queue)
          BY <1>1, <2>2, <4>3
        <5>2. st.queue[i] < st.queue[j]
          BY <1>1, <1>6, <1>8, <4>1, <5>1 DEF StreamInv, QueueInv
        <5> QED BY <2>2, <4>1, <5>1, <5>2
      <4> QED BY <4>2, <4>3
    <3> QED BY <1>2, <1>8, <2>1, <3>1, <3>2 DEF QueueInv, Topic
  <2>6. YieldInv(s)'
    <3>1. \A i \in 1..Len(st.yielded), j \in 1..Len(new.queue) : st.yielded[i] < new.queue[j]
      <4> SUFFICES ASSUME NEW i \in 1..Len(st.yielded), NEW j \in 1..Len(new.queue)
                   PROVE  st.yielded[i] < new.queue[j]
        OBVIOUS
      <4>1. st.yielded[i] \in 1.._seq
        BY <1>1, <1>6, <1>8 DEF StreamInv, YieldInv
      <4>2. CASE j = Len(st.queue) + 1
        BY <1>1, <2>2, <4>1, <4>2
      <4>3. CASE j # Len(st.queue) + 1
        <5>1. j \in 1..Len(st.queue)
          BY <1>1, <2>2, <4>3
        <5>2. st.yielded[i] < st.queue[j]
          BY <1>1, <1>6, <1>8, <5>1 DEF StreamInv, YieldInv
        <5> QED BY <2>2, <5>1, <5>2
      <4> QED BY <4>2, <4>3
    <3>2. _seq' \in Nat /\ _seq <= _seq' /\ YieldInv(s)
      BY <1>1, <1>2 DEF StreamInv
    <3> QED BY <1>1, <1>2, <1>6, <1>8, <2>1, <3>1, <3>2, YieldKept
  <2>7. NoGap(s)'
    <3> SUFFICES ASSUME NEW y \in (st.start + 1)..x, topicOfId'[y] = TopicOf[s]
                 PROVE  \/ \E i \in 1..Len(new.yielded) : new.yielded[i] = y
                        \/ \E i \in 1..Len(new.queue) : new.queue[i] = y
      BY <1>2, <2>1 DEF NoGap, Topic
    <3>1. CASE y = x
      <4>1. Len(st.queue) + 1 \in 1..Len(new.queue)
        BY <1>1, <2>2
      <4> QED BY <2>2, <3>1, <4>1
    <3>2. CASE y # x
      <4>1. y \in (st.start + 1).._seq /\ Topic(y) = TopicOf[s]
        BY <1>1, <1>2, <3>2 DEF Topic
      <4>2. \/ \E i \in 1..Len(st.yielded) : st.yielded[i] = y
            \/ \E i \in 1..Len(st.queue) : st.queue[i] = y
        BY <1>1, <1>8, <4>1 DEF StreamInv, NoGap
      <4> QED BY <1>1, <2>1, <2>2, <4>2
    <3> QED BY <3>1, <3>2
  <2>8. ReplayInv(s)'
    <3>1. Position(new) = Position(st)
      BY <2>1 DEF Position
    <3> QED BY <1>1, <1>3, <1>5, <1>6, <1>8, <2>1, <3>1 DEF StreamInv, ReplayInv
  <2> QED BY <2>4, <2>5, <2>6, <2>7, <2>8 DEF StreamInv
<1>9. CASE st.registered /\ TopicOf[s] = t /\ ~ Len(st.queue) < QueueSize
  <2>1. /\ new.queue = <<CLOSE>> /\ new.live = st.live
        /\ ~ new.registered /\ new.start = st.start /\ new.lastId = st.lastId
        /\ new.yielded = st.yielded /\ new.replay = st.replay
    BY <1>1, <1>4, <1>9 DEF Offered, Streams
  <2>2. ClosedInv(s)'
    BY <1>6, <1>9, <2>1 DEF ClosedInv
  <2>3. QueueInv(s)' /\ NoGap(s)'
    BY <2>1 DEF QueueInv, NoGap
  <2>4. YieldInv(s)'
    <3>1. _seq' \in Nat /\ _seq <= _seq' /\ YieldInv(s)
      BY <1>1, <1>2 DEF StreamInv
    <3> QED BY <1>1, <1>2, <1>6, <1>9, <2>1, <3>1, YieldKept
  <2>5. ReplayInv(s)'
    <3>1. Position(new) = Position(st)
      BY <2>1 DEF Position
    <3> QED BY <1>1, <1>3, <1>5, <1>6, <1>9, <2>1, <3>1 DEF StreamInv, ReplayInv
  <2> QED BY <2>2, <2>3, <2>4, <2>5 DEF StreamInv
<1> QED BY <1>4, <1>7, <1>8, <1>9

\* subscribe() in one step: what was retained is replayed up to the newest
\* event, and the queue takes what comes behind it.
LEMMA SubscribeKeeps ==
    ASSUME BusAssumption, TypeOK, StreamsExact, NEW s \in Subs, Subscribe(s)
    PROVE  StreamInv(s)'
<1>1. PICK id \in (0.._seq) \cup {NoId} :
         /\ stream'[s].live /\ stream'[s].registered
         /\ stream'[s].lastId = id /\ stream'[s].start = _seq
         /\ stream'[s].replay = ReplayAfter(TopicOf[s], id)
         /\ stream'[s].queue = stream[s].queue /\ stream'[s].yielded = stream[s].yielded
  BY SubscribeStep
<1>2. /\ _seq \in Nat /\ _seq' = _seq /\ topicOfId' = topicOfId /\ history' = history
      /\ TopicOf[s] \in Topics
      /\ history[TopicOf[s]] \subseteq 1.._seq
      /\ \A x \in history[TopicOf[s]] : topicOfId[x] = TopicOf[s]
  BY DEF Subscribe, _seq, TypeOK, BusAssumption
<1>3. stream[s].queue = <<>> /\ stream[s].yielded = <<>>
  <2>1. \A i : Closed(i).queue = <<>> /\ Closed(i).yielded = <<>>
    BY DEF Closed
  <2> QED BY <2>1 DEF Subscribe, StreamsExact, StreamInv, ClosedInv
<1>4. Len(stream'[s].queue) = 0 /\ Len(stream'[s].yielded) = 0
  BY <1>1, <1>3
<1> DEFINE R == stream'[s].replay
<1>5. \A x \in R : /\ x \in 1.._seq /\ x \in history[TopicOf[s]]
                   /\ topicOfId[x] = TopicOf[s] /\ id # NoId /\ x > id
  BY <1>1, <1>2 DEF ReplayAfter
<1>6. ClosedInv(s)'
  BY <1>1 DEF ClosedInv
<1>7. QueueInv(s)'
  BY <1>1, <1>4 DEF QueueInv
<1>8. YieldInv(s)'
  BY <1>1, <1>2, <1>4, <1>5 DEF YieldInv, Topic, BusAssumption
<1>9. NoGap(s)'
  <2>1. (_seq + 1).._seq = {}
    BY <1>2
  <2> QED BY <1>1, <1>2, <2>1 DEF NoGap
<1>10. ReplayInv(s)'
  <2>1. CASE R = {}
    <3>1. Position(stream'[s]) = _seq
      BY <1>1, <1>3, <2>1 DEF Position
    <3>2. \A x \in history[TopicOf[s]] : ~ (_seq < x)
      BY <1>2
    <3> QED BY <1>1, <1>2, <3>1, <3>2 DEF ReplayInv
  <2>2. CASE R # {}
    <3>1. id \in Nat /\ id # NoId /\ R \in SUBSET Nat
      BY <1>1, <1>2, <1>5, <2>2
    <3> DEFINE least == CHOOSE x \in R : IsLeast(x, R)
    <3>2. least \in R
      BY <2>2, <3>1, LeastExists
    <3>3. Position(stream'[s]) = least - 1
      BY <1>1, <1>3, <2>2 DEF Position
    <3> HIDE DEF least
    <3>4. least \in Nat /\ least > id
      BY <1>5, <3>1, <3>2
    <3>5. \A x \in history[TopicOf[s]] : least - 1 < x => x \in R
      <4> SUFFICES ASSUME NEW x \in history[TopicOf[s]], least - 1 < x PROVE x > id
        BY <1>1, <3>1 DEF ReplayAfter
      <4>1. x \in Nat
        BY <1>2
      <4> QED BY <3>1, <3>4, <4>1
    <3> QED BY <1>2, <3>3, <3>5 DEF ReplayInv
  <2> QED BY <2>1, <2>2
<1> QED BY <1>6, <1>7, <1>8, <1>9, <1>10 DEF StreamInv

\* The position of a stream that has yielded an event is that event.
LEMMA PositionOfYielded ==
    ASSUME NEW a, NEW q \in Seq(Nat), NEW x \in Nat, a.yielded = Append(q, x)
    PROVE  Position(a) = x
<1>1. /\ Append(q, x) # <<>> /\ Len(Append(q, x)) = Len(q) + 1
      /\ Append(q, x)[Len(q) + 1] = x
  OBVIOUS
<1> QED BY <1>1 DEF Position

\* What is yielded next is behind the position.
LEMMA PositionBehind ==
    ASSUME NEW s \in Subs, stream[s] \in Streams, YieldInv(s), stream[s].live,
           _seq \in Nat, NEW x \in Nat,
           \A i \in 1..Len(stream[s].yielded) : stream[s].yielded[i] < x,
           IsLeast(x, stream[s].replay) \/ (stream[s].replay = {} /\ x > stream[s].start)
    PROVE  Position(stream[s]) \in Nat /\ Position(stream[s]) < x
<1> DEFINE st == stream[s]
<1>1. /\ st.yielded \in Seq(Nat) /\ st.start \in Nat /\ st.replay \in SUBSET Nat
      /\ \A y \in st.replay : y \in 1..st.start
  BY DEF Streams, YieldInv
<1>2. CASE st.yielded # <<>>
  <2>1. Len(st.yielded) \in 1..Len(st.yielded) /\ st.yielded[Len(st.yielded)] \in Nat
    BY <1>1, <1>2
  <2>2. Position(st) = st.yielded[Len(st.yielded)]
    BY <1>2 DEF Position
  <2> QED BY <2>1, <2>2
<1>3. CASE st.yielded = <<>> /\ st.replay # {}
  <2> DEFINE least == CHOOSE y \in st.replay : IsLeast(y, st.replay)
  <2>1. least \in st.replay /\ IsLeast(least, st.replay)
    BY <1>1, <1>3, LeastExists
  <2>2. Position(st) = least - 1
    BY <1>3 DEF Position
  <2> HIDE DEF least
  <2>3. least \in 1..st.start /\ least <= x
    BY <1>1, <1>3, <2>1 DEF IsLeast
  <2> QED BY <1>1, <2>2, <2>3
<1>4. CASE st.yielded = <<>> /\ st.replay = {}
  <2>1. Position(st) = st.start
    BY <1>4 DEF Position
  <2> QED BY <1>1, <1>4, <2>1 DEF IsLeast
<1> QED BY <1>2, <1>3, <1>4

\* An event at the end of a sequence.
LEMMA AppendFacts ==
    ASSUME NEW q \in Seq(Nat), NEW x \in Nat
    PROVE  /\ Append(q, x) \in Seq(Nat) /\ Len(q) \in Nat
           /\ Len(Append(q, x)) = Len(q) + 1
           /\ Len(q) + 1 \in 1..Len(Append(q, x))
           /\ Append(q, x)[Len(q) + 1] = x
           /\ \A i \in 1..Len(q) : i \in 1..Len(Append(q, x)) /\ Append(q, x)[i] = q[i]
           /\ \A i \in 1..Len(Append(q, x)) : i \in 1..Len(q) \/ i = Len(q) + 1
OBVIOUS

\* A stream yields one more event, x, from its replay or its queue.
LEMMA YieldedMore ==
    ASSUME NEW s \in Subs, stream[s] \in Streams, YieldInv(s), stream[s].live, _seq \in Nat,
           UNCHANGED topicOfId, NEW x \in 1.._seq, Topic(x) = TopicOf[s],
           x > IF stream[s].lastId = NoId THEN stream[s].start ELSE stream[s].lastId,
           \A i \in 1..Len(stream[s].yielded) : stream[s].yielded[i] < x,
           stream'[s].yielded = Append(stream[s].yielded, x),
           stream'[s].replay \subseteq stream[s].replay,
           \A y \in stream'[s].replay : x < y,
           stream'[s].start = stream[s].start, stream'[s].lastId = stream[s].lastId,
           stream'[s].registered =>
              \A i \in 1..Len(stream'[s].yielded), j \in 1..Len(stream'[s].queue) :
                 stream'[s].yielded[i] < stream'[s].queue[j]
    PROVE  YieldInv(s)'
<1> DEFINE st == stream[s]
           Y == stream'[s].yielded
<1>1. st.yielded \in Seq(Nat) /\ x \in Nat /\ st.start \in 0.._seq
  BY DEF Streams, YieldInv
<1>2. /\ Len(st.yielded) \in Nat
      /\ Y[Len(st.yielded) + 1] = x
      /\ \A i \in 1..Len(st.yielded) : Y[i] = st.yielded[i]
      /\ \A i \in 1..Len(Y) : i \in 1..Len(st.yielded) \/ i = Len(st.yielded) + 1
  BY <1>1, AppendFacts
<1>3. \A i \in 1..Len(st.yielded) :
         /\ st.yielded[i] \in 1.._seq /\ topicOfId[st.yielded[i]] = TopicOf[s]
         /\ st.yielded[i] > IF st.lastId = NoId THEN st.start ELSE st.lastId
         /\ \A j \in 1..Len(st.yielded) : i < j => st.yielded[i] < st.yielded[j]
         /\ \A y \in st.replay : st.yielded[i] < y
  BY DEF YieldInv, Topic
<1>4. \A i \in 1..Len(Y) :
         /\ Y[i] \in 1.._seq /\ topicOfId[Y[i]] = TopicOf[s]
         /\ Y[i] > IF st.lastId = NoId THEN st.start ELSE st.lastId
         /\ \A y \in stream'[s].replay : Y[i] < y
  BY <1>2, <1>3 DEF Topic
<1>5. \A i, j \in 1..Len(Y) : i < j => Y[i] < Y[j]
  <2> SUFFICES ASSUME NEW i \in 1..Len(Y), NEW j \in 1..Len(Y), i < j PROVE Y[i] < Y[j]
    OBVIOUS
  <2>1. i \in 1..Len(st.yielded)
    BY <1>2
  <2>2. CASE j \in 1..Len(st.yielded)
    BY <1>2, <1>3, <2>1, <2>2
  <2>3. CASE j = Len(st.yielded) + 1
    BY <1>2, <2>1, <2>3
  <2> QED BY <1>2, <2>2, <2>3
<1>6. /\ st.lastId # NoId => st.lastId <= st.start
      /\ \A y \in stream'[s].replay : /\ y \in 1..st.start /\ topicOfId[y] = TopicOf[s]
                                      /\ st.lastId # NoId /\ y > st.lastId
  BY DEF YieldInv, Topic
<1> HIDE DEF Y
<1>7. _seq' = _seq
  BY DEF _seq
<1> QED BY <1>1, <1>4, <1>5, <1>6, <1>7 DEF YieldInv, Topic, Y

\* The replay goes up, and stays below the queue.
LEMMA YieldReplayKeeps ==
    ASSUME BusAssumption, TypeOK, StreamsExact, NEW s \in Subs, YieldReplay(s)
    PROVE  StreamInv(s)'
<1> DEFINE st == stream[s]
           new == stream'[s]
<1>1. PICK x \in st.replay :
         /\ IsLeast(x, st.replay)
         /\ new.replay = st.replay \ {x} /\ new.yielded = Append(st.yielded, x)
         /\ new.live = st.live /\ new.registered = st.registered
         /\ new.lastId = st.lastId /\ new.start = st.start /\ new.queue = st.queue
  BY YieldReplayStep
<1>2. /\ _seq \in Nat /\ _seq' = _seq /\ topicOfId' = topicOfId /\ history' = history
      /\ st \in Streams /\ st.yielded \in Seq(Nat) /\ st.start \in Nat /\ st.replay \in SUBSET Nat
      /\ StreamInv(s) /\ TopicOf[s] \in Topics /\ history[TopicOf[s]] \subseteq 1.._seq
  BY DEF YieldReplay, _seq, TypeOK, StreamsExact, Streams, BusAssumption
<1>3. st.live
  <2>1. \A i : Closed(i).replay = {}
    BY DEF Closed
  <2> QED BY <1>1, <1>2, <2>1 DEF StreamInv, ClosedInv
<1>4. /\ x \in 1..st.start /\ x \in 1.._seq /\ Topic(x) = TopicOf[s]
      /\ st.lastId # NoId /\ x > st.lastId
      /\ \A i \in 1..Len(st.yielded) : st.yielded[i] < x
      /\ \A y \in st.replay \ {x} : x < y
  <2>1. /\ x \in 1..st.start /\ st.start \in 0.._seq
        /\ Topic(x) = TopicOf[s] /\ st.lastId # NoId /\ x > st.lastId
        /\ \A i \in 1..Len(st.yielded) : st.yielded[i] < x
    BY <1>1, <1>2, <1>3 DEF StreamInv, YieldInv
  <2>2. \A y \in st.replay \ {x} : x < y
    BY <1>1, <1>2 DEF IsLeast
  <2> QED BY <1>2, <2>1, <2>2
<1>5. ClosedInv(s)'
  BY <1>1, <1>3 DEF ClosedInv
<1>6. QueueInv(s)'
  BY <1>1, <1>2 DEF StreamInv, QueueInv, Topic
<1>7. YieldInv(s)'
  <2>1. st.registered => \A i \in 1..Len(new.yielded), j \in 1..Len(st.queue) :
                            new.yielded[i] < st.queue[j]
    <3> SUFFICES ASSUME st.registered, NEW i \in 1..Len(new.yielded), NEW j \in 1..Len(st.queue)
                 PROVE  new.yielded[i] < st.queue[j]
      OBVIOUS
    <3>1. x < st.queue[j]
      <4>1. st.queue[j] \in (st.start + 1).._seq
        <5>1. ~ (~ st.registered /\ st.queue = <<CLOSE>>)
          OBVIOUS
        <5> QED BY <1>2, <1>3, <5>1 DEF StreamInv, QueueInv
      <4> QED BY <1>2, <1>4, <4>1
    <3>2. \A k \in 1..Len(st.yielded) : st.yielded[k] < st.queue[j]
      BY <1>2, <1>3 DEF StreamInv, YieldInv
    <3>3. \/ i \in 1..Len(st.yielded) /\ new.yielded[i] = st.yielded[i]
          \/ new.yielded[i] = x
      BY <1>1, <1>2, AppendFacts
    <3> QED BY <3>1, <3>2, <3>3
  <2>2. YieldInv(s) /\ new.replay \subseteq st.replay /\ \A y \in new.replay : x < y
    BY <1>1, <1>2, <1>4 DEF StreamInv
  <2>3. x > IF st.lastId = NoId THEN st.start ELSE st.lastId
    BY <1>4
  <2> QED BY <1>1, <1>2, <1>3, <1>4, <2>1, <2>2, <2>3, YieldedMore
<1>8. NoGap(s)'
  <2>1. \A y : (\E i \in 1..Len(st.yielded) : st.yielded[i] = y)
                  => \E i \in 1..Len(new.yielded) : new.yielded[i] = y
    BY <1>1, <1>2, AppendFacts
  <2> SUFFICES ASSUME st.registered, NEW y \in (st.start + 1).._seq, topicOfId[y] = TopicOf[s]
               PROVE  \/ \E i \in 1..Len(new.yielded) : new.yielded[i] = y
                      \/ \E i \in 1..Len(st.queue) : st.queue[i] = y
    BY <1>1, <1>2 DEF NoGap, Topic
  <2>2. \/ \E i \in 1..Len(st.yielded) : st.yielded[i] = y
        \/ \E i \in 1..Len(st.queue) : st.queue[i] = y
    BY <1>2 DEF StreamInv, NoGap, Topic
  <2> QED BY <2>1, <2>2
<1>9. ReplayInv(s)'
  <2>1. Position(new) = x
    BY <1>1, <1>2, PositionOfYielded
  <2>2. Position(st) \in Nat /\ Position(st) < x
    BY <1>1, <1>2, <1>3, <1>4, PositionBehind DEF StreamInv
  <2> SUFFICES ASSUME NEW y \in history[TopicOf[s]], x < y, y <= st.start
               PROVE  y \in st.replay \ {x}
    BY <1>1, <1>2, <2>1 DEF ReplayInv
  <2>3. y \in Nat /\ x \in Nat /\ Position(st) < y
    BY <1>2, <2>2
  <2> QED BY <1>2, <1>3, <2>3 DEF StreamInv, ReplayInv
<1> QED BY <1>5, <1>6, <1>7, <1>8, <1>9 DEF StreamInv

\* A sequence without its first event.
LEMMA TailFacts ==
    ASSUME NEW q \in Seq(Item), q # <<>>
    PROVE  /\ Len(q) \in Nat /\ 1 \in 1..Len(q) /\ Head(q) = q[1]
           /\ Tail(q) \in Seq(Item) /\ Len(Tail(q)) = Len(q) - 1
           /\ \A j \in 1..Len(Tail(q)) : j + 1 \in 1..Len(q) /\ Tail(q)[j] = q[j + 1]
           /\ \A i \in 2..Len(q) : i - 1 \in 1..Len(Tail(q)) /\ Tail(q)[i - 1] = q[i]
OBVIOUS

\* A live event is taken from the queue of a stream, which the bus serves
\* since there is one.
LEMMA GetKeeps ==
    ASSUME BusAssumption, TypeOK, StreamsExact, NEW s \in Subs, Get(s), ~ End(s)
    PROVE  /\ StreamInv(s)'
           /\ stream[s].registered /\ stream[s].live
           /\ \A i \in 1..Len(stream[s].yielded) : stream[s].yielded[i] < Head(stream[s].queue)
           /\ Head(stream[s].queue) \in (stream[s].start + 1).._seq
           /\ Topic(Head(stream[s].queue)) = TopicOf[s]
<1> DEFINE st == stream[s]
           new == stream'[s]
           x == Head(st.queue)
<1>1. /\ x \in Nat /\ st.queue # <<>> /\ st.replay = {}
      /\ new.queue = Tail(st.queue) /\ new.yielded = Append(st.yielded, x)
      /\ new.live = st.live /\ new.registered = st.registered
      /\ new.lastId = st.lastId /\ new.start = st.start /\ new.replay = {}
  BY GetStep
<1>2. /\ _seq \in Nat /\ _seq' = _seq /\ topicOfId' = topicOfId /\ history' = history
      /\ st \in Streams /\ st.yielded \in Seq(Nat) /\ st.start \in Nat /\ st.queue \in Seq(Item)
      /\ StreamInv(s)
  BY DEF Get, _seq, TypeOK, StreamsExact, Streams
<1>3. /\ Len(st.queue) \in Nat /\ 1 \in 1..Len(st.queue) /\ x = st.queue[1]
      /\ \A j \in 1..Len(new.queue) : j + 1 \in 1..Len(st.queue) /\ new.queue[j] = st.queue[j + 1]
      /\ \A i \in 2..Len(st.queue) : i - 1 \in 1..Len(new.queue) /\ new.queue[i - 1] = st.queue[i]
  BY <1>1, <1>2, TailFacts
<1>4. st.live
  <2>1. \A i : Closed(i).queue = <<>>
    BY DEF Closed
  <2> QED BY <1>1, <1>2, <2>1 DEF StreamInv, ClosedInv
<1>5. st.registered
  <2>1. st.queue # <<CLOSE>>
    BY <1>1, <1>3 DEF BusAssumption
  <2> QED BY <1>2, <1>4, <2>1 DEF StreamInv, QueueInv
<1>6. \A i \in 1..Len(st.queue) :
         /\ st.queue[i] \in (st.start + 1).._seq /\ topicOfId[st.queue[i]] = TopicOf[s]
         /\ \A j \in 1..Len(st.queue) : i < j => st.queue[i] < st.queue[j]
  BY <1>2, <1>4, <1>5 DEF StreamInv, QueueInv, Topic
<1>7. /\ x \in (st.start + 1).._seq /\ x \in 1.._seq /\ topicOfId[x] = TopicOf[s]
      /\ \A i \in 1..Len(st.yielded) : st.yielded[i] < x
  <2>1. x \in (st.start + 1).._seq /\ topicOfId[x] = TopicOf[s]
    BY <1>3, <1>6
  <2>2. \A i \in 1..Len(st.yielded) : st.yielded[i] < x
    <3>1. \A i \in 1..Len(st.yielded) : \A j \in 1..Len(st.queue) : st.yielded[i] < st.queue[j]
      BY <1>2, <1>4, <1>5 DEF StreamInv, YieldInv
    <3> QED BY <1>3, <3>1
  <2> QED BY <1>2, <2>1, <2>2
<1>8. \A j \in 1..Len(new.queue) : x < new.queue[j]
  <2> SUFFICES ASSUME NEW j \in 1..Len(new.queue) PROVE x < new.queue[j]
    OBVIOUS
  <2>1. j + 1 \in 1..Len(st.queue) /\ new.queue[j] = st.queue[j + 1] /\ 1 < j + 1
    BY <1>3
  <2> QED BY <1>3, <1>6, <2>1
<1>9. ClosedInv(s)'
  BY <1>1, <1>4 DEF ClosedInv
<1>10. QueueInv(s)'
  <2>1. \A i \in 1..Len(new.queue) :
           new.queue[i] \in (st.start + 1).._seq /\ topicOfId[new.queue[i]] = TopicOf[s]
    <3> SUFFICES ASSUME NEW i \in 1..Len(new.queue)
                 PROVE  /\ new.queue[i] \in (st.start + 1).._seq
                        /\ topicOfId[new.queue[i]] = TopicOf[s]
      OBVIOUS
    <3>1. i + 1 \in 1..Len(st.queue) /\ new.queue[i] = st.queue[i + 1]
      BY <1>3
    <3> QED BY <1>6, <3>1
  <2>2. \A i, j \in 1..Len(new.queue) : i < j => new.queue[i] < new.queue[j]
    <3> SUFFICES ASSUME NEW i \in 1..Len(new.queue), NEW j \in 1..Len(new.queue), i < j
                 PROVE  new.queue[i] < new.queue[j]
      OBVIOUS
    <3>1. /\ i + 1 \in 1..Len(st.queue) /\ new.queue[i] = st.queue[i + 1]
          /\ j + 1 \in 1..Len(st.queue) /\ new.queue[j] = st.queue[j + 1] /\ i + 1 < j + 1
      BY <1>3
    <3> QED BY <1>6, <3>1
  <2> QED BY <1>1, <1>2, <1>5, <2>1, <2>2 DEF QueueInv, Topic
<1>11. YieldInv(s)'
  <2>1. \A i \in 1..Len(new.yielded), j \in 1..Len(new.queue) : new.yielded[i] < new.queue[j]
    <3> SUFFICES ASSUME NEW i \in 1..Len(new.yielded), NEW j \in 1..Len(new.queue)
                 PROVE  new.yielded[i] < new.queue[j]
      OBVIOUS
    <3>1. x < new.queue[j] /\ new.queue[j] \in (st.start + 1).._seq
      BY <1>3, <1>6, <1>8
    <3>2. \/ i \in 1..Len(st.yielded) /\ new.yielded[i] = st.yielded[i]
          \/ new.yielded[i] = x
      BY <1>1, <1>2, AppendFacts
    <3>3. CASE new.yielded[i] = x
      BY <3>1, <3>3
    <3>4. CASE i \in 1..Len(st.yielded) /\ new.yielded[i] = st.yielded[i]
      <4>1. new.yielded[i] < x
        BY <1>7, <3>4
      <4>2. st.yielded[i] \in Nat
        BY <1>2, <3>4, ElementOfSeq
      <4>3. new.queue[j] \in Nat
        BY <1>2, <3>1
      <4>4. x \in Nat /\ new.yielded[i] \in Nat
        BY <1>2, <1>7, <3>4, <4>2
      <4> QED BY <3>1, <4>1, <4>3, <4>4
    <3> QED BY <3>2, <3>3, <3>4
  <2>2. YieldInv(s) /\ new.replay \subseteq st.replay /\ \A y \in new.replay : x < y
    BY <1>1, <1>2 DEF StreamInv
  <2>3. x > IF st.lastId = NoId THEN st.start ELSE st.lastId
    <3>1. x > st.start
      BY <1>2, <1>7
    <3>2. st.lastId # NoId => st.lastId \in Nat /\ st.lastId <= st.start
      BY <1>2, <1>4 DEF StreamInv, YieldInv, Streams
    <3> QED BY <1>1, <1>2, <3>1, <3>2
  <2> HIDE DEF x
  <2>4. Topic(x) = TopicOf[s]
    BY <1>7 DEF Topic
  <2> QED BY <1>1, <1>2, <1>4, <1>7, <2>1, <2>2, <2>3, <2>4, YieldedMore
<1>12. NoGap(s)'
  <2> SUFFICES ASSUME NEW y \in (st.start + 1).._seq, topicOfId[y] = TopicOf[s]
               PROVE  \/ \E i \in 1..Len(new.yielded) : new.yielded[i] = y
                      \/ \E i \in 1..Len(new.queue) : new.queue[i] = y
    BY <1>1, <1>2 DEF NoGap, Topic
  <2>1. \/ \E i \in 1..Len(st.yielded) : st.yielded[i] = y
        \/ \E i \in 1..Len(st.queue) : st.queue[i] = y
    BY <1>2, <1>5 DEF StreamInv, NoGap, Topic
  <2>2. CASE \E i \in 1..Len(st.yielded) : st.yielded[i] = y
    BY <1>1, <1>2, <2>2, AppendFacts
  <2>3. ASSUME NEW i \in 1..Len(st.queue), st.queue[i] = y
        PROVE  \/ \E j \in 1..Len(new.yielded) : new.yielded[j] = y
               \/ \E j \in 1..Len(new.queue) : new.queue[j] = y
    <3>1. CASE i = 1
      <4>1. Len(st.yielded) + 1 \in 1..Len(new.yielded) /\ new.yielded[Len(st.yielded) + 1] = x
        BY <1>1, <1>2, AppendFacts
      <4> QED BY <1>3, <2>3, <3>1, <4>1
    <3>2. CASE i \in 2..Len(st.queue)
      BY <1>3, <2>3, <3>2
    <3> QED BY <1>3, <3>1, <3>2
  <2> QED BY <2>1, <2>2, <2>3
<1>13. ReplayInv(s)'
  <2>1. Position(new) = x
    BY <1>1, <1>2, PositionOfYielded
  <2>2. \A y \in Nat : ~ (x < y /\ y <= st.start)
    BY <1>2, <1>7
  <2>3. TopicOf[s] \in Topics /\ history[TopicOf[s]] \subseteq Nat
    BY DEF TypeOK, BusAssumption
  <2> QED BY <1>1, <1>2, <2>1, <2>2, <2>3 DEF ReplayInv
<1> QED
  BY <1>4, <1>5, <1>7, <1>9, <1>10, <1>11, <1>12, <1>13 DEF StreamInv, Topic

\* Every step keeps what the streams hold.
LEMMA StreamsExactStep ==
    ASSUME BusAssumption, TypeOK, StreamsExact, [Next]_vars
    PROVE  StreamsExact'
<1> USE BusAssumption
<1>1. ASSUME NEW s \in Subs, UNCHANGED <<topicOfId, history>>, StreamInv(s)',
             \A r \in Subs \ {s} : stream'[r] = stream[r]
      PROVE  StreamsExact'
  <2> SUFFICES ASSUME NEW r \in Subs PROVE StreamInv(r)'
    BY DEF StreamsExact
  <2>1. CASE r = s
    BY <1>1, <2>1
  <2>2. CASE r # s
    BY <1>1, <2>2, SameStream DEF StreamsExact
  <2> QED BY <2>1, <2>2
<1>2. ASSUME NEW t \in Topics, Publish(t) PROVE StreamsExact'
  BY <1>2, PublishKeeps DEF StreamsExact
<1>3. ASSUME NEW s \in Subs, Subscribe(s) PROVE StreamsExact'
  <2>1. Changes(s)
    BY <1>3, SubscribeStep
  <2> QED BY <1>1, <1>3, <2>1, SubscribeKeeps DEF Subscribe, Changes
<1>4. ASSUME NEW s \in Subs, YieldReplay(s) PROVE StreamsExact'
  <2>1. Changes(s)
    BY <1>4, YieldReplayStep
  <2> QED BY <1>1, <1>4, <2>1, YieldReplayKeeps DEF YieldReplay, Changes
<1>5. ASSUME NEW s \in Subs, End(s), stream[s].live, UNCHANGED <<topicOfId, history>>
      PROVE  StreamsExact'
  BY <1>1, <1>5, EndTypes, EndedStream
<1>6. ASSUME NEW s \in Subs, Get(s) PROVE StreamsExact'
  <2>1. CASE End(s)
    <3>1. stream[s].live
      <4>1. \A i : Closed(i).queue = <<>>
        BY DEF Closed
      <4> QED BY <1>6, <4>1 DEF Get, StreamsExact, StreamInv, ClosedInv
    <3> QED BY <1>5, <1>6, <2>1, <3>1 DEF Get
  <2>2. CASE ~ End(s)
    <3>1. Changes(s) /\ StreamInv(s)'
      BY <1>6, <2>2, GetStep, GetKeeps
    <3> QED BY <1>1, <1>6, <3>1 DEF Get, Changes
  <2> QED BY <2>1, <2>2
<1>7. ASSUME NEW s \in Subs, Disconnect(s) PROVE StreamsExact'
  BY <1>5, <1>7 DEF Disconnect
<1>8. CASE UNCHANGED vars
  BY <1>8, SameStream DEF vars, StreamsExact
<1> QED BY <1>2, <1>3, <1>4, <1>6, <1>7, <1>8 DEF Next

-----------------------------------------------------------------------------
(* Theorems *)

\* It all holds at the start.
LEMMA InitExact ==
    ASSUME BusAssumption, Init
    PROVE  TypeOK /\ StreamsExact
<1>1. _seq = 0 /\ topicOfId \in Seq(Topics)
  BY DEF Init, _seq
<1>2. \A s \in Subs : stream[s] = Closed(NoId)
  BY DEF Init
<1>3. Closed(NoId) \in Streams /\ Closed(NoId).queue = <<>> /\ Closed(NoId).lastId = NoId
  BY DEF Closed, Streams, Item
<1>4. history \in [Topics -> SUBSET (1.._seq)] /\ \A t \in Topics : history[t] = {}
  BY DEF Init
<1>5. Cardinality({}) = 0
  BY FS_EmptySet
<1>6. TypeOK
  <2>1. stream \in [Subs -> Streams]
    BY <1>3 DEF Init
  <2>2. \A t \in Topics : /\ Cardinality(history[t]) <= ReplaySize
                          /\ \A x \in history[t] : topicOfId[x] = t
    <3>1. 0 <= ReplaySize
      BY DEF BusAssumption
    <3> SUFFICES ASSUME NEW t \in Topics
                 PROVE  Cardinality(history[t]) <= ReplaySize /\ history[t] = {}
      OBVIOUS
    <3>2. history[t] = {}
      BY <1>4
    <3> QED BY <1>5, <3>1, <3>2
  <2>3. \A s \in Subs : /\ Len(stream[s].queue) <= QueueSize
                        /\ stream[s].lastId \in (0.._seq) \cup {NoId}
    BY <1>2, <1>3 DEF BusAssumption
  <2> QED BY <1>1, <1>4, <2>1, <2>2, <2>3 DEF TypeOK, BusAssumption
<1>7. StreamsExact
  <2> SUFFICES ASSUME NEW s \in Subs PROVE StreamInv(s)
    BY DEF StreamsExact
  <2>1. ~ stream[s].live /\ ~ stream[s].registered /\ stream[s] = Closed(stream[s].lastId)
    <3>1. ~ Closed(NoId).live /\ ~ Closed(NoId).registered
      BY DEF Closed
    <3> QED BY <1>2, <1>3, <3>1
  <2> QED BY <2>1 DEF StreamInv, ClosedInv, QueueInv, YieldInv, NoGap, ReplayInv
<1> QED BY <1>6, <1>7

\* The bus keeps its types: a queue is never longer than subscriber_queue_size
\* and a history never longer than replay_size.  Its streams hold what
\* ExactlySinceStart needs.
THEOREM StreamsAreExact == Spec => [](TypeOK /\ StreamsExact)
<1>1. Init => TypeOK /\ StreamsExact
  BY BusAssumption, InitExact
<1>2. TypeOK /\ StreamsExact /\ [Next]_vars => (TypeOK /\ StreamsExact)'
  BY BusAssumption, TypeStep, StreamsExactStep
<1> QED BY <1>1, <1>2, PTL DEF Spec

\* Types, and the bounds on queues and histories.
THEOREM TypeCorrect == Spec => []TypeOK
BY StreamsAreExact, PTL

\* A growing sequence goes on growing with one that lies above it.
LEMMA GrowingConcat ==
    ASSUME NEW p \in Seq(Nat), NEW q \in Seq(Item), Growing(p), Growing(q),
           \A i \in 1..Len(p), j \in 1..Len(q) : p[i] < q[j]
    PROVE  Growing(p \o q)
<1>1. /\ Len(p) \in Nat /\ Len(q) \in Nat
      /\ Len(p \o q) = Len(p) + Len(q)
      /\ \A i \in 1..(Len(p) + Len(q)) :
            (p \o q)[i] = IF i <= Len(p) THEN p[i] ELSE q[i - Len(p)]
  OBVIOUS
<1>2. ASSUME NEW i \in 1..(Len(p) + Len(q)), NEW j \in 1..(Len(p) + Len(q)), i < j
      PROVE  (p \o q)[i] < (p \o q)[j]
  <2>1. CASE j <= Len(p)
    <3>1. (p \o q)[i] = p[i] /\ (p \o q)[j] = p[j] /\ i \in 1..Len(p) /\ j \in 1..Len(p)
      BY <1>1, <1>2, <2>1
    <3> QED BY <3>1, <1>2 DEF Growing
  <2>2. CASE i <= Len(p) /\ ~ j <= Len(p)
    <3>1. /\ (p \o q)[i] = p[i] /\ (p \o q)[j] = q[j - Len(p)]
          /\ i \in 1..Len(p) /\ j - Len(p) \in 1..Len(q)
      BY <1>1, <2>2
    <3> QED BY <3>1
  <2>3. CASE ~ i <= Len(p)
    <3>1. /\ (p \o q)[i] = q[i - Len(p)] /\ (p \o q)[j] = q[j - Len(p)]
          /\ i - Len(p) \in 1..Len(q) /\ j - Len(p) \in 1..Len(q)
          /\ i - Len(p) < j - Len(p)
      BY <1>1, <1>2, <2>3
    <3> QED BY <3>1 DEF Growing
  <2> QED BY <1>1, <2>1, <2>2, <2>3
<1> QED BY <1>1, <1>2 DEF Growing

\* What a stream yielded and then its queue hold what was published on the
\* topic since subscribe() was called, all of it, in order, once and, but for a
\* replay of what the client has not seen, nothing else.
THEOREM StreamsMissNothing == Spec => []ExactlySinceStart
<1>1. ASSUME TypeOK, StreamsExact PROVE ExactlySinceStart
  <2> SUFFICES ASSUME NEW s \in Subs
               PROVE  LET st == stream[s] IN
                      /\ Growing(st.yielded)
                      /\ \A x \in Yielded(s) :
                            /\ topicOfId[x] = TopicOf[s]
                            /\ x > IF st.lastId = NoId THEN st.start ELSE st.lastId
                      /\ st.registered =>
                            /\ Growing(st.yielded \o st.queue)
                            /\ {x \in (st.start + 1).._seq : topicOfId[x] = TopicOf[s]} =
                                  {x \in Yielded(s) : x > st.start} \cup Queued(s)
    BY DEF ExactlySinceStart
  <2> DEFINE st == stream[s]
  <2>1. StreamInv(s) /\ _seq \in Nat /\ st.start \in Nat
    BY <1>1 DEF StreamsExact, TypeOK, _seq, Streams
  <2>2. CASE ~ st.live
    <3>1. \A i : ~ Closed(i).registered /\ Closed(i).yielded = <<>>
      BY DEF Closed
    <3>2. ~ st.registered /\ st.yielded = <<>>
      BY <2>1, <2>2, <3>1 DEF StreamInv, ClosedInv
    <3>3. Yielded(s) = {} /\ Growing(st.yielded)
      BY <3>2 DEF Yielded, Growing
    <3> QED BY <3>2, <3>3
  <2>3. CASE st.live
    <3>1. \A x \in Yielded(s) : /\ x \in 1.._seq /\ topicOfId[x] = TopicOf[s]
                                /\ x > IF st.lastId = NoId THEN st.start ELSE st.lastId
      BY <2>1, <2>3 DEF StreamInv, YieldInv, Yielded, Topic
    <3>2. st.registered => \A x \in Queued(s) : /\ x \in (st.start + 1).._seq
                                                /\ topicOfId[x] = TopicOf[s]
      <4> SUFFICES ASSUME st.registered, NEW i \in 1..Len(st.queue)
                   PROVE  st.queue[i] \in (st.start + 1).._seq /\ topicOfId[st.queue[i]] = TopicOf[s]
        BY DEF Queued
      <4> QED BY <2>1, <2>3 DEF StreamInv, QueueInv, Topic
    <3>3. st.registered => \A x \in (st.start + 1).._seq : topicOfId[x] = TopicOf[s] =>
                              x \in Yielded(s) \cup Queued(s)
      BY <2>1 DEF StreamInv, NoGap, Yielded, Queued, Topic
    <3>4. \A x \in (st.start + 1).._seq : x > st.start
      BY <2>1
    <3>5. \A x \in 1.._seq : x > st.start => x \in (st.start + 1).._seq
      BY <2>1
    <3>6. Growing(st.yielded)
      BY <2>1, <2>3 DEF StreamInv, YieldInv, Growing
    <3>7. ASSUME st.registered PROVE Growing(st.yielded \o st.queue)
      <4>1. st.yielded \in Seq(Nat) /\ st.queue \in Seq(Item)
        BY <1>1 DEF TypeOK, Streams
      <4>2. Growing(st.queue)
        BY <2>1, <2>3, <3>7, <4>1 DEF StreamInv, QueueInv, Growing
      <4>3. \A i \in 1..Len(st.yielded), j \in 1..Len(st.queue) : st.yielded[i] < st.queue[j]
        BY <2>1, <2>3, <3>7 DEF StreamInv, YieldInv
      <4> HIDE DEF st
      <4> QED BY <3>6, <4>1, <4>2, <4>3, GrowingConcat
    <3> QED BY <3>1, <3>2, <3>3, <3>4, <3>5, <3>6, <3>7
  <2> QED BY <2>2, <2>3
<1> QED BY <1>1, StreamsAreExact, PTL

-----------------------------------------------------------------------------
(* The contract *)

\* publish() adds the event and moves no stream.
LEMMA PublishRefines ==
    ASSUME BusAssumption, TypeOK, NEW t \in Topics, Publish(t)
    PROVE  Contract!Next
<1> DEFINE id == _seq + 1
<1>1. /\ _seq \in Nat /\ id \in 1..MaxSeq /\ _seq' = id
      /\ \A x \in 1.._seq : topicOfId'[x] = topicOfId[x]
      /\ topicOfId'[id] = t
      /\ history \in [Topics -> SUBSET (1.._seq)]
  BY DEF Publish, TypeOK, _seq, BusAssumption
<1>2. \A e \in Published : e[1] < id
  BY <1>1 DEF Published
<1>3. Published' = Published \cup {<<id, t>>}
  <2>1. 1..id = (1.._seq) \cup {id}
    BY <1>1
  <2> QED BY <1>1, <2>1 DEF Published
<1>4. Retained' \subseteq Retained \cup {<<id, t>>}
  <2> SUFFICES ASSUME NEW u \in Topics, NEW x \in history'[u]
               PROVE  <<x, topicOfId'[x]>> \in Retained \cup {<<id, t>>}
    BY DEF Retained
  <2>1. x \in history[u] \/ x = id
    <3>1. \A S : Latest(S) \subseteq S
      BY DEF Latest
    <3> QED BY <1>1, <3>1 DEF Publish
  <2>2. CASE x = id
    BY <1>1, <2>2
  <2>3. CASE x \in history[u]
    <3>1. x \in 1.._seq /\ topicOfId'[x] = topicOfId[x]
      BY <1>1, <2>3
    <3> QED BY <2>3, <3>1 DEF Retained
  <2> QED BY <2>1, <2>2, <2>3
<1>5. \A s \in Subs : /\ stream'[s].live = stream[s].live
                      /\ Position(stream'[s]) = Position(stream[s])
  <2> SUFFICES ASSUME NEW s \in Subs
               PROVE  /\ stream'[s].live = stream[s].live
                      /\ Position(stream'[s]) = Position(stream[s])
    OBVIOUS
  <2>1. stream[s] \in Streams
    BY DEF TypeOK
  <2>2. /\ stream'[s].live = stream[s].live /\ stream'[s].start = stream[s].start
        /\ stream'[s].replay = stream[s].replay /\ stream'[s].yielded = stream[s].yielded
    <3>1. LET new == Offered(stream[s], id) IN
          /\ new.live = stream[s].live /\ new.start = stream[s].start
          /\ new.replay = stream[s].replay /\ new.yielded = stream[s].yielded
      BY <2>1 DEF Offered, Streams
    <3> QED BY <3>1 DEF Publish
  <2> QED BY <2>2 DEF Position
<1>6. Open' = Open /\ Positions' = Positions
  BY <1>5 DEF Open, Positions
<1>7. Contract!Publish(id, t)
  BY <1>2, <1>3, <1>4, <1>6 DEF Contract!Publish, Published, Retained, Open, Positions
<1> QED BY <1>1, <1>7 DEF Contract!Next

\* A step of one stream shows in its place in the contract only.
LEMMA OneStream ==
    ASSUME TypeOK, NEW s \in Subs, Changes(s), UNCHANGED <<topicOfId, history>>
    PROVE  /\ Published' = Published /\ Retained' = Retained
           /\ Positions' = [Positions EXCEPT ![s] = Position(stream'[s])]
           /\ Open' = IF stream'[s].live THEN Open \cup {s} ELSE Open \ {s}
<1>1. Published' = Published /\ Retained' = Retained
  BY DEF Published, Retained, _seq
<1>2. Positions' = [Positions EXCEPT ![s] = Position(stream'[s])]
  BY DEF Positions, Changes
<1>3. Open' = IF stream'[s].live THEN Open \cup {s} ELSE Open \ {s}
  BY DEF Open, Changes
<1> QED BY <1>1, <1>2, <1>3

\* subscribe() opens a stream below the newest event.
LEMMA SubscribeRefines ==
    ASSUME BusAssumption, TypeOK, StreamsExact, NEW s \in Subs, Subscribe(s)
    PROVE  Contract!Next
<1>1. PICK id \in (0.._seq) \cup {NoId} :
         /\ Changes(s) /\ stream'[s].live /\ stream'[s].start = _seq
         /\ stream'[s].replay = ReplayAfter(TopicOf[s], id)
         /\ stream'[s].yielded = stream[s].yielded
  BY SubscribeStep
<1>2. /\ _seq \in Nat /\ _seq <= MaxSeq /\ stream'[s].yielded = <<>> /\ s \notin Open
      /\ stream'[s].replay \subseteq 1.._seq
  <2>1. stream[s].yielded = <<>>
    <3>1. \A i : Closed(i).yielded = <<>>
      BY DEF Closed
    <3> QED BY <3>1 DEF Subscribe, StreamsExact, StreamInv, ClosedInv
  <2>2. history[TopicOf[s]] \subseteq 1.._seq
    BY DEF TypeOK, BusAssumption
  <2> QED BY <1>1, <2>1, <2>2 DEF ReplayAfter, Subscribe, Open, TypeOK, _seq
<1> DEFINE p == Position(stream'[s])
<1>3. p \in 0.._seq
  <2>1. CASE stream'[s].replay = {}
    BY <1>1, <1>2, <2>1 DEF Position
  <2>2. CASE stream'[s].replay # {}
    <3> DEFINE R == stream'[s].replay
               least == CHOOSE x \in R : IsLeast(x, R)
    <3>1. least \in R
      BY <1>2, <2>2, LeastExists
    <3>2. p = least - 1
      BY <1>2, <2>2 DEF Position
    <3> HIDE DEF least
    <3>3. least \in 1.._seq
      BY <1>2, <3>1
    <3> QED BY <1>2, <3>2, <3>3
  <2> QED BY <2>1, <2>2
<1> HIDE DEF p
<1>4. p = 0 \/ \E e \in Published : p <= e[1]
  <2>1. CASE p # 0
    <3>1. _seq \in 1.._seq /\ p <= _seq
      BY <1>2, <1>3, <2>1
    <3>2. <<_seq, topicOfId[_seq]>> \in Published /\ <<_seq, topicOfId[_seq]>>[1] = _seq
      BY <3>1 DEF Published
    <3> QED BY <3>1, <3>2
  <2> QED BY <2>1
<1>5. UNCHANGED <<topicOfId, history>>
  BY DEF Subscribe
<1>6. /\ Open' = Open \cup {s} /\ Positions' = [Positions EXCEPT ![s] = p]
      /\ Published' = Published /\ Retained' = Retained
  BY <1>1, <1>5, OneStream DEF p
<1>7. Contract!Open(s, p)
  BY <1>2, <1>4, <1>6 DEF Contract!Open, Published, Retained, Open, Positions
<1>8. p \in {0} \cup (1..MaxSeq)
  BY <1>2, <1>3 DEF BusAssumption
<1> QED BY <1>7, <1>8 DEF Contract!Next

\* An event is yielded that is the next retained one of the topic.
LEMMA DeliverRefines ==
    ASSUME BusAssumption, TypeOK, NEW s \in Subs, Changes(s), UNCHANGED <<topicOfId, history>>,
           stream[s].live, stream'[s].live, NEW x \in 1.._seq, topicOfId[x] = TopicOf[s],
           Position(stream[s]) < x, Position(stream'[s]) = x,
           \A y \in history[TopicOf[s]] : ~ (Position(stream[s]) < y /\ y < x)
    PROVE  Contract!Next
<1> DEFINE e == <<x, TopicOf[s]>>
<1>1. e \in Published /\ s \in Open /\ Positions[s] = Position(stream[s])
  BY DEF Published, Open, Positions
<1>2. ASSUME NEW f \in Retained, f[2] = TopicOf[s], Positions[s] < f[1], f[1] < x
      PROVE  FALSE
  <2>1. PICK t \in Topics : \E y \in history[t] : f = <<y, topicOfId[y]>>
    BY DEF Retained
  <2> PICK y \in history[t] : f = <<y, topicOfId[y]>>
    BY <2>1
  <2>2. topicOfId[y] = t
    BY <2>1 DEF TypeOK
  <2>3. y \in history[TopicOf[s]]
    BY <1>2, <2>1, <2>2
  <2> QED BY <1>1, <1>2, <2>1, <2>3
<1>3. /\ Open' = Open /\ Positions' = [Positions EXCEPT ![s] = x]
      /\ Published' = Published /\ Retained' = Retained
  <2>1. Open \cup {s} = Open
    BY <1>1
  <2> QED BY <2>1, OneStream
<1>4. e[1] = x /\ e[2] = TopicOf[s]
  OBVIOUS
<1>5. Contract!Deliver(s, e)
  BY <1>1, <1>2, <1>3, <1>4 DEF Contract!Deliver, Published, Retained, Open, Positions
<1> QED BY <1>1, <1>5 DEF Contract!Next, Published

\* A stream ends.
LEMMA EndRefines ==
    ASSUME BusAssumption, TypeOK, StreamsExact, NEW s \in Subs, End(s), stream[s].live,
           UNCHANGED <<topicOfId, history>>
    PROVE  Contract!Next
<1>1. Changes(s) /\ stream'[s] = Closed(stream'[s].lastId)
  BY EndTypes DEF Changes
<1>2. ~ stream'[s].live /\ Position(stream'[s]) = 0
  <2>1. \A i : /\ ~ Closed(i).live /\ Closed(i).yielded = <<>>
               /\ Closed(i).replay = {} /\ Closed(i).start = 0
    BY DEF Closed
  <2>2. \A i : Position(Closed(i)) = 0
    BY <2>1 DEF Position
  <2> QED BY <1>1, <2>1, <2>2
<1>3. /\ Open' = Open \ {s} /\ Positions' = [Positions EXCEPT ![s] = 0]
      /\ Published' = Published /\ Retained' = Retained
  BY <1>1, <1>2, OneStream
<1>4. {s} \in SUBSET Open
  BY DEF Open
<1>5. Positions' = [r \in Subs |-> IF r \in {s} THEN 0 ELSE Positions[r]]
  BY <1>3 DEF Positions
<1>6. Contract!End({s})
  BY <1>3, <1>5 DEF Contract!End, Published, Retained, Open, Positions
<1> QED BY <1>4, <1>6 DEF Contract!Next, Open

\* Every step is one of the contract, or none.
LEMMA StepRefines ==
    ASSUME BusAssumption, TypeOK, StreamsExact, [Next]_vars
    PROVE  Contract!Next \/ UNCHANGED Contract!vars
<1> USE BusAssumption
<1>1. ASSUME NEW s \in Subs, YieldReplay(s) PROVE Contract!Next
  <2> DEFINE st == stream[s]
             P == Position(st)
  <2>1. PICK x \in st.replay :
           /\ Changes(s) /\ IsLeast(x, st.replay)
           /\ stream'[s].yielded = Append(st.yielded, x) /\ stream'[s].live = st.live
    BY <1>1, YieldReplayStep
  <2>2. /\ st \in Streams /\ st.yielded \in Seq(Nat) /\ st.replay \in SUBSET Nat
        /\ _seq \in Nat /\ st.start \in Nat
        /\ StreamInv(s) /\ UNCHANGED <<topicOfId, history>>
    BY <1>1 DEF TypeOK, Streams, StreamsExact, YieldReplay, _seq
  <2>3. st.live
    <3>1. \A i : Closed(i).replay = {}
      BY DEF Closed
    <3> QED BY <2>1, <2>2, <3>1 DEF StreamInv, ClosedInv
  <2>4. /\ x \in 1..st.start /\ st.start \in 0.._seq /\ topicOfId[x] = TopicOf[s]
        /\ \A i \in 1..Len(st.yielded) : st.yielded[i] < x
    BY <2>1, <2>2, <2>3 DEF StreamInv, YieldInv, Topic
  <2>5. P \in Nat /\ P < x
    BY <2>1, <2>2, <2>3, <2>4, PositionBehind DEF StreamInv
  <2>6. Position(stream'[s]) = x
    BY <2>1, <2>2, PositionOfYielded
  <2> HIDE DEF P
  <2>7. ASSUME NEW y \in history[TopicOf[s]], P < y, y < x PROVE FALSE
    <3>1. y \in Nat
      BY <2>7 DEF TypeOK, BusAssumption
    <3>2. y <= st.start
      BY <2>2, <2>4, <2>7, <3>1
    <3>3. y \in st.replay
      BY <2>2, <2>3, <2>7, <3>2 DEF StreamInv, ReplayInv, P
    <3> QED BY <2>1, <2>2, <2>7, <3>1, <3>3 DEF IsLeast
  <2>8. x \in 1.._seq
    BY <2>2, <2>4
  <2> QED BY <2>1, <2>2, <2>3, <2>4, <2>5, <2>6, <2>7, <2>8, DeliverRefines DEF P
<1>2. ASSUME NEW s \in Subs, Get(s) PROVE Contract!Next
  <2>1. CASE End(s)
    <3>1. stream[s].live
      <4>1. \A i : Closed(i).queue = <<>>
        BY DEF Closed
      <4> QED BY <1>2, <4>1 DEF Get, StreamsExact, StreamInv, ClosedInv
    <3> QED BY <1>2, <2>1, <3>1, EndRefines DEF Get
  <2>2. CASE ~ End(s)
    <3> DEFINE st == stream[s]
               x == Head(st.queue)
               P == Position(st)
    <3>1. /\ Changes(s) /\ x \in Nat /\ st.replay = {}
          /\ stream'[s].yielded = Append(st.yielded, x) /\ stream'[s].live = st.live
      BY <1>2, <2>2, GetStep
    <3>2. /\ st.registered /\ st.live
          /\ \A i \in 1..Len(st.yielded) : st.yielded[i] < x
          /\ x \in (st.start + 1).._seq /\ topicOfId[x] = TopicOf[s]
      BY <1>2, <2>2, GetKeeps DEF Topic
    <3>3. /\ st \in Streams /\ st.yielded \in Seq(Nat) /\ st.queue \in Seq(Item)
          /\ _seq \in Nat /\ st.start \in Nat /\ StreamInv(s) /\ st.queue # <<>>
          /\ UNCHANGED <<topicOfId, history>>
      BY <1>2 DEF TypeOK, Streams, StreamsExact, Get, _seq
    <3>4. x = st.queue[1] /\ x > st.start /\ x \in 1.._seq
      BY <3>2, <3>3, TailFacts
    <3> HIDE DEF x
    <3>5. P \in Nat /\ P < x
      BY <3>1, <3>2, <3>3, <3>4, PositionBehind DEF StreamInv
    <3>6. Position(stream'[s]) = x
      BY <3>1, <3>3, PositionOfYielded
    <3> HIDE DEF P
    <3>7. ASSUME NEW y \in history[TopicOf[s]], P < y, y < x PROVE FALSE
      <4>1. y \in 1.._seq /\ topicOfId[y] = TopicOf[s]
        BY <3>7 DEF TypeOK, BusAssumption
      <4>2. CASE y <= st.start
        BY <3>1, <3>2, <3>3, <3>7, <4>2 DEF StreamInv, ReplayInv, P
      <4>3. CASE ~ y <= st.start
        <5>1. y \in (st.start + 1).._seq
          BY <3>3, <4>1, <4>3
        <5>2. \/ \E i \in 1..Len(st.yielded) : st.yielded[i] = y
              \/ \E i \in 1..Len(st.queue) : st.queue[i] = y
          BY <3>2, <3>3, <4>1, <5>1 DEF StreamInv, NoGap, Topic
        <5>3. ASSUME NEW i \in 1..Len(st.yielded), st.yielded[i] = y PROVE FALSE
          <6>1. P = st.yielded[Len(st.yielded)] /\ Len(st.yielded) \in 1..Len(st.yielded)
            BY <3>3, <5>3 DEF P, Position
          <6>2. i = Len(st.yielded) \/ st.yielded[i] < st.yielded[Len(st.yielded)]
            <7>1. \A j, k \in 1..Len(st.yielded) : j < k => st.yielded[j] < st.yielded[k]
              BY <3>2, <3>3 DEF StreamInv, YieldInv
            <7>2. Len(st.yielded) \in Nat /\ (i = Len(st.yielded) \/ i < Len(st.yielded))
              BY <3>3
            <7> QED BY <6>1, <7>1, <7>2
          <6> QED BY <3>5, <3>7, <4>1, <5>3, <6>1, <6>2
        <5>4. ASSUME NEW i \in 1..Len(st.queue), st.queue[i] = y PROVE FALSE
          <6>1. 1 \in 1..Len(st.queue) /\ (i = 1 \/ 1 < i)
            BY <3>3, TailFacts
          <6>2. i = 1 \/ st.queue[1] < st.queue[i]
            BY <3>2, <3>3, <6>1 DEF StreamInv, QueueInv
          <6> QED BY <3>1, <3>4, <3>7, <4>1, <5>4, <6>2
        <5> QED BY <5>2, <5>3, <5>4
      <4> QED BY <4>2, <4>3
    <3> QED BY <3>1, <3>2, <3>3, <3>4, <3>5, <3>6, <3>7, DeliverRefines DEF P
  <2> QED BY <2>1, <2>2
<1>3. ASSUME NEW s \in Subs, Disconnect(s) PROVE Contract!Next
  BY <1>3, EndRefines DEF Disconnect
<1>4. CASE UNCHANGED vars
  <2>1. UNCHANGED <<Published, Retained, Open, Positions>>
    BY <1>4 DEF vars, _seq, Published, Retained, Open, Positions, Position
  <2> QED BY <2>1 DEF Contract!vars
<1> QED
  BY <1>1, <1>2, <1>3, <1>4, PublishRefines, SubscribeRefines DEF Next

\* The bus implements the contract of the port: what it does to its counter,
\* history, queues and replays is, seen from outside, publishing, discarding,
\* opening, ending, and yielding the next retained event of a topic.
THEOREM BusImplementsContract == Spec => ImplementsContract
<1>1. Init => Contract!Init
  <2> SUFFICES ASSUME Init PROVE Contract!Init
    OBVIOUS
  <2>1. _seq = 0 /\ 1..0 = {}
    BY DEF Init, _seq
  <2>2. Published = {} /\ Retained = {}
    BY <2>1 DEF Init, Published, Retained
  <2>3. \A s \in Subs : ~ stream[s].live /\ Position(stream[s]) = 0
    <3>1. \A i : /\ ~ Closed(i).live /\ Closed(i).yielded = <<>>
                 /\ Closed(i).replay = {} /\ Closed(i).start = 0
      BY DEF Closed
    <3>2. \A i : Position(Closed(i)) = 0
      BY <3>1 DEF Position
    <3> QED BY <3>1, <3>2 DEF Init
  <2>4. Open = {} /\ Positions = [s \in Subs |-> 0]
    BY <2>3 DEF Open, Positions
  <2> QED BY <2>2, <2>4 DEF Contract!Init, Published, Retained, Open, Positions
<1>2. TypeOK /\ StreamsExact /\ [Next]_vars => [Contract!Next]_Contract!vars
  BY BusAssumption, StepRefines
<1> QED BY <1>1, <1>2, StreamsAreExact, PTL DEF Spec, ImplementsContract, Contract!Spec

=============================================================================
