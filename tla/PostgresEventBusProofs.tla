----------------------- MODULE PostgresEventBusProofs -----------------------
(***************************************************************************)
(* Proofs about PostgresEventBus for every number of containers, clients,  *)
(* rows and every queue and batch size, with every disturbance allowed:    *)
(*   - the variables keep their types, a stream yields its events in       *)
(*     publish order and never twice, nothing is queued behind CLOSE;      *)
(*   - no stream misses a row its pump has read, and the bus implements    *)
(*     the contract EventStream;                                           *)
(*   - a stream is closed for being slow only when it is;                  *)
(*   - a client that comes back resumes exactly where it stopped, where    *)
(*     the reads of its subscription succeed and the table has its newest  *)
(*     row; only pruning by age takes that away.                           *)
(***************************************************************************)
EXTENDS PostgresEventBus, SequenceTheorems, FiniteSetTheorems,
        WellFoundedInduction, TLAPS

\* The end of streams leaves the stream variables well typed: what a client
\* keeps, the last event it saw or the id it had, is an id.
LEMMA EndStreamsType ==
    ASSUME TypeOK, NEW S \in SUBSET Subs, EndStreams(S)
    PROVE  /\ phase' \in [Subs -> Phases]
           /\ home' \in [Subs -> Containers]
           /\ registered' \subseteq Subs
           /\ queue' \in [Subs -> Seq(Item)]
           /\ regSeq' \in [Subs -> Nat]
           /\ lastId' \in [Subs -> Nat \cup {NoId}]
           /\ replay' \in [Subs -> SUBSET Nat]
           /\ delivered' \in [Subs -> Seq(Nat)]
           /\ headAtCall' \in [Subs -> Nat]
<1>1. \A s \in Subs : Seen(s) \in Nat \cup {NoId}
  <2> SUFFICES ASSUME NEW s \in Subs PROVE Seen(s) \in Nat \cup {NoId}
    OBVIOUS
  <2>1. CASE delivered[s] = <<>>
    BY <2>1 DEF Seen, TypeOK
  <2>2. CASE delivered[s] # <<>>
    <3>1. delivered[s] \in Seq(Nat) /\ Len(delivered[s]) \in 1..Len(delivered[s])
      BY <2>2 DEF TypeOK
    <3> QED BY <2>2, <3>1 DEF Seen
  <2> QED BY <2>1, <2>2
<1> QED BY <1>1 DEF EndStreams, TypeOK, Phases, Item

\* The rows of the table are numbers.
LEMMA EventsNat == TypeOK => events \subseteq Nat
<1> SUFFICES ASSUME TypeOK PROVE events \subseteq Nat
  OBVIOUS
<1>1. Len(rowTopic) \in Nat
  BY DEF TypeOK
<1>2. events \subseteq 1..Len(rowTopic)
  BY DEF TypeOK
<1> QED BY <1>1, <1>2

\* Type correctness is preserved by every step, one action at a time.
LEMMA TypeStep ==
    ASSUME ConstantsAssumption, TypeOK, [Next]_vars
    PROVE  TypeOK'
<1> USE ConstantsAssumption DEF TypeOK, dbVars, pumpVars, subVars, Phases, PumpStates, Item
<1>1. ASSUME NEW t \in Topics, PublishInsert(t) PROVE TypeOK'
  BY <1>1 DEF PublishInsert, InsertUnlocked
<1>2. ASSUME NEW x \in inTx, PublishCommit(x) PROVE TypeOK'
  BY <1>2 DEF PublishCommit
<1>3. ASSUME NEW x \in inTx, PublishAbort(x) PROVE TypeOK'
  BY <1>3 DEF PublishAbort
<1>4. ASSUME NEW c \in Containers, Start(c) PROVE TypeOK'
  BY <1>4 DEF Start
<1>5. ASSUME NEW c \in Containers, Fetch(c) PROVE TypeOK'
  <2>1. \A S, n : Oldest(S, n) \subseteq S
    BY DEF Oldest
  <2>2. NewRows(c) \subseteq Nat
    BY EventsNat DEF NewRows
  <2>3. batch' \in [Containers -> SUBSET Nat] /\ more' \in [Containers -> BOOLEAN]
    BY <1>5, <2>1, <2>2 DEF Fetch
  <2> QED BY <1>5, <2>3 DEF Fetch
<1>6. ASSUME NEW c \in Containers, Resume(c) PROVE TypeOK'
  BY <1>6 DEF Resume
<1>7. ASSUME NEW c \in Containers, Dispatch(c) PROVE TypeOK'
  <2>1. PICK x \in batch[c] :
          /\ queue' = [s \in Subs |->
                 IF s \in Overflowing(c, x) THEN <<CLOSE>>
                 ELSE IF s \in Receivers(c, x) THEN Append(queue[s], x)
                 ELSE queue[s]]
          /\ registered' = registered \ Overflowing(c, x)
          /\ cursor' = [cursor EXCEPT ![c] = x]
          /\ batch' = [batch EXCEPT ![c] = batch[c] \ {x}]
          /\ pump' = [pump EXCEPT ![c] =
                 IF inChunk[c] + 1 = Chunk \/ batch[c] = {x}
                 THEN "yield" ELSE "dispatch"]
    BY <1>7 DEF Dispatch
  <2>2. <<CLOSE>> \in Seq(Item) /\ \A s \in Subs : Append(queue[s], x) \in Seq(Item)
    <3>1. x \in Item
      <4>1. batch[c] \in SUBSET Nat
        OBVIOUS
      <4> QED BY <4>1
    <3> QED BY <3>1
  <2>3. queue' \in [Subs -> Seq(Item)]
    BY <2>1, <2>2
  <2>4. pump' \in [Containers -> PumpStates]
    BY <2>1
  <2>5. /\ cursor' \in [Containers -> Nat]
        /\ batch' \in [Containers -> SUBSET Nat]
        /\ registered' \subseteq Subs
    <3>1. batch[c] \in SUBSET Nat
      OBVIOUS
    <3>2. x \in Nat /\ batch[c] \ {x} \in SUBSET Nat
      BY <3>1
    <3> QED BY <2>1, <3>2
  <2>6. inChunk' \in [Containers -> Nat]
    BY <1>7 DEF Dispatch
  <2>7. UNCHANGED <<rowTopic, inTx, committed, events, more, phase, home,
                    regSeq, lastId, replay, delivered, headAtCall>>
    BY <1>7 DEF Dispatch
  <2> QED BY <2>3, <2>4, <2>5, <2>6, <2>7
<1>8. ASSUME NEW c \in Containers, PruneAge(c) PROVE TypeOK'
  BY <1>8 DEF PruneAge
<1>9. ASSUME NEW c \in Containers, PruneCount(c) PROVE TypeOK'
  BY <1>9 DEF PruneCount
<1>10. ASSUME NEW c \in Containers, PruneFails(c) PROVE TypeOK'
  BY <1>10 DEF PruneFails
<1>11. ASSUME NEW s \in Subs, NEW c \in Containers, Subscribe(s, c) PROVE TypeOK'
  <2>1. /\ lastId' \in [Subs -> Nat \cup {NoId}]
        /\ headAtCall' \in [Subs -> Nat]
    BY <1>11 DEF Subscribe
  <2>2. /\ phase' \in [Subs -> Phases]
        /\ home' \in [Subs -> Containers]
        /\ registered' \subseteq Subs
    BY <1>11 DEF Subscribe
  <2>3. UNCHANGED <<rowTopic, inTx, committed, events, pump, cursor, batch, more, inChunk,
                    queue, regSeq, replay, delivered>>
    BY <1>11 DEF Subscribe
  <2> QED BY <2>1, <2>2, <2>3
<1>12. ASSUME NEW s \in Subs, ReadHead(s) PROVE TypeOK'
  <2>1. PICK h \in events \cup {0} : regSeq' = [regSeq EXCEPT ![s] = h]
    BY <1>12 DEF ReadHead
  <2>2. h \in Nat
    BY EventsNat
  <2>3. regSeq' \in [Subs -> Nat]
    BY <2>1, <2>2
  <2>4. phase' \in [Subs -> Phases]
    BY <1>12 DEF ReadHead
  <2> QED BY <1>12, <2>3, <2>4 DEF ReadHead
<1>13. ASSUME NEW s \in Subs, ReadHeadFails(s) PROVE TypeOK'
  BY <1>13 DEF ReadHeadFails, StartAtCursor
<1>14. ASSUME NEW s \in Subs, FetchReplay(s) PROVE TypeOK'
  <2>1. \A S, n : Newest(S, n) \subseteq S
    BY DEF Newest
  <2>2. Replayable(s) \subseteq Nat
    BY EventsNat DEF Replayable, RowsFor
  <2>3. replay' \in [Subs -> SUBSET Nat]
    BY <1>14, <2>1, <2>2 DEF FetchReplay
  <2> QED BY <1>14, <2>3 DEF FetchReplay
<1>15. ASSUME NEW s \in Subs, FetchReplayFails(s) PROVE TypeOK'
  BY <1>15 DEF FetchReplayFails
<1>16. ASSUME NEW s \in Subs, YieldReplay(s) PROVE TypeOK'
  <2>1. /\ replay' \in [Subs -> SUBSET Nat]
        /\ delivered' \in [Subs -> Seq(Nat)]
    BY <1>16 DEF YieldReplay
  <2>2. UNCHANGED <<rowTopic, inTx, committed, events, pump, cursor, batch, more, inChunk,
                    phase, home, registered, queue, regSeq, lastId, headAtCall>>
    BY <1>16 DEF YieldReplay
  <2> QED BY <2>1, <2>2
<1>17. ASSUME NEW s \in Subs, GetEvent(s) PROVE TypeOK'
  <2>1. /\ Head(queue[s]) \in Nat
        /\ Tail(queue[s]) \in Seq(Item)
    <3>1. queue[s] \in Seq(Item) /\ queue[s] # <<>>
      BY <1>17 DEF GetEvent
    <3>2. Head(queue[s]) \in Item /\ Tail(queue[s]) \in Seq(Item)
      BY <3>1, HeadTailProperties
    <3> QED BY <1>17, <3>2 DEF GetEvent
  <2>2. Append(delivered[s], Head(queue[s])) \in Seq(Nat)
    BY <2>1
  <2>3. delivered' \in [Subs -> Seq(Nat)] /\ queue' \in [Subs -> Seq(Item)]
    BY <1>17, <2>1, <2>2 DEF GetEvent
  <2> QED BY <1>17, <2>3 DEF GetEvent
<1>18. ASSUME NEW s \in Subs, GetClose(s) PROVE TypeOK'
  BY <1>18, EndStreamsType, {s} \subseteq Subs DEF GetClose
<1>19. ASSUME NEW s \in Subs, Disconnect(s) PROVE TypeOK'
  BY <1>19, EndStreamsType, {s} \subseteq Subs DEF Disconnect
<1>20. ASSUME NEW c \in Containers, BeginClose(c) PROVE TypeOK'
  BY <1>20 DEF BeginClose
<1>21. ASSUME NEW c \in Containers, FinishClose(c) PROVE TypeOK'
  <2>1. <<CLOSE>> \in Seq(Item)
    OBVIOUS
  <2>2. queue' \in [Subs -> Seq(Item)]
    BY <1>21, <2>1 DEF FinishClose
  <2> QED BY <1>21, <2>2 DEF FinishClose
<1>22. ASSUME NEW c \in Containers, Stop(c) PROVE TypeOK'
  BY <1>22, EndStreamsType, Streams(c) \subseteq Subs DEF Stop, Streams
<1>23. CASE UNCHANGED vars
  BY <1>23 DEF vars
<1> QED
  BY <1>1, <1>2, <1>3, <1>4, <1>5, <1>6, <1>7, <1>8, <1>9, <1>10, <1>11,
     <1>12, <1>13, <1>14, <1>15, <1>16, <1>17, <1>18, <1>19, <1>20, <1>21,
     <1>22, <1>23
  DEF Next, Publish, Pump, Stream, Lifecycle

\* The variables of the bus keep their types.
THEOREM TypeCorrect == Spec => []TypeOK
<1>1. Init => TypeOK
  BY ConstantsAssumption
     DEF ConstantsAssumption, Init, TypeOK, Phases, PumpStates, Item
<1>2. TypeOK /\ [Next]_vars => TypeOK'
  BY ConstantsAssumption, TypeStep
<1> QED BY <1>1, <1>2, PTL DEF Spec

-----------------------------------------------------------------------------
(* The order of streams.  What a step does to one stream is stated first,  *)
(* for the two operations on a queue that matter: Append and Tail.         *)

\* Appending a row beyond the cursor keeps a queue in order.
LEMMA AppendOrdered ==
    ASSUME NEW q \in Seq(Item), NEW x \in Nat, NEW b \in Nat, b < x,
           CLOSE \notin Nat,
           \A i \in 1..Len(q) : q[i] # CLOSE,
           \A i \in 1..Len(q) : q[i] # CLOSE => q[i] <= b,
           \A i, j \in 1..Len(q) : i < j =>
               q[i] # CLOSE /\ (q[j] # CLOSE => q[i] < q[j])
    PROVE  /\ \A i \in 1..Len(Append(q, x)) : Append(q, x)[i] # CLOSE
           /\ \A i \in 1..Len(Append(q, x)) : Append(q, x)[i] <= x
           /\ \A i, j \in 1..Len(Append(q, x)) :
                 i < j => Append(q, x)[i] < Append(q, x)[j]
<1> DEFINE r == Append(q, x)
<1>1. Len(r) = Len(q) + 1 /\ r[Len(q) + 1] = x /\ \A i \in 1..Len(q) : r[i] = q[i]
  BY DEF Item
<1>2. \A i \in 1..Len(q) : q[i] \in Nat /\ q[i] <= b
  BY DEF Item
<1>3. Len(q) \in Nat
  OBVIOUS
<1> HIDE DEF r
<1>4. \A i \in 1..Len(r) : i \in 1..Len(q) \/ i = Len(q) + 1
  BY <1>1, <1>3
<1>5. \A i \in 1..Len(r) : r[i] # CLOSE /\ r[i] <= x
  BY <1>1, <1>2, <1>4
<1>6. ASSUME NEW i \in 1..Len(r), NEW j \in 1..Len(r), i < j PROVE r[i] < r[j]
  <2>1. i \in 1..Len(q)
    BY <1>1, <1>3, <1>6
  <2>2. CASE j \in 1..Len(q)
    BY <1>1, <1>6, <2>1, <2>2
  <2>3. CASE j = Len(q) + 1
    BY <1>1, <1>2, <2>1, <2>3
  <2> QED BY <1>4, <2>2, <2>3
<1> QED BY <1>5, <1>6 DEF r

\* Appending an event later than all yielded ones keeps a stream in order.
LEMMA AppendIncreasing ==
    ASSUME NEW q \in Seq(Nat), NEW x \in Nat, Increasing(q),
           \A i \in 1..Len(q) : q[i] < x
    PROVE  Increasing(Append(q, x))
BY DEF Increasing

\* A step that leaves the stream of s alone, moves the cursor of its
\* container only forwards while the stream is open, and neither takes that
\* container down nor closes it, keeps what the invariant says of s.
LEMMA Frame ==
    ASSUME ConstantsAssumption, TypeOK, TypeOK', NEW s \in Subs,
           PhaseInv(s), QueueInv(s), YieldInv(s),
           phase'[s] = phase[s], home'[s] = home[s],
           s \in registered' <=> s \in registered,
           queue'[s] = queue[s], regSeq'[s] = regSeq[s],
           replay'[s] = replay[s], delivered'[s] = delivered[s],
           phase[s] \in Active =>
               /\ cursor[home[s]] <= cursor'[home[s]]
               /\ pump'[home[s]] # "down"
               /\ pump[home[s]] = "closed" => pump'[home[s]] = "closed"
    PROVE  PhaseInv(s)' /\ QueueInv(s)' /\ YieldInv(s)'
<1>1. PhaseInv(s)'
  BY DEF PhaseInv
<1>2. CASE phase[s] \in Active
  <2> DEFINE b == cursor[home[s]]
             d == cursor'[home[s]]
  <2>1. b \in Nat /\ d \in Nat /\ b <= d
    BY <1>2 DEF TypeOK
  <2>2. /\ queue[s] \in Seq(Item)
        /\ delivered[s] \in Seq(Nat)
        /\ \A i \in 1..Len(queue[s]) : queue[s][i] \in Item
        /\ \A i \in 1..Len(delivered[s]) : delivered[s][i] \in Nat
    <3>1. queue[s] \in Seq(Item) /\ delivered[s] \in Seq(Nat)
      BY DEF TypeOK
    <3> QED BY <3>1, ElementOfSeq
  <2>3. \A i \in 1..Len(queue[s]) : queue[s][i] # CLOSE => queue[s][i] <= d
    BY <2>1, <2>2 DEF QueueInv, Item
  <2>4. QueueInv(s)'
    BY <1>2, <2>3 DEF QueueInv
  <2>5. \A i \in 1..Len(delivered[s]) :
            delivered[s][i] <= b => delivered[s][i] <= d
    BY <2>1, <2>2
  <2>6. YieldInv(s)'
    <3>1. Increasing(delivered[s])'
      BY DEF YieldInv, Increasing
    <3>2. ASSUME NEW i \in 1..Len(delivered[s])
          PROVE  delivered[s][i] <= regSeq[s] \/
                 (/\ delivered[s][i] <= d
                  /\ \A j \in 1..Len(queue[s]) :
                        queue[s][j] # CLOSE => delivered[s][i] < queue[s][j])
      BY <2>5 DEF YieldInv
    <3> QED BY <3>1, <3>2 DEF YieldInv
  <2> QED BY <1>1, <2>4, <2>6
<1>3. CASE phase[s] \notin Active
  <2>1. /\ queue[s] = <<>> /\ delivered[s] = <<>> /\ replay[s] = {}
        /\ s \notin registered
    BY <1>3 DEF PhaseInv, Active
  <2>2. QueueInv(s)'
    BY <2>1 DEF QueueInv, ConstantsAssumption
  <2>3. YieldInv(s)'
    BY <2>1 DEF YieldInv, Increasing
  <2> QED BY <1>1, <2>2, <2>3
<1> QED BY <1>2, <1>3

\* A stream that is over satisfies the invariant: it holds nothing.
LEMMA Ended ==
    ASSUME ConstantsAssumption, NEW s \in Subs,
           phase'[s] = "ended", s \notin registered', queue'[s] = <<>>,
           replay'[s] = {}, delivered'[s] = <<>>
    PROVE  PhaseInv(s)' /\ QueueInv(s)' /\ YieldInv(s)'
BY DEF ConstantsAssumption, PhaseInv, QueueInv, YieldInv, Increasing, Active

\* Every step keeps the streams in order: for each action, the batches, the
\* streams it acts on and, by Frame, all others.
LEMMA OrderStep ==
    ASSUME ConstantsAssumption, TypeOK, TypeOK', StreamsOrdered, [Next]_vars
    PROVE  StreamsOrdered'
<1> USE ConstantsAssumption
<1> DEFINE Ok(s) == PhaseInv(s) /\ QueueInv(s) /\ YieldInv(s)
<1>0. /\ \A c \in Containers : BatchInv(c)
      /\ \A s \in Subs : PhaseInv(s) /\ QueueInv(s) /\ YieldInv(s)
  BY DEF StreamsOrdered
<1>a. /\ cursor \in [Containers -> Nat] /\ cursor' \in [Containers -> Nat]
      /\ \A s \in Subs : home[s] \in Containers
  BY DEF TypeOK
\* Steps of publishers, and of pumps that do not dispatch.
<1>1. ASSUME UNCHANGED subVars, \A c \in Containers : BatchInv(c)',
             \A c \in Containers : pump[c] # "down" =>
                 /\ cursor[c] <= cursor'[c]
                 /\ pump'[c] # "down"
                 /\ pump[c] = "closed" => pump'[c] = "closed"
      PROVE  StreamsOrdered'
  <2>1. ASSUME NEW s \in Subs PROVE Ok(s)'
    <3>1. phase[s] \in Active => pump[home[s]] # "down"
      BY <1>0 DEF PhaseInv
    <3> QED BY <1>0, <1>1, <1>a, <3>1, Frame DEF subVars
  <2> QED BY <1>1, <2>1 DEF StreamsOrdered
\* Steps of one stream, which move no pump and leave the others alone.
<1>2. ASSUME NEW s \in Subs, UNCHANGED pumpVars, Ok(s)',
             \A r \in Subs \ {s} :
                 /\ phase'[r] = phase[r] /\ home'[r] = home[r]
                 /\ r \in registered' <=> r \in registered
                 /\ queue'[r] = queue[r] /\ regSeq'[r] = regSeq[r]
                 /\ replay'[r] = replay[r] /\ delivered'[r] = delivered[r]
      PROVE  StreamsOrdered'
  <2>1. ASSUME NEW r \in Subs \ {s} PROVE Ok(r)'
    <3>1. phase[r] \in Active => pump[home[r]] # "down"
      BY <1>0 DEF PhaseInv
    <3>2. cursor[home[r]] <= cursor'[home[r]] /\ pump' = pump
      BY <1>2, <1>a DEF pumpVars
    <3> QED BY <1>0, <1>2, <3>1, <3>2, Frame
  <2>2. \A c \in Containers : BatchInv(c)'
    BY <1>0, <1>2 DEF BatchInv, pumpVars
  <2> QED BY <1>2, <2>1, <2>2 DEF StreamsOrdered
<1>3. CASE Publish
  <2>1. UNCHANGED <<pumpVars, subVars>>
    BY <1>3 DEF Publish, PublishInsert, InsertUnlocked, PublishCommit, PublishAbort
  <2>2. \A c \in Containers : BatchInv(c)'
    BY <1>0, <2>1 DEF BatchInv, pumpVars
  <2> QED BY <1>1, <1>a, <2>1, <2>2 DEF pumpVars
<1>4. ASSUME NEW c \in Containers, Start(c) PROVE StreamsOrdered'
  <2>1. ASSUME NEW d \in Containers PROVE BatchInv(d)'
    <3>1. CASE d = c
      BY <1>0, <1>4, <3>1 DEF Start, BatchInv, TypeOK
    <3>2. CASE d # c
      BY <1>0, <1>4, <3>2 DEF Start, BatchInv, TypeOK
    <3> QED BY <3>1, <3>2
  <2>2. \A d \in Containers : pump[d] # "down" =>
            cursor'[d] = cursor[d] /\ pump'[d] = pump[d]
    BY <1>4 DEF Start, TypeOK
  <2> QED BY <1>1, <1>4, <1>a, <2>1, <2>2 DEF Start
<1>5. ASSUME NEW c \in Containers, Fetch(c) PROVE StreamsOrdered'
  <2>1. \A x \in batch'[c] : cursor'[c] < x
    BY <1>5 DEF Fetch, Oldest, NewRows, TypeOK
  <2>2. ASSUME NEW d \in Containers
        PROVE  BatchInv(d)'
    <3>1. CASE d = c
      <4>1. pump'[d] = "yield"
        BY <1>5, <3>1 DEF Fetch, TypeOK
      <4> QED BY <2>1, <3>1, <4>1 DEF BatchInv
    <3>2. CASE d # c
      <4>1. pump'[d] = pump[d] /\ cursor'[d] = cursor[d] /\ batch'[d] = batch[d]
        BY <1>5, <3>2 DEF Fetch, TypeOK
      <4> QED BY <1>0, <4>1 DEF BatchInv
    <3> QED BY <3>1, <3>2
  <2>3. \A d \in Containers : cursor'[d] = cursor[d]
            /\ pump'[d] \in {pump[d], "yield"} /\ (pump'[d] # pump[d] => pump[d] = "drain")
    BY <1>5 DEF Fetch, TypeOK
  <2>4. UNCHANGED subVars
    BY <1>5 DEF Fetch
  <2> QED BY <1>1, <1>a, <2>2, <2>3, <2>4
<1>6. ASSUME NEW c \in Containers,
             Resume(c) \/ PruneAge(c) \/ PruneCount(c) \/ PruneFails(c)
             \/ BeginClose(c)
      PROVE  StreamsOrdered'
  <2>1. ASSUME NEW d \in Containers
        PROVE  BatchInv(d)'
    <3>1. /\ cursor'[d] = cursor[d]
          /\ batch'[d] = batch[d] \/ batch'[d] = {}
      BY <1>6 DEF Resume, PruneAge, PruneCount, PruneFails, BeginClose, TypeOK
    <3>2. batch'[d] # {} => pump'[d] = pump[d] \/ pump'[d] \in {"yield", "dispatch"}
      <4>1. pump'[d] = pump[d] \/ d = c
        BY <1>6 DEF Resume, PruneAge, PruneCount, PruneFails, BeginClose, TypeOK
      <4>2. CASE d = c /\ Resume(c)
        BY <4>2 DEF Resume, TypeOK
      <4>3. CASE d = c /\ BeginClose(c)
        BY <4>3 DEF BeginClose, TypeOK
      <4>4. CASE d = c /\ (PruneAge(c) \/ PruneCount(c) \/ PruneFails(c))
        BY <1>0, <4>4 DEF PruneAge, PruneCount, PruneFails, BatchInv
      <4> QED BY <1>6, <4>1, <4>2, <4>3, <4>4
    <3> QED BY <1>0, <3>1, <3>2 DEF BatchInv
  <2>2. \A d \in Containers : /\ cursor'[d] = cursor[d]
                              /\ pump[d] # "down" => pump'[d] # "down"
                              /\ pump[d] = "closed" => pump'[d] = "closed"
    BY <1>6 DEF Resume, PruneAge, PruneCount, PruneFails, BeginClose, TypeOK
  <2>3. UNCHANGED subVars
    BY <1>6 DEF Resume, PruneAge, PruneCount, PruneFails, BeginClose
  <2> QED BY <1>1, <1>a, <2>1, <2>2, <2>3
<1>7. ASSUME NEW c \in Containers, Dispatch(c) PROVE StreamsOrdered'
  <2>1. PICK x \in batch[c] :
          /\ IsLeast(x, batch[c])
          /\ queue' = [s \in Subs |->
                 IF s \in Overflowing(c, x) THEN <<CLOSE>>
                 ELSE IF s \in Receivers(c, x) THEN Append(queue[s], x)
                 ELSE queue[s]]
          /\ registered' = registered \ Overflowing(c, x)
          /\ cursor' = [cursor EXCEPT ![c] = x]
          /\ batch' = [batch EXCEPT ![c] = batch[c] \ {x}]
          /\ pump' = [pump EXCEPT ![c] =
                 IF inChunk[c] + 1 = Chunk \/ batch[c] = {x}
                 THEN "yield" ELSE "dispatch"]
    BY <1>7 DEF Dispatch
  <2>2. /\ pump[c] = "dispatch"
        /\ UNCHANGED <<phase, home, regSeq, replay, delivered>>
    BY <1>7 DEF Dispatch
  <2>3. batch[c] \in SUBSET Nat /\ batch \in [Containers -> SUBSET Nat]
    BY DEF TypeOK
  <2>4. x \in Nat /\ cursor[c] \in Nat /\ cursor[c] < x
    BY <1>0, <1>a, <2>3 DEF BatchInv
  <2>5. ASSUME NEW d \in Containers PROVE BatchInv(d)'
    <3>1. CASE d = c
      <4>1. cursor'[c] = x /\ batch'[c] = batch[c] \ {x}
        BY <1>a, <2>1, <2>3
      <4>2. \A y \in batch[c] \ {x} : x < y
        BY <2>1, <2>3 DEF IsLeast
      <4>3. pump'[c] \in {"yield", "dispatch"}
        BY <2>1 DEF TypeOK
      <4> QED BY <3>1, <4>1, <4>2, <4>3 DEF BatchInv
    <3>2. CASE d # c
      BY <1>0, <2>1, <3>2 DEF BatchInv, TypeOK
    <3> QED BY <3>1, <3>2
  <2>6. ASSUME NEW s \in Subs PROVE Ok(s)'
    <3>1. PhaseInv(s) /\ QueueInv(s) /\ YieldInv(s)
      BY <1>0
    <3>2. CASE s \in Overflowing(c, x)
      <4>1. /\ queue'[s] = <<CLOSE>> /\ s \notin registered'
            /\ home[s] = c /\ phase[s] \in Active
        BY <2>1, <3>1, <3>2 DEF Overflowing, Receivers, LocalStreams, PhaseInv
      <4>2. cursor'[c] = x /\ pump'[c] \in {"yield", "dispatch"}
        BY <1>a, <2>1 DEF TypeOK
      <4>3. PhaseInv(s)'
        BY <2>2, <3>1, <4>1, <4>2 DEF PhaseInv
      <4>4. QueueInv(s)'
        BY <4>1 DEF QueueInv, ConstantsAssumption
      <4>5. YieldInv(s)'
        <5>1. \A i \in 1..Len(delivered[s]) : delivered[s][i] \in Nat
          BY ElementOfSeq DEF TypeOK
        <5>2. \A i \in 1..Len(delivered[s]) :
                  delivered[s][i] <= regSeq[s] \/ delivered[s][i] <= x
          BY <2>4, <3>1, <4>1, <5>1 DEF YieldInv
        <5>3. \A j \in 1..Len(queue'[s]) : queue'[s][j] = CLOSE
          BY <4>1
        <5> QED BY <2>2, <3>1, <4>1, <4>2, <5>2, <5>3 DEF YieldInv, Increasing
      <4> QED BY <4>3, <4>4, <4>5
    <3>3. CASE s \in Receivers(c, x) \ Overflowing(c, x)
      <4> DEFINE q == queue[s]
      <4>1. /\ queue'[s] = Append(q, x)
            /\ s \in registered /\ s \in registered'
            /\ home[s] = c /\ phase[s] \in Active /\ Len(q) < QueueSize
            /\ q \in Seq(Item)
        <5>1. queue[s] \in Seq(Item) /\ Len(queue[s]) \in Nat
          BY DEF TypeOK
        <5>2. Len(queue[s]) < QueueSize
          BY <3>3, <5>1 DEF Overflowing, ConstantsAssumption
        <5> QED BY <2>1, <3>1, <3>3, <5>1, <5>2 DEF Receivers, LocalStreams, PhaseInv
      <4>2. cursor'[c] = x /\ pump'[c] \in {"yield", "dispatch"}
        BY <1>a, <2>1 DEF TypeOK
      <4>3. /\ \A i \in 1..Len(Append(q, x)) : Append(q, x)[i] # CLOSE
            /\ \A i \in 1..Len(Append(q, x)) : Append(q, x)[i] <= x
            /\ \A i, j \in 1..Len(Append(q, x)) :
                  i < j => Append(q, x)[i] < Append(q, x)[j]
        <5>1. /\ \A i \in 1..Len(q) : q[i] # CLOSE
              /\ \A i \in 1..Len(q) : q[i] # CLOSE => q[i] <= cursor[c]
              /\ \A i, j \in 1..Len(q) : i < j =>
                    q[i] # CLOSE /\ (q[j] # CLOSE => q[i] < q[j])
          BY <2>2, <3>1, <4>1 DEF QueueInv
        <5> HIDE DEF q
        <5> QED BY <2>4, <4>1, <5>1, AppendOrdered DEF ConstantsAssumption
      <4>4. Len(Append(q, x)) = Len(q) + 1 /\ Len(q) \in Nat
        BY <4>1
      <4>5. PhaseInv(s)'
        BY <2>2, <3>1, <4>1, <4>2 DEF PhaseInv
      <4>6. QueueInv(s)'
        BY <2>2, <4>1, <4>2, <4>3, <4>4 DEF QueueInv, ConstantsAssumption
      <4>7. YieldInv(s)'
        <5>1. \A i \in 1..Len(delivered[s]) : delivered[s][i] \in Nat
          BY ElementOfSeq DEF TypeOK
        <5>2. ASSUME NEW i \in 1..Len(delivered[s]), ~ delivered[s][i] <= regSeq[s]
              PROVE  /\ delivered[s][i] <= x
                     /\ \A j \in 1..Len(Append(q, x)) : delivered[s][i] < Append(q, x)[j]
          <6>1. /\ delivered[s][i] <= cursor[c]
                /\ \A j \in 1..Len(q) : q[j] # CLOSE => delivered[s][i] < q[j]
            BY <3>1, <4>1, <5>2 DEF YieldInv
          <6>2. delivered[s][i] < x
            BY <2>4, <5>1, <6>1
          <6>3. \A j \in 1..Len(q) : delivered[s][i] < q[j]
            BY <2>2, <3>1, <4>1, <6>1 DEF QueueInv
          <6>4. \A j \in 1..Len(Append(q, x)) :
                    Append(q, x)[j] = IF j \in 1..Len(q) THEN q[j] ELSE x
            BY <2>4, <4>1 DEF Item
          <6>5. delivered[s][i] \in Nat
            BY <5>1
          <6> QED BY <2>4, <6>2, <6>3, <6>4, <6>5
        <5> HIDE DEF q
        <5>3. \A i \in 1..Len(delivered'[s]) :
                 \/ delivered'[s][i] <= regSeq'[s]
                 \/ /\ delivered'[s][i] <= cursor'[home'[s]]
                    /\ \A j \in 1..Len(queue'[s]) :
                          queue'[s][j] # CLOSE => delivered'[s][i] < queue'[s][j]
          BY <2>2, <4>1, <4>2, <5>2
        <5> QED BY <2>2, <3>1, <5>3 DEF YieldInv, Increasing
      <4> QED BY <4>5, <4>6, <4>7
    <3>4. CASE s \notin Receivers(c, x)
      <4>1. /\ queue'[s] = queue[s] /\ (s \in registered' <=> s \in registered)
        BY <2>1, <3>4 DEF Overflowing
      <4>2. /\ cursor[home[s]] <= cursor'[home[s]]
            /\ pump[home[s]] # "down" => pump'[home[s]] # "down"
            /\ pump[home[s]] = "closed" => pump'[home[s]] = "closed"
        <5>1. home[s] \in Containers
          BY <1>a
        <5>2. CASE home[s] = c
          BY <1>a, <2>1, <2>2, <2>4, <5>2 DEF TypeOK
        <5>3. CASE home[s] # c
          BY <1>a, <2>1, <5>1, <5>3 DEF TypeOK
        <5> QED BY <5>2, <5>3
      <4> QED BY <2>2, <3>1, <4>1, <4>2, Frame DEF PhaseInv
    <3> QED BY <3>2, <3>3, <3>4 DEF Overflowing
  <2> QED BY <2>5, <2>6 DEF StreamsOrdered
<1>8. ASSUME NEW c \in Containers, FinishClose(c) PROVE StreamsOrdered'
  <2>1. /\ pump[c] = "closing" /\ pump' = [pump EXCEPT ![c] = "closed"]
        /\ queue' = [s \in Subs |-> IF s \in registered /\ home[s] = c
                                     THEN <<CLOSE>> ELSE queue[s]]
        /\ UNCHANGED <<cursor, batch, phase, home, registered, regSeq, replay,
                       delivered>>
    BY <1>8 DEF FinishClose, LocalStreams
  <2>2. \A d \in Containers : BatchInv(d)'
    BY <1>0, <2>1 DEF BatchInv, TypeOK
  <2>3. \A d \in Containers : /\ pump[d] # "down" => pump'[d] # "down"
                              /\ pump[d] = "closed" => pump'[d] = "closed"
                              /\ d # c => pump'[d] = pump[d]
    BY <2>1 DEF TypeOK
  <2>4. ASSUME NEW s \in Subs PROVE Ok(s)'
    <3>1. PhaseInv(s) /\ QueueInv(s) /\ YieldInv(s)
      BY <1>0
    <3>2. CASE s \in registered /\ home[s] = c
      <4>1. queue'[s] = <<CLOSE>> /\ pump'[home[s]] = "closed"
        BY <2>1, <3>2 DEF TypeOK
      <4>2. PhaseInv(s)'
        BY <2>1, <3>1, <3>2, <4>1 DEF PhaseInv
      <4>3. QueueInv(s)'
        <5>1. pump'[home'[s]] = "closed"
          BY <2>1, <4>1
        <5>2. Len(queue'[s]) = 1 /\ \A i \in 1..Len(queue'[s]) : queue'[s][i] = CLOSE /\ i = 1
          BY <4>1
        <5> QED BY <5>1, <5>2 DEF QueueInv, ConstantsAssumption
      <4>4. YieldInv(s)'
        BY <2>1, <3>1, <4>1 DEF YieldInv, Increasing
      <4> QED BY <4>2, <4>3, <4>4
    <3>3. CASE ~ (s \in registered /\ home[s] = c)
      <4>1. queue'[s] = queue[s] /\ cursor[home[s]] <= cursor'[home[s]]
        BY <1>a, <2>1, <3>3
      <4> QED BY <1>a, <2>1, <2>3, <3>1, <4>1, Frame DEF PhaseInv
    <3> QED BY <3>2, <3>3
  <2> QED BY <2>2, <2>4 DEF StreamsOrdered
<1>9. ASSUME NEW S \in SUBSET Subs, EndStreams(S),
             \A c \in Containers : BatchInv(c)',
             \A s \in Subs \ S : phase[s] \in Active =>
                 /\ cursor[home[s]] <= cursor'[home[s]]
                 /\ pump'[home[s]] = pump[home[s]]
      PROVE  StreamsOrdered'
  <2>1. ASSUME NEW s \in S PROVE Ok(s)'
    BY <1>9, <2>1, Ended DEF EndStreams
  <2>2. ASSUME NEW s \in Subs \ S PROVE Ok(s)'
    <3>1. /\ phase'[s] = phase[s] /\ home'[s] = home[s]
          /\ s \in registered' <=> s \in registered
          /\ queue'[s] = queue[s] /\ regSeq'[s] = regSeq[s]
          /\ replay'[s] = replay[s] /\ delivered'[s] = delivered[s]
      BY <1>9 DEF EndStreams
    <3>2. phase[s] \in Active => pump[home[s]] # "down"
      BY <1>0 DEF PhaseInv
    <3> QED BY <1>0, <1>9, <3>1, <3>2, Frame
  <2> QED BY <1>9, <2>1, <2>2 DEF StreamsOrdered
<1>10. ASSUME NEW c \in Containers, Stop(c) PROVE StreamsOrdered'
  <2>1. \A d \in Containers : BatchInv(d)'
    BY <1>0, <1>10 DEF Stop, BatchInv, TypeOK
  <2>2. \A s \in Subs \ Streams(c) : phase[s] \in Active =>
            cursor'[home[s]] = cursor[home[s]] /\ pump'[home[s]] = pump[home[s]]
    BY <1>10, <1>a DEF Stop, Streams, TypeOK
  <2>3. Streams(c) \in SUBSET Subs /\ EndStreams(Streams(c))
    BY <1>10 DEF Stop, Streams
  <2> QED BY <1>9, <1>a, <2>1, <2>2, <2>3
<1>11. ASSUME NEW s \in Subs, GetClose(s) \/ Disconnect(s) PROVE StreamsOrdered'
  <2>1. EndStreams({s}) /\ UNCHANGED pumpVars
    BY <1>11 DEF GetClose, Disconnect
  <2>2. \A c \in Containers : BatchInv(c)'
    BY <1>0, <2>1 DEF BatchInv, pumpVars
  <2> QED BY <1>9, <1>a, <2>1, <2>2 DEF pumpVars
<1>12. ASSUME NEW s \in Subs, NEW c \in Containers, Subscribe(s, c)
       PROVE  StreamsOrdered'
  <2>1. /\ phase' = [phase EXCEPT ![s] = "registered"]
        /\ home' = [home EXCEPT ![s] = c]
        /\ registered' = registered \cup {s}
        /\ UNCHANGED <<pumpVars, queue, regSeq, replay, delivered>>
        /\ phase[s] \notin Active /\ pump[c] \notin {"down", "closed"}
    BY <1>12 DEF Subscribe, Active
  <2>2. phase'[s] = "registered" /\ home'[s] = c /\ pump' = pump
    BY <2>1 DEF TypeOK, pumpVars
  <2>3. queue'[s] = <<>> /\ replay'[s] = {} /\ delivered'[s] = <<>>
    BY <1>0, <2>1 DEF PhaseInv, Active
  <2>4. Ok(s)'
    <3>1. PhaseInv(s)'
      BY <2>1, <2>2, <2>3 DEF PhaseInv, Active
    <3>2. QueueInv(s)'
      BY <2>3 DEF QueueInv, ConstantsAssumption
    <3>3. YieldInv(s)'
      BY <2>3 DEF YieldInv, Increasing
    <3> QED BY <3>1, <3>2, <3>3
  <2> QED BY <1>2, <2>1, <2>4 DEF TypeOK
<1>13. ASSUME NEW s \in Subs, ReadHead(s) \/ ReadHeadFails(s) PROVE StreamsOrdered'
  <2>1. /\ phase[s] = "registered" /\ phase' = [phase EXCEPT ![s] = "started"]
        /\ UNCHANGED <<pumpVars, home, registered, queue, replay, delivered>>
        /\ \A r \in Subs \ {s} : regSeq'[r] = regSeq[r]
    BY <1>13 DEF ReadHead, ReadHeadFails, StartAtCursor, TypeOK
  <2>2. phase'[s] = "started" /\ replay[s] = {} /\ delivered[s] = <<>>
    BY <1>0, <2>1 DEF PhaseInv, TypeOK
  <2>3. Ok(s)'
    <3>1. PhaseInv(s)'
      BY <1>0, <2>1, <2>2 DEF PhaseInv, Active, pumpVars
    <3>2. QueueInv(s)'
      BY <1>0, <2>1 DEF QueueInv, pumpVars
    <3>3. YieldInv(s)'
      BY <2>1, <2>2 DEF YieldInv, Increasing
    <3> QED BY <3>1, <3>2, <3>3
  <2> QED BY <1>2, <2>1, <2>3 DEF TypeOK
<1>14. ASSUME NEW s \in Subs, FetchReplay(s) \/ FetchReplayFails(s)
       PROVE  StreamsOrdered'
  <2>1. /\ phase[s] = "started" /\ phase' = [phase EXCEPT ![s] = "live"]
        /\ UNCHANGED <<pumpVars, home, registered, queue, regSeq, delivered>>
        /\ \A r \in Subs \ {s} : replay'[r] = replay[r]
    BY <1>14 DEF FetchReplay, FetchReplayFails, TypeOK
  <2>2. phase'[s] = "live" /\ replay[s] = {} /\ delivered[s] = <<>>
    BY <1>0, <2>1 DEF PhaseInv, TypeOK
  <2>3. \A x \in replay'[s] : x <= regSeq[s]
    <3>1. \A S, n : Newest(S, n) \subseteq S
      BY DEF Newest
    <3>2. \A x \in Replayable(s) : x <= regSeq[s]
      BY DEF Replayable
    <3>3. replay'[s] = replay[s] \/ replay'[s] = Newest(Replayable(s), ReplaySize)
      BY <1>14 DEF FetchReplay, FetchReplayFails, TypeOK
    <3> QED BY <2>2, <3>1, <3>2, <3>3
  <2>4. Ok(s)'
    <3>1. PhaseInv(s)'
      BY <1>0, <2>1, <2>2 DEF PhaseInv, Active, pumpVars
    <3>2. QueueInv(s)'
      BY <1>0, <2>1 DEF QueueInv, pumpVars
    <3>3. YieldInv(s)'
      BY <2>1, <2>2, <2>3 DEF YieldInv, Increasing
    <3> QED BY <3>1, <3>2, <3>3
  <2> QED BY <1>2, <2>1, <2>4 DEF TypeOK
<1>15. ASSUME NEW s \in Subs, YieldReplay(s) PROVE StreamsOrdered'
  <2>1. PICK x \in replay[s] :
          /\ IsLeast(x, replay[s])
          /\ delivered' = [delivered EXCEPT ![s] = Append(delivered[s], x)]
          /\ replay' = [replay EXCEPT ![s] = replay[s] \ {x}]
    BY <1>15 DEF YieldReplay
  <2>2. /\ phase[s] = "live"
        /\ UNCHANGED <<pumpVars, phase, home, registered, queue, regSeq>>
    BY <1>15 DEF YieldReplay
  <2>3. /\ replay[s] \in SUBSET Nat /\ delivered[s] \in Seq(Nat)
        /\ regSeq[s] \in Nat
        /\ delivered'[s] = Append(delivered[s], x) /\ replay'[s] = replay[s] \ {x}
    BY <2>1 DEF TypeOK
  <2>4. x \in Nat /\ x <= regSeq[s] /\ (\A y \in replay[s] \ {x} : x < y)
    BY <1>0, <2>1, <2>3 DEF YieldInv, IsLeast
  <2>5. /\ Increasing(delivered[s])
        /\ \A i \in 1..Len(delivered[s]) : delivered[s][i] < x
    BY <1>0 DEF YieldInv
  <2>6. /\ Increasing(Append(delivered[s], x))
        /\ \A i \in 1..Len(Append(delivered[s], x)) :
              /\ Append(delivered[s], x)[i] <= regSeq[s]
              /\ \A y \in replay[s] \ {x} : Append(delivered[s], x)[i] < y
    <3> DEFINE q == delivered[s]
    <3>1. q \in Seq(Nat) /\ Increasing(q) /\ \A i \in 1..Len(q) : q[i] < x
      BY <2>3, <2>5
    <3> HIDE DEF q
    <3>2. Increasing(Append(q, x))
      BY <2>4, <3>1, AppendIncreasing
    <3>3. \A i \in 1..Len(Append(q, x)) :
              Append(q, x)[i] \in Nat /\ Append(q, x)[i] <= x
      BY <2>4, <3>1
    <3>4. \A i \in 1..Len(Append(q, x)) :
              /\ Append(q, x)[i] <= regSeq[s]
              /\ \A y \in replay[s] \ {x} : Append(q, x)[i] < y
      BY <2>3, <2>4, <3>3
    <3> QED BY <3>2, <3>4 DEF q
  <2>7. Ok(s)'
    <3>1. PhaseInv(s)'
      BY <1>0, <2>2 DEF PhaseInv, pumpVars
    <3>2. QueueInv(s)'
      BY <1>0, <2>2 DEF QueueInv, pumpVars
    <3>3. Increasing(delivered[s])'
      BY <2>3, <2>6 DEF Increasing
    <3>4. \A y \in replay'[s] : y <= regSeq'[s]
      BY <1>0, <2>2, <2>3 DEF YieldInv
    <3>5. \A i \in 1..Len(delivered'[s]) :
              /\ delivered'[s][i] <= regSeq'[s]
              /\ \A y \in replay'[s] : delivered'[s][i] < y
      BY <2>2, <2>3, <2>6
    <3>6. YieldInv(s)'
      BY <3>3, <3>4, <3>5 DEF YieldInv
    <3> QED BY <3>1, <3>2, <3>6
  <2> QED BY <1>2, <2>1, <2>2, <2>7 DEF TypeOK
<1>16. ASSUME NEW s \in Subs, GetEvent(s) PROVE StreamsOrdered'
  <2> DEFINE q == queue[s]
             d == delivered[s]
             x == Head(queue[s])
  <2>1. /\ phase[s] = "live" /\ replay[s] = {} /\ q # <<>> /\ x # CLOSE
        /\ delivered' = [delivered EXCEPT ![s] =
               IF x > regSeq[s] THEN Append(d, x) ELSE d]
        /\ queue' = [queue EXCEPT ![s] = Tail(q)]
        /\ UNCHANGED <<pumpVars, phase, home, registered, regSeq, replay>>
    BY <1>16 DEF GetEvent
  <2>2. /\ q \in Seq(Item) /\ d \in Seq(Nat) /\ regSeq[s] \in Nat
        /\ cursor[home[s]] \in Nat
        /\ queue'[s] = Tail(q)
        /\ delivered'[s] = IF x > regSeq[s] THEN Append(d, x) ELSE d
    BY <1>a, <2>1 DEF TypeOK
  <2>3. /\ PhaseInv(s) /\ QueueInv(s) /\ YieldInv(s)
        /\ home'[s] = home[s] /\ regSeq'[s] = regSeq[s] /\ replay'[s] = {}
        /\ cursor' = cursor /\ pump' = pump /\ phase' = phase
        /\ registered' = registered
    BY <1>0, <2>1 DEF pumpVars
  <2>4. /\ \A i \in 1..Len(q) : q[i] # CLOSE => q[i] <= cursor[home[s]]
        /\ \A i, j \in 1..Len(q) : i < j =>
              q[i] # CLOSE /\ (q[j] # CLOSE => q[i] < q[j])
        /\ Len(q) <= QueueSize
        /\ (s \in registered /\ pump[home[s]] # "closed") =>
              \A i \in 1..Len(q) : q[i] # CLOSE
    BY <2>3 DEF QueueInv
  <2>5. /\ Increasing(d)
        /\ \A i \in 1..Len(d) :
              \/ d[i] <= regSeq[s]
              \/ /\ d[i] <= cursor[home[s]]
                 /\ \A j \in 1..Len(q) : q[j] # CLOSE => d[i] < q[j]
    BY <2>3 DEF YieldInv
  <2> HIDE DEF q, d
  <2>6. x = q[1] /\ 1 \in 1..Len(q) /\ Len(q) \in Nat
    BY <2>1, <2>2 DEF q
  <2>7. x \in Nat /\ x <= cursor[home[s]]
    <3>1. q[1] \in Item
      BY <2>2, <2>6, ElementOfSeq
    <3> QED BY <2>1, <2>4, <2>6, <3>1 DEF Item
  <2> HIDE DEF x
  <2>8. /\ Tail(q) \in Seq(Item) /\ Len(Tail(q)) = Len(q) - 1
        /\ \A i \in 1..Len(Tail(q)) :
              i + 1 \in 1..Len(q) /\ Tail(q)[i] = q[i + 1]
    BY <2>1, <2>2, <2>6
  <2>9. \A i \in 1..Len(Tail(q)) : Tail(q)[i] # CLOSE => x < Tail(q)[i]
    BY <2>4, <2>6, <2>8
  <2>10. PhaseInv(s)'
    BY <2>1, <2>3 DEF PhaseInv, Active
  <2>11. QueueInv(s)'
    <3>1. \A i, j \in 1..Len(Tail(q)) : i < j =>
              /\ Tail(q)[i] # CLOSE
              /\ Tail(q)[j] # CLOSE => Tail(q)[i] < Tail(q)[j]
      <4> SUFFICES ASSUME NEW i \in 1..Len(Tail(q)), NEW j \in 1..Len(Tail(q)), i < j
                   PROVE  /\ Tail(q)[i] # CLOSE
                          /\ Tail(q)[j] # CLOSE => Tail(q)[i] < Tail(q)[j]
        OBVIOUS
      <4>1. i + 1 \in 1..Len(q) /\ j + 1 \in 1..Len(q) /\ i + 1 < j + 1
        BY <2>8
      <4>2. q[i + 1] # CLOSE /\ (q[j + 1] # CLOSE => q[i + 1] < q[j + 1])
        BY <2>4, <4>1
      <4> QED BY <2>8, <4>2
    <3>2. \A i \in 1..Len(Tail(q)) : Tail(q)[i] # CLOSE => Tail(q)[i] <= cursor[home[s]]
      BY <2>4, <2>8
    <3>3. Len(Tail(q)) <= QueueSize
      BY <2>4, <2>6, <2>8 DEF ConstantsAssumption
    <3>4. (s \in registered /\ pump[home[s]] # "closed") =>
              \A i \in 1..Len(Tail(q)) : Tail(q)[i] # CLOSE
      BY <2>4, <2>8
    <3> QED BY <2>2, <2>3, <3>1, <3>2, <3>3, <3>4 DEF QueueInv
  <2>12. YieldInv(s)'
    <3>1. CASE x > regSeq[s]
      <4>1. \A i \in 1..Len(d) : d[i] < x /\ d[i] \in Nat
        <5>1. \A i \in 1..Len(d) : d[i] \in Nat
          BY <2>2, ElementOfSeq
        <5>2. \A i \in 1..Len(d) : d[i] <= regSeq[s] \/ d[i] < x
          BY <2>1, <2>5, <2>6
        <5>3. regSeq[s] \in Nat
          BY <2>2
        <5> QED BY <2>7, <3>1, <5>1, <5>2, <5>3
      <4>2. Increasing(Append(d, x))
        BY <2>2, <2>5, <2>7, <4>1, AppendIncreasing
      <4>3. \A i \in 1..Len(Append(d, x)) :
                Append(d, x)[i] \in Nat /\ Append(d, x)[i] <= x
        BY <2>2, <2>7, <4>1
      <4>4. \A i \in 1..Len(Append(d, x)) :
                /\ Append(d, x)[i] <= cursor[home[s]]
                /\ \A j \in 1..Len(Tail(q)) :
                      Tail(q)[j] # CLOSE => Append(d, x)[i] < Tail(q)[j]
        <5> SUFFICES ASSUME NEW i \in 1..Len(Append(d, x))
                     PROVE  /\ Append(d, x)[i] <= cursor[home[s]]
                            /\ \A j \in 1..Len(Tail(q)) :
                                  Tail(q)[j] # CLOSE => Append(d, x)[i] < Tail(q)[j]
          OBVIOUS
        <5>1. \A j \in 1..Len(Tail(q)) : Tail(q)[j] # CLOSE => Tail(q)[j] \in Nat
          BY <2>8, ElementOfSeq DEF Item
        <5> QED BY <2>2, <2>7, <2>9, <4>3, <5>1
      <4>5. delivered'[s] = Append(d, x)
        BY <2>2, <3>1
      <4> QED BY <2>2, <2>3, <4>2, <4>4, <4>5 DEF YieldInv, Increasing
    <3>2. CASE ~ (x > regSeq[s])
      <4>1. delivered'[s] = d
        BY <2>2, <3>2
      <4>2. \A i \in 1..Len(d) :
              \/ d[i] <= regSeq[s]
              \/ /\ d[i] <= cursor[home[s]]
                 /\ \A j \in 1..Len(Tail(q)) :
                       Tail(q)[j] # CLOSE => d[i] < Tail(q)[j]
        BY <2>5, <2>8
      <4> QED BY <2>2, <2>3, <2>5, <4>1, <4>2 DEF YieldInv, Increasing
    <3> QED BY <3>1, <3>2
  <2>13. \A r \in Subs \ {s} : queue'[r] = queue[r] /\ delivered'[r] = delivered[r]
    BY <2>1 DEF TypeOK
  <2> QED BY <1>2, <2>1, <2>10, <2>11, <2>12, <2>13
<1>17. CASE UNCHANGED vars
  <2>1. \A c \in Containers : BatchInv(c)'
    BY <1>0, <1>17 DEF vars, pumpVars, BatchInv
  <2> QED BY <1>1, <1>17, <1>a, <2>1 DEF vars, pumpVars
<1> QED
  BY <1>3, <1>4, <1>5, <1>6, <1>7, <1>8, <1>10, <1>11, <1>12, <1>13, <1>14,
     <1>15, <1>16, <1>17
  DEF Next, Pump, Stream, Lifecycle

\* The invariant holds of every state the bus can reach.
THEOREM OrderInvariant == Spec => [](TypeOK /\ StreamsOrdered)
<1>1. Init => StreamsOrdered
  BY ConstantsAssumption DEF ConstantsAssumption, Init, StreamsOrdered, BatchInv, PhaseInv,
         QueueInv, YieldInv, Increasing, Active
<1>2. TypeOK /\ TypeOK' /\ StreamsOrdered /\ [Next]_vars => StreamsOrdered'
  BY ConstantsAssumption, OrderStep
<1> QED BY <1>1, <1>2, TypeCorrect, PTL DEF Spec

\* A stream yields its events in publish order and none of them twice,
\* whatever fails: subscribe() with the replay in front of the live queue.
THEOREM StreamsInOrder == Spec => []InOrder
<1>1. StreamsOrdered => InOrder
  BY DEF StreamsOrdered, YieldInv, InOrder
<1> QED BY <1>1, OrderInvariant, PTL

\* A subscriber's queue never outgrows its size and nothing follows CLOSE in
\* it: _dispatch and close() against the consumer.
THEOREM QueuesClosed == Spec => []NothingAfterClose
<1>1. TypeOK /\ StreamsOrdered => NothingAfterClose
  <2> SUFFICES ASSUME TypeOK, StreamsOrdered, NEW s \in Subs
               PROVE  /\ Len(queue[s]) <= QueueSize
                      /\ \A i \in 1..Len(queue[s]) :
                            queue[s][i] = CLOSE => i = Len(queue[s])
    BY DEF NothingAfterClose
  <2>1. Len(queue[s]) \in Nat
    BY DEF TypeOK
  <2> QED BY <2>1 DEF StreamsOrdered, QueueInv
<1> QED BY <1>1, OrderInvariant, PTL

-----------------------------------------------------------------------------
(* What streams miss: nothing.  The invariant behind NothingMissed says    *)
(* what the log, the pumps and the streams each contribute.                *)

\* The rows of the log that the client of s subscribed to.
TopicRows(s) == {x \in committed : rowTopic[x] = TopicOf[s]}

\* The advisory lock: one transaction at a time, and the row of an open one
\* is the last drawn and newer than any committed row.
LogInv ==
    /\ Len(rowTopic) <= MaxSeq
    /\ \A x \in inTx : x = Len(rowTopic) /\ x \notin committed

\* What a pump has fetched are committed rows, its cursor is one of them,
\* and a batch leaves out none of the table's rows up to its last.
BatchWhole(c) ==
    /\ cursor[c] \in committed \cup {0}
    /\ batch[c] \subseteq committed
    /\ \A x \in batch[c] : \A y \in events :
          (cursor[c] < y /\ y < x) => y \in batch[c]

\* A stream holds committed rows of its topic, its starting point is one of
\* the log, and so is the id its client keeps.
RowsInv(s) ==
    /\ replay[s] \subseteq TopicRows(s)
    /\ \A i \in 1..Len(delivered[s]) : delivered[s][i] \in TopicRows(s)
    /\ \A i \in 1..Len(queue[s]) :
          queue[s][i] # CLOSE => queue[s][i] \in TopicRows(s)
    /\ regSeq[s] \in committed \cup {0}
    /\ lastId[s] \in committed \cup {0, NoId}

\* A stream that its pump no longer serves has been told so.
ToldInv(s) ==
    (phase[s] \in Active /\ (s \notin registered \/ pump[home[s]] = "closed"))
        => queue[s] = <<CLOSE>>

Yielded(s, x) == \E i \in 1..Len(delivered[s]) : delivered[s][i] = x
Queued(s, x) == \E i \in 1..Len(queue[s]) : queue[s][i] = x

\* NothingMissed of one stream.
MissInv(s) ==
    (s \in registered /\ phase[s] \in {"started", "live"}
        /\ pump[home[s]] # "closed") =>
        \A x \in RowsFor(s) : (regSeq[s] < x /\ x <= cursor[home[s]]) =>
            Yielded(s, x) \/ Queued(s, x)

\* Between what a stream has yielded and its starting point the table holds
\* nothing of the topic but what is still to be replayed.
GapInv(s) ==
    phase[s] = "live" =>
        \A x \in RowsFor(s) :
            (Position(s) < x /\ x <= regSeq[s]) => x \in replay[s]

StreamWhole(s) ==
    RowsInv(s) /\ ToldInv(s) /\ MissInv(s) /\ GapInv(s)

NothingLost ==
    /\ LogInv
    /\ \A c \in Containers : BatchWhole(c)
    /\ \A s \in Subs : StreamWhole(s)

\* What any step does to the log: rows are committed behind all others, and
\* the table gains no other row.
LogGrows ==
    /\ committed \subseteq committed'
    /\ \A x \in committed : rowTopic'[x] = rowTopic[x]
    /\ \A x \in events' : x \in events \/ x \in committed' \ committed
    /\ \A x \in committed' \ committed : \A y \in committed \cup {0} : y < x

\* A set of rows that is not empty has a least one.
LEMMA LeastRow ==
    ASSUME NEW S \in SUBSET Nat, S # {}
    PROVE  First(S) \in S /\ \A x \in S : First(S) <= x
<1>1. PICK m \in S : \A y \in S : ~ (<<y, m>> \in OpToRel(<, Nat))
  BY NatLessThanWellFounded, WFMin
<1>2. \A y \in S : ~ (y < m)
  BY <1>1 DEF OpToRel
<1>3. \E x \in S : IsLeast(x, S)
  BY <1>2 DEF IsLeast
<1>4. First(S) \in S /\ IsLeast(First(S), S)
  BY <1>3 DEF First
<1> QED BY <1>4 DEF IsLeast

\* Rows are numbers from 1.
LEMMA CommittedNat ==
    TypeOK => committed \subseteq Nat \ {0} /\ \A x \in committed : x <= Len(rowTopic)
<1> SUFFICES ASSUME TypeOK
             PROVE  committed \subseteq Nat \ {0} /\ \A x \in committed : x <= Len(rowTopic)
  OBVIOUS
<1>1. Len(rowTopic) \in Nat
  BY DEF TypeOK
<1>2. committed \subseteq 1..Len(rowTopic)
  BY DEF TypeOK
<1> QED BY <1>1, <1>2

\* No step breaks the lock's order of the log.
LEMMA LogStep ==
    ASSUME ConstantsAssumption, TypeOK, LogInv, [Next]_vars
    PROVE  LogInv' /\ LogGrows
<1>0. /\ rowTopic \in Seq(Topics) /\ Len(rowTopic) \in Nat
      /\ committed \subseteq Nat \ {0}
      /\ \A x \in committed : x <= Len(rowTopic)
      /\ inTx \subseteq 1..Len(rowTopic)
      /\ events \subseteq committed
  BY CommittedNat DEF TypeOK
<1>1. ASSUME NEW t \in Topics, PublishInsert(t) PROVE LogInv' /\ LogGrows
  <2>1. /\ inTx' = {Len(rowTopic) + 1} /\ rowTopic' = Append(rowTopic, t)
        /\ Len(rowTopic) < MaxSeq
        /\ committed' = committed /\ events' = events
    BY <1>1 DEF PublishInsert, InsertUnlocked
  <2>2. Len(rowTopic') = Len(rowTopic) + 1
        /\ \A x \in 1..Len(rowTopic) : rowTopic'[x] = rowTopic[x]
    BY <1>0, <2>1
  <2>3. LogInv'
    BY <1>0, <2>1, <2>2 DEF LogInv, ConstantsAssumption
  <2>4. LogGrows
    BY <1>0, <2>1, <2>2 DEF LogGrows
  <2> QED BY <2>3, <2>4
<1>2. ASSUME NEW x \in inTx, PublishCommit(x) PROVE LogInv' /\ LogGrows
  <2>1. /\ inTx' = inTx \ {x} /\ committed' = committed \cup {x}
        /\ events' = events \cup {x} /\ rowTopic' = rowTopic
    BY <1>2 DEF PublishCommit
  <2>2. x = Len(rowTopic) /\ x \notin committed /\ \A y \in inTx : y = x
    BY DEF LogInv
  <2>3. LogInv'
    BY <1>0, <2>1, <2>2 DEF LogInv
  <2>4. \A y \in committed : y < x
    BY <1>0, <2>2
  <2>5. LogGrows
    BY <1>0, <2>1, <2>2, <2>4 DEF LogGrows
  <2> QED BY <2>3, <2>5
<1>3. ASSUME NEW x \in inTx, PublishAbort(x) PROVE LogInv' /\ LogGrows
  BY <1>0, <1>3 DEF PublishAbort, LogInv, LogGrows
<1>4. ASSUME NEW c \in Containers, PruneAge(c) \/ PruneCount(c)
      PROVE  LogInv' /\ LogGrows
  BY <1>0, <1>4 DEF PruneAge, PruneCount, LogInv, LogGrows
<1>5. ASSUME UNCHANGED dbVars PROVE LogInv' /\ LogGrows
  BY <1>0, <1>5 DEF dbVars, LogInv, LogGrows
<1> QED
  <2>1. CASE Publish
    BY <1>1, <1>2, <1>3, <2>1 DEF Publish
  <2>2. ASSUME NEW c \in Containers, Pump(c) PROVE LogInv' /\ LogGrows
    BY <1>4, <1>5, <2>2 DEF Pump, Start, Fetch, Resume, Dispatch, PruneFails
  <2>3. ASSUME NEW c \in Containers, Lifecycle(c) PROVE LogInv' /\ LogGrows
    BY <1>5, <2>3 DEF Lifecycle, BeginClose, FinishClose, Stop
  <2>4. ASSUME NEW s \in Subs, Stream(s) PROVE LogInv' /\ LogGrows
    BY <1>5, <2>4 DEF Stream, Subscribe, ReadHead, ReadHeadFails, StartAtCursor,
         FetchReplay, FetchReplayFails, YieldReplay, GetEvent, GetClose, Disconnect
  <2>5. CASE UNCHANGED vars
    BY <1>5, <2>5 DEF vars
  <2> QED BY <2>1, <2>2, <2>3, <2>4, <2>5 DEF Next

\* The table is finite.
LEMMA EventsFinite == TypeOK => IsFiniteSet(events)
<1> SUFFICES ASSUME TypeOK PROVE IsFiniteSet(events)
  OBVIOUS
<1>1. Len(rowTopic) \in Nat
  BY DEF TypeOK
<1>2. events \subseteq 1..Len(rowTopic)
  BY DEF TypeOK
<1>3. IsFiniteSet(1..Len(rowTopic))
  BY <1>1, FS_Interval
<1> QED BY <1>2, <1>3, FS_Subset

\* ORDER BY seq LIMIT n leaves out nothing older than what it returns.
LEMMA OldestWhole ==
    ASSUME NEW S \in SUBSET Nat, IsFiniteSet(S), NEW n \in Nat,
           NEW x \in Oldest(S, n), NEW y \in S, y < x
    PROVE  y \in Oldest(S, n)
<1> DEFINE A == {z \in S : z < y}
           B == {z \in S : z < x}
<1>1. x \in S /\ Cardinality(B) < n
  BY DEF Oldest
<1>2. A \subseteq B /\ B \subseteq S
  <2>1. \A z \in S : z \in Nat
    OBVIOUS
  <2>2. x \in Nat /\ y \in Nat
    BY <1>1, <2>1
  <2>3. \A z \in S : z < y => z < x
    BY <2>1, <2>2
  <2> QED BY <2>3
<1>3. IsFiniteSet(B)
  BY <1>2, FS_Subset
<1>4. /\ Cardinality(A) <= Cardinality(B)
      /\ Cardinality(A) \in Nat /\ Cardinality(B) \in Nat
  BY <1>2, <1>3, FS_Subset, FS_CardinalityType
<1>5. Cardinality(A) < n
  BY <1>1, <1>4
<1> QED BY <1>5 DEF Oldest

\* The pumps' batches stay whole: Fetch returns the oldest rows, Dispatch
\* takes the oldest of them, and what is committed later is newer.
LEMMA BatchStep ==
    ASSUME ConstantsAssumption, TypeOK, TypeOK', [Next]_vars, LogGrows,
           \A c \in Containers : BatchInv(c) /\ BatchWhole(c)
    PROVE  \A c \in Containers : BatchWhole(c)'
<1>0. /\ committed \subseteq Nat \ {0} /\ events \subseteq committed
      /\ cursor \in [Containers -> Nat] /\ batch \in [Containers -> SUBSET Nat]
  BY CommittedNat DEF TypeOK
<1>1. ASSUME NEW c \in Containers, cursor'[c] = cursor[c],
             batch'[c] = batch[c] \/ batch'[c] = {}
      PROVE  BatchWhole(c)'
  <2>1. cursor'[c] \in committed' \cup {0} /\ batch'[c] \subseteq committed'
    BY <1>1 DEF BatchWhole, LogGrows
  <2>2. ASSUME NEW x \in batch'[c], NEW y \in events', cursor'[c] < y, y < x
        PROVE  y \in batch'[c]
    <3>1. batch'[c] = batch[c] /\ x \in committed /\ x \in Nat
      BY <1>0, <1>1, <2>2 DEF BatchWhole
    <3>2. CASE y \in events
      BY <1>1, <2>2, <3>1, <3>2 DEF BatchWhole
    <3>3. CASE y \in committed' \ committed
      <4>1. x < y
        BY <3>1, <3>3 DEF LogGrows
      <4>2. y \in Nat
        BY CommittedNat, <3>3 DEF TypeOK
      <4> QED BY <2>2, <3>1, <4>1, <4>2
    <3> QED BY <3>2, <3>3 DEF LogGrows
  <2> QED BY <2>1, <2>2 DEF BatchWhole
<1>2. ASSUME UNCHANGED <<cursor, batch>> PROVE \A c \in Containers : BatchWhole(c)'
  BY <1>1, <1>2
<1>3. ASSUME NEW c \in Containers, Start(c) PROVE \A d \in Containers : BatchWhole(d)'
  <2>1. /\ cursor'[c] \in events \cup {0} /\ batch' = batch
        /\ batch[c] = {} /\ \A d \in Containers \ {c} : cursor'[d] = cursor[d]
    BY <1>0, <1>3 DEF Start, BatchInv
  <2>2. BatchWhole(c)'
    BY <1>0, <2>1 DEF BatchWhole, LogGrows
  <2> QED BY <1>1, <2>1, <2>2
<1>4. ASSUME NEW c \in Containers, Fetch(c) PROVE \A d \in Containers : BatchWhole(d)'
  <2>1. /\ batch'[c] = Oldest(NewRows(c), BatchSize)
        /\ \A d \in Containers \ {c} : batch'[d] = batch[d]
        /\ cursor' = cursor /\ events' = events
    BY <1>0, <1>4 DEF Fetch, dbVars
  <2>2. NewRows(c) \in SUBSET Nat /\ NewRows(c) \subseteq events
        /\ IsFiniteSet(NewRows(c)) /\ BatchSize \in Nat
    BY <1>0, EventsFinite, FS_Subset DEF NewRows, ConstantsAssumption
  <2>3. batch'[c] \subseteq NewRows(c)
    BY <2>1 DEF Oldest
  <2>4. \A x \in batch'[c] : \A y \in events' :
            (cursor'[c] < y /\ y < x) => y \in batch'[c]
    <3> SUFFICES ASSUME NEW x \in batch'[c], NEW y \in events, cursor[c] < y, y < x
                 PROVE  y \in batch'[c]
      BY <2>1
    <3>1. y \in NewRows(c)
      BY DEF NewRows
    <3> QED BY <2>1, <2>2, <3>1, OldestWhole
  <2>5. BatchWhole(c)'
    <3>1. cursor'[c] \in committed' \cup {0}
      BY <2>1 DEF BatchWhole, LogGrows
    <3>2. batch'[c] \subseteq committed'
      BY <1>0, <2>2, <2>3 DEF LogGrows
    <3> QED BY <2>4, <3>1, <3>2 DEF BatchWhole
  <2> QED BY <1>1, <2>1, <2>5
<1>5. ASSUME NEW c \in Containers, Dispatch(c) PROVE \A d \in Containers : BatchWhole(d)'
  <2>1. PICK x \in batch[c] :
          /\ IsLeast(x, batch[c])
          /\ cursor' = [cursor EXCEPT ![c] = x]
          /\ batch' = [batch EXCEPT ![c] = batch[c] \ {x}]
    BY <1>5 DEF Dispatch
  <2>2. /\ cursor'[c] = x /\ batch'[c] = batch[c] \ {x} /\ events' = events
        /\ \A d \in Containers \ {c} : cursor'[d] = cursor[d] /\ batch'[d] = batch[d]
    BY <1>0, <1>5, <2>1 DEF Dispatch, dbVars
  <2>3. cursor[c] < x /\ cursor[c] \in Nat /\ batch[c] \in SUBSET Nat
    BY <1>0 DEF BatchInv
  <2>4. BatchWhole(c)'
    <3>1. x \in committed' /\ batch'[c] \subseteq committed'
      BY <2>2 DEF BatchWhole, LogGrows
    <3>2. ASSUME NEW z \in batch'[c], NEW y \in events', cursor'[c] < y, y < z
          PROVE  y \in batch'[c]
      <4>1. y \in events /\ z \in batch[c] /\ y \in Nat /\ x < y /\ z \in Nat
        BY <1>0, <2>2, <2>3, <3>2
      <4>2. y \in batch[c]
        BY <2>3, <3>2, <4>1 DEF BatchWhole
      <4> QED BY <2>2, <2>3, <4>1, <4>2
    <3> QED BY <2>2, <3>1, <3>2 DEF BatchWhole
  <2> QED BY <1>1, <2>2, <2>4
<1>6. ASSUME NEW c \in Containers, BeginClose(c)
      PROVE  \A d \in Containers : BatchWhole(d)'
  <2>1. cursor' = cursor
        /\ \A d \in Containers : batch'[d] = batch[d] \/ batch'[d] = {}
    BY <1>0, <1>6 DEF BeginClose
  <2> QED BY <1>1, <2>1
<1>7. ASSUME NEW c \in Containers, Stop(c) PROVE \A d \in Containers : BatchWhole(d)'
  <2>1. /\ cursor'[c] = 0 /\ batch'[c] = {}
        /\ \A d \in Containers \ {c} : cursor'[d] = cursor[d] /\ batch'[d] = batch[d]
    BY <1>0, <1>7 DEF Stop
  <2>2. BatchWhole(c)'
    BY <2>1 DEF BatchWhole
  <2> QED BY <1>1, <2>1, <2>2
<1> QED
  <2>1. CASE Publish
    BY <1>2, <2>1 DEF Publish, PublishInsert, InsertUnlocked, PublishCommit,
                      PublishAbort, pumpVars
  <2>2. ASSUME NEW c \in Containers, Pump(c) PROVE \A d \in Containers : BatchWhole(d)'
    BY <1>2, <1>3, <1>4, <1>5, <2>2
    DEF Pump, Resume, PruneAge, PruneCount, PruneFails
  <2>3. ASSUME NEW c \in Containers, Lifecycle(c)
        PROVE  \A d \in Containers : BatchWhole(d)'
    BY <1>2, <1>6, <1>7, <2>3 DEF Lifecycle, FinishClose
  <2>4. ASSUME NEW s \in Subs, Stream(s) PROVE \A d \in Containers : BatchWhole(d)'
    BY <1>2, <2>4 DEF Stream, Subscribe, ReadHead, ReadHeadFails, StartAtCursor,
         FetchReplay, FetchReplayFails, YieldReplay, GetEvent, GetClose, Disconnect,
         pumpVars
  <2>5. CASE UNCHANGED vars
    BY <1>2, <2>5 DEF vars, pumpVars
  <2> QED BY <2>1, <2>2, <2>3, <2>4, <2>5 DEF Next

-----------------------------------------------------------------------------
(* One stream over a step. *)

\* A row of a topic stays one, and a new row is newer than any old one.
LEMMA TopicRowsGrow ==
    ASSUME TypeOK, TypeOK', LogGrows, NEW s \in Subs
    PROVE  /\ TopicRows(s) \subseteq TopicRows(s)'
           /\ \A x \in RowsFor(s)' :
                 \/ x \in RowsFor(s)
                 \/ x \in Nat /\ \A y \in committed \cup {0} : y < x
<1>1. TopicRows(s) \subseteq TopicRows(s)'
  BY DEF TopicRows, LogGrows
<1>2. ASSUME NEW x \in events', rowTopic'[x] = TopicOf[s], x \in events
      PROVE  x \in RowsFor(s)
  <2>1. x \in committed
    BY <1>2 DEF TypeOK
  <2> QED BY <1>2, <2>1 DEF RowsFor, LogGrows
<1>3. ASSUME NEW x \in committed' \ committed
      PROVE  x \in Nat /\ \A y \in committed \cup {0} : y < x
  <2>1. Len(rowTopic') \in Nat /\ committed' \subseteq 1..Len(rowTopic')
    <3>1. rowTopic' \in Seq(Topics) /\ committed' \subseteq 1..Len(rowTopic')
      BY DEF TypeOK
    <3> QED BY <3>1, LenProperties
  <2>2. x \in 1..Len(rowTopic')
    BY <1>3, <2>1
  <2>3. \A y \in committed \cup {0} : y < x
    BY <1>3 DEF LogGrows
  <2> QED BY <2>1, <2>2, <2>3
<1>4. RowsFor(s)' = {x \in events' : rowTopic'[x] = TopicOf[s]}
  BY DEF RowsFor
<1> QED BY <1>1, <1>2, <1>3, <1>4 DEF LogGrows

\* A stream whose variables stay, in a container whose pump moves neither
\* its cursor nor to or from its end, lacks nothing it did not lack before.
LEMMA WholeFrame ==
    ASSUME ConstantsAssumption, TypeOK, TypeOK', LogGrows, NEW s \in Subs,
           PhaseInv(s), BatchWhole(home[s]), StreamWhole(s),
           phase'[s] = phase[s], home'[s] = home[s],
           s \in registered' <=> s \in registered,
           queue'[s] = queue[s], regSeq'[s] = regSeq[s], lastId'[s] = lastId[s],
           replay'[s] = replay[s], delivered'[s] = delivered[s],
           phase[s] \in Active =>
               /\ cursor'[home[s]] = cursor[home[s]]
               /\ pump'[home[s]] = "closed" <=> pump[home[s]] = "closed"
    PROVE  StreamWhole(s)'
<1>1. RowsInv(s)'
  BY TopicRowsGrow DEF StreamWhole, RowsInv, LogGrows
<1>2. ToldInv(s)'
  BY DEF StreamWhole, ToldInv
<1>3. MissInv(s)'
  <2> SUFFICES ASSUME s \in registered, phase[s] \in {"started", "live"},
                      pump[home[s]] # "closed", NEW x \in RowsFor(s)',
                      regSeq[s] < x, x <= cursor[home[s]]
               PROVE  Yielded(s, x)' \/ Queued(s, x)'
    BY DEF MissInv, PhaseInv, Active
  <2>1. cursor[home[s]] \in committed \cup {0} /\ cursor[home[s]] \in Nat
    BY DEF BatchWhole, TypeOK
  <2>2. x \in RowsFor(s)
    BY <2>1, TopicRowsGrow
  <2>3. Yielded(s, x) \/ Queued(s, x)
    BY <2>2 DEF StreamWhole, MissInv
  <2> QED BY <2>3 DEF Yielded, Queued
<1>4. GapInv(s)'
  <2>1. Position(s)' = Position(s)
    BY DEF Position
  <2> SUFFICES ASSUME phase[s] = "live", NEW x \in RowsFor(s)',
                      Position(s) < x, x <= regSeq[s]
               PROVE  x \in replay[s]
    BY <2>1 DEF GapInv
  <2>2. regSeq[s] \in committed \cup {0} /\ regSeq[s] \in Nat
    BY DEF StreamWhole, RowsInv, TypeOK
  <2>3. x \in RowsFor(s)
    BY <2>2, TopicRowsGrow
  <2> QED BY <2>3 DEF StreamWhole, GapInv
<1> QED BY <1>1, <1>2, <1>3, <1>4 DEF StreamWhole

\* The variables of stream r stay as they are.
StreamStays(r) ==
    /\ phase'[r] = phase[r] /\ home'[r] = home[r]
    /\ r \in registered' <=> r \in registered
    /\ queue'[r] = queue[r] /\ regSeq'[r] = regSeq[r] /\ lastId'[r] = lastId[r]
    /\ replay'[r] = replay[r] /\ delivered'[r] = delivered[r]

\* What an end leaves of a stream lacks nothing: the client keeps an id it
\* was given or the one it had.
LEMMA EndWhole ==
    ASSUME ConstantsAssumption, TypeOK, LogGrows,
           NEW S \in SUBSET Subs, EndStreams(S), NEW s \in S, RowsInv(s)
    PROVE  StreamWhole(s)'
<1>1. /\ phase'[s] = "ended" /\ lastId'[s] = Seen(s) /\ s \notin registered'
      /\ queue'[s] = <<>> /\ regSeq'[s] = 0 /\ replay'[s] = {}
      /\ delivered'[s] = <<>>
  BY DEF EndStreams
<1>2. Seen(s) \in committed \cup {0, NoId}
  <2>1. CASE delivered[s] = <<>>
    BY <2>1 DEF Seen, RowsInv
  <2>2. CASE delivered[s] # <<>>
    <3>1. Len(delivered[s]) \in 1..Len(delivered[s])
      BY <2>2 DEF TypeOK
    <3> QED BY <2>2, <3>1 DEF Seen, RowsInv, TopicRows
  <2> QED BY <2>1, <2>2
<1>3. RowsInv(s)'
  BY <1>1, <1>2 DEF RowsInv, LogGrows
<1>4. ToldInv(s)' /\ MissInv(s)' /\ GapInv(s)'
  BY <1>1 DEF ToldInv, MissInv, GapInv, Active
<1> QED BY <1>3, <1>4 DEF StreamWhole

\* Subscribe: registered with an empty queue, and nothing claimed yet.
LEMMA SubscribeWhole ==
    ASSUME ConstantsAssumption, TypeOK, LogGrows, NEW s \in Subs, NEW c \in Containers,
           PhaseInv(s), StreamWhole(s), Subscribe(s, c)
    PROVE  StreamWhole(s)'
<1>1. /\ phase'[s] = "registered" /\ home'[s] = c /\ s \in registered'
      /\ lastId'[s] \in {NoId, 0, lastId[s]} /\ pump'[c] # "closed"
      /\ UNCHANGED <<queue, regSeq, replay, delivered>>
  BY DEF Subscribe, TypeOK, pumpVars
<1>2. queue[s] = <<>> /\ replay[s] = {} /\ delivered[s] = <<>>
  BY DEF PhaseInv, Active, Subscribe
<1>3. RowsInv(s)'
  BY <1>1, <1>2 DEF StreamWhole, RowsInv, LogGrows
<1>4. ToldInv(s)' /\ MissInv(s)' /\ GapInv(s)'
  BY <1>1 DEF ToldInv, MissInv, GapInv
<1> QED BY <1>3, <1>4 DEF StreamWhole

\* The start is fixed: nothing that the pump has passed lies behind it.
LEMMA StartWhole ==
    ASSUME ConstantsAssumption, TypeOK, TypeOK', LogGrows, NEW s \in Subs,
           BatchWhole(home[s]), StreamWhole(s), ReadHead(s) \/ ReadHeadFails(s)
    PROVE  StreamWhole(s)'
<1>1. /\ phase[s] = "registered" /\ phase'[s] = "started"
      /\ UNCHANGED <<dbVars, pumpVars, home, registered, queue, lastId, replay, delivered>>
  BY DEF ReadHead, ReadHeadFails, StartAtCursor, TypeOK
<1>2. /\ regSeq'[s] \in committed \cup {0} /\ cursor[home[s]] \in Nat
      /\ \A x \in events : ~ (regSeq'[s] < x /\ x <= cursor[home[s]])
  <2>0. events \subseteq committed /\ committed \subseteq Nat \ {0}
        /\ cursor[home[s]] \in Nat
    BY CommittedNat DEF TypeOK
  <2>1. CASE ReadHead(s)
    <3>1. IsNewest(regSeq'[s], events) /\ regSeq'[s] \in events \cup {0}
      BY <2>1 DEF ReadHead, TypeOK
    <3>2. \A x \in events : x <= regSeq'[s]
      BY <3>1 DEF IsNewest
    <3>3. regSeq'[s] \in committed \cup {0} /\ regSeq'[s] \in Nat
      <4>1. CASE regSeq'[s] \in events
        <5>1. regSeq'[s] \in committed
          BY <4>1, <2>0
        <5> QED BY <5>1, <2>0
      <4>2. CASE regSeq'[s] = 0
        BY <4>2
      <4> QED BY <3>1, <4>1, <4>2
    <3>4. ASSUME NEW x \in events PROVE ~ (regSeq'[s] < x)
      <4>1. x \in Nat /\ x <= regSeq'[s]
        BY <2>0, <3>2
      <4> QED BY <3>3, <4>1
    <3> QED BY <2>0, <3>3, <3>4
  <2>2. CASE ReadHeadFails(s)
    <3>1. regSeq'[s] = cursor[home[s]]
      BY <2>2 DEF ReadHeadFails, StartAtCursor, TypeOK
    <3> QED BY <2>0, <3>1 DEF BatchWhole
  <2> QED BY <2>1, <2>2
<1>3. RowsInv(s)'
  BY <1>1, <1>2, TopicRowsGrow DEF StreamWhole, RowsInv, dbVars, LogGrows
<1>4. ToldInv(s)'
  BY <1>1 DEF StreamWhole, ToldInv, pumpVars, Active
<1>5. MissInv(s)'
  BY <1>1, <1>2 DEF MissInv, RowsFor, dbVars, pumpVars
<1>6. GapInv(s)'
  BY <1>1 DEF GapInv
<1> QED BY <1>3, <1>4, <1>5, <1>6 DEF StreamWhole

\* ORDER BY seq DESC LIMIT n leaves out nothing newer than what it returns.
LEMMA NewestWhole ==
    ASSUME NEW S \in SUBSET Nat, IsFiniteSet(S), NEW n \in Nat,
           NEW x \in Newest(S, n), NEW y \in S, x < y
    PROVE  y \in Newest(S, n)
<1> DEFINE A == {z \in S : z > y}
           B == {z \in S : z > x}
<1>1. x \in S /\ Cardinality(B) < n
  BY DEF Newest
<1>2. A \subseteq B /\ B \subseteq S
  <2>1. \A z \in S : z \in Nat
    OBVIOUS
  <2>2. x \in Nat /\ y \in Nat
    BY <1>1, <2>1
  <2>3. \A z \in S : z > y => z > x
    BY <2>1, <2>2
  <2> QED BY <2>3
<1>3. IsFiniteSet(B)
  BY <1>2, FS_Subset
<1>4. /\ Cardinality(A) <= Cardinality(B)
      /\ Cardinality(A) \in Nat /\ Cardinality(B) \in Nat
  BY <1>2, <1>3, FS_Subset, FS_CardinalityType
<1>5. Cardinality(A) < n
  BY <1>1, <1>4
<1> QED BY <1>5 DEF Newest

\* The replay is fixed: between its first row and the start it leaves out
\* none; if the query failed, the stream goes on from the start.
LEMMA FetchReplayWhole ==
    ASSUME ConstantsAssumption, TypeOK, TypeOK', LogGrows, NEW s \in Subs,
           PhaseInv(s), StreamWhole(s), FetchReplay(s) \/ FetchReplayFails(s)
    PROVE  StreamWhole(s)'
<1>1. /\ phase[s] = "started" /\ phase'[s] = "live"
      /\ UNCHANGED <<dbVars, pumpVars, home, registered, queue, regSeq, lastId, delivered>>
      /\ replay'[s] = {} \/ (lastId[s] # NoId
                             /\ replay'[s] = Newest(Replayable(s), ReplaySize))
  <2>1. replay[s] = {}
    BY DEF PhaseInv, FetchReplay, FetchReplayFails
  <2>2. lastId[s] = NoId => Newest(Replayable(s), ReplaySize) = {}
    BY DEF Replayable, Newest
  <2> QED BY <2>1, <2>2 DEF FetchReplay, FetchReplayFails, TypeOK
<1>2. delivered[s] = <<>>
  BY <1>1 DEF PhaseInv
<1>3. /\ events \subseteq committed /\ committed \subseteq Nat \ {0}
      /\ regSeq[s] \in Nat /\ replay'[s] \in SUBSET Nat
      /\ lastId[s] \in Nat \cup {NoId} /\ ReplaySize \in Nat
  BY CommittedNat DEF TypeOK, ConstantsAssumption
<1>4. replay'[s] \subseteq RowsFor(s)
  BY <1>1 DEF Newest, Replayable
<1>5. RowsInv(s)'
  <2>1. RowsFor(s) \subseteq TopicRows(s)
    BY <1>3 DEF RowsFor, TopicRows
  <2> QED BY <1>1, <1>4, <2>1, TopicRowsGrow DEF StreamWhole, RowsInv, LogGrows
<1>6. ToldInv(s)'
  BY <1>1 DEF StreamWhole, ToldInv, pumpVars, Active
<1>7. MissInv(s)'
  BY <1>1 DEF StreamWhole, MissInv, RowsFor, Yielded, Queued, dbVars, pumpVars
<1>8. GapInv(s)'
  <2> SUFFICES ASSUME NEW x \in RowsFor(s), Position(s)' < x, x <= regSeq[s]
               PROVE  x \in replay'[s]
    BY <1>1 DEF GapInv, RowsFor, dbVars
  <2>1. CASE replay'[s] = {}
    <3>1. Position(s)' = regSeq[s]
      BY <1>1, <1>2, <2>1 DEF Position
    <3>2. x \in Nat
      BY <1>3 DEF RowsFor
    <3> QED BY <1>3, <3>1, <3>2
  <2>2. CASE replay'[s] # {}
    <3> DEFINE m == First(replay'[s])
    <3>1. m \in replay'[s] /\ m \in Nat
      BY <1>3, <2>2, LeastRow
    <3> HIDE DEF m
    <3>2. Position(s)' = m - 1
      BY <1>1, <1>2, <2>2 DEF Position, m
    <3>3. x \in Nat /\ m <= x
      BY <1>3, <3>1, <3>2 DEF RowsFor
    <3>4. lastId[s] # NoId /\ replay'[s] = Newest(Replayable(s), ReplaySize)
      BY <1>1, <2>2
    <3>5. m \in Replayable(s) /\ lastId[s] \in Nat /\ lastId[s] < m
      BY <1>3, <3>1, <3>4 DEF Newest, Replayable
    <3>6. x \in Replayable(s)
      BY <1>3, <3>3, <3>4, <3>5, <3>1 DEF Replayable
    <3>7. Replayable(s) \in SUBSET Nat /\ IsFiniteSet(Replayable(s))
      <4>1. Replayable(s) \subseteq events
        BY <3>4 DEF Replayable, RowsFor
      <4> QED BY <1>3, <4>1, EventsFinite, FS_Subset
    <3>8. CASE m < x
      BY <1>3, <3>1, <3>4, <3>6, <3>7, <3>8, NewestWhole
    <3> QED BY <3>1, <3>3, <3>8
  <2> QED BY <2>1, <2>2
<1> QED BY <1>5, <1>6, <1>7, <1>8 DEF StreamWhole

\* Where a stream stands lies before everything it has still to replay.
LEMMA BeforeReplay ==
    ASSUME TypeOK, NEW s \in Subs, YieldInv(s), phase[s] = "live",
           NEW x \in replay[s]
    PROVE  Position(s) < x
<1>1. /\ replay[s] \in SUBSET Nat /\ delivered[s] \in Seq(Nat) /\ x \in Nat
      /\ replay[s] # {}
  BY DEF TypeOK
<1>2. CASE delivered[s] = <<>>
  <2>1. Position(s) = First(replay[s]) - 1
    BY <1>1, <1>2 DEF Position
  <2>2. First(replay[s]) \in Nat /\ First(replay[s]) <= x
    BY <1>1, LeastRow
  <2> QED BY <1>1, <2>1, <2>2
<1>3. CASE delivered[s] # <<>>
  <2>1. Len(delivered[s]) \in 1..Len(delivered[s])
    BY <1>1, <1>3
  <2>2. Position(s) = delivered[s][Len(delivered[s])]
    BY <1>3 DEF Position
  <2> QED BY <2>1, <2>2 DEF YieldInv
<1> QED BY <1>2, <1>3

\* The oldest row of the replay is yielded.
LEMMA YieldReplayWhole ==
    ASSUME ConstantsAssumption, TypeOK, TypeOK', LogGrows, NEW s \in Subs,
           YieldInv(s), StreamWhole(s), YieldReplay(s)
    PROVE  /\ StreamWhole(s)'
           /\ Position(s)' \in replay[s]
           /\ IsLeast(Position(s)', replay[s])
<1>1. PICK x \in replay[s] :
        /\ IsLeast(x, replay[s])
        /\ delivered' = [delivered EXCEPT ![s] = Append(delivered[s], x)]
        /\ replay' = [replay EXCEPT ![s] = replay[s] \ {x}]
  BY DEF YieldReplay
<1>2. /\ phase[s] = "live"
      /\ UNCHANGED <<dbVars, pumpVars, phase, home, registered, queue, regSeq, lastId>>
  BY DEF YieldReplay
<1>3. /\ replay[s] \in SUBSET Nat /\ x \in Nat
      /\ delivered'[s] = Append(delivered[s], x) /\ replay'[s] = replay[s] \ {x}
  BY <1>1 DEF TypeOK
<1> DEFINE d == delivered[s]
<1>4. /\ d \in Seq(Nat) /\ Append(d, x) # <<>>
      /\ Len(Append(d, x)) = Len(d) + 1 /\ Len(d) \in Nat
      /\ Append(d, x)[Len(d) + 1] = x
      /\ \A i \in 1..Len(d) : Append(d, x)[i] = d[i]
  <2>1. d \in Seq(Nat)
    BY DEF TypeOK
  <2> HIDE DEF d
  <2> QED BY <1>3, <2>1
<1> HIDE DEF d
<1>5. \A i \in 1..Len(Append(d, x)) : Append(d, x)[i] = x \/
          (i \in 1..Len(d) /\ Append(d, x)[i] = d[i])
  BY <1>4
<1>6. delivered'[s] = Append(d, x)
  BY <1>3 DEF d
<1>7. Position(s)' = x
  BY <1>2, <1>4, <1>6 DEF Position
<1>8. RowsInv(s)'
  <2>1. \A i \in 1..Len(delivered'[s]) : delivered'[s][i] \in TopicRows(s)
    BY <1>5, <1>6 DEF StreamWhole, RowsInv, d
  <2> QED BY <1>2, <1>3, <2>1, TopicRowsGrow DEF StreamWhole, RowsInv, LogGrows
<1>9. ToldInv(s)'
  BY <1>2 DEF StreamWhole, ToldInv, pumpVars
<1>10. MissInv(s)'
  <2>1. \A y : Yielded(s, y) => Yielded(s, y)'
    BY <1>4, <1>6 DEF Yielded, d
  <2>2. \A y : Queued(s, y) => Queued(s, y)'
    BY <1>2 DEF Queued
  <2>3. RowsFor(s)' = RowsFor(s)
    BY <1>2 DEF RowsFor, dbVars
  <2> QED BY <1>2, <2>1, <2>2, <2>3 DEF StreamWhole, MissInv, pumpVars
<1>11. GapInv(s)'
  <2> SUFFICES ASSUME NEW y \in RowsFor(s), x < y, y <= regSeq[s]
               PROVE  y \in replay[s] \ {x}
    BY <1>2, <1>3, <1>7 DEF GapInv, RowsFor, dbVars
  <2>1. Position(s) < x
    BY <1>2, BeforeReplay
  <2>2. y \in Nat
    BY CommittedNat DEF RowsFor, TypeOK
  <2>3. Position(s) \in Int
    <3>1. Len(d) \in 1..Len(d) \/ d = <<>>
      BY <1>4
    <3>2. d # <<>> => d[Len(d)] \in Nat
      BY <1>4, <3>1
    <3>3. First(replay[s]) \in Nat
      BY <1>3, LeastRow
    <3>4. regSeq[s] \in Nat
      BY DEF TypeOK
    <3> QED BY <1>2, <3>2, <3>3, <3>4 DEF Position, d
  <2>4. Position(s) < y
    BY <1>3, <2>1, <2>2, <2>3
  <2>5. y \in replay[s]
    BY <1>2, <2>4 DEF StreamWhole, GapInv
  <2>6. y # x
    BY <1>3, <2>2
  <2> QED BY <2>5, <2>6
<1> QED BY <1>1, <1>7, <1>8, <1>9, <1>10, <1>11 DEF StreamWhole

\* The head of the queue is yielded, unless the replay covered it.
LEMMA GetEventWhole ==
    ASSUME ConstantsAssumption, TypeOK, TypeOK', LogGrows, NEW s \in Subs,
           QueueInv(s), YieldInv(s), StreamWhole(s), GetEvent(s)
    PROVE  /\ StreamWhole(s)'
           /\ Head(queue[s]) \in TopicRows(s)
           /\ Head(queue[s]) <= regSeq[s] => Position(s)' = Position(s)
           /\ Head(queue[s]) > regSeq[s] =>
                 /\ Position(s)' = Head(queue[s])
                 /\ Position(s) < Head(queue[s])
                 /\ \A y \in RowsFor(s) :
                       ~ (Position(s) < y /\ y < Head(queue[s]))
<1> DEFINE q == queue[s]
           d == delivered[s]
           x == Head(queue[s])
<1>1. /\ phase[s] = "live" /\ replay[s] = {} /\ q # <<>> /\ x # CLOSE
      /\ delivered'[s] = IF x > regSeq[s] THEN Append(d, x) ELSE d
      /\ queue'[s] = Tail(q)
      /\ UNCHANGED <<dbVars, pumpVars, phase, home, registered, regSeq, lastId, replay>>
  BY DEF GetEvent, TypeOK
<1>2. /\ q \in Seq(Item) /\ d \in Seq(Nat) /\ regSeq[s] \in Nat
      /\ home[s] \in Containers /\ cursor[home[s]] \in Nat
      /\ committed \subseteq Nat \ {0} /\ events \subseteq committed
  BY CommittedNat DEF TypeOK
<1>3. /\ \A i, j \in 1..Len(q) : i < j =>
            q[i] # CLOSE /\ (q[j] # CLOSE => q[i] < q[j])
      /\ \A i \in 1..Len(q) : q[i] # CLOSE => q[i] <= cursor[home[s]]
      /\ \A i \in 1..Len(q) : q[i] # CLOSE => q[i] \in TopicRows(s)
  BY DEF QueueInv, StreamWhole, RowsInv
<1>4. /\ Increasing(d)
      /\ \A i \in 1..Len(d) :
            \/ d[i] <= regSeq[s]
            \/ \A j \in 1..Len(q) : q[j] # CLOSE => d[i] < q[j]
  BY DEF YieldInv
<1>5. /\ x = q[1] /\ 1 \in 1..Len(q) /\ Len(q) \in Nat
      /\ Len(Tail(q)) = Len(q) - 1
      /\ \A i \in 1..Len(Tail(q)) : i + 1 \in 1..Len(q) /\ Tail(q)[i] = q[i + 1]
  <2>1. q \in Seq(Item) /\ q # <<>> /\ x = Head(q)
    BY <1>1, <1>2
  <2> HIDE DEF q, x
  <2> QED BY <2>1
<1> HIDE DEF q, d, x
<1>6. x \in TopicRows(s) /\ x \in Nat /\ x <= cursor[home[s]]
  BY <1>1, <1>2, <1>3, <1>5 DEF TopicRows
<1>7. /\ Append(d, x) # <<>> /\ Len(Append(d, x)) = Len(d) + 1 /\ Len(d) \in Nat
      /\ Append(d, x)[Len(d) + 1] = x
      /\ \A i \in 1..Len(d) : Append(d, x)[i] = d[i]
      /\ \A i \in 1..Len(Append(d, x)) : Append(d, x)[i] = x \/
            (i \in 1..Len(d) /\ Append(d, x)[i] = d[i])
  <2>1. d \in Seq(Nat) /\ x \in Nat
    BY <1>2, <1>6
  <2>2. /\ Append(d, x) # <<>> /\ Len(Append(d, x)) = Len(d) + 1 /\ Len(d) \in Nat
        /\ Append(d, x)[Len(d) + 1] = x
        /\ \A i \in 1..Len(d) : Append(d, x)[i] = d[i]
    BY <2>1
  <2> QED BY <2>2
<1>8. /\ Position(s) = IF d # <<>> THEN d[Len(d)] ELSE regSeq[s]
      /\ Position(s)' = IF delivered'[s] # <<>>
                        THEN delivered'[s][Len(delivered'[s])] ELSE regSeq[s]
  BY <1>1 DEF Position, d
<1>9. x <= regSeq[s] => Position(s)' = Position(s)
  BY <1>1, <1>2, <1>6, <1>8
<1>10. RowsInv(s)'
  <2>1. \A i \in 1..Len(delivered'[s]) : delivered'[s][i] \in TopicRows(s)
    BY <1>1, <1>6, <1>7 DEF StreamWhole, RowsInv, d
  <2>2. \A i \in 1..Len(queue'[s]) :
            queue'[s][i] # CLOSE => queue'[s][i] \in TopicRows(s)
    BY <1>1, <1>3, <1>5
  <2> QED BY <1>1, <2>1, <2>2, TopicRowsGrow DEF StreamWhole, RowsInv, LogGrows
\* CLOSE is not at the head: the pump still serves the stream.
<1>11. s \in registered /\ pump[home[s]] # "closed"
  <2>1. q # <<CLOSE>>
    BY <1>1, <1>5
  <2> QED BY <1>1, <2>1 DEF StreamWhole, ToldInv, Active, q
<1>12. ToldInv(s)'
  BY <1>1, <1>11 DEF ToldInv, pumpVars
<1>13. \A y \in RowsFor(s) : (regSeq[s] < y /\ y <= cursor[home[s]]) =>
            Yielded(s, y) \/ Queued(s, y)
  BY <1>1, <1>11 DEF StreamWhole, MissInv
<1>14. MissInv(s)'
  <2> SUFFICES ASSUME NEW y \in RowsFor(s), regSeq[s] < y, y <= cursor[home[s]]
               PROVE  Yielded(s, y)' \/ Queued(s, y)'
    BY <1>1 DEF MissInv, RowsFor, dbVars, pumpVars
  <2>1. CASE Yielded(s, y)
    <3>1. PICK i \in 1..Len(d) : d[i] = y
      BY <2>1 DEF Yielded, d
    <3>2. delivered'[s][i] = y /\ i \in 1..Len(delivered'[s])
      BY <1>1, <1>7, <3>1
    <3> QED BY <3>2 DEF Yielded
  <2>2. CASE Queued(s, y)
    <3>1. PICK i \in 1..Len(q) : q[i] = y
      BY <2>2 DEF Queued, q
    <3>2. CASE i = 1
      <4>1. x = y /\ x > regSeq[s]
        BY <1>2, <1>5, <1>6, <3>1, <3>2
      <4>2. delivered'[s][Len(d) + 1] = y /\ Len(d) + 1 \in 1..Len(delivered'[s])
        BY <1>1, <1>7, <4>1
      <4> QED BY <4>2 DEF Yielded
    <3>3. CASE i # 1
      <4>1. i - 1 \in 1..Len(Tail(q)) /\ Tail(q)[i - 1] = y
        BY <1>5, <3>1, <3>3
      <4> QED BY <1>1, <4>1 DEF Queued
    <3> QED BY <3>2, <3>3
  <2> QED BY <1>13, <2>1, <2>2
<1>15. CASE x <= regSeq[s]
  <2>1. GapInv(s)'
    BY <1>1, <1>9, <1>15 DEF StreamWhole, GapInv, RowsFor, dbVars
  <2> QED BY <1>2, <1>6, <1>9, <1>10, <1>12, <1>14, <1>15, <2>1 DEF StreamWhole, x
<1>16. CASE x > regSeq[s]
  <2>1. delivered'[s] = Append(d, x) /\ Position(s)' = x
    BY <1>1, <1>7, <1>8, <1>16
  <2>2. GapInv(s)'
    <3>1. \A y \in Nat : ~ (x < y /\ y <= regSeq[s])
      BY <1>2, <1>6, <1>16
    <3>2. RowsFor(s) \subseteq Nat
      BY <1>2 DEF RowsFor
    <3> QED BY <1>1, <2>1, <3>1, <3>2 DEF GapInv, RowsFor, dbVars
  <2>3. \A i \in 1..Len(d) : d[i] \in Nat /\ d[i] < x
    <3>1. \A i \in 1..Len(d) : d[i] \in Nat
      BY <1>2, ElementOfSeq
    <3>2. q[1] = x /\ q[1] # CLOSE /\ 1 \in 1..Len(q)
      BY <1>1, <1>5
    <3>3. \A i \in 1..Len(d) : d[i] <= regSeq[s] \/ d[i] < x
      BY <1>4, <3>2
    <3> QED BY <1>2, <1>6, <1>16, <3>1, <3>3
  <2>4. Position(s) < x /\ Position(s) \in Nat
    <3>1. d # <<>> => Len(d) \in 1..Len(d)
      BY <1>2
    <3> QED BY <1>2, <1>6, <1>8, <1>16, <2>3, <3>1
  <2>5. ASSUME NEW y \in RowsFor(s), Position(s) < y, y < x PROVE FALSE
    <3>0. y \in Nat
      BY <1>2 DEF RowsFor
    <3>1. regSeq[s] < y
      <4>1. ~ (y <= regSeq[s])
        BY <1>1, <2>5 DEF StreamWhole, GapInv
      <4> QED BY <1>2, <3>0, <4>1
    <3>2. Yielded(s, y) \/ Queued(s, y)
      BY <1>2, <1>6, <1>13, <2>5, <3>0, <3>1
    <3>3. CASE Yielded(s, y)
      <4>1. PICK i \in 1..Len(d) : d[i] = y
        BY <3>3 DEF Yielded, d
      <4>2. Len(d) \in 1..Len(d) /\ Len(d) \in Nat /\ d # <<>>
        BY <1>2, <4>1
      <4>3. i < Len(d) => d[i] < d[Len(d)]
        BY <1>4, <4>2 DEF Increasing
      <4>4. d[i] <= d[Len(d)]
        BY <2>3, <4>2, <4>3
      <4> QED BY <1>8, <2>4, <2>5, <3>0, <4>1, <4>2, <4>4
    <3>4. CASE Queued(s, y)
      <4>1. PICK i \in 1..Len(q) : q[i] = y
        BY <3>4 DEF Queued, q
      <4>2. y # CLOSE
        BY <3>0 DEF ConstantsAssumption
      <4>3. i = 1 \/ q[1] < q[i]
        BY <1>3, <1>5, <4>1, <4>2
      <4> QED BY <1>5, <1>6, <2>5, <3>0, <4>1, <4>3
    <3> QED BY <3>2, <3>3, <3>4
  <2> QED BY <1>2, <1>6, <1>10, <1>12, <1>14, <1>16, <2>1, <2>2, <2>4, <2>5
          DEF StreamWhole, x
<1> QED BY <1>2, <1>6, <1>15, <1>16

\* A row is dispatched: it is the oldest that the pump has not passed, and
\* goes to every stream of its topic or ends it.
LEMMA DispatchWhole ==
    ASSUME ConstantsAssumption, TypeOK, TypeOK', LogGrows, NEW c \in Containers,
           NEW s \in Subs, BatchInv(c), BatchWhole(c), BatchWhole(home[s]), PhaseInv(s),
           StreamWhole(s), Dispatch(c)
    PROVE  StreamWhole(s)'
<1>1. PICK x \in batch[c] :
        /\ IsLeast(x, batch[c])
        /\ queue' = [r \in Subs |->
               IF r \in Overflowing(c, x) THEN <<CLOSE>>
               ELSE IF r \in Receivers(c, x) THEN Append(queue[r], x)
               ELSE queue[r]]
        /\ registered' = registered \ Overflowing(c, x)
        /\ cursor' = [cursor EXCEPT ![c] = x]
        /\ pump' = [pump EXCEPT ![c] =
               IF inChunk[c] + 1 = Chunk \/ batch[c] = {x}
               THEN "yield" ELSE "dispatch"]
  BY DEF Dispatch
<1>2. /\ pump[c] = "dispatch"
      /\ UNCHANGED <<dbVars, phase, home, regSeq, lastId, replay, delivered>>
  BY DEF Dispatch
<1>3. /\ batch[c] \in SUBSET Nat /\ x \in Nat /\ x \in committed
      /\ committed \subseteq Nat \ {0} /\ events \subseteq committed
      /\ home[s] \in Containers /\ cursor[c] \in Nat /\ cursor[c] < x
      /\ cursor'[c] = x /\ pump'[c] \in {"yield", "dispatch"}
      /\ \A d \in Containers \ {c} : cursor'[d] = cursor[d] /\ pump'[d] = pump[d]
  BY <1>1, CommittedNat DEF BatchWhole, BatchInv, TypeOK
<1>4. CASE home[s] # c
  <2>1. s \notin Receivers(c, x)
    BY <1>4 DEF Receivers, LocalStreams
  <2>2. StreamStays(s)
    BY <1>1, <1>2, <2>1 DEF StreamStays, Overflowing
  <2> QED BY <1>3, <1>4, <2>2, WholeFrame DEF StreamStays
<1>5. CASE home[s] = c /\ s \in Overflowing(c, x)
  <2>1. /\ queue'[s] = <<CLOSE>> /\ s \notin registered'
        /\ delivered'[s] = delivered[s] /\ replay'[s] = replay[s]
    BY <1>1, <1>2, <1>5
  <2>2. RowsInv(s)'
    <3>1. \A i \in 1..Len(queue'[s]) : queue'[s][i] = CLOSE
      BY <2>1
    <3> QED BY <1>2, <3>1, TopicRowsGrow DEF StreamWhole, RowsInv, LogGrows
  <2>3. ToldInv(s)' /\ MissInv(s)'
    BY <2>1 DEF ToldInv, MissInv
  <2>4. GapInv(s)'
    BY <1>2 DEF StreamWhole, GapInv, Position, RowsFor, dbVars
  <2> QED BY <2>2, <2>3, <2>4 DEF StreamWhole
<1>6. CASE home[s] = c /\ s \notin Overflowing(c, x)
  <2> DEFINE q == queue[s]
             r == queue'[s]
  <2>1. /\ r = IF s \in Receivers(c, x) THEN Append(q, x) ELSE q
        /\ s \in registered' <=> s \in registered
    BY <1>1, <1>6
  <2>2. q \in Seq(Item) /\ x \in Item
    BY <1>3 DEF TypeOK, Item
  <2> HIDE DEF q, r
  <2>3. /\ \A i \in 1..Len(q) : i \in 1..Len(r) /\ r[i] = q[i]
        /\ \A i \in 1..Len(r) : (i \in 1..Len(q) /\ r[i] = q[i])
                                \/ (s \in Receivers(c, x) /\ r[i] = x)
        /\ s \in Receivers(c, x) => Len(q) + 1 \in 1..Len(r) /\ r[Len(q) + 1] = x
    <3>1. CASE s \in Receivers(c, x)
      <4>1. /\ Len(Append(q, x)) = Len(q) + 1 /\ Append(q, x)[Len(q) + 1] = x
            /\ Len(q) \in Nat /\ \A i \in 1..Len(q) : Append(q, x)[i] = q[i]
        BY <2>2
      <4> QED BY <2>1, <3>1, <4>1
    <3>2. CASE s \notin Receivers(c, x)
      BY <2>1, <3>2
    <3> QED BY <3>1, <3>2
  <2>4. RowsInv(s)'
    <3>1. s \in Receivers(c, x) => x \in TopicRows(s)
      BY <1>3 DEF Receivers, TopicRows
    <3>2. \A i \in 1..Len(r) : r[i] # CLOSE => r[i] \in TopicRows(s)
      BY <2>3, <3>1 DEF StreamWhole, RowsInv, q
    <3> QED BY <1>2, <3>2, TopicRowsGrow DEF StreamWhole, RowsInv, LogGrows, r
  <2>5. ToldInv(s)'
    <3>1. s \in Receivers(c, x) => s \in registered
      BY DEF Receivers, LocalStreams
    <3> QED BY <1>2, <1>3, <1>6, <2>1, <3>1 DEF StreamWhole, ToldInv, q, r
  <2>6. MissInv(s)'
    <3> SUFFICES ASSUME s \in registered, phase[s] \in {"started", "live"},
                        NEW y \in RowsFor(s), regSeq[s] < y, y <= x
                 PROVE  Yielded(s, y)' \/ Queued(s, y)'
      BY <1>2, <1>3, <1>6, <2>1 DEF MissInv, RowsFor, dbVars
    <3>1. y \in Nat /\ y \in events
      BY <1>3 DEF RowsFor
    <3>2. CASE y <= cursor[c]
      <4>1. Yielded(s, y) \/ Queued(s, y)
        BY <1>2, <1>6, <3>2 DEF StreamWhole, MissInv
      <4>2. Yielded(s, y) => Yielded(s, y)'
        BY <1>2 DEF Yielded
      <4>3. Queued(s, y) => Queued(s, y)'
        BY <2>3 DEF Queued, q, r
      <4> QED BY <4>1, <4>2, <4>3
    <3>3. CASE cursor[c] < y
      <4>1. y = x
        <5>1. y < x => y \in batch[c]
          BY <1>3, <3>1, <3>3 DEF BatchWhole
        <5>2. y \in batch[c] => x <= y
          BY <1>1 DEF IsLeast
        <5> QED BY <1>3, <3>1, <5>1, <5>2
      <4>2. s \in Receivers(c, x)
        BY <1>6, <4>1 DEF Receivers, LocalStreams, RowsFor
      <4> QED BY <2>3, <4>1, <4>2 DEF Queued, r
    <3> QED BY <1>3, <3>1, <3>2, <3>3
  <2>7. GapInv(s)'
    BY <1>2 DEF StreamWhole, GapInv, Position, RowsFor, dbVars
  <2> QED BY <2>4, <2>5, <2>6, <2>7 DEF StreamWhole
<1> QED BY <1>4, <1>5, <1>6

\* close() tells every stream that the pump still served.
LEMMA FinishCloseWhole ==
    ASSUME ConstantsAssumption, TypeOK, TypeOK', LogGrows, NEW c \in Containers,
           NEW s \in Subs, BatchWhole(home[s]), PhaseInv(s), StreamWhole(s),
           FinishClose(c)
    PROVE  StreamWhole(s)'
<1>1. /\ pump[c] = "closing" /\ pump' = [pump EXCEPT ![c] = "closed"]
      /\ queue' = [r \in Subs |-> IF r \in registered /\ home[r] = c
                                   THEN <<CLOSE>> ELSE queue[r]]
      /\ UNCHANGED <<dbVars, cursor, batch, phase, home, registered, regSeq, lastId,
                     replay, delivered>>
  BY DEF FinishClose, LocalStreams
<1>2. home[s] \in Containers /\ pump'[c] = "closed"
      /\ \A d \in Containers \ {c} : pump'[d] = pump[d]
  BY <1>1 DEF TypeOK
<1>3. CASE home[s] # c
  BY <1>1, <1>2, <1>3, WholeFrame
<1>4. CASE home[s] = c
  <2>1. queue'[s] = IF s \in registered THEN <<CLOSE>> ELSE queue[s]
    BY <1>1, <1>4
  <2>2. RowsInv(s)'
    <3>1. \A i \in 1..Len(queue'[s]) : queue'[s][i] # CLOSE => queue'[s][i] \in TopicRows(s)
      <4>1. CASE s \in registered
        BY <2>1, <4>1
      <4>2. CASE s \notin registered
        BY <2>1, <4>2 DEF StreamWhole, RowsInv
      <4> QED BY <4>1, <4>2
    <3> QED BY <1>1, <3>1, TopicRowsGrow DEF StreamWhole, RowsInv, LogGrows
  <2>3. ToldInv(s)'
    BY <1>1, <2>1 DEF StreamWhole, ToldInv
  <2>4. MissInv(s)'
    BY <1>1, <1>2, <1>4 DEF MissInv
  <2>5. GapInv(s)'
    BY <1>1 DEF StreamWhole, GapInv, Position, RowsFor, dbVars
  <2> QED BY <2>2, <2>3, <2>4, <2>5 DEF StreamWhole
<1> QED BY <1>3, <1>4

\* Every stream after every step: the stream the step is about by its own
\* lemma, all others by WholeFrame.
LEMMA StreamsWholeStep ==
    ASSUME ConstantsAssumption, TypeOK, TypeOK', LogGrows, StreamsOrdered,
           NothingLost, [Next]_vars, NEW s \in Subs
    PROVE  StreamWhole(s)'
<1>0. /\ home[s] \in Containers /\ cursor \in [Containers -> Nat]
      /\ pump \in [Containers -> PumpStates]
      /\ PhaseInv(s) /\ QueueInv(s) /\ YieldInv(s) /\ StreamWhole(s)
      /\ \A c \in Containers : BatchInv(c) /\ BatchWhole(c)
  BY DEF TypeOK, StreamsOrdered, NothingLost
<1>1. ASSUME StreamStays(s),
             phase[s] \in Active =>
                 /\ cursor'[home[s]] = cursor[home[s]]
                 /\ pump'[home[s]] = "closed" <=> pump[home[s]] = "closed"
      PROVE  StreamWhole(s)'
  BY <1>0, <1>1, WholeFrame DEF StreamStays
<1>2. ASSUME UNCHANGED <<pump, cursor, subVars>> PROVE StreamWhole(s)'
  BY <1>1, <1>2 DEF subVars, StreamStays
<1>3. ASSUME NEW c \in Containers, Pump(c) PROVE StreamWhole(s)'
  <2>1. CASE Start(c)
    BY <1>0, <1>1, <2>1 DEF Start, subVars, StreamStays, PhaseInv
  <2>2. CASE Fetch(c) \/ Resume(c) \/ PruneAge(c) \/ PruneCount(c) \/ PruneFails(c)
    BY <1>0, <1>1, <2>2 DEF Fetch, Resume, PruneAge, PruneCount, PruneFails,
                            subVars, StreamStays
  <2>3. CASE Dispatch(c)
    BY <1>0, <2>3, DispatchWhole
  <2> QED BY <1>3, <2>1, <2>2, <2>3 DEF Pump
<1>4. ASSUME NEW S \in SUBSET Subs, EndStreams(S),
             s \notin S /\ phase[s] \in Active =>
                 /\ cursor'[home[s]] = cursor[home[s]]
                 /\ pump'[home[s]] = pump[home[s]]
      PROVE  StreamWhole(s)'
  <2>1. CASE s \in S
    BY <1>0, <1>4, <2>1, EndWhole DEF StreamWhole
  <2>2. CASE s \notin S
    BY <1>1, <1>4, <2>2 DEF EndStreams, StreamStays
  <2> QED BY <2>1, <2>2
<1>5. ASSUME NEW c \in Containers, Lifecycle(c) PROVE StreamWhole(s)'
  <2>1. CASE BeginClose(c)
    BY <1>0, <1>1, <2>1 DEF BeginClose, subVars, StreamStays
  <2>2. CASE FinishClose(c)
    BY <1>0, <2>2, FinishCloseWhole
  <2>3. CASE Stop(c)
    <3>1. EndStreams(Streams(c)) /\ Streams(c) \in SUBSET Subs
      BY <2>3 DEF Stop, Streams
    <3>2. s \notin Streams(c) /\ phase[s] \in Active =>
              /\ cursor'[home[s]] = cursor[home[s]]
              /\ pump'[home[s]] = pump[home[s]]
      BY <1>0, <2>3 DEF Stop, Streams
    <3> QED BY <1>4, <3>1, <3>2
  <2> QED BY <1>5, <2>1, <2>2, <2>3 DEF Lifecycle
<1>6. ASSUME NEW r \in Subs, Stream(r) PROVE StreamWhole(s)'
  <2>1. CASE GetClose(r) \/ Disconnect(r)
    BY <1>4, <2>1 DEF GetClose, Disconnect, pumpVars
  <2>2. CASE \E c \in Containers : Subscribe(r, c)
    <3>1. CASE r = s
      BY <1>0, <2>2, <3>1, SubscribeWhole
    <3>2. CASE r # s
      <4>0. PICK c \in Containers : Subscribe(r, c)
        BY <2>2
      <4>1. /\ phase'[s] = phase[s] /\ home'[s] = home[s] /\ lastId'[s] = lastId[s]
            /\ (s \in registered' <=> s \in registered)
        <5>1. phase'[s] = phase[s]
          BY <3>2, <4>0 DEF Subscribe, TypeOK
        <5>2. home'[s] = home[s] /\ lastId'[s] = lastId[s]
          BY <3>2, <4>0 DEF Subscribe, TypeOK
        <5>3. s \in registered' <=> s \in registered
          BY <3>2, <4>0 DEF Subscribe
        <5> QED BY <5>1, <5>2, <5>3
      <4>2. UNCHANGED <<pump, cursor, queue, regSeq, replay, delivered>>
        BY <2>2 DEF Subscribe, pumpVars
      <4> QED BY <1>1, <4>1, <4>2 DEF StreamStays
    <3> QED BY <3>1, <3>2
  <2>3. CASE ReadHead(r) \/ ReadHeadFails(r)
    <3>1. CASE r = s
      BY <1>0, <2>3, <3>1, StartWhole
    <3>2. CASE r # s
      BY <1>1, <2>3, <3>2 DEF ReadHead, ReadHeadFails, StartAtCursor,
                              StreamStays, pumpVars, TypeOK
    <3> QED BY <3>1, <3>2
  <2>4. CASE FetchReplay(r) \/ FetchReplayFails(r)
    <3>1. CASE r = s
      BY <1>0, <2>4, <3>1, FetchReplayWhole
    <3>2. CASE r # s
      BY <1>1, <2>4, <3>2 DEF FetchReplay, FetchReplayFails, StreamStays,
                              pumpVars, TypeOK
    <3> QED BY <3>1, <3>2
  <2>5. CASE YieldReplay(r)
    <3>1. CASE r = s
      BY <1>0, <2>5, <3>1, YieldReplayWhole
    <3>2. CASE r # s
      BY <1>1, <2>5, <3>2 DEF YieldReplay, StreamStays, pumpVars, TypeOK
    <3> QED BY <3>1, <3>2
  <2>6. CASE GetEvent(r)
    <3>1. CASE r = s
      BY <1>0, <2>6, <3>1, GetEventWhole
    <3>2. CASE r # s
      BY <1>1, <2>6, <3>2 DEF GetEvent, StreamStays, pumpVars, TypeOK
    <3> QED BY <3>1, <3>2
  <2> QED BY <1>6, <2>1, <2>2, <2>3, <2>4, <2>5, <2>6 DEF Stream
<1>7. CASE Publish
  BY <1>2, <1>7 DEF Publish, PublishInsert, InsertUnlocked, PublishCommit,
                    PublishAbort, pumpVars
<1>8. CASE UNCHANGED vars
  BY <1>2, <1>8 DEF vars, pumpVars
<1> QED BY <1>3, <1>5, <1>6, <1>7, <1>8 DEF Next

\* Nothing is lost in any state the bus can reach.
THEOREM NothingIsLost == Spec => [](TypeOK /\ StreamsOrdered /\ NothingLost)
<1>1. Init => NothingLost
  BY ConstantsAssumption
     DEF ConstantsAssumption, Init, NothingLost, LogInv, BatchWhole, StreamWhole,
         RowsInv, ToldInv, MissInv, GapInv, TopicRows, RowsFor, Active
<1>2. TypeOK /\ TypeOK' /\ StreamsOrdered /\ NothingLost /\ [Next]_vars => NothingLost'
  <2> SUFFICES ASSUME TypeOK, TypeOK', StreamsOrdered, NothingLost, [Next]_vars
               PROVE  NothingLost'
    OBVIOUS
  <2>1. LogInv' /\ LogGrows
    BY ConstantsAssumption, LogStep DEF NothingLost
  <2>2. \A c \in Containers : BatchWhole(c)'
    BY ConstantsAssumption, <2>1, BatchStep DEF NothingLost, StreamsOrdered
  <2>3. \A s \in Subs : StreamWhole(s)'
    BY ConstantsAssumption, <2>1, StreamsWholeStep
  <2> QED BY <2>1, <2>2, <2>3 DEF NothingLost
<1> QED BY <1>1, <1>2, OrderInvariant, PTL DEF Spec

\* A registered stream misses no row the table holds that its pump has
\* passed: _dispatch and subscribe() against concurrent publishers, pruning,
\* overflow, close() and crashes.
THEOREM StreamsMissNothing == Spec => []NothingMissed
<1>1. TypeOK /\ NothingLost => NothingMissed
  BY DEF TypeOK, NothingLost, StreamWhole, MissInv, Yielded, Queued, NothingMissed
<1> QED BY <1>1, NothingIsLost, PTL

-----------------------------------------------------------------------------
(* The contract of the port: each step of the bus is one of EventStream's, *)
(* or none.                                                                *)

\* A step that touches neither the log nor what streams yield is invisible.
LEMMA QuietRefines ==
    ASSUME UNCHANGED <<dbVars, phase, regSeq, replay, delivered>>
    PROVE  UNCHANGED Contract!vars
<1>1. \A s \in Subs : Position(s)' = Position(s)
  BY DEF Position
<1>2. Open' = Open /\ Positions' = Positions
  BY <1>1 DEF Open, Positions
<1>3. Published' = Published /\ Retained' = Retained
  BY DEF Published, Retained, Row, dbVars
<1> QED BY <1>2, <1>3 DEF Contract!vars

\* A commit publishes the row under an id above all others.
LEMMA CommitRefines ==
    ASSUME ConstantsAssumption, TypeOK, TypeOK', NothingLost, NEW x \in inTx, PublishCommit(x)
    PROVE  Contract!Next
<1>1. /\ committed' = committed \cup {x} /\ events' = events \cup {x}
      /\ rowTopic' = rowTopic
      /\ UNCHANGED <<phase, regSeq, replay, delivered>>
  BY DEF PublishCommit, subVars
<1>2. /\ rowTopic \in Seq(Topics) /\ Len(rowTopic) \in Nat
      /\ x \in 1..Len(rowTopic) /\ x = Len(rowTopic) /\ x \notin committed
      /\ Len(rowTopic) <= MaxSeq
      /\ committed \subseteq Nat \ {0} /\ \A y \in committed : y <= Len(rowTopic)
  BY CommittedNat DEF TypeOK, NothingLost, LogInv
<1>3. x \in Identities /\ rowTopic[x] \in Topics /\ \A y \in committed : y < x
  BY <1>2 DEF Identities, ConstantsAssumption
<1>4. \A y : Row(y)' = Row(y) /\ Row(y)[1] = y
  BY <1>1 DEF Row
<1>5. /\ Published' = Published \cup {Row(x)}
      /\ Retained' = Retained \cup {Row(x)}
  <2>1. Published' = {Row(y) : y \in committed'} /\ Retained' = {Row(y) : y \in events'}
    BY <1>1 DEF Published, Retained, Row
  <2> QED BY <1>1, <2>1 DEF Published, Retained
<1>6. Open' = Open /\ Positions' = Positions
  <2>1. \A s \in Subs : Position(s)' = Position(s)
    BY <1>1 DEF Position
  <2> QED BY <1>1, <2>1 DEF Open, Positions
<1>7. \A e \in Published : e[1] < x
  BY <1>3, <1>4 DEF Published
<1>8. Contract!Publish(x, rowTopic[x])
  BY <1>5, <1>6, <1>7 DEF Contract!Publish, Row
<1> QED BY <1>3, <1>8 DEF Contract!Next

\* A pruning discards rows.
LEMMA PruneRefines ==
    ASSUME TypeOK, NEW c \in Containers, PruneAge(c) \/ PruneCount(c)
    PROVE  Contract!Next
<1>1. /\ events' \subseteq events /\ committed' = committed /\ rowTopic' = rowTopic
      /\ UNCHANGED <<phase, regSeq, replay, delivered>>
  BY DEF PruneAge, PruneCount, subVars
<1>2. Published' = Published /\ Retained' \subseteq Retained
  BY <1>1 DEF Published, Retained, Row
<1>3. Open' = Open /\ Positions' = Positions
  <2>1. \A s \in Subs : Position(s)' = Position(s)
    BY <1>1 DEF Position
  <2> QED BY <1>1, <2>1 DEF Open, Positions
<1>4. Retained' = Retained \ (Retained \ Retained')
  BY <1>2
<1>5. Contract!Discard(Retained \ Retained')
  BY <1>2, <1>3, <1>4 DEF Contract!Discard
<1> QED BY <1>5 DEF Contract!Next

\* A stream that does not replay yet has no place in the contract.
LEMMA OpeningRefines ==
    ASSUME TypeOK, NEW s \in Subs,
           (\E c \in Containers : Subscribe(s, c)) \/ ReadHead(s) \/ ReadHeadFails(s)
    PROVE  UNCHANGED Contract!vars
<1>1. /\ phase[s] # "live" /\ phase'[s] # "live"
      /\ \A r \in Subs \ {s} : phase'[r] = phase[r] /\ regSeq'[r] = regSeq[r]
      /\ UNCHANGED <<dbVars, replay, delivered>>
  BY DEF Subscribe, ReadHead, ReadHeadFails, StartAtCursor, TypeOK
<1>2. \A r \in Subs : /\ Position(r)' = Position(r)
                      /\ phase'[r] = "live" <=> phase[r] = "live"
  BY <1>1 DEF Position
<1>3. Open' = Open /\ Positions' = Positions
  BY <1>2 DEF Open, Positions
<1>4. Published' = Published /\ Retained' = Retained
  BY <1>1 DEF Published, Retained, Row, dbVars
<1> QED BY <1>3, <1>4 DEF Contract!vars

\* A stream opens where its replay begins, or at its starting point.
LEMMA FetchReplayRefines ==
    ASSUME ConstantsAssumption, TypeOK, TypeOK', NothingLost, NEW s \in Subs, PhaseInv(s),
           StreamWhole(s)', FetchReplay(s) \/ FetchReplayFails(s)
    PROVE  Contract!Next
<1>1. /\ phase[s] = "started" /\ phase'[s] = "live"
      /\ \A r \in Subs \ {s} : phase'[r] = phase[r] /\ replay'[r] = replay[r]
      /\ UNCHANGED <<dbVars, regSeq, delivered>>
  BY DEF FetchReplay, FetchReplayFails, TypeOK
<1> DEFINE p == Position(s)'
<1>2. /\ committed' = committed /\ committed \subseteq Nat \ {0}
      /\ \A x \in committed : x <= Len(rowTopic)
      /\ Len(rowTopic) \in Nat /\ Len(rowTopic) <= MaxSeq
  BY <1>1, CommittedNat DEF TypeOK, NothingLost, LogInv, dbVars
<1>3. p \in Nat /\ (p = 0 \/ \E x \in committed : p <= x)
  <2>0. delivered'[s] = <<>>
    BY <1>1 DEF PhaseInv
  <2>1. CASE replay'[s] = {}
    <3>1. p = regSeq'[s]
      BY <1>1, <2>0, <2>1 DEF Position
    <3>2. regSeq'[s] \in committed \cup {0}
      BY <1>2 DEF StreamWhole, RowsInv
    <3>3. p \in committed \cup {0}
      BY <3>1, <3>2
    <3> HIDE DEF p
    <3>4. p \in Nat
      BY <1>2, <3>3
    <3>5. p <= p
      BY <3>4
    <3> QED BY <3>3, <3>4, <3>5
  <2>2. CASE replay'[s] # {}
    <3> DEFINE m == First(replay'[s])
    <3>1. replay'[s] \subseteq committed
      BY <1>2 DEF StreamWhole, RowsInv, TopicRows
    <3>2. m \in replay'[s]
      BY <1>2, <2>2, <3>1, LeastRow
    <3> HIDE DEF m
    <3>3. p = m - 1
      BY <1>1, <2>0, <2>2 DEF Position, m
    <3>4. m \in committed /\ m \in Nat \ {0}
      BY <1>2, <3>1, <3>2
    <3>5. p \in Nat /\ p <= m
      BY <3>3, <3>4
    <3> QED BY <3>4, <3>5
  <2> QED BY <2>1, <2>2
<1> HIDE DEF p
<1>4. p \in {0} \cup Identities
  <2>1. p <= Len(rowTopic)
    BY <1>2, <1>3
  <2> QED BY <1>2, <1>3, <2>1 DEF Identities, ConstantsAssumption
<1>5. p = 0 \/ \E e \in Published : p <= e[1]
  <2>1. ASSUME NEW x \in committed, p <= x PROVE \E e \in Published : p <= e[1]
    <3>1. Row(x) \in Published /\ Row(x)[1] = x
      BY DEF Published, Row
    <3> QED BY <2>1, <3>1
  <2> QED BY <1>3, <2>1
<1>6. /\ s \notin Open /\ Open' = Open \cup {s}
      /\ Positions' = [Positions EXCEPT ![s] = p]
  <2>1. \A r \in Subs \ {s} : Position(r)' = Position(r)
    BY <1>1 DEF Position
  <2> QED BY <1>1, <2>1 DEF Open, Positions, p
<1>7. Published' = Published /\ Retained' = Retained
  BY <1>1 DEF Published, Retained, Row, dbVars
<1>8. Contract!Open(s, p)
  BY <1>5, <1>6, <1>7 DEF Contract!Open
<1> QED BY <1>4, <1>8 DEF Contract!Next

\* A row is yielded that is the next of its topic behind the position.
LEMMA DeliverRefines ==
    ASSUME TypeOK, NEW s \in Subs, phase[s] = "live", UNCHANGED <<dbVars, phase, regSeq>>,
           \A r \in Subs \ {s} : replay'[r] = replay[r] /\ delivered'[r] = delivered[r],
           NEW x \in TopicRows(s), Position(s)' = x, Position(s) < x,
           \A y \in RowsFor(s) : ~ (Position(s) < y /\ y < x)
    PROVE  Contract!Next
<1>1. /\ Row(x) \in Published /\ Row(x)[1] = x /\ Row(x)[2] = TopicOf[s]
      /\ s \in Open /\ Positions[s] = Position(s)
  BY DEF Published, Row, TopicRows, Open, Positions
<1>2. ASSUME NEW f \in Retained, f[2] = TopicOf[s], Positions[s] < f[1], f[1] < x
      PROVE  FALSE
  <2>1. PICK y \in events : f = Row(y)
    BY DEF Retained
  <2>2. y \in RowsFor(s) /\ f[1] = y
    BY <1>2, <2>1 DEF RowsFor, Row
  <2> QED BY <1>1, <1>2, <2>2
<1>3. Positions' = [Positions EXCEPT ![s] = x]
  <2>1. \A r \in Subs \ {s} : Position(r)' = Position(r)
    BY DEF Position
  <2> QED BY <2>1 DEF Positions
<1>4. Open' = Open /\ Published' = Published /\ Retained' = Retained
  BY DEF Open, Published, Retained, Row, dbVars
<1>5. Contract!Deliver(s, Row(x))
  BY <1>1, <1>2, <1>3, <1>4 DEF Contract!Deliver
<1> QED BY <1>1, <1>5 DEF Contract!Next

\* Streams end.
LEMMA EndRefines ==
    ASSUME TypeOK, NEW S \in SUBSET Subs, EndStreams(S), UNCHANGED dbVars
    PROVE  Contract!Next
<1>1. \A s \in Subs : /\ s \in S => phase'[s] # "live"
                      /\ s \notin S => /\ phase'[s] = phase[s] /\ regSeq'[s] = regSeq[s]
                                       /\ replay'[s] = replay[s]
                                       /\ delivered'[s] = delivered[s]
  BY DEF EndStreams
<1> DEFINE E == S \cap Open
<1>2. Open' = Open \ E
  BY <1>1 DEF Open
<1>3. Positions' = [s \in Subs |-> IF s \in E THEN 0 ELSE Positions[s]]
  <2>1. ASSUME NEW s \in Subs
        PROVE  Position(s)' = IF s \in E THEN 0 ELSE Positions[s]
    <3>1. CASE s \notin S
      BY <1>1, <3>1 DEF Position, Positions
    <3>2. CASE s \in S
      BY <1>1, <3>2 DEF Position, Positions, Open
    <3> QED BY <3>1, <3>2
  <2> QED BY <2>1 DEF Positions
<1>4. Published' = Published /\ Retained' = Retained
  BY DEF Published, Retained, Row, dbVars
<1>5. Contract!End(E)
  BY <1>2, <1>3, <1>4 DEF Contract!End
<1> QED BY <1>5 DEF Contract!Next

\* Every step of the bus is one of the contract, or none.
LEMMA StepRefines ==
    ASSUME ConstantsAssumption, TypeOK, TypeOK', StreamsOrdered, NothingLost,
           NothingLost', [Next]_vars
    PROVE  Contract!Next \/ UNCHANGED Contract!vars
<1>0. LogGrows /\ \A s \in Subs : /\ PhaseInv(s) /\ QueueInv(s) /\ YieldInv(s)
                                  /\ StreamWhole(s) /\ StreamWhole(s)'
  BY LogStep DEF StreamsOrdered, NothingLost
<1>1. CASE Publish
  <2>1. ASSUME NEW t \in Topics, PublishInsert(t)
        PROVE  UNCHANGED Contract!vars
    <3>1. /\ rowTopic' = Append(rowTopic, t) /\ committed' = committed /\ events' = events
          /\ UNCHANGED <<phase, regSeq, replay, delivered>>
      BY <2>1 DEF PublishInsert, InsertUnlocked, subVars
    <3>2. \A x \in committed : Row(x)' = Row(x)
      BY <1>0 DEF LogGrows, Row
    <3>3. events \subseteq committed
      BY DEF TypeOK
    <3>4. Published' = Published /\ Retained' = Retained
      <4>1. Published' = {Row(x)' : x \in committed} /\ Retained' = {Row(x)' : x \in events}
        BY <3>1 DEF Published, Retained, Row
      <4> QED BY <3>2, <3>3, <4>1 DEF Published, Retained
    <3>5. \A s \in Subs : Position(s)' = Position(s)
      BY <3>1 DEF Position
    <3>6. Open' = Open /\ Positions' = Positions
      BY <3>1, <3>5 DEF Open, Positions
    <3> QED BY <3>4, <3>6 DEF Contract!vars
  <2>2. ASSUME NEW x \in inTx, PublishAbort(x) PROVE UNCHANGED Contract!vars
    <3>1. UNCHANGED <<rowTopic, committed, events, phase, regSeq, replay, delivered>>
      BY <2>2 DEF PublishAbort, subVars
    <3>2. \A s \in Subs : Position(s)' = Position(s)
      BY <3>1 DEF Position
    <3> QED BY <3>1, <3>2 DEF Contract!vars, Published, Retained, Row, Open, Positions
  <2> QED BY <1>1, <2>1, <2>2, CommitRefines DEF Publish
<1>2. ASSUME NEW c \in Containers, Pump(c)
      PROVE  Contract!Next \/ UNCHANGED Contract!vars
  <2>1. CASE PruneAge(c) \/ PruneCount(c)
    BY <2>1, PruneRefines
  <2>2. CASE Start(c) \/ Fetch(c) \/ Resume(c) \/ Dispatch(c) \/ PruneFails(c)
    BY <2>2, QuietRefines DEF Start, Fetch, Resume, Dispatch, PruneFails, subVars
  <2> QED BY <1>2, <2>1, <2>2 DEF Pump
<1>3. ASSUME NEW c \in Containers, Lifecycle(c)
      PROVE  Contract!Next \/ UNCHANGED Contract!vars
  <2>1. CASE BeginClose(c) \/ FinishClose(c)
    BY <2>1, QuietRefines DEF BeginClose, FinishClose, subVars
  <2>2. CASE Stop(c)
    BY <2>2, EndRefines, Streams(c) \subseteq Subs DEF Stop, Streams
  <2> QED BY <1>3, <2>1, <2>2 DEF Lifecycle
<1>4. ASSUME NEW s \in Subs, Stream(s)
      PROVE  Contract!Next \/ UNCHANGED Contract!vars
  <2>1. CASE (\E c \in Containers : Subscribe(s, c)) \/ ReadHead(s) \/ ReadHeadFails(s)
    BY <2>1, OpeningRefines
  <2>2. CASE FetchReplay(s) \/ FetchReplayFails(s)
    BY <1>0, <2>2, FetchReplayRefines
  <2>3. CASE YieldReplay(s)
    <3> DEFINE x == Position(s)'
    <3>1. x \in replay[s] /\ IsLeast(x, replay[s])
      BY <1>0, <2>3, YieldReplayWhole
    <3> HIDE DEF x
    <3>2. /\ phase[s] = "live" /\ UNCHANGED <<dbVars, phase, regSeq>>
          /\ \A r \in Subs \ {s} : replay'[r] = replay[r] /\ delivered'[r] = delivered[r]
      BY <2>3 DEF YieldReplay, TypeOK
    <3>3. x \in TopicRows(s) /\ Position(s) < x
      BY <1>0, <3>1, <3>2, BeforeReplay DEF StreamWhole, RowsInv
    <3>4. ASSUME NEW y \in RowsFor(s), Position(s) < y, y < x PROVE FALSE
      <4>1. /\ y \in Nat /\ x \in Nat /\ x <= regSeq[s] /\ regSeq[s] \in Nat
        BY <1>0, <3>1, CommittedNat DEF TypeOK, RowsFor, YieldInv
      <4>2. y <= regSeq[s]
        BY <3>4, <4>1
      <4>3. y \in replay[s]
        BY <1>0, <3>2, <3>4, <4>2 DEF StreamWhole, GapInv
      <4> QED BY <3>1, <3>4, <4>1, <4>3 DEF IsLeast
    <3> QED BY <3>2, <3>3, <3>4, DeliverRefines DEF x
  <2>4. CASE GetEvent(s)
    <3> DEFINE x == Head(queue[s])
    <3>1. /\ x \in TopicRows(s)
          /\ x <= regSeq[s] => Position(s)' = Position(s)
          /\ x > regSeq[s] =>
                /\ Position(s)' = x
                /\ Position(s) < x
                /\ \A y \in RowsFor(s) : ~ (Position(s) < y /\ y < x)
      BY <1>0, <2>4, GetEventWhole
    <3>2. /\ phase[s] = "live" /\ UNCHANGED <<dbVars, phase, regSeq, replay>>
          /\ \A r \in Subs \ {s} : delivered'[r] = delivered[r]
      BY <2>4 DEF GetEvent, TypeOK
    <3> HIDE DEF x
    <3>3. x \in Nat /\ regSeq[s] \in Nat
      BY <3>1, CommittedNat DEF TypeOK, TopicRows
    <3>4. CASE x > regSeq[s]
      BY <3>1, <3>2, <3>4, DeliverRefines
    <3>5. CASE x <= regSeq[s]
      <4>1. \A r \in Subs : Position(r)' = Position(r)
        <5>1. \A r \in Subs \ {s} : Position(r)' = Position(r)
          BY <3>2 DEF Position
        <5> QED BY <3>1, <3>5, <5>1
      <4>2. Open' = Open /\ Positions' = Positions
        BY <3>2, <4>1 DEF Open, Positions
      <4>3. Published' = Published /\ Retained' = Retained
        BY <3>2 DEF Published, Retained, Row, dbVars
      <4> QED BY <4>2, <4>3 DEF Contract!vars
    <3> QED BY <3>3, <3>4, <3>5
  <2>5. CASE GetClose(s) \/ Disconnect(s)
    BY <2>5, EndRefines, {s} \subseteq Subs DEF GetClose, Disconnect
  <2> QED BY <1>4, <2>1, <2>2, <2>3, <2>4, <2>5 DEF Stream
<1>5. CASE UNCHANGED vars
  BY <1>5, QuietRefines DEF vars, subVars
<1> QED BY <1>1, <1>2, <1>3, <1>4, <1>5 DEF Next

\* The bus keeps the contract of the port, whatever the database and the
\* platform do: seen from outside, its transactions, pumps, queues and
\* replays are publishing, discarding, opening, ending, and yielding the
\* next retained event of a topic.
THEOREM BusImplementsContract == Spec => ImplementsContract
<1>1. Init => Contract!Init
  <2> SUFFICES ASSUME Init PROVE Contract!Init
    OBVIOUS
  <2>1. Published = {} /\ Retained = {}
    BY DEF Init, Published, Retained
  <2>2. \A s \in Subs : phase[s] # "live" /\ Position(s) = 0
    BY DEF Init, Position
  <2>3. Open = {} /\ Positions = [s \in Subs |-> 0]
    BY <2>2 DEF Open, Positions
  <2> QED BY <2>1, <2>3 DEF Contract!Init
<1>2. TypeOK /\ TypeOK' /\ StreamsOrdered /\ NothingLost /\ NothingLost' /\ [Next]_vars
        => [Contract!Next]_Contract!vars
  BY ConstantsAssumption, StepRefines
<1> QED BY <1>1, <1>2, NothingIsLost, PTL DEF Spec, ImplementsContract, Contract!Spec

-----------------------------------------------------------------------------
\* Inside a chunk fewer rows have been dispatched than it holds.
ChunkInv == \A c \in Containers : pump[c] = "dispatch" => inChunk[c] < Chunk

\* A chunk is no longer than a queue.
LEMMA ChunkFits == ConstantsAssumption => Chunk \in Nat \ {0} /\ Chunk <= QueueSize
BY DEF ConstantsAssumption, Chunk

\* The count of a chunk's rows starts at 0 with every chunk and stops at its
\* size.
LEMMA ChunkStep ==
    ASSUME ConstantsAssumption, TypeOK, ChunkInv, [Next]_vars
    PROVE  ChunkInv'
<1>0. /\ pump \in [Containers -> PumpStates] /\ inChunk \in [Containers -> Nat]
      /\ Chunk \in Nat \ {0}
  BY ChunkFits DEF TypeOK
<1>1. ASSUME UNCHANGED <<pump, inChunk>> PROVE ChunkInv'
  BY <1>1 DEF ChunkInv
<1>2. ASSUME NEW c \in Containers, Pump(c) PROVE ChunkInv'
  <2>1. CASE Dispatch(c)
    <3>1. /\ inChunk'[c] = inChunk[c] + 1 /\ pump[c] = "dispatch"
          /\ pump'[c] = "dispatch" => inChunk[c] + 1 # Chunk
          /\ \A d \in Containers \ {c} : pump'[d] = pump[d] /\ inChunk'[d] = inChunk[d]
      BY <1>0, <2>1 DEF Dispatch
    <3> QED BY <1>0, <3>1 DEF ChunkInv
  <2>2. CASE Resume(c)
    BY <1>0, <2>2 DEF Resume, ChunkInv
  <2>3. CASE Start(c) \/ Fetch(c) \/ PruneAge(c) \/ PruneCount(c) \/ PruneFails(c)
    BY <1>0, <2>3 DEF Start, Fetch, PruneAge, PruneCount, PruneFails, ChunkInv
  <2> QED BY <1>2, <2>1, <2>2, <2>3 DEF Pump
<1>3. ASSUME NEW c \in Containers, Lifecycle(c) PROVE ChunkInv'
  BY <1>0, <1>3 DEF Lifecycle, BeginClose, FinishClose, Stop, ChunkInv
<1>4. ASSUME NEW s \in Subs, Stream(s) PROVE ChunkInv'
  BY <1>1, <1>4 DEF Stream, Subscribe, ReadHead, ReadHeadFails, StartAtCursor,
       FetchReplay, FetchReplayFails, YieldReplay, GetEvent, GetClose, Disconnect, pumpVars
<1>5. CASE Publish
  BY <1>1, <1>5 DEF Publish, PublishInsert, InsertUnlocked, PublishCommit,
                    PublishAbort, pumpVars
<1>6. CASE UNCHANGED vars
  BY <1>1, <1>6 DEF vars, pumpVars
<1> QED BY <1>2, <1>3, <1>4, <1>5, <1>6 DEF Next

\* The slow-consumer policy never ends a stream over one chunk: whatever the
\* sizes, _drain lets the consumers run before it can fill an empty queue.
THEOREM BacklogOnly == Spec => OnlyBacklogOverflows
<1>1. Init => ChunkInv
  BY ConstantsAssumption DEF Init, ChunkInv
<1>2. TypeOK /\ ChunkInv /\ [Next]_vars => ChunkInv'
  BY ConstantsAssumption, ChunkStep
<1>3. TypeOK /\ StreamsOrdered /\ ChunkInv /\ [Next]_vars =>
        [\A s \in Subs :
            (s \in registered /\ s \notin registered' /\ phase'[s] # "ended")
                => inChunk[home[s]] < QueueSize]_vars
  <2> SUFFICES ASSUME TypeOK, ChunkInv, Next, NEW s \in Subs,
                      s \in registered, s \notin registered', phase'[s] # "ended"
               PROVE  inChunk[home[s]] < QueueSize
    OBVIOUS
  <2>1. ASSUME NEW c \in Containers, Dispatch(c) PROVE inChunk[home[s]] < QueueSize
    <3>1. home[s] = c /\ pump[c] = "dispatch"
      BY <2>1 DEF Dispatch, Overflowing, Receivers, LocalStreams
    <3>2. inChunk[c] < Chunk /\ inChunk[c] \in Nat
      BY <3>1 DEF ChunkInv, TypeOK
    <3> QED BY <3>1, <3>2, ConstantsAssumption, ChunkFits DEF ConstantsAssumption
  <2>2. ASSUME NEW S \in SUBSET Subs, EndStreams(S) PROVE FALSE
    BY <2>2 DEF EndStreams
  <2>3. \/ \E c \in Containers : Dispatch(c)
        \/ \E S \in SUBSET Subs : EndStreams(S)
        \/ registered \subseteq registered'
    <3>1. ASSUME NEW c \in Containers, Stop(c) PROVE \E S \in SUBSET Subs : EndStreams(S)
      BY <3>1, Streams(c) \in SUBSET Subs DEF Stop, Streams
    <3>2. ASSUME NEW r \in Subs, GetClose(r) \/ Disconnect(r)
          PROVE  \E S \in SUBSET Subs : EndStreams(S)
      BY <3>2, {r} \in SUBSET Subs DEF GetClose, Disconnect
    <3>3. ASSUME NEW r \in Subs, NEW c \in Containers, Subscribe(r, c)
          PROVE  registered \subseteq registered'
      BY <3>3 DEF Subscribe
    <3>4. CASE Publish
      BY <3>4 DEF Publish, PublishInsert, InsertUnlocked, PublishCommit,
                  PublishAbort, subVars
    <3>5. ASSUME NEW c \in Containers, Pump(c), ~ Dispatch(c)
          PROVE  registered \subseteq registered'
      BY <3>5 DEF Pump, Start, Fetch, Resume, PruneAge, PruneCount, PruneFails, subVars
    <3>6. ASSUME NEW c \in Containers, BeginClose(c) \/ FinishClose(c)
          PROVE  registered \subseteq registered'
      BY <3>6 DEF BeginClose, FinishClose, subVars
    <3>7. ASSUME NEW r \in Subs,
                 ReadHead(r) \/ ReadHeadFails(r) \/ FetchReplay(r)
                 \/ FetchReplayFails(r) \/ YieldReplay(r) \/ GetEvent(r)
          PROVE  registered \subseteq registered'
      BY <3>7 DEF ReadHead, ReadHeadFails, StartAtCursor, FetchReplay,
                  FetchReplayFails, YieldReplay, GetEvent
    <3> QED BY <3>1, <3>2, <3>3, <3>4, <3>5, <3>6, <3>7
            DEF Next, Lifecycle, Stream
  <2> QED BY <2>1, <2>2, <2>3
<1> QED BY <1>1, <1>2, <1>3, OrderInvariant, PTL DEF Spec, OnlyBacklogOverflows

-----------------------------------------------------------------------------
(* Resuming.  While the log head is read from a table that has its newest  *)
(* row, a stream starts at or behind what was committed when it was opened.*)

\* The head can be read, and the rows stay.
SteadyLog == Environment \cap {"head_error", "prune"} = {}

\* Of the rows that were committed the table has the newest.
HeadStays == \A x \in committed : \E y \in events : x <= y

NoPruning == \A c \in Containers : pump[c] \notin {"prune_age", "prune_count"}

\* The starting point is not before the call, nor before what the client has
\* seen.
StartInv(s) ==
    /\ headAtCall[s] \in committed \cup {0}
    /\ phase[s] \in {"started", "live"} =>
          /\ headAtCall[s] <= regSeq[s]
          /\ lastId[s] # NoId => lastId[s] <= regSeq[s]

\* A stream without an id replays nothing and yields rows behind its start
\* only; one with an id yields and replays rows behind that id.
FreshInv(s) ==
    /\ lastId[s] = NoId =>
          /\ replay[s] = {}
          /\ \A i \in 1..Len(delivered[s]) : delivered[s][i] > regSeq[s]
    /\ lastId[s] # NoId =>
          /\ \A x \in replay[s] : x > lastId[s]
          /\ \A i \in 1..Len(delivered[s]) : delivered[s][i] > lastId[s]

Shown(s) == {delivered[s][i] : i \in 1..Len(delivered[s])}

Replayed(s) == replay[s] \cup {x \in Shown(s) : x <= regSeq[s]}

\* A replay that is shorter than it may be leaves nothing out.
ShortInv(s) ==
    (phase[s] = "live" /\ Cardinality(Replayed(s)) < ReplaySize) =>
        Replayable(s) \subseteq Replayed(s)

Resuming == \A s \in Subs : StartInv(s) /\ FreshInv(s)

ReplaysWhole == \A s \in Subs : ShortInv(s)

\* ORDER BY seq DESC LIMIT n that returns fewer than n rows returns all.
LEMMA NewestAll ==
    ASSUME NEW L \in Nat, NEW S \in SUBSET (1..L), NEW n \in Nat,
           Cardinality(Newest(S, n)) < n
    PROVE  S \subseteq Newest(S, n)
<1> DEFINE N == Newest(S, n)
           R == S \ N
<1> SUFFICES ASSUME R # {} PROVE FALSE
  OBVIOUS
<1>1. IsFiniteSet(S) /\ N \subseteq S
  <2>1. IsFiniteSet(1..L)
    BY FS_Interval
  <2> QED BY <2>1, FS_Subset DEF Newest
<1>2. R \subseteq 1..L
  OBVIOUS
<1> HIDE DEF R
<1> DEFINE T == {L - x : x \in R}
<1>3. T \in SUBSET Nat /\ T # {}
  <2>1. \A x \in R : L - x \in Nat
    BY <1>2
  <2>2. R # {}
    BY DEF R
  <2> QED BY <2>1, <2>2
<1>4. PICK x \in R : \A y \in R : y <= x
  <2> DEFINE m == First(T)
  <2>1. m \in T /\ \A t \in T : m <= t
    BY <1>3, LeastRow
  <2> HIDE DEF m
  <2>2. PICK x \in R : m = L - x
    BY <2>1
  <2>3. ASSUME NEW y \in R PROVE y <= x
    <3>1. L - x <= L - y
      BY <2>1, <2>2
    <3> QED BY <1>2, <3>1
  <2> QED BY <2>3
<1> DEFINE B == {y \in S : y > x}
<1>5. x \in S /\ ~ (Cardinality(B) < n)
  BY DEF R, Newest
<1>6. B \subseteq N
  <2> SUFFICES ASSUME NEW y \in S, y > x, y \in R PROVE FALSE
    BY DEF R
  <2>1. y \in Nat /\ x \in Nat /\ y <= x
    BY <1>2, <1>4
  <2> QED BY <2>1
<1>7. /\ Cardinality(B) <= Cardinality(N)
      /\ Cardinality(B) \in Nat /\ Cardinality(N) \in Nat
  <2>1. IsFiniteSet(N)
    BY <1>1, FS_Subset
  <2> QED BY <1>6, <2>1, FS_Subset, FS_CardinalityType
<1> QED BY <1>5, <1>7

\* A step that leaves these variables of a stream alone keeps how it resumed.
LEMMA ResumeFrame ==
    ASSUME TypeOK, TypeOK', LogGrows, NEW s \in Subs, RowsInv(s),
           phase'[s] = phase[s], regSeq'[s] = regSeq[s], lastId'[s] = lastId[s],
           replay'[s] = replay[s], delivered'[s] = delivered[s],
           headAtCall'[s] = headAtCall[s]
    PROVE  /\ StartInv(s) /\ FreshInv(s) => StartInv(s)' /\ FreshInv(s)'
           /\ ShortInv(s) => ShortInv(s)'
<1>1. StartInv(s) /\ FreshInv(s) => StartInv(s)' /\ FreshInv(s)'
  BY DEF StartInv, FreshInv, LogGrows
<1>2. ASSUME ShortInv(s) PROVE ShortInv(s)'
  <2>1. Shown(s)' = Shown(s)
    BY DEF Shown
  <2>2. Replayed(s)' = Replayed(s)
    BY <2>1 DEF Replayed
  <2>3. Replayable(s)' \subseteq Replayable(s)
    <3> SUFFICES ASSUME lastId[s] # NoId, NEW x \in RowsFor(s)', lastId[s] < x,
                        x <= regSeq[s]
                 PROVE  x \in RowsFor(s)
      BY DEF Replayable
    <3>1. regSeq[s] \in committed \cup {0} /\ regSeq[s] \in Nat
      BY DEF RowsInv, TypeOK
    <3> QED BY <3>1, TopicRowsGrow
  <2> QED BY <1>2, <2>2, <2>3 DEF ShortInv
<1> QED BY <1>1, <1>2

\* Only pruning by age takes the newest row from the table: pruning by count
\* keeps it, and a row that is committed becomes the newest.
LEMMA HeadStaysStep ==
    ASSUME ConstantsAssumption, TypeOK, HeadStays, [Next]_vars,
           \A c \in Containers : ~ PruneAge(c)
    PROVE  HeadStays'
<1>1. committed \subseteq Nat /\ events \subseteq committed /\ MaxRows \in Nat \ {0}
  BY CommittedNat DEF ConstantsAssumption, TypeOK
<1>2. ASSUME UNCHANGED <<events, committed>> PROVE HeadStays'
  BY <1>2 DEF HeadStays
<1>3. ASSUME NEW x \in inTx, PublishCommit(x) PROVE HeadStays'
  <2>1. events' = events \cup {x} /\ committed' = committed \cup {x} /\ x \in Nat
    BY <1>3 DEF PublishCommit, TypeOK
  <2> QED BY <2>1 DEF HeadStays
<1>4. ASSUME NEW c \in Containers, PruneCount(c) PROVE HeadStays'
  <2>1. PICK h \in events \cup {0} :
          IsNewest(h, events) /\ events' = {x \in events : x > h - MaxRows}
    BY <1>4 DEF PruneCount
  <2>2. committed' = committed
    BY <1>4 DEF PruneCount
  <2> SUFFICES ASSUME NEW x \in committed PROVE \E y \in events' : x <= y
    BY <2>2 DEF HeadStays
  <2>3. PICK y \in events : x <= y
    BY DEF HeadStays
  <2>4. h \in events /\ y <= h
    BY <2>1, <2>3 DEF IsNewest
  <2>5. h \in Nat /\ y \in Nat /\ x \in Nat
    BY <1>1, <2>3, <2>4
  <2>6. h > h - MaxRows /\ x <= h
    BY <1>1, <2>3, <2>4, <2>5
  <2> QED BY <2>1, <2>4, <2>6
<1>5. CASE Publish
  BY <1>2, <1>3, <1>5 DEF Publish, PublishInsert, InsertUnlocked, PublishAbort
<1>6. ASSUME NEW c \in Containers, Pump(c) PROVE HeadStays'
  BY <1>2, <1>4, <1>6 DEF Pump, Start, Fetch, Resume, Dispatch, PruneFails, dbVars
<1>7. ASSUME NEW c \in Containers, Lifecycle(c) PROVE HeadStays'
  BY <1>2, <1>7 DEF Lifecycle, BeginClose, FinishClose, Stop, dbVars
<1>8. ASSUME NEW s \in Subs, Stream(s) PROVE HeadStays'
  BY <1>2, <1>8 DEF Stream, Subscribe, ReadHead, ReadHeadFails, StartAtCursor, FetchReplay,
       FetchReplayFails, YieldReplay, GetEvent, GetClose, Disconnect, dbVars
<1>9. CASE UNCHANGED vars
  BY <1>2, <1>9 DEF vars, dbVars
<1> QED BY <1>5, <1>6, <1>7, <1>8, <1>9 DEF Next

\* Where pruning is no part of the environment no pump comes to it.
LEMMA NoPruningStep ==
    ASSUME SteadyLog, TypeOK, NoPruning, [Next]_vars
    PROVE  NoPruning'
<1>0. "prune" \notin Environment /\ pump \in [Containers -> PumpStates]
  BY DEF SteadyLog, TypeOK
<1>1. ASSUME UNCHANGED pump PROVE NoPruning'
  BY <1>1 DEF NoPruning
<1>2. CASE Publish
  BY <1>1, <1>2 DEF Publish, PublishInsert, InsertUnlocked, PublishCommit,
                    PublishAbort, pumpVars
<1>3. ASSUME NEW c \in Containers, Pump(c) PROVE NoPruning'
  BY <1>0, <1>3 DEF NoPruning, Pump, Start, Fetch, Resume, Dispatch, PruneAge, PruneCount,
                    PruneFails
<1>4. ASSUME NEW c \in Containers, Lifecycle(c) PROVE NoPruning'
  BY <1>0, <1>4 DEF NoPruning, Lifecycle, BeginClose, FinishClose, Stop
<1>5. ASSUME NEW s \in Subs, Stream(s) PROVE NoPruning'
  BY <1>1, <1>5 DEF Stream, Subscribe, ReadHead, ReadHeadFails, StartAtCursor, FetchReplay,
       FetchReplayFails, YieldReplay, GetEvent, GetClose, Disconnect, pumpVars
<1>6. CASE UNCHANGED vars
  BY <1>1, <1>6 DEF vars, pumpVars
<1> QED BY <1>2, <1>3, <1>4, <1>5, <1>6 DEF Next

\* The newest row that was committed is the start; it lies at or behind the
\* head at the call and the client's last event.
LEMMA ReadHeadResumes ==
    ASSUME ConstantsAssumption, TypeOK, NEW s \in Subs, HeadStays,
           PhaseInv(s), RowsInv(s), StartInv(s), ReadHead(s)
    PROVE  StartInv(s)' /\ FreshInv(s)' /\ ShortInv(s)'
<1>1. /\ phase[s] = "registered" /\ phase'[s] = "started"
      /\ UNCHANGED <<dbVars, lastId, replay, delivered, headAtCall>>
      /\ IsNewest(regSeq'[s], events)
  BY DEF ReadHead, TypeOK
<1>2. committed' = committed /\ committed \subseteq Nat \ {0}
  BY <1>1, CommittedNat DEF dbVars
<1>3. \A x \in committed \cup {0} : x <= regSeq'[s]
  <2> DEFINE h == regSeq'[s]
  <2>1. IsNewest(h, events) /\ events \subseteq committed
    BY <1>1 DEF TypeOK
  <2> HIDE DEF h
  <2>2. CASE events = {}
    <3>1. h = 0 /\ committed = {}
      BY <2>1, <2>2 DEF IsNewest, HeadStays
    <3> QED BY <3>1 DEF h
  <2>3. CASE events # {}
    <3>1. h \in events /\ h \in Nat /\ \A y \in events : y <= h
      BY <1>2, <2>1, <2>3 DEF IsNewest
    <3>2. ASSUME NEW x \in committed PROVE x <= h
      <4>1. PICK y \in events : x <= y
        BY DEF HeadStays
      <4>2. x \in Nat /\ y \in Nat /\ y <= h
        BY <1>2, <2>1, <3>1
      <4> QED BY <3>1, <4>1, <4>2
    <3>3. 0 <= h
      BY <3>1
    <3> QED BY <3>2, <3>3 DEF h
  <2> QED BY <2>2, <2>3 DEF h
<1>4. StartInv(s)'
  BY <1>1, <1>2, <1>3 DEF StartInv, RowsInv
<1>5. FreshInv(s)' /\ ShortInv(s)'
  BY <1>1 DEF PhaseInv, FreshInv, ShortInv
<1> QED BY <1>4, <1>5

\* The replay holds rows behind the client's id, all of them if they are few.
LEMMA FetchReplayResumes ==
    ASSUME ConstantsAssumption, TypeOK, NEW s \in Subs, PhaseInv(s), StartInv(s),
           FetchReplay(s) \/ FetchReplayFails(s)
    PROVE  /\ StartInv(s)' /\ FreshInv(s)'
           /\ FetchReplay(s) => ShortInv(s)'
<1>1. /\ phase[s] = "started" /\ phase'[s] = "live" /\ replay[s] = {} /\ delivered[s] = <<>>
      /\ UNCHANGED <<dbVars, regSeq, lastId, delivered, headAtCall>>
      /\ FetchReplay(s) => replay'[s] = Newest(Replayable(s), ReplaySize)
      /\ ~ FetchReplay(s) => replay'[s] = {}
  BY DEF PhaseInv, FetchReplay, FetchReplayFails, TypeOK
<1>2. Newest(Replayable(s), ReplaySize) \subseteq Replayable(s)
  BY DEF Newest
<1>3. StartInv(s)'
  BY <1>1 DEF StartInv, dbVars
<1>4. replay'[s] \subseteq Replayable(s)
  BY <1>1, <1>2
<1>5. FreshInv(s)'
  <2>1. lastId[s] = NoId => Replayable(s) = {}
    BY DEF Replayable
  <2>2. lastId[s] # NoId => \A x \in Replayable(s) : x > lastId[s]
    <3>1. /\ lastId[s] \in Nat \cup {NoId} /\ events \subseteq Nat
      BY CommittedNat DEF TypeOK
    <3> QED BY <3>1 DEF Replayable, RowsFor
  <2> QED BY <1>1, <1>4, <2>1, <2>2 DEF FreshInv
<1>6. ASSUME FetchReplay(s) PROVE ShortInv(s)'
  <2>1. Replayed(s)' = Newest(Replayable(s), ReplaySize)
    <3>1. Shown(s)' = {}
      BY <1>1 DEF Shown
    <3> QED BY <1>1, <1>6, <3>1 DEF Replayed
  <2>2. Replayable(s)' = Replayable(s)
    BY <1>1 DEF Replayable, RowsFor, dbVars
  <2>3. Len(rowTopic) \in Nat /\ Replayable(s) \in SUBSET (1..Len(rowTopic))
        /\ ReplaySize \in Nat
    <3>1. Replayable(s) \subseteq events
      BY DEF Replayable, RowsFor
    <3>2. events \subseteq 1..Len(rowTopic) /\ Len(rowTopic) \in Nat
      BY DEF TypeOK
    <3> QED BY <3>1, <3>2 DEF ConstantsAssumption
  <2>4. Cardinality(Newest(Replayable(s), ReplaySize)) < ReplaySize =>
            Replayable(s) \subseteq Newest(Replayable(s), ReplaySize)
    BY <2>3, NewestAll
  <2> QED BY <2>1, <2>2, <2>4 DEF ShortInv
<1> QED BY <1>3, <1>5, <1>6

\* What is yielded from the replay stays part of it.
LEMMA YieldReplayResumes ==
    ASSUME ConstantsAssumption, TypeOK, NEW s \in Subs, YieldInv(s), StartInv(s), FreshInv(s),
           YieldReplay(s)
    PROVE  /\ StartInv(s)' /\ FreshInv(s)'
           /\ ShortInv(s) => ShortInv(s)'
<1>1. PICK x \in replay[s] :
        /\ delivered' = [delivered EXCEPT ![s] = Append(delivered[s], x)]
        /\ replay' = [replay EXCEPT ![s] = replay[s] \ {x}]
  BY DEF YieldReplay
<1>2. /\ UNCHANGED <<dbVars, phase, regSeq, lastId, headAtCall>>
      /\ replay'[s] = replay[s] \ {x} /\ delivered'[s] = Append(delivered[s], x)
      /\ x \in Nat /\ delivered[s] \in Seq(Nat)
  BY <1>1 DEF YieldReplay, TypeOK
<1> DEFINE d == delivered[s]
<1>3. /\ \A i \in 1..Len(Append(d, x)) : Append(d, x)[i] = x \/
            (i \in 1..Len(d) /\ Append(d, x)[i] = d[i])
      /\ \A i \in 1..Len(d) : i \in 1..Len(Append(d, x)) /\ Append(d, x)[i] = d[i]
      /\ Len(d) + 1 \in 1..Len(Append(d, x)) /\ Append(d, x)[Len(d) + 1] = x
  <2>1. d \in Seq(Nat)
    BY <1>2
  <2> HIDE DEF d
  <2>2. /\ Len(Append(d, x)) = Len(d) + 1 /\ Len(d) \in Nat
        /\ Append(d, x)[Len(d) + 1] = x
        /\ \A i \in 1..Len(d) : Append(d, x)[i] = d[i]
    BY <1>2, <2>1
  <2> QED BY <2>2
<1>4. delivered'[s] = Append(d, x)
  BY <1>2
<1> HIDE DEF d
<1>5. StartInv(s)'
  BY <1>2 DEF StartInv, dbVars
<1>6. FreshInv(s)'
  <2>1. lastId[s] # NoId
    BY DEF FreshInv
  <2>2. x > lastId[s] /\ \A i \in 1..Len(d) : d[i] > lastId[s]
    BY <2>1 DEF FreshInv, d
  <2>3. \A i \in 1..Len(delivered'[s]) : delivered'[s][i] > lastId[s]
    BY <1>3, <1>4, <2>2
  <2> QED BY <1>2, <2>1, <2>3 DEF FreshInv
<1>7. Replayed(s)' = Replayed(s)
  <2>1. Shown(s) = {d[i] : i \in 1..Len(d)}
        /\ Shown(s)' = {Append(d, x)[i] : i \in 1..Len(Append(d, x))}
    BY <1>4 DEF Shown, d
  <2>2. Shown(s)' = Shown(s) \cup {x}
    BY <1>3, <2>1
  <2>3. x <= regSeq[s]
    BY DEF YieldInv
  <2> QED BY <1>2, <2>2, <2>3 DEF Replayed
<1>8. ShortInv(s) => ShortInv(s)'
  BY <1>2, <1>7 DEF ShortInv, Replayable, RowsFor, dbVars
<1> QED BY <1>5, <1>6, <1>8

\* What is yielded from the queue lies behind the start.
LEMMA GetEventResumes ==
    ASSUME ConstantsAssumption, TypeOK, NEW s \in Subs, RowsInv(s), StartInv(s), FreshInv(s),
           Head(queue[s]) \in TopicRows(s), GetEvent(s)
    PROVE  /\ StartInv(s)' /\ FreshInv(s)'
           /\ ShortInv(s) => ShortInv(s)'
<1> DEFINE d == delivered[s]
           x == Head(queue[s])
<1>1. /\ phase[s] = "live" /\ UNCHANGED <<dbVars, phase, regSeq, lastId, replay, headAtCall>>
      /\ delivered'[s] = IF x > regSeq[s] THEN Append(d, x) ELSE d
  BY DEF GetEvent, TypeOK
<1>2. d \in Seq(Nat) /\ x \in Nat /\ regSeq[s] \in Nat /\ lastId[s] \in Nat \cup {NoId}
  BY CommittedNat DEF TypeOK, TopicRows
<1> HIDE DEF x
<1>3. StartInv(s)'
  BY <1>1 DEF StartInv, dbVars
<1>4. CASE ~ x > regSeq[s]
  <2>1. delivered'[s] = d
    BY <1>1, <1>4
  <2>2. FreshInv(s)'
    BY <1>1, <2>1 DEF FreshInv
  <2>3. Shown(s)' = Shown(s)
    BY <2>1 DEF Shown
  <2>4. ShortInv(s) => ShortInv(s)'
    BY <1>1, <2>3 DEF ShortInv, Replayed, Replayable, RowsFor, dbVars
  <2> QED BY <1>3, <2>2, <2>4
<1>5. CASE x > regSeq[s]
  <2>1. delivered'[s] = Append(d, x)
    BY <1>1, <1>5
  <2>2. /\ \A i \in 1..Len(Append(d, x)) : Append(d, x)[i] = x \/
              (i \in 1..Len(d) /\ Append(d, x)[i] = d[i])
        /\ \A i \in 1..Len(d) : i \in 1..Len(Append(d, x)) /\ Append(d, x)[i] = d[i]
    <3> HIDE DEF d
    <3>1. /\ Len(Append(d, x)) = Len(d) + 1 /\ Len(d) \in Nat
          /\ Append(d, x)[Len(d) + 1] = x
          /\ \A i \in 1..Len(d) : Append(d, x)[i] = d[i]
      BY <1>2
    <3> QED BY <3>1
  <2>3. FreshInv(s)'
    <3>1. lastId[s] # NoId => x > lastId[s]
      BY <1>1, <1>2, <1>5 DEF StartInv
    <3>2. lastId[s] = NoId =>
              \A i \in 1..Len(delivered'[s]) : delivered'[s][i] > regSeq[s]
      BY <1>5, <2>1, <2>2 DEF FreshInv
    <3>3. lastId[s] # NoId =>
              \A i \in 1..Len(delivered'[s]) : delivered'[s][i] > lastId[s]
      BY <2>1, <2>2, <3>1 DEF FreshInv
    <3> QED BY <1>1, <3>2, <3>3 DEF FreshInv
  <2>4. Replayed(s)' = Replayed(s)
    <3>1. Shown(s) = {d[i] : i \in 1..Len(d)}
          /\ Shown(s)' = {Append(d, x)[i] : i \in 1..Len(Append(d, x))}
      BY <2>1 DEF Shown
    <3>2. Shown(s)' \subseteq Shown(s) \cup {x} /\ Shown(s) \subseteq Shown(s)'
      BY <2>2, <3>1
    <3>3. ~ (x <= regSeq[s])
      BY <1>2, <1>5
    <3> QED BY <1>1, <3>2, <3>3 DEF Replayed
  <2>5. ShortInv(s) => ShortInv(s)'
    BY <1>1, <2>4 DEF ShortInv, Replayable, RowsFor, dbVars
  <2> QED BY <1>3, <2>3, <2>5
<1> QED BY <1>4, <1>5

\* How every stream resumes, over every step: the stream the step is about
\* by its lemma, the others by ResumeFrame.
LEMMA ResumeStep ==
    ASSUME ConstantsAssumption, "head_error" \notin Environment, TypeOK, TypeOK',
           StreamsOrdered, NothingLost, HeadStays, Resuming, [Next]_vars, NEW s \in Subs
    PROVE  /\ StartInv(s)' /\ FreshInv(s)'
           /\ (ShortInv(s) /\ "replay_error" \notin Environment) => ShortInv(s)'
<1> DEFINE Goal == /\ StartInv(s)' /\ FreshInv(s)'
                   /\ (ShortInv(s) /\ "replay_error" \notin Environment) => ShortInv(s)'
<1>0. /\ LogGrows /\ PhaseInv(s) /\ QueueInv(s) /\ YieldInv(s) /\ StreamWhole(s)
      /\ RowsInv(s) /\ StartInv(s) /\ FreshInv(s)
  BY LogStep DEF StreamsOrdered, NothingLost, StreamWhole, Resuming
<1>1. ASSUME phase'[s] = phase[s], regSeq'[s] = regSeq[s], lastId'[s] = lastId[s],
             replay'[s] = replay[s], delivered'[s] = delivered[s],
             headAtCall'[s] = headAtCall[s]
      PROVE  Goal
  BY <1>0, <1>1, ResumeFrame
<1>2. ASSUME UNCHANGED subVars PROVE Goal
  BY <1>1, <1>2 DEF subVars
<1>3. ASSUME NEW S \in SUBSET Subs, EndStreams(S), UNCHANGED dbVars PROVE Goal
  <2>1. CASE s \notin S
    BY <1>1, <1>3, <2>1 DEF EndStreams
  <2>2. CASE s \in S
    <3>1. /\ phase'[s] = "ended" /\ replay'[s] = {} /\ delivered'[s] = <<>>
          /\ headAtCall'[s] = 0
      BY <1>3, <2>2 DEF EndStreams
    <3> QED BY <3>1 DEF StartInv, FreshInv, ShortInv
  <2> QED BY <2>1, <2>2
<1>4. CASE Publish
  BY <1>2, <1>4 DEF Publish, PublishInsert, InsertUnlocked, PublishCommit, PublishAbort
<1>5. ASSUME NEW c \in Containers, Pump(c) PROVE Goal
  BY <1>1, <1>5 DEF Pump, Start, Fetch, Resume, Dispatch, PruneAge, PruneCount,
                    PruneFails, subVars
<1>6. ASSUME NEW c \in Containers, Lifecycle(c) PROVE Goal
  <2>1. CASE BeginClose(c) \/ FinishClose(c)
    BY <1>1, <2>1 DEF BeginClose, FinishClose, subVars
  <2>2. CASE Stop(c)
    BY <1>3, <2>2, Streams(c) \in SUBSET Subs DEF Stop, Streams
  <2> QED BY <1>6, <2>1, <2>2 DEF Lifecycle
<1>7. ASSUME NEW r \in Subs, Stream(r) PROVE Goal
  <2>1. CASE GetClose(r) \/ Disconnect(r)
    BY <1>3, <2>1, {r} \in SUBSET Subs DEF GetClose, Disconnect
  <2>2. CASE r # s
    <3>1. CASE \E c \in Containers : Subscribe(r, c)
      BY <1>1, <2>2, <3>1 DEF Subscribe, TypeOK
    <3>2. CASE ReadHead(r) \/ ReadHeadFails(r)
      BY <1>1, <2>2, <3>2 DEF ReadHead, ReadHeadFails, StartAtCursor, TypeOK
    <3>3. CASE FetchReplay(r) \/ FetchReplayFails(r)
      BY <1>1, <2>2, <3>3 DEF FetchReplay, FetchReplayFails, TypeOK
    <3>4. CASE YieldReplay(r)
      BY <1>1, <2>2, <3>4 DEF YieldReplay, TypeOK
    <3>5. CASE GetEvent(r)
      BY <1>1, <2>2, <3>5 DEF GetEvent, TypeOK
    <3> QED BY <1>7, <2>1, <3>1, <3>2, <3>3, <3>4, <3>5 DEF Stream
  <2>3. CASE \E c \in Containers : Subscribe(s, c)
    <3>0. PICK h \in committed \cup {0} : headAtCall' = [headAtCall EXCEPT ![s] = h]
      BY <2>3 DEF Subscribe
    <3>1. /\ phase[s] \notin Active /\ phase'[s] = "registered"
          /\ headAtCall'[s] = h
          /\ UNCHANGED <<dbVars, regSeq, replay, delivered>>
      BY <2>3, <3>0 DEF Subscribe, TypeOK, Active
    <3>2. replay[s] = {} /\ delivered[s] = <<>>
      BY <1>0, <3>1 DEF PhaseInv, Active
    <3> QED BY <3>1, <3>2 DEF StartInv, FreshInv, ShortInv, dbVars
  <2>4. CASE ReadHead(s)
    BY <1>0, <2>4, ReadHeadResumes
  <2>5. CASE FetchReplay(s) \/ FetchReplayFails(s)
    <3>1. "replay_error" \notin Environment => FetchReplay(s)
      BY <2>5 DEF FetchReplayFails
    <3> QED BY <1>0, <2>5, <3>1, FetchReplayResumes
  <2>6. CASE YieldReplay(s)
    BY <1>0, <2>6, YieldReplayResumes
  <2>7. CASE GetEvent(s)
    BY <1>0, <2>7, GetEventResumes, GetEventWhole
  <2>8. ~ ReadHeadFails(s)
    BY DEF ReadHeadFails
  <2> QED BY <1>7, <2>1, <2>2, <2>3, <2>4, <2>5, <2>6, <2>7, <2>8 DEF Stream
<1>8. CASE UNCHANGED vars
  BY <1>2, <1>8 DEF vars
<1> QED BY <1>4, <1>5, <1>6, <1>7, <1>8 DEF Next

\* While the head can be read, and the table has its newest row, streams start
\* where the log is and resume behind what their clients have seen.
THEOREM StreamsResume ==
    ASSUME "head_error" \notin Environment
    PROVE  Spec /\ []HeadStays => [](TypeOK /\ StreamsOrdered /\ NothingLost /\ Resuming)
<1>1. Init => Resuming
  BY DEF Init, Resuming, StartInv, FreshInv
<1>2. TypeOK /\ TypeOK' /\ StreamsOrdered /\ NothingLost
        /\ HeadStays /\ Resuming /\ [Next]_vars
        => Resuming'
  <2> SUFFICES ASSUME TypeOK, TypeOK', StreamsOrdered, NothingLost,
                      HeadStays, Resuming, [Next]_vars
               PROVE  Resuming'
    OBVIOUS
  <2>1. \A s \in Subs : StartInv(s)' /\ FreshInv(s)'
    BY ConstantsAssumption, ResumeStep
  <2> QED BY <2>1 DEF Resuming
<1> QED BY <1>1, <1>2, NothingIsLost, PTL DEF Spec

\* A stream opened without a Last-Event-ID yields nothing from before the
\* call, as long as the head read succeeds and the table keeps its newest row,
\* whatever else is pruned: ReadHead.
THEOREM NothingOldWhileHeadStays ==
    ASSUME "head_error" \notin Environment
    PROVE  Spec /\ []HeadStays => []NothingFromBefore
<1>1. TypeOK /\ StreamsOrdered /\ Resuming => NothingFromBefore
  <2> SUFFICES ASSUME TypeOK, StreamsOrdered, Resuming, NEW s \in Subs, lastId[s] = NoId,
                      NEW i \in 1..Len(delivered[s])
               PROVE  delivered[s][i] > headAtCall[s]
    BY DEF NothingFromBefore
  <2>1. /\ delivered[s] \in Seq(Nat) /\ regSeq[s] \in Nat /\ headAtCall[s] \in Nat
    BY DEF TypeOK
  <2>2. delivered[s][i] \in Nat /\ delivered[s] # <<>>
    BY <2>1, ElementOfSeq
  <2>3. phase[s] = "live"
    BY <2>2 DEF StreamsOrdered, PhaseInv
  <2>4. delivered[s][i] > regSeq[s] /\ headAtCall[s] <= regSeq[s]
    BY <2>3 DEF Resuming, StartInv, FreshInv
  <2> QED BY <2>1, <2>2, <2>4
<1> QED BY <1>1, StreamsResume, PTL

\* A stream resumed with a Last-Event-ID repeats nothing and leaves out
\* nothing the table holds, as long as no query fails and the table keeps its
\* newest row.
THEOREM ResumeExactWhileHeadStays ==
    ASSUME Environment \cap {"head_error", "replay_error"} = {}
    PROVE  Spec /\ []HeadStays => []ResumeIsExact
<1>0. "head_error" \notin Environment /\ "replay_error" \notin Environment
  OBVIOUS
<1>1. Init => ReplaysWhole
  BY DEF Init, ReplaysWhole, ShortInv
<1>2. TypeOK /\ TypeOK' /\ StreamsOrdered /\ NothingLost
        /\ HeadStays /\ Resuming /\ ReplaysWhole /\ [Next]_vars
        => ReplaysWhole'
  <2> SUFFICES ASSUME TypeOK, TypeOK', StreamsOrdered, NothingLost,
                      HeadStays, Resuming, ReplaysWhole, [Next]_vars
               PROVE  ReplaysWhole'
    OBVIOUS
  <2>1. \A s \in Subs : ShortInv(s)'
    BY <1>0, ConstantsAssumption, ResumeStep DEF ReplaysWhole
  <2> QED BY <2>1 DEF ReplaysWhole
<1>3. Resuming /\ ReplaysWhole => ResumeIsExact
  BY DEF Resuming, FreshInv, ReplaysWhole, ShortInv, Replayed, Shown, ResumeIsExact
<1>4. Spec /\ []HeadStays => [](TypeOK /\ StreamsOrdered /\ NothingLost /\ Resuming)
  BY <1>0, StreamsResume
<1> QED BY <1>1, <1>2, <1>3, <1>4, PTL DEF Spec

\* No step but pruning by age (_prune) takes the newest row from the table.
THEOREM OnlyAgeTakesTheHead ==
    Spec => [][HeadStays /\ (\A c \in Containers : ~ PruneAge(c)) => HeadStays']_vars
<1>1. TypeOK /\ [Next]_vars
        => [HeadStays /\ (\A c \in Containers : ~ PruneAge(c)) => HeadStays']_vars
  BY ConstantsAssumption, HeadStaysStep
<1> QED BY <1>1, TypeCorrect, PTL DEF Spec

\* So it stays where nothing is pruned.
LEMMA SteadyHead ==
    ASSUME SteadyLog
    PROVE  Spec => []HeadStays
<1>1. Init => HeadStays /\ NoPruning
  BY DEF Init, HeadStays, NoPruning
<1>2. TypeOK /\ HeadStays /\ NoPruning /\ [Next]_vars => HeadStays' /\ NoPruning'
  <2> SUFFICES ASSUME TypeOK, HeadStays, NoPruning, [Next]_vars
               PROVE  HeadStays' /\ NoPruning'
    OBVIOUS
  <2>1. \A c \in Containers : ~ PruneAge(c)
    BY DEF NoPruning, PruneAge
  <2> QED BY <2>1, ConstantsAssumption, HeadStaysStep, NoPruningStep
<1> QED BY <1>1, <1>2, TypeCorrect, PTL DEF Spec

\* In particular, where the head can be read and rows are not pruned, a stream
\* opened without a Last-Event-ID yields nothing from before the call.
THEOREM NothingOldIsYielded ==
    ASSUME SteadyLog
    PROVE  Spec => []NothingFromBefore
<1>1. "head_error" \notin Environment
  BY DEF SteadyLog
<1>2. Spec /\ []HeadStays => []NothingFromBefore
  BY <1>1, NothingOldWhileHeadStays
<1> QED BY <1>2, SteadyHead, PTL

\* And one opened with it goes on exactly where its client stopped.
THEOREM StreamsResumeExactly ==
    ASSUME SteadyLog, "replay_error" \notin Environment
    PROVE  Spec => []ResumeIsExact
<1>1. Environment \cap {"head_error", "replay_error"} = {}
  BY DEF SteadyLog
<1>2. Spec /\ []HeadStays => []ResumeIsExact
  BY <1>1, ResumeExactWhileHeadStays
<1> QED BY <1>2, SteadyHead, PTL

=============================================================================
