---------------------------- MODULE EventStream ----------------------------
(***************************************************************************)
(* What src/core/ports/event_bus.py promises of any event bus, without     *)
(* queues, pumps or cursors: published events have growing ids; a stream   *)
(* has a position in the log and yields the events of its topic behind     *)
(* that position one by one, in order and without leaving out any that is  *)
(* still retained; it may be ended at any time, never held up.             *)
(***************************************************************************)
EXTENDS Naturals

CONSTANTS
    Subs,
    Topics,
    TopicOf,    \* the topic of each stream
    Ids         \* the ids events can have

VARIABLES
    published,  \* <<id, topic>> of every event published
    retained,   \* those the bus still holds
    open,       \* the streams that have a starting point
    position    \* the id up to which a stream has yielded its topic

vars == <<published, retained, open, position>>

Init ==
    /\ published = {}
    /\ retained = {}
    /\ open = {}
    /\ position = [s \in Subs |-> 0]

\* publish() gives the event an id above all others; what the bus keeps is
\* bounded, so older events may make room for it.
Publish(id, t) ==
    /\ \A e \in published : e[1] < id
    /\ published' = published \cup {<<id, t>>}
    /\ \E kept \in SUBSET (retained \cup {<<id, t>>}) : retained' = kept
    /\ UNCHANGED <<open, position>>

\* Events are dropped with age.
Discard(S) ==
    /\ retained' = retained \ S
    /\ UNCHANGED <<published, open, position>>

\* subscribe(): the stream starts at some point of the log, never beyond
\* its newest event, so that what is published from now on is behind it.
Open(s, p) ==
    /\ s \notin open
    /\ p = 0 \/ \E e \in published : p <= e[1]
    /\ open' = open \cup {s}
    /\ position' = [position EXCEPT ![s] = p]
    /\ UNCHANGED <<published, retained>>

\* The next event of the topic.
Deliver(s, e) ==
    /\ s \in open
    /\ e[2] = TopicOf[s]
    /\ position[s] < e[1]
    /\ ~ \E f \in retained :
            f[2] = TopicOf[s] /\ position[s] < f[1] /\ f[1] < e[1]
    /\ position' = [position EXCEPT ![s] = e[1]]
    /\ UNCHANGED <<published, retained, open>>

\* Streams end, of their own accord, because they cannot keep up or with
\* the process that serves them.
End(S) ==
    /\ open' = open \ S
    /\ position' = [s \in Subs |-> IF s \in S THEN 0 ELSE position[s]]
    /\ UNCHANGED <<published, retained>>

Next ==
    \/ \E id \in Ids, t \in Topics : Publish(id, t)
    \/ \E S \in SUBSET retained : Discard(S)
    \/ \E s \in Subs, p \in {0} \cup Ids : Open(s, p)
    \/ \E s \in Subs, e \in published : Deliver(s, e)
    \/ \E S \in SUBSET open : End(S)

Spec == Init /\ [][Next]_vars

=============================================================================
