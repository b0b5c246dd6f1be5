------------------------------ MODULE Webhooks ------------------------------
(***************************************************************************)
(* The delivery of a webhook (receive_webhook in src/api/webhooks.py): the *)
(* checks in their fixed order, then claim its id in the store, publish it *)
(* on the event bus, and give the claim back if publishing raises.  The    *)
(* sender repeats a delivery until it is answered 2xx, and may do so while *)
(* an earlier try is still being handled.  Each of the three calls to the  *)
(* database can fail before its effect or after it, and the container can  *)
(* die between or within them.                                             *)
(***************************************************************************)
EXTENDS Naturals, Sequences, FiniteSets

CONSTANTS
    Ids,            \* (provider, webhook id) pairs
    Deliveries,     \* the requests the sender makes, first tries and retries
    IdOf,           \* the id each of them carries
    Faults          \* what can be wrong with a request: sets of Checks

\* What is checked, in this order: before the signature nothing is parsed.
\* "nesting": json.loads raises a RecursionError, which is not caught; for a
\* ValueError or what is no object the "payload" is at fault.
CheckOrder == <<"provider", "rate", "size", "timestamp", "signature", "id",
                "nesting", "payload">>
Checks == {CheckOrder[n] : n \in DOMAIN CheckOrder}

ASSUME WebhooksAssumption ==
    /\ IsFiniteSet(Deliveries)
    /\ IdOf \in [Deliveries -> Ids]
    /\ Faults \subseteq SUBSET Checks

VARIABLES
    recorded,   \* the ids with a live row in webhook_events
    published,  \* how often each id was published
    step,       \* the call each request makes next, or how it was answered
    (* history *)
    excess,     \* how often each id was published, or its claim lost, unseen
    doubts      \* the ids with a claim that stayed behind a failure, or one
                \* given back after another try was told "duplicate"

vars == <<recorded, published, step, excess, doubts>>

Running == {"record", "publish", "forget"}
Acknowledged == {"accepted", "duplicate"}
Refused == {"400", "401", "404", "413", "429", "500"}

Go(d, from, to) == step[d] = from /\ step' = [step EXCEPT ![d] = to]
More(f, d) == [f EXCEPT ![IdOf[d]] = @ + 1]
Strand(d) == doubts' = doubts \cup {IdOf[d]}

Init ==
    /\ recorded = {}
    /\ published = [i \in Ids |-> 0]
    /\ step = [d \in Deliveries |-> "unsent"]
    /\ excess = [i \in Ids |-> 0]
    /\ doubts = {}

\* The first check that fails has the answer.
Answer(wrong) ==
    LET first == CHOOSE n \in DOMAIN CheckOrder :
                    /\ CheckOrder[n] \in wrong
                    /\ \A m \in 1..(n - 1) : CheckOrder[m] \notin wrong
    IN CASE CheckOrder[first] = "provider" -> "404"
         [] CheckOrder[first] = "rate" -> "429"
         [] CheckOrder[first] = "size" -> "413"
         [] CheckOrder[first] = "signature" -> "401"
         [] CheckOrder[first] = "nesting" -> "500"
         [] OTHER -> "400"

\* The sender tries again unless one of its tries was answered 2xx.
Send(d, wrong) ==
    /\ \A e \in Deliveries : IdOf[e] = IdOf[d] => step[e] \notin Acknowledged
    /\ Go(d, "unsent", IF wrong = {} THEN "record" ELSE Answer(wrong))
    /\ UNCHANGED <<recorded, published, excess, doubts>>

\* Mutant: the INSERT overwrites a row that is there.
RecordAnyway(d) ==
    /\ recorded' = recorded \cup {IdOf[d]}
    /\ Go(d, "record", "publish")
    /\ UNCHANGED <<published, excess, doubts>>

\* Mutant: the row is keyed by the request and not by the webhook id.
RecordRequest(d) ==
    /\ d \notin recorded
    /\ recorded' = recorded \cup {d}
    /\ Go(d, "record", "publish")
    /\ UNCHANGED <<published, excess, doubts>>

\* record_if_new returns True, and the handler goes on to publish ...
RecordNew(d) == IdOf[d] \notin recorded /\ RecordAnyway(d)

\* ... or False: 200 "duplicate".
RecordSeen(d) ==
    /\ IdOf[d] \in recorded
    /\ Go(d, "record", "duplicate")
    /\ UNCHANGED <<recorded, published, excess, doubts>>

\* record_if_new raises, outside the handler's try: without effect, or after
\* the INSERT, when the connection breaks behind it or the DELETE of old rows
\* that follows it fails.
RecordRaises(d) ==
    /\ \/ UNCHANGED <<recorded, doubts>>
       \/ recorded' = recorded \cup {IdOf[d]} /\ Strand(d)
    /\ Go(d, "record", "error")
    /\ UNCHANGED <<published, excess>>

Publish(d) ==
    /\ published' = More(published, d)
    /\ Go(d, "publish", "accepted")
    /\ UNCHANGED <<recorded, excess, doubts>>

\* publish() raises: without effect, or although the event is in the log.
PublishRaises(d) ==
    /\ \/ UNCHANGED <<published, excess>>
       \/ published' = More(published, d) /\ excess' = More(excess, d)
    /\ Go(d, "publish", "forget")
    /\ UNCHANGED <<recorded, doubts>>

\* Mutant: the claim is kept.
KeepClaim(d) == Go(d, "forget", "error") /\ UNCHANGED <<recorded, published, excess, doubts>>

Forget(d) ==
    /\ recorded' = recorded \ {IdOf[d]}
    /\ Go(d, "forget", "error")
    /\ IF \E e \in Deliveries : IdOf[e] = IdOf[d] /\ step[e] = "duplicate"
       THEN Strand(d) ELSE UNCHANGED doubts
    /\ UNCHANGED <<published, excess>>

ForgetRaises(d) ==
    /\ Go(d, "forget", "error") /\ Strand(d)
    /\ UNCHANGED <<recorded, published, excess>>

\* The container dies or the request is cancelled, which `except Exception`
\* does not catch, in the middle of a call, which may have taken effect.
Abandon(d) ==
    /\ step[d] \in Running
    /\ step' = [step EXCEPT ![d] = "error"]
    /\ Strand(d)
    /\ \/ UNCHANGED <<recorded, published>>
       \/ /\ step[d] = "record"
          /\ recorded' = recorded \cup {IdOf[d]}
          /\ UNCHANGED published
       \/ /\ step[d] = "publish"
          /\ published' = More(published, d)
          /\ UNCHANGED recorded
       \/ /\ step[d] = "forget"
          /\ recorded' = recorded \ {IdOf[d]}
          /\ UNCHANGED published
    /\ UNCHANGED excess

\* The time-to-live of a row runs out, and record_if_new claims it anew; or
\* the in-memory store drops the oldest of more ids than it may hold.
Expire(i) ==
    /\ i \in recorded
    /\ recorded' = recorded \ {i}
    /\ excess' = [excess EXCEPT ![i] = @ + 1]
    /\ UNCHANGED <<published, step, doubts>>

Handle(d) ==
    \/ RecordNew(d) \/ RecordSeen(d) \/ RecordRaises(d)
    \/ Publish(d) \/ PublishRaises(d) \/ Forget(d) \/ ForgetRaises(d)

Next ==
    \/ \E d \in Deliveries, wrong \in Faults : Send(d, wrong)
    \/ \E d \in Deliveries : Handle(d) \/ Abandon(d)
    \/ \E i \in Ids : Expire(i)

Spec == Init /\ [][Next]_vars

-----------------------------------------------------------------------------
(* Properties *)

TypeOK ==
    /\ recorded \subseteq Ids
    /\ published \in [Ids -> Nat]
    /\ step \in [Deliveries ->
                    Running \cup Acknowledged \cup Refused \cup {"unsent", "error"}]
    /\ excess \in [Ids -> Nat]
    /\ doubts \subseteq Ids

\* However often a delivery is repeated, and however many requests carry it
\* at once, its event is published once; once more at most for each publish
\* that raised behind its effect, and for each claim that expired or had to
\* make room for others.
PublishedOnce == \A i \in Ids : published[i] <= 1 + excess[i]

Settled(i) == \A d \in Deliveries : IdOf[d] = i => step[d] \notin Running

\* What the sender was told is there, is there: once the requests for an id
\* are over, a 2xx answer to any of them means that the event was published.
\* So a try that overtakes another may be told "duplicate" before anything is
\* published: the other publishes yet.  Left out are the ids where it failed
\* to, and gave its claim back too late, and those where a claim stayed behind
\* a failure.  And a request that fails a check claims and publishes nothing.
AcknowledgedIsPublished ==
    /\ \A d \in Deliveries :
          (step[d] \in Acknowledged /\ Settled(IdOf[d]) /\ IdOf[d] \notin doubts)
          => published[IdOf[d]] > 0
    /\ \A i \in Ids : (i \in recorded \/ published[i] > 0) =>
          \E d \in Deliveries : IdOf[d] = i /\ step[d] \notin Refused \cup {"unsent"}

=============================================================================
