--------------------------- MODULE WebhooksProofs ---------------------------
(***************************************************************************)
(* Proofs about Webhooks, for any number of ids and requests: the event of *)
(* a webhook is published once, and once more at most for each publish or  *)
(* claim that was lost from sight.  The argument is one of bookkeeping:    *)
(* whoever publishes has a claim, whoever has a claim has paid for it with *)
(* the row, and a row is given up with the claim or counted in excess.     *)
(* And a 2xx answer means that the event was published, or that a request  *)
(* which claimed it is still about to publish or to forget it.             *)
(***************************************************************************)
EXTENDS Webhooks, FiniteSetTheorems, TLAPS

Claims(d) == step[d] \in {"publish", "forget"}
Claimers(i) == {d \in Deliveries : IdOf[d] = i /\ Claims(d)}
Row(i) == IF i \in recorded THEN 1 ELSE 0
Share(d, i) == IF IdOf[d] = i /\ Claims(d) THEN 1 ELSE 0
OnlyMoves(d) == \A e \in Deliveries : e # d => step'[e] = step[e]

\* The publications of an id and the claims on it are covered by its row and
\* by what was lost from sight.
ClaimsPaid ==
    \A i \in Ids : published[i] + Cardinality(Claimers(i)) <= excess[i] + Row(i)

\* The variables of the handler and the store keep their types.
LEMMA TypeStep ==
    ASSUME WebhooksAssumption, TypeOK, [Next]_vars
    PROVE  TypeOK'
<1> USE WebhooksAssumption DEF WebhooksAssumption, TypeOK, Go, More, Strand, Running, Acknowledged, Refused
<1>1. ASSUME NEW d \in Deliveries, NEW wrong \in Faults, Send(d, wrong) PROVE TypeOK'
  <2>1. Answer(wrong) \in Refused
    BY DEF Answer
  <2> QED BY <1>1, <2>1 DEF Send
<1>2. ASSUME NEW d \in Deliveries, Handle(d) PROVE TypeOK'
  BY <1>2 DEF Handle, RecordNew, RecordAnyway, RecordSeen, RecordRaises,
              Publish, PublishRaises, Forget, ForgetRaises
<1>3. ASSUME NEW d \in Deliveries, Abandon(d) PROVE TypeOK'
  BY <1>3 DEF Abandon
<1>4. ASSUME NEW i \in Ids, Expire(i) PROVE TypeOK'
  BY <1>4 DEF Expire
<1>5. CASE UNCHANGED vars
  BY <1>5 DEF vars
<1> QED BY <1>1, <1>2, <1>3, <1>4, <1>5 DEF Next

\* There are finitely many claimers.
LEMMA ClaimersFinite ==
    ASSUME WebhooksAssumption, NEW i \in Ids
    PROVE  IsFiniteSet(Claimers(i)) /\ Cardinality(Claimers(i)) \in Nat
<1>1. Claimers(i) \in SUBSET Deliveries
  BY DEF Claimers
<1>2. IsFiniteSet(Claimers(i))
  BY <1>1, FS_Subset, WebhooksAssumption DEF WebhooksAssumption
<1> QED BY <1>2, FS_CardinalityType

\* A request that moves alone adds itself to the claimers of its id, or takes
\* itself out.
LEMMA ClaimersStep ==
    ASSUME WebhooksAssumption, NEW i \in Ids, NEW d \in Deliveries, OnlyMoves(d)
    PROVE  Cardinality(Claimers(i)') = Cardinality(Claimers(i)) + Share(d, i)' - Share(d, i)
<1>1. IsFiniteSet(Claimers(i)) /\ Cardinality(Claimers(i)) \in Nat
  BY ClaimersFinite
<1>2. d \in Claimers(i) <=> IdOf[d] = i /\ Claims(d)
  BY DEF Claimers
<1>3. CASE IdOf[d] = i /\ Claims(d)'
  <2>1. Claimers(i)' = Claimers(i) \cup {d}
    BY <1>3 DEF Claimers, Claims, OnlyMoves
  <2>2. Share(d, i)' = 1
    BY <1>3 DEF Share
  <2>3. CASE Claims(d)
    <3>1. Share(d, i) = 1 /\ Claimers(i)' = Claimers(i)
      BY <1>2, <1>3, <2>1, <2>3 DEF Share
    <3> QED BY <1>1, <2>2, <3>1
  <2>4. CASE ~ Claims(d)
    <3>1. Share(d, i) = 0
      BY <2>4 DEF Share
    <3>2. Cardinality(Claimers(i) \cup {d}) = Cardinality(Claimers(i)) + 1
      BY <1>1, <1>2, <2>4, FS_AddElement
    <3> QED BY <1>1, <2>1, <2>2, <3>1, <3>2
  <2> QED BY <2>3, <2>4
<1>4. CASE ~ (IdOf[d] = i /\ Claims(d)')
  <2>1. Claimers(i)' = Claimers(i) \ {d}
    BY <1>4 DEF Claimers, Claims, OnlyMoves
  <2>2. Share(d, i)' = 0
    BY <1>4 DEF Share
  <2>3. CASE d \in Claimers(i)
    <3>1. Share(d, i) = 1
      BY <1>2, <2>3 DEF Share
    <3>2. Cardinality(Claimers(i) \ {d}) = Cardinality(Claimers(i)) - 1
      BY <1>1, <2>3, FS_RemoveElement
    <3> QED BY <1>1, <2>1, <2>2, <3>1, <3>2
  <2>4. CASE d \notin Claimers(i)
    <3>1. Share(d, i) = 0 /\ Claimers(i)' = Claimers(i)
      BY <1>2, <2>1, <2>4 DEF Share
    <3> QED BY <1>1, <2>2, <3>1
  <2> QED BY <2>3, <2>4
<1> QED BY <1>3, <1>4

\* A step of one request keeps the books of an id, if what it publishes is
\* covered by its claim or counted, and what it claims by the row.
LEMMA BooksBalance ==
    ASSUME WebhooksAssumption, TypeOK, ClaimsPaid, NEW i \in Ids, NEW d \in Deliveries, OnlyMoves(d),
           published'[i] \in Nat, excess'[i] \in Nat,
           published'[i] - published[i] + Share(d, i)' - Share(d, i)
               <= excess'[i] - excess[i] + Row(i)' - Row(i)
    PROVE  published'[i] + Cardinality(Claimers(i)') <= excess'[i] + Row(i)'
<1>1. /\ published[i] \in Nat /\ excess[i] \in Nat /\ Row(i) \in {0, 1}
      /\ Cardinality(Claimers(i)) \in Nat
      /\ published[i] + Cardinality(Claimers(i)) <= excess[i] + Row(i)
  BY ClaimersFinite DEF TypeOK, ClaimsPaid, Row
<1>2. Row(i)' \in {0, 1} /\ Share(d, i) \in {0, 1} /\ Share(d, i)' \in {0, 1}
  BY DEF Row, Share
<1>3. Cardinality(Claimers(i)') = Cardinality(Claimers(i)) + Share(d, i)' - Share(d, i)
  BY ClaimersStep
<1> QED BY <1>1, <1>2, <1>3

\* Every step keeps the books.
LEMMA ClaimsPaidStep ==
    ASSUME WebhooksAssumption, TypeOK, ClaimsPaid, [Next]_vars
    PROVE  ClaimsPaid'
<1> USE WebhooksAssumption
<1> SUFFICES ASSUME NEW i \in Ids
             PROVE  published'[i] + Cardinality(Claimers(i)') <= excess'[i] + Row(i)'
  BY DEF ClaimsPaid
<1>1. /\ published[i] \in Nat /\ excess[i] \in Nat
      /\ published'[i] \in Nat /\ excess'[i] \in Nat
  BY TypeStep DEF TypeOK
<1> DEFINE Balanced(d) == /\ OnlyMoves(d)
                          /\ published'[i] - published[i] + Share(d, i)' - Share(d, i)
                               <= excess'[i] - excess[i] + Row(i)' - Row(i)
<1>2. ASSUME NEW d \in Deliveries, NEW wrong \in Faults, Send(d, wrong) PROVE Balanced(d)
  <2>1. Answer(wrong) \notin {"publish", "forget"}
    BY DEF Answer
  <2>2. PICK to : to \notin {"publish", "forget"} /\ step' = [step EXCEPT ![d] = to] /\ ~ Claims(d)
    BY <1>2, <2>1 DEF Send, Go, Claims
  <2>3. OnlyMoves(d) /\ Share(d, i)' = 0 /\ Share(d, i) = 0
    BY <2>2 DEF OnlyMoves, Share, Claims, TypeOK
  <2>4. Row(i)' = Row(i) /\ published' = published /\ excess' = excess
    BY <1>2 DEF Send, Row
  <2> QED BY <1>1, <2>3, <2>4 DEF Row
<1>3. ASSUME NEW d \in Deliveries, RecordNew(d) PROVE Balanced(d)
  <2>1. OnlyMoves(d) /\ Share(d, i)' = (IF IdOf[d] = i THEN 1 ELSE 0) /\ Share(d, i) = 0
    BY <1>3 DEF RecordNew, RecordAnyway, Go, OnlyMoves, Share, Claims, TypeOK
  <2>2. /\ Row(i)' = Row(i) + (IF IdOf[d] = i THEN 1 ELSE 0)
        /\ published' = published /\ excess' = excess
    BY <1>3 DEF RecordNew, RecordAnyway, Row
  <2> QED BY <1>1, <2>1, <2>2 DEF Row
<1>4. ASSUME NEW d \in Deliveries, RecordSeen(d) \/ RecordRaises(d) PROVE Balanced(d)
  <2>1. OnlyMoves(d) /\ Share(d, i)' = 0 /\ Share(d, i) = 0
    BY <1>4 DEF RecordSeen, RecordRaises, Go, OnlyMoves, Share, Claims, TypeOK
  <2>2. Row(i)' \in {Row(i), 1} /\ published' = published /\ excess' = excess
    BY <1>4 DEF RecordSeen, RecordRaises, Row
  <2> QED BY <1>1, <2>1, <2>2 DEF Row
<1>5. ASSUME NEW d \in Deliveries, Publish(d) PROVE Balanced(d)
  <2>1. OnlyMoves(d) /\ Share(d, i)' = 0 /\ Share(d, i) = (IF IdOf[d] = i THEN 1 ELSE 0)
    BY <1>5 DEF Publish, Go, OnlyMoves, Share, Claims, TypeOK
  <2>2. /\ published'[i] = published[i] + (IF IdOf[d] = i THEN 1 ELSE 0)
        /\ Row(i)' = Row(i) /\ Row(i) \in {0, 1} /\ excess' = excess
    BY <1>1, <1>5 DEF Publish, More, Row, TypeOK, WebhooksAssumption
  <2>3. CASE IdOf[d] = i
    <3>1. /\ published'[i] = published[i] + 1 /\ excess'[i] = excess[i]
          /\ Share(d, i)' = 0 /\ Share(d, i) = 1
      BY <2>1, <2>2, <2>3
    <3> QED BY <1>1, <2>1, <2>2, <3>1
  <2>4. CASE IdOf[d] # i
    <3>1. /\ published'[i] = published[i] /\ excess'[i] = excess[i]
          /\ Share(d, i)' = 0 /\ Share(d, i) = 0
      BY <1>1, <2>1, <2>2, <2>4
    <3> QED BY <1>1, <2>1, <2>2, <3>1
  <2> QED BY <2>3, <2>4
<1>6. ASSUME NEW d \in Deliveries, PublishRaises(d) PROVE Balanced(d)
  <2>1. /\ OnlyMoves(d)
        /\ Share(d, i) = (IF IdOf[d] = i THEN 1 ELSE 0)
        /\ Share(d, i)' = (IF IdOf[d] = i THEN 1 ELSE 0)
    BY <1>6 DEF PublishRaises, Go, OnlyMoves, Share, Claims, TypeOK
  <2>2. /\ published'[i] - published[i] = excess'[i] - excess[i]
        /\ Row(i)' = Row(i) /\ Row(i) \in {0, 1}
    BY <1>1, <1>6 DEF PublishRaises, More, Row, TypeOK, WebhooksAssumption
  <2> QED BY <1>1, <2>1, <2>2
<1>7. ASSUME NEW d \in Deliveries, Forget(d) \/ ForgetRaises(d) PROVE Balanced(d)
  <2>1. OnlyMoves(d) /\ Share(d, i)' = 0 /\ Share(d, i) = (IF IdOf[d] = i THEN 1 ELSE 0)
    BY <1>7 DEF Forget, ForgetRaises, Go, OnlyMoves, Share, Claims, TypeOK
  <2>2. /\ Row(i)' = Row(i) \/ (IdOf[d] = i /\ Row(i)' = 0)
        /\ published' = published /\ excess' = excess
    BY <1>7 DEF Forget, ForgetRaises, Row
  <2> QED BY <1>1, <2>1, <2>2 DEF Row
<1>8. ASSUME NEW d \in Deliveries, Abandon(d) PROVE Balanced(d)
  <2>1. /\ OnlyMoves(d) /\ Share(d, i)' = 0
        /\ Share(d, i) = (IF IdOf[d] = i /\ step[d] \in {"publish", "forget"} THEN 1 ELSE 0)
    BY <1>8 DEF Abandon, OnlyMoves, Share, Claims, TypeOK
  <2>2. excess' = excess
    BY <1>8 DEF Abandon
  <2>3. CASE UNCHANGED <<recorded, published>>
    BY <1>1, <2>1, <2>2, <2>3 DEF Row
  <2>4. CASE step[d] = "record" /\ recorded' = recorded \cup {IdOf[d]} /\ UNCHANGED published
    BY <1>1, <2>1, <2>2, <2>4 DEF Row
  <2>5. CASE step[d] = "publish" /\ published' = More(published, d) /\ UNCHANGED recorded
    <3>1. published'[i] = published[i] + (IF IdOf[d] = i THEN 1 ELSE 0)
      <4>1. IdOf[d] \in Ids /\ published' = [published EXCEPT ![IdOf[d]] = @ + 1]
        BY <2>5 DEF More, WebhooksAssumption
      <4>2. DOMAIN published = Ids
        BY DEF TypeOK
      <4> QED BY <1>1, <4>1, <4>2
    <3>2. Row(i)' = Row(i)
      BY <2>5 DEF Row
    <3>3. Row(i) \in {0, 1} /\ step[d] = "publish"
      BY <2>5 DEF Row
    <3>4. CASE IdOf[d] = i
      <4>1. published'[i] = published[i] + 1 /\ Share(d, i)' = 0 /\ Share(d, i) = 1
        BY <2>1, <3>1, <3>3, <3>4
      <4> QED BY <1>1, <2>1, <2>2, <3>2, <3>3, <4>1
    <3>5. CASE IdOf[d] # i
      <4>1. published'[i] = published[i] /\ Share(d, i)' = 0 /\ Share(d, i) = 0
        BY <1>1, <2>1, <3>1, <3>5
      <4> QED BY <1>1, <2>1, <2>2, <3>2, <3>3, <4>1
    <3> QED BY <3>4, <3>5
  <2>6. CASE step[d] = "forget" /\ recorded' = recorded \ {IdOf[d]} /\ UNCHANGED published
    <3>1. Row(i)' = Row(i) \/ (IdOf[d] = i /\ Row(i)' = 0)
      BY <2>6 DEF Row
    <3> QED BY <1>1, <2>1, <2>2, <2>6, <3>1 DEF Row
  <2> QED BY <1>8, <2>3, <2>4, <2>5, <2>6 DEF Abandon
<1>9. ASSUME NEW j \in Ids, Expire(j)
      PROVE  published'[i] + Cardinality(Claimers(i)') <= excess'[i] + Row(i)'
  <2>1. Claimers(i)' = Claimers(i) /\ published' = published
    BY <1>9 DEF Expire, Claimers, Claims
  <2>2. excess'[i] + Row(i)' = excess[i] + Row(i)
    BY <1>1, <1>9 DEF Expire, Row, TypeOK
  <2> QED BY <2>1, <2>2 DEF ClaimsPaid
<1>10. CASE UNCHANGED vars
  BY <1>10 DEF vars, Claimers, Claims, Row, ClaimsPaid
<1>11. ASSUME NEW d \in Deliveries, Balanced(d)
       PROVE  published'[i] + Cardinality(Claimers(i)') <= excess'[i] + Row(i)'
  BY <1>1, <1>11, BooksBalance
<1> HIDE DEF Balanced
<1> QED
  BY <1>2, <1>3, <1>4, <1>5, <1>6, <1>7, <1>8, <1>9, <1>10, <1>11 DEF Next, Handle

\* The handler and its store keep their types, and their books.
THEOREM BooksAreKept == Spec => [](TypeOK /\ ClaimsPaid)
<1>1. Init => TypeOK
  BY WebhooksAssumption DEF WebhooksAssumption, Init, TypeOK, Running, Acknowledged, Refused
<1>2. Init => ClaimsPaid
  <2> SUFFICES ASSUME Init, NEW i \in Ids
               PROVE  published[i] + Cardinality(Claimers(i)) <= excess[i] + Row(i)
    BY DEF ClaimsPaid
  <2>1. Claimers(i) = {}
    BY DEF Init, Claimers, Claims
  <2> QED BY <2>1, FS_EmptySet DEF Init, Row
<1>3. TypeOK /\ ClaimsPaid /\ [Next]_vars => TypeOK' /\ ClaimsPaid'
  BY WebhooksAssumption, TypeStep, ClaimsPaidStep
<1> QED BY <1>1, <1>2, <1>3, PTL DEF Spec

\* The requests that carry one id exclude each other from record_if_new until
\* they have published or forgotten it, and what has been published is not
\* claimed again: as long as no claim on the id expired or was evicted, and no
\* publish of it raised behind its effect.  Of other ids this says nothing.
OneClaim ==
    \A i \in Ids : excess[i] = 0 =>
        /\ \A d, e \in Claimers(i) : d = e
        /\ Claimers(i) # {} => published[i] = 0 /\ i \in recorded

\* Two requests with one id are never between claim and answer at once while
\* no claim on it was lost from sight and no publish raised behind its effect.
THEOREM ClaimsExclude == Spec => []OneClaim
<1>1. ASSUME TypeOK, ClaimsPaid PROVE OneClaim
  <2> SUFFICES ASSUME NEW i \in Ids, excess[i] = 0, NEW d \in Claimers(i), NEW e \in Claimers(i)
               PROVE  d = e /\ published[i] = 0 /\ i \in recorded
    BY DEF OneClaim
  <2>1. IsFiniteSet(Claimers(i)) /\ Cardinality(Claimers(i)) \in Nat
    BY ClaimersFinite, WebhooksAssumption
  <2>2. Cardinality(Claimers(i)) # 0
    BY <2>1, FS_EmptySet
  <2>3. published[i] + Cardinality(Claimers(i)) <= Row(i) /\ published[i] \in Nat /\ Row(i) \in {0, 1}
    BY <1>1 DEF ClaimsPaid, TypeOK, Row
  <2>4. Cardinality(Claimers(i)) = 1 /\ published[i] = 0 /\ Row(i) = 1
    BY <2>1, <2>2, <2>3
  <2>5. PICK x : Claimers(i) = {x}
    BY <2>1, <2>4, FS_Singleton
  <2> QED BY <2>4, <2>5 DEF Row
<1> QED BY <1>1, BooksAreKept, PTL

\* The event of a webhook is published once, and once more at most for each
\* publish that raised behind its effect and each claim that expired, whatever
\* the retries, overlaps, crashes and failures of receive_webhook.
THEOREM WebhookPublishedOnce == Spec => []PublishedOnce
<1>1. ASSUME TypeOK, ClaimsPaid PROVE PublishedOnce
  <2> SUFFICES ASSUME NEW i \in Ids PROVE published[i] <= 1 + excess[i]
    BY DEF PublishedOnce
  <2>1. /\ published[i] + Cardinality(Claimers(i)) <= excess[i] + Row(i)
        /\ published[i] \in Nat /\ excess[i] \in Nat /\ Row(i) \in {0, 1}
    BY <1>1 DEF ClaimsPaid, TypeOK, Row
  <2>2. Cardinality(Claimers(i)) \in Nat
    BY ClaimersFinite, WebhooksAssumption
  <2> QED BY <2>1, <2>2
<1> QED BY <1>1, BooksAreKept, PTL

-----------------------------------------------------------------------------
(* What a sender was told.  Where no claim on an id stayed behind a failure *)
(* or was given back too late, its row, and a "duplicate" that was told,    *)
(* mean that it was published or that its claimer is about to publish or to *)
(* forget it.                                                               *)

Accounted(i) == published[i] > 0 \/ \E d \in Claimers(i) : TRUE

AnswersInv(i) ==
    i \notin doubts =>
        /\ i \in recorded => Accounted(i)
        /\ \A d \in Deliveries : IdOf[d] = i =>
              /\ step[d] = "duplicate" => Accounted(i)
              /\ step[d] = "accepted" => published[i] > 0

\* What is recorded or published was asked for by a request that passed the
\* checks.
Asked(i) == \E d \in Deliveries : IdOf[d] = i /\ step[d] \notin Refused \cup {"unsent"}

AskedInv(i) == (i \in recorded \/ published[i] > 0) => Asked(i)

AnswersHold == \A i \in Ids : AnswersInv(i) /\ AskedInv(i)

\* A step that leaves an id, its requests and its row alone.
LEMMA AnswersFrame ==
    ASSUME WebhooksAssumption, NEW i \in Ids, AnswersInv(i), AskedInv(i),
           \A e \in Deliveries : IdOf[e] = i => step'[e] = step[e],
           i \in recorded' <=> i \in recorded,
           published'[i] = published[i],
           i \in doubts => i \in doubts'
    PROVE  AnswersInv(i)' /\ AskedInv(i)'
<1>1. Claimers(i)' = Claimers(i)
  BY DEF Claimers, Claims
<1>2. AnswersInv(i)'
  BY <1>1 DEF AnswersInv, Accounted
<1>3. AskedInv(i)'
  BY DEF AskedInv, Asked
<1> QED BY <1>2, <1>3

\* What an id is accounted for by stays, but for a claimer that forgets it.
LEMMA AccountStays ==
    ASSUME WebhooksAssumption, TypeOK, NEW d \in Deliveries, NEW i \in Ids, OnlyMoves(d),
           published'[i] \in Nat, published'[i] >= published[i],
           published'[i] > 0 \/ d \notin Claimers(i) \/ d \in Claimers(i)',
           Accounted(i)
    PROVE  Accounted(i)'
<1>1. published[i] \in Nat
  BY DEF TypeOK
<1>2. \A e \in Claimers(i) : e # d => e \in Claimers(i)'
  BY DEF Claimers, Claims, OnlyMoves
<1> QED BY <1>1, <1>2 DEF Accounted

\* A request keeps the answers to its id.
LEMMA HandleAnswers ==
    ASSUME WebhooksAssumption, TypeOK, NEW d \in Deliveries, NEW i \in Ids, i = IdOf[d],
           AnswersInv(i), Handle(d) \/ Abandon(d)
    PROVE  AnswersInv(i)' /\ AskedInv(i)'
<1> USE DEF WebhooksAssumption
<1>0. OnlyMoves(d)
  BY DEF OnlyMoves, Go, Handle, RecordNew, RecordAnyway, RecordSeen,
     RecordRaises, Publish, PublishRaises, Forget, ForgetRaises, Abandon, TypeOK
<1>1. AskedInv(i)'
  <2>1. step'[d] \notin Refused \cup {"unsent"}
    BY DEF Refused, Go, Handle, RecordNew, RecordAnyway, RecordSeen, RecordRaises,
       Publish, PublishRaises, Forget, ForgetRaises, Abandon, TypeOK
  <2> QED BY <2>1 DEF AskedInv, Asked
<1>2. CASE i \in doubts'
  BY <1>1, <1>2 DEF AnswersInv
<1>3. CASE i \notin doubts'
  <2>1. i \notin doubts
    BY <1>3 DEF Handle, RecordNew, RecordAnyway, RecordSeen, RecordRaises,
       Publish, PublishRaises, Forget, ForgetRaises, Abandon, Strand
  <2>2. /\ i \in recorded => Accounted(i)
        /\ \A e \in Deliveries : IdOf[e] = i =>
              /\ step[e] = "duplicate" => Accounted(i)
              /\ step[e] = "accepted" => published[i] > 0
    BY <2>1 DEF AnswersInv
  <2>3. published[i] \in Nat
    BY DEF TypeOK
  \* The answer of another request stands if the account of the id does.
  <2>4. ASSUME published'[i] \in Nat, published'[i] >= published[i],
               Accounted(i) => Accounted(i)', i \in recorded' => Accounted(i)',
               step'[d] = "duplicate" => Accounted(i)',
               step'[d] = "accepted" => published'[i] > 0
        PROVE  AnswersInv(i)'
    <3>1. ASSUME NEW e \in Deliveries, IdOf[e] = i
          PROVE  /\ step'[e] = "duplicate" => Accounted(i)'
                 /\ step'[e] = "accepted" => published'[i] > 0
      <4>1. CASE e = d
        BY <2>4, <4>1
      <4>2. CASE e # d
        <5>1. step'[e] = step[e]
          BY <1>0, <4>2 DEF OnlyMoves
        <5> QED BY <2>2, <2>3, <2>4, <3>1, <5>1
      <4> QED BY <4>1, <4>2
    <3> QED BY <2>4, <3>1 DEF AnswersInv
  <2>5. ASSUME RecordNew(d) PROVE AnswersInv(i)'
    <3>1. step'[d] = "publish" /\ published' = published
      BY <2>5 DEF RecordNew, RecordAnyway, Go, TypeOK
    <3>2. d \in Claimers(i)'
      BY <3>1 DEF Claimers, Claims
    <3>3. Accounted(i)'
      BY <3>2 DEF Accounted
    <3> QED BY <2>3, <2>4, <3>1, <3>3
  <2>6. ASSUME RecordSeen(d) \/ RecordRaises(d) PROVE AnswersInv(i)'
    <3>1. /\ step[d] = "record" /\ step'[d] \in {"duplicate", "error"}
          /\ published' = published /\ recorded' = recorded
          /\ step'[d] = "duplicate" => i \in recorded
      BY <1>3, <2>6 DEF RecordSeen, RecordRaises, Go, Strand, TypeOK
    <3>2. d \notin Claimers(i)
      BY <3>1 DEF Claimers, Claims
    <3>3. Accounted(i) => Accounted(i)'
      BY <1>0, <2>3, <3>1, <3>2, AccountStays
    <3> QED BY <2>2, <2>3, <2>4, <3>1, <3>3
  <2>7. ASSUME Publish(d) PROVE AnswersInv(i)'
    <3>1. published'[i] = published[i] + 1 /\ step'[d] = "accepted"
      BY <2>7 DEF Publish, More, Go, TypeOK
    <3>2. Accounted(i)'
      BY <2>3, <3>1 DEF Accounted
    <3> QED BY <2>3, <2>4, <3>1, <3>2
  <2>8. ASSUME PublishRaises(d) PROVE AnswersInv(i)'
    <3>1. step'[d] = "forget" /\ published'[i] \in {published[i], published[i] + 1}
      BY <2>8 DEF PublishRaises, Go, More, TypeOK
    <3>2. d \in Claimers(i)'
      BY <3>1 DEF Claimers, Claims
    <3>3. Accounted(i)'
      BY <3>2 DEF Accounted
    <3>4. published'[i] >= published[i] /\ published'[i] \in Nat
      BY <2>3, <3>1
    <3> QED BY <2>4, <3>1, <3>3, <3>4
  \* Nobody was told "duplicate" if forgetting leaves no doubt.
  <2>9. ASSUME Forget(d) PROVE AnswersInv(i)'
    <3>1. /\ step'[d] = "error" /\ published' = published /\ i \notin recorded'
          /\ \A e \in Deliveries : IdOf[e] = i => step[e] # "duplicate"
      BY <1>3, <2>9 DEF Forget, Go, Strand, TypeOK
    <3>2. ASSUME NEW e \in Deliveries, IdOf[e] = i
          PROVE  /\ step'[e] # "duplicate"
                 /\ step'[e] = "accepted" => published'[i] > 0
      <4>1. e # d => step'[e] = step[e]
        BY <1>0 DEF OnlyMoves
      <4> QED BY <2>2, <3>1, <3>2, <4>1
    <3> QED BY <3>1, <3>2 DEF AnswersInv
  <2>10. ~ ForgetRaises(d) /\ ~ Abandon(d)
    BY <1>3 DEF ForgetRaises, Abandon, Strand
  <2>11. AnswersInv(i)'
    BY <2>5, <2>6, <2>7, <2>8, <2>9, <2>10 DEF Handle
  <2> QED BY <1>1, <2>11
<1> QED BY <1>2, <1>3

\* Every step keeps the answers.
LEMMA AnswersStep ==
    ASSUME WebhooksAssumption, TypeOK, AnswersHold, [Next]_vars
    PROVE  AnswersHold'
<1> USE DEF WebhooksAssumption
<1> SUFFICES ASSUME NEW i \in Ids PROVE AnswersInv(i)' /\ AskedInv(i)'
  BY DEF AnswersHold
<1>0. AnswersInv(i) /\ AskedInv(i)
  BY DEF AnswersHold
<1>1. ASSUME NEW d \in Deliveries, NEW wrong \in Faults, Send(d, wrong)
      PROVE  AnswersInv(i)' /\ AskedInv(i)'
  <2>1. UNCHANGED <<recorded, published, doubts>> /\ OnlyMoves(d) /\ step[d] = "unsent"
    BY <1>1 DEF Send, Go, OnlyMoves, TypeOK
  <2>2. step'[d] \notin Acknowledged \cup {"publish", "forget"}
    <3>1. Answer(wrong) \notin Acknowledged \cup {"publish", "forget"}
      BY DEF Answer, Acknowledged
    <3> QED BY <1>1, <3>1 DEF Send, Go, TypeOK, Acknowledged
  <2>3. Claimers(i)' = Claimers(i)
    BY <2>1, <2>2 DEF Claimers, Claims, OnlyMoves
  <2>4. AnswersInv(i)'
    BY <1>0, <2>1, <2>2, <2>3 DEF AnswersInv, Accounted, OnlyMoves, Acknowledged
  <2>5. AskedInv(i)'
    BY <1>0, <2>1 DEF AskedInv, Asked, OnlyMoves
  <2> QED BY <2>4, <2>5
<1>2. ASSUME NEW d \in Deliveries, Handle(d) \/ Abandon(d)
      PROVE  AnswersInv(i)' /\ AskedInv(i)'
  <2>1. CASE IdOf[d] = i
    BY <1>0, <1>2, <2>1, HandleAnswers
  <2>2. CASE IdOf[d] # i
    <3>1. OnlyMoves(d) /\ doubts \subseteq doubts'
      BY <1>2 DEF OnlyMoves, Go, Handle, RecordNew, RecordAnyway, RecordSeen, RecordRaises,
         Publish, PublishRaises, Forget, ForgetRaises, Abandon, Strand, TypeOK
    <3>2. i \in recorded' <=> i \in recorded
      BY <1>2, <2>2 DEF Handle, RecordNew, RecordAnyway, RecordSeen, RecordRaises,
         Publish, PublishRaises, Forget, ForgetRaises, Abandon
    <3>3. published'[i] = published[i]
      BY <1>2, <2>2 DEF Handle, RecordNew, RecordAnyway, RecordSeen, RecordRaises,
         Publish, PublishRaises, Forget, ForgetRaises, Abandon, More, TypeOK
    <3> QED BY <1>0, <2>2, <3>1, <3>2, <3>3, AnswersFrame DEF OnlyMoves
  <2> QED BY <2>1, <2>2
<1>3. ASSUME NEW j \in Ids, Expire(j) PROVE AnswersInv(i)' /\ AskedInv(i)'
  <2>1. UNCHANGED <<published, step, doubts>> /\ recorded' \subseteq recorded
    BY <1>3 DEF Expire
  <2>2. Claimers(i)' = Claimers(i)
    BY <2>1 DEF Claimers, Claims
  <2>3. AnswersInv(i)'
    BY <1>0, <2>1, <2>2 DEF AnswersInv, Accounted
  <2>4. AskedInv(i)'
    BY <1>0, <2>1 DEF AskedInv, Asked
  <2> QED BY <2>3, <2>4
<1>4. CASE UNCHANGED vars
  BY <1>0, <1>4, AnswersFrame DEF vars
<1> QED BY <1>1, <1>2, <1>3, <1>4 DEF Next

\* Once the requests for an id are over, a 2xx answer of receive_webhook means
\* that the event was published, tries that overlap included, unless a failure
\* left a claim behind or gave one back after another try was told "duplicate";
\* and what fails a check claims and publishes nothing.
THEOREM AnswersAreKept == Spec => []AcknowledgedIsPublished
<1>1. Init => AnswersHold
  <2> SUFFICES ASSUME Init, NEW i \in Ids PROVE AnswersInv(i) /\ AskedInv(i)
    BY DEF AnswersHold
  <2> QED BY WebhooksAssumption DEF WebhooksAssumption, Init, AnswersInv, AskedInv
<1>2. TypeOK /\ AnswersHold /\ [Next]_vars => AnswersHold'
  BY AnswersStep, WebhooksAssumption
<1>3. ASSUME TypeOK, AnswersHold PROVE AcknowledgedIsPublished
  <2>1. ASSUME NEW d \in Deliveries, step[d] \in Acknowledged, Settled(IdOf[d]),
               IdOf[d] \notin doubts
        PROVE  published[IdOf[d]] > 0
    <3>1. IdOf[d] \in Ids
      BY WebhooksAssumption DEF WebhooksAssumption
    <3>2. AnswersInv(IdOf[d])
      BY <1>3, <3>1 DEF AnswersHold
    <3>3. \A e \in Deliveries : e \notin Claimers(IdOf[d])
      BY <2>1 DEF Settled, Claimers, Claims, Running
    <3>4. ~ \E e \in Claimers(IdOf[d]) : TRUE
      BY <3>3 DEF Claimers
    <3> QED BY <2>1, <3>2, <3>4 DEF AnswersInv, Accounted, Acknowledged
  <2>2. ASSUME NEW i \in Ids, i \in recorded \/ published[i] > 0
        PROVE  \E d \in Deliveries : IdOf[d] = i /\ step[d] \notin Refused \cup {"unsent"}
    BY <1>3, <2>2 DEF AnswersHold, AskedInv, Asked
  <2> QED BY <2>1, <2>2 DEF AcknowledgedIsPublished
<1> QED BY <1>1, <1>2, <1>3, BooksAreKept, PTL DEF Spec

=============================================================================
