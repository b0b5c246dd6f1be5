------------------------ MODULE ItemRequestsProofs ------------------------
(***************************************************************************)
(* Proofs about ItemRequests for any number of requests, names and calls,  *)
(* in both repositories: what a client is told is what happened, events    *)
(* follow the writes they tell of, and the counters tell the truth.        *)
(***************************************************************************)
EXTENDS ItemRequests, FiniteSetTheorems, SequenceTheorems, TLAPS

Results == {"ok", "conflict", "missing", "unavailable", "error"}

Shaped(q) ==
    q = [at |-> q.at, call |-> q.call, counted |-> q.counted, result |-> q.result,
         status |-> q.status, page |-> q.page, bus |-> q.bus, late |-> q.late,
         before |-> q.before]

AtMostOne(s) == \A n, k \in s : n = k

\* A page that has rows agrees with its total.
PageFits(c, page) == page[1] > 0 => page[1] = Min({c.limit, page[2] - c.offset})

\* What the service counted when it ended.
Publish(q) == IF q.result = "ok" /\ q.call.kind \in Writes THEN <<<<"event", q.bus>>>> ELSE <<>>
Tally(q) == <<>> \o Publish(q) \o <<<<Operation(q.call), Outcome(q.result)>>>>

\* Of a request q with the effects E and the events V: what is still to come
\* has not come yet, a publish that succeeded is in the log, and only a write
\* that took effect is told.
Open(q, E, V) ==
    /\ AtMostOne(E) /\ AtMostOne(V)
    /\ q.late \in {"no", "write", "event"}
    /\ q.late = "write" => E = {} /\ V = {} /\ q.bus # "ok" /\ q.call.kind \in Writes
    /\ q.late = "event" => E # {} /\ V = {} /\ q.bus # "ok"
    /\ q.bus = "ok" => V # {}
    /\ V # {} => E # {}
    /\ E # {} => q.call.kind \in Writes

\* On its way to the service, and in it.
Asking(q, E, V) ==
    /\ q.at \in {"routing", "calling", "counting", "emitting"}
    /\ q.result = "none" /\ q.counted = <<>> /\ q.bus = "unused" /\ q.late = "no" /\ V = {}
    /\ q.at # "routing" => Denial(q.call) = {}
    /\ q.at = "counting" => q.call.kind = "list"
    /\ q.at = "emitting" <=> E # {}

Denied(q, E, V) ==
    /\ q.at \in {"responding", "over"} /\ q.result = "none"
    /\ q.status \in Denial(q.call) /\ q.late = "no" /\ E = {} /\ V = {}
    /\ q.counted = IF q.at = "over" THEN <<<<"http", q.status>>>> ELSE <<>>

\* A call that ended has its status and is counted; only one that found no
\* database may have had an effect that its client does not know of.
Ended(q, E, V) ==
    /\ q.at \in {"responding", "over"} /\ q.result \in Results
    /\ Denial(q.call) = {} /\ q.status = Status(q.call, q.result)
    /\ q.counted = IF q.at = "over" THEN Append(Tally(q), <<"http", q.status>>) ELSE Tally(q)
    /\ (q.result = "ok" /\ q.call.kind \in Writes) =>
          E # {} /\ (q.bus = "error" \/ V # {})
    /\ (q.result = "ok" /\ q.call.kind = "list") => PageFits(q.call, q.page)
    /\ q.result \in {"conflict", "missing", "error"} => E = {} /\ q.late = "no"

Cancelled(q) == q.at = "over" /\ q.result = "cancelled"

Known(q, E, V) ==
    /\ Shaped(q) /\ Open(q, E, V)
    /\ Asking(q, E, V) \/ Denied(q, E, V) \/ Ended(q, E, V) \/ Cancelled(q)

ReqInv(r) ==
    req[r].at # "new" =>
        Call(r) \in Calls[r] /\ Known(req[r], Effects(r), Events(r))

\* The entry of request r with call c.
Entering(r, c) == [by |-> r, item |-> IF c.kind = "create" THEN r ELSE c.item,
                   name |-> IF c.kind = "delete" THEN Free ELSE c.name]

\* A book has the requests that were made, each with what it asked for.
TrueBook(book) ==
    \A n \in DOMAIN book : /\ book[n].by \in Requests /\ req[book[n].by].at # "new"
                           /\ book[n] = Entering(book[n].by, Call(book[n].by))

Over == {q \in Requests : req[q].at = "over"}

\* Those before a request are over.
BeforeIsOver == \A r \in Requests : req[r].at # "new" => req[r].before \subseteq Over

InOrder ==
    \A n, k \in DOMAIN log :
        (req[log[n].by].bus = "ok" /\ log[n].by \in req[log[k].by].before) => n < k

Flight == {r \in Requests : req[r].at \in InFlight}

ItemsInv ==
    /\ backend \in {"memory", "postgres"}
    /\ items \in [Requests -> Names \cup {Free}] /\ Unique(items)
    /\ DOMAIN req = Requests /\ \A r \in Requests : ReqInv(r)
    /\ active = Cardinality(Flight)
    /\ ledger \in Seq(Entries) /\ log \in Seq(Entries)
    /\ TrueBook(ledger) /\ TrueBook(log) /\ BeforeIsOver /\ InOrder

-----------------------------------------------------------------------------
(* Data *)

LEMMA MinOfTwo ==
    ASSUME NEW a \in Int, NEW b \in Int
    PROVE  Min({a, b}) = IF a <= b THEN a ELSE b
<1> DEFINE m == IF a <= b THEN a ELSE b
<1>1. m \in {a, b} /\ \A x \in {a, b} : m <= x
  OBVIOUS
<1>2. \A y \in {a, b} : (\A x \in {a, b} : y <= x) => y = m
  OBVIOUS
<1> QED BY <1>1, <1>2 DEF Min

LEMMA MaxOfTwo ==
    ASSUME NEW a \in Int, NEW b \in Int
    PROVE  Max({a, b}) = IF a >= b THEN a ELSE b
<1> DEFINE m == IF a >= b THEN a ELSE b
<1>1. m \in {a, b} /\ \A x \in {a, b} : m >= x
  OBVIOUS
<1>2. \A y \in {a, b} : (\A x \in {a, b} : y >= x) => y = m
  OBVIOUS
<1> QED BY <1>1, <1>2 DEF Max

By(book, r) == {n \in DOMAIN book : book[n].by = r}

LEMMA Entry ==
    ASSUME NEW S, NEW s \in Seq(S), NEW w \in S
    PROVE  /\ Append(s, w) \in Seq(S)
           /\ DOMAIN s = 1..Len(s) /\ DOMAIN Append(s, w) = DOMAIN s \cup {Len(s) + 1}
           /\ Append(s, w)[Len(s) + 1] = w /\ Len(s) + 1 \notin DOMAIN s
           /\ \A n \in DOMAIN s : Append(s, w)[n] = s[n] /\ n < Len(s) + 1 /\ n \in Int
  OBVIOUS

LEMMA EntryBy ==
    ASSUME NEW S, NEW s \in Seq(S), NEW w \in S, NEW r
    PROVE  By(Append(s, w), r) = IF w.by = r THEN By(s, r) \cup {Len(s) + 1} ELSE By(s, r)
  BY Entry DEF By

LEMMA OneIsOne ==
    ASSUME NEW s, AtMostOne(s)
    PROVE  Cardinality(s) <= 1 /\ (s # {} => Cardinality(s) = 1)
<1>1. CASE s = {}
  BY <1>1, FS_EmptySet
<1>2. CASE s # {}
  <2>1. PICK n \in s : TRUE  BY <1>2
  <2>2. s = {n}  BY <2>1 DEF AtMostOne
  <2> QED BY <2>2, FS_Singleton
<1> QED BY <1>1, <1>2

LEMMA Tallies ==
    ASSUME NEW e, NEW x, NEW y
    PROVE  /\ Append(<<>> \o <<>> \o <<x>>, y) = <<>> \o <<x, y>>
           /\ Append(<<>> \o <<e>> \o <<x>>, y) = <<e>> \o <<x, y>>
<1> DEFINE S == {e, x, y}
<1>1. <<>> \in Seq(S) /\ <<e>> \in Seq(S) /\ <<x>> \in Seq(S) /\ <<y>> \in Seq(S) /\ y \in S
  OBVIOUS
<1>0. <<x, y>> \in Seq(S) /\ Len(<<x, y>>) = 2 /\ <<x, y>>[1] = x /\ <<x, y>>[2] = y
      /\ Len(<<x>>) = 1 /\ <<x>>[1] = x
  OBVIOUS
<1> HIDE DEF S
<1>2. <<x>> \o <<y>> = <<x, y>>
  <2>1. <<x>> \o <<y>> = Append(<<x>>, y)
    BY <1>1, AppendIsConcat
  <2> DEFINE t == Append(<<x>>, y)
  <2>2. t \in Seq(S) /\ Len(t) = 2 /\ t[1] = x /\ t[2] = y
    BY <1>0, <1>1, AppendProperties
  <2> HIDE DEF t
  <2>3. t = <<x, y>>
    BY <1>0, <2>2, SeqEqual
  <2> QED BY <2>1, <2>3 DEF t
<1>3. <<>> \o <<>> = <<>> /\ <<>> \o <<x>> = <<x>> /\ <<>> \o <<e>> = <<e>>
  BY <1>1, ConcatEmptySeq
<1>4. Append(<<x>>, y) = <<x, y>> /\ <<>> \o <<x, y>> = <<x, y>>
  BY <1>0, <1>1, <1>2, AppendIsConcat, ConcatEmptySeq
<1>5. <<e>> \o <<x>> \in Seq(S)
  BY <1>1, ConcatProperties
<1>6. Append(<<e>> \o <<x>>, y) = (<<e>> \o <<x>>) \o <<y>>
  BY <1>1, <1>5, AppendIsConcat
<1>7. (<<e>> \o <<x>>) \o <<y>> = <<e>> \o (<<x>> \o <<y>>)
  BY <1>1, ConcatAssociative
<1> QED BY <1>2, <1>3, <1>4, <1>6, <1>7

LEMMA CallTypes ==
    ASSUME ItemsAssumption, NEW r \in Requests, NEW c \in Calls[r]
    PROVE  /\ c.kind \in Kinds /\ c.item \in Requests /\ c.name \in Names
           /\ c.limit \in Nat /\ c.offset \in Nat
  BY DEF ItemsAssumption

LEMMA EnteringType ==
    ASSUME ItemsAssumption, NEW r \in Requests, NEW c \in Calls[r]
    PROVE  Entering(r, c) \in Entries /\ Entering(r, c).by = r
  BY CallTypes DEF Entering, Entries

LEMMA WrittenIsEntering ==
    ASSUME NEW r
    PROVE  Written(r) = Entering(r, Call(r))
  BY DEF Written, Entering, Item, Call

-----------------------------------------------------------------------------
(* A step of one request *)

\* Request r becomes u and may add itself to the ledger and to the log.
Moved(r, u) ==
    /\ req' = [req EXCEPT ![r] = u]
    /\ u.at # "new" /\ u.call \in Calls[r] /\ u.before \subseteq Over
    /\ IF req[r].at = "new" THEN ledger' = ledger /\ log' = log
       ELSE u.call = req[r].call /\ u.before = req[r].before
    /\ req[r].at = "over" => u.at = "over"
    /\ u.bus = "ok" => req[r].at # "over" \/ (req[r].bus = "ok" /\ log' = log)
    /\ ledger' = ledger \/ ledger' = Append(ledger, Entering(r, u.call))
    /\ log' = log \/ log' = Append(log, Entering(r, u.call))
    /\ Known(u, By(ledger', r), By(log', r))

LEMMA MovedReq ==
    ASSUME ItemsInv, NEW r \in Requests, NEW u, Moved(r, u)
    PROVE  /\ req'[r] = u /\ DOMAIN req' = Requests
           /\ \A q \in Requests : q # r => req'[q] = req[q]
  BY DEF ItemsInv, Moved

LEMMA MovedBook ==
    ASSUME ItemsAssumption, ItemsInv, NEW r \in Requests, NEW u, Moved(r, u),
           NEW old \in Seq(Entries), NEW new, TrueBook(old),
           IF req[r].at = "new" THEN new = old
           ELSE new = old \/ new = Append(old, Entering(r, u.call))
    PROVE  /\ new \in Seq(Entries)
           /\ \A n \in DOMAIN new : /\ new[n].by \in Requests /\ req'[new[n].by].at # "new"
                                    /\ new[n] = Entering(new[n].by, req'[new[n].by].call)
           /\ \A q \in Requests : q # r => By(new, q) = By(old, q)
<1> DEFINE e == Entering(r, u.call)
<1>1. e \in Entries /\ e.by = r
  BY EnteringType DEF Moved
<1>2. u.at # "new" /\ (req[r].at # "new" => u.call = req[r].call)
  BY DEF Moved
<1>3. \A n \in DOMAIN old : /\ old[n].by \in Requests /\ req[old[n].by].at # "new"
                            /\ old[n] = Entering(old[n].by, req[old[n].by].call)
  BY DEF TrueBook, Call
<1>4. \A n \in DOMAIN old : /\ old[n].by \in Requests /\ req'[old[n].by].at # "new"
                            /\ old[n] = Entering(old[n].by, req'[old[n].by].call)
  <2> SUFFICES ASSUME NEW n \in DOMAIN old
               PROVE  /\ old[n].by \in Requests /\ req'[old[n].by].at # "new"
                      /\ old[n] = Entering(old[n].by, req'[old[n].by].call)
    OBVIOUS
  <2>1. CASE old[n].by = r
    BY <1>2, <1>3, <2>1, MovedReq
  <2>2. CASE old[n].by # r
    BY <1>3, <2>2, MovedReq
  <2> QED BY <2>1, <2>2
<1>5. CASE new = old
  BY <1>4, <1>5
<1>6. CASE new = Append(old, e)
  <2> HIDE DEF e
  <2>1. /\ Append(old, e) \in Seq(Entries)
        /\ DOMAIN Append(old, e) = DOMAIN old \cup {Len(old) + 1}
        /\ Append(old, e)[Len(old) + 1] = e
        /\ \A n \in DOMAIN old : Append(old, e)[n] = old[n]
    BY <1>1, Entry
  <2>2. req'[r] = u /\ e = Entering(r, u.call)
    BY MovedReq DEF e
  <2>3. \A q : q # r => By(Append(old, e), q) = By(old, q)
    BY <1>1, EntryBy
  <2> QED BY <1>1, <1>2, <1>4, <1>6, <2>1, <2>2, <2>3
<1> QED BY <1>5, <1>6

LEMMA MovedBooks ==
    ASSUME ItemsAssumption, ItemsInv, NEW r \in Requests, NEW u, Moved(r, u)
    PROVE  /\ ledger' \in Seq(Entries) /\ log' \in Seq(Entries)
           /\ TrueBook(ledger)' /\ TrueBook(log)'
           /\ \A q \in Requests : q # r => /\ By(ledger', q) = By(ledger, q)
                                           /\ By(log', q) = By(log, q)
<1> PICK led, lg : led = ledger' /\ lg = log'
  OBVIOUS
<1>1. ledger \in Seq(Entries) /\ log \in Seq(Entries) /\ TrueBook(ledger) /\ TrueBook(log)
  BY DEF ItemsInv
<1>2. /\ IF req[r].at = "new" THEN led = ledger
         ELSE led = ledger \/ led = Append(ledger, Entering(r, u.call))
      /\ IF req[r].at = "new" THEN lg = log
         ELSE lg = log \/ lg = Append(log, Entering(r, u.call))
  BY DEF Moved
<1>3. /\ led \in Seq(Entries)
      /\ \A n \in DOMAIN led : /\ led[n].by \in Requests /\ req'[led[n].by].at # "new"
                               /\ led[n] = Entering(led[n].by, req'[led[n].by].call)
      /\ \A q \in Requests : q # r => By(led, q) = By(ledger, q)
  BY <1>1, <1>2, MovedBook
<1>4. /\ lg \in Seq(Entries)
      /\ \A n \in DOMAIN lg : /\ lg[n].by \in Requests /\ req'[lg[n].by].at # "new"
                              /\ lg[n] = Entering(lg[n].by, req'[lg[n].by].call)
      /\ \A q \in Requests : q # r => By(lg, q) = By(log, q)
  BY <1>1, <1>2, MovedBook
<1> QED BY <1>3, <1>4 DEF TrueBook, Entering, Call

LEMMA MovedReqInv ==
    ASSUME ItemsAssumption, ItemsInv, NEW r \in Requests, NEW u, Moved(r, u)
    PROVE  \A q \in Requests : ReqInv(q)'
<1> SUFFICES ASSUME NEW q \in Requests
             PROVE  req'[q].at # "new" =>
                       /\ req'[q].call \in Calls[q]
                       /\ Known(req'[q], By(ledger', q), By(log', q))
  BY DEF ReqInv, Effects, Events, By, Call, Known, Shaped, Open, Asking, Denied, Ended, Cancelled
<1>1. CASE q = r
  BY <1>1, MovedReq DEF Moved
<1>2. CASE q # r
  <2>1. req'[q] = req[q] /\ By(ledger', q) = By(ledger, q) /\ By(log', q) = By(log, q)
    BY <1>2, MovedReq, MovedBooks
  <2>2. req[q].at # "new" =>
           req[q].call \in Calls[q] /\ Known(req[q], By(ledger, q), By(log, q))
    BY DEF ItemsInv, ReqInv, Effects, Events, By, Call
  <2> QED BY <2>1, <2>2
<1> QED BY <1>1, <1>2

LEMMA MovedBefore ==
    ASSUME ItemsAssumption, ItemsInv, NEW r \in Requests, NEW u, Moved(r, u)
    PROVE  BeforeIsOver'
<1>1. Over \subseteq Over'
  BY MovedReq DEF Over, Moved
<1>2. u.before \subseteq Over
  BY DEF Moved
<1>3. \A q \in Requests : req[q].at # "new" => req[q].before \subseteq Over
  BY DEF ItemsInv, BeforeIsOver
<1> SUFFICES ASSUME NEW q \in Requests, req'[q].at # "new"
             PROVE  req'[q].before \subseteq Over'
  BY DEF BeforeIsOver, Over
<1>4. CASE q = r
  BY <1>1, <1>2, <1>4, MovedReq
<1>5. CASE q # r
  BY <1>1, <1>3, <1>5, MovedReq
<1> QED BY <1>4, <1>5

LEMMA MovedOrder ==
    ASSUME ItemsAssumption, ItemsInv, NEW r \in Requests, NEW u, Moved(r, u)
    PROVE  InOrder'
<1> PICK lg : lg = log'
  OBVIOUS
<1> DEFINE e == Entering(r, u.call)
<1>0. log \in Seq(Entries) /\ TrueBook(log) /\ InOrder /\ BeforeIsOver
  BY DEF ItemsInv
<1>1. \A n \in DOMAIN log : log[n].by \in Requests /\ req[log[n].by].at # "new"
  BY <1>0 DEF TrueBook
<1>2. \A n \in DOMAIN lg : lg[n].by \in Requests /\ req'[lg[n].by].at # "new"
  BY MovedBooks DEF TrueBook
<1>3. lg = log \/ (lg = Append(log, e) /\ req[r].at # "new")
  BY DEF Moved
<1>4. e \in Entries /\ e.by = r
  BY EnteringType DEF Moved
<1> HIDE DEF e
<1>5. \A n \in DOMAIN lg : lg[n].by # r => n \in DOMAIN log /\ lg[n] = log[n]
  BY <1>0, <1>3, <1>4, Entry
<1>6. \A n \in DOMAIN lg : n \notin DOMAIN log =>
          lg = Append(log, e) /\ n = Len(log) + 1 /\ lg[n].by = r
  BY <1>0, <1>3, <1>4, Entry
<1>7. \A n \in DOMAIN lg : n \in DOMAIN log => lg[n] = log[n]
  BY <1>0, <1>3, <1>4, Entry
<1>8. \A n \in DOMAIN log : n \in Int /\ n < Len(log) + 1
  BY <1>0, Entry
<1> SUFFICES ASSUME NEW n \in DOMAIN lg, NEW k \in DOMAIN lg,
                    req'[lg[n].by].bus = "ok", lg[n].by \in req'[lg[k].by].before
             PROVE  n < k
  BY DEF InOrder
<1> DEFINE s == lg[k].by
<1>9. s \in Requests /\ req'[s].at # "new"
  BY <1>2
<1>10. lg[n].by \in Requests
  BY <1>2
<1>11. k \in DOMAIN log => req[s].at # "new" /\ req'[s].before = req[s].before
  BY <1>1, <1>7, <1>9, MovedReq DEF Moved
<1>12. req'[s].before \subseteq Over
  <2>1. s # r => req'[s] = req[s]
    BY <1>9, MovedReq
  <2>2. u.before \subseteq Over /\ req'[r] = u
    BY MovedReq DEF Moved
  <2>3. \A q \in Requests : req[q].at # "new" => req[q].before \subseteq Over
    BY <1>0 DEF BeforeIsOver
  <2> QED BY <1>9, <2>1, <2>2, <2>3
<1>13. req[lg[n].by].at = "over"
  BY <1>12 DEF Over
<1>14. CASE lg[n].by = r
  <2>1. u.bus = "ok" /\ req[r].at = "over"
    BY <1>13, <1>14, MovedReq
  <2>2. req[r].bus = "ok" /\ lg = log
    BY <2>1 DEF Moved
  <2> QED BY <1>0, <1>11, <1>14, <2>2 DEF InOrder
<1>15. CASE lg[n].by # r
  <2>1. n \in DOMAIN log /\ lg[n] = log[n] /\ req'[lg[n].by] = req[lg[n].by]
    BY <1>5, <1>10, <1>15, MovedReq
  <2>2. CASE k \in DOMAIN log
    <3>1. lg[k] = log[k]
      BY <1>7, <2>2
    <3> QED BY <1>0, <1>11, <2>1, <2>2, <3>1 DEF InOrder
  <2>3. CASE k \notin DOMAIN log
    BY <1>6, <1>8, <2>1, <2>3
  <2> QED BY <2>2, <2>3
<1> QED BY <1>14, <1>15

\* How the gauge follows.
LEMMA MovedFlight ==
    ASSUME ItemsAssumption, ItemsInv, NEW r \in Requests, NEW u, Moved(r, u),
           active' = active + (IF u.at \in InFlight THEN 1 ELSE 0)
                            - (IF req[r].at \in InFlight THEN 1 ELSE 0)
    PROVE  active' = Cardinality(Flight')
<1>1. Flight \subseteq Requests /\ IsFiniteSet(Flight) /\ active = Cardinality(Flight)
  <2>1. IsFiniteSet(Requests) /\ Flight \subseteq Requests
    BY DEF ItemsAssumption, Flight
  <2> QED BY <2>1, FS_Subset DEF ItemsInv
<1>2. Cardinality(Flight) \in Nat
  BY <1>1, FS_CardinalityType
<1>3. r \in Flight <=> req[r].at \in InFlight
  BY DEF Flight
<1>4. \A q \in Requests : q # r => req'[q] = req[q]
  BY MovedReq
<1>5. req'[r] = u
  BY MovedReq
<1>6. CASE u.at \in InFlight
  <2>1. Flight' = Flight \cup {r}
    BY <1>4, <1>5, <1>6 DEF Flight
  <2>2. Cardinality(Flight') = IF r \in Flight THEN Cardinality(Flight)
                               ELSE Cardinality(Flight) + 1
    BY <1>1, <2>1, FS_AddElement
  <2> QED BY <1>1, <1>2, <1>3, <1>6, <2>2
<1>7. CASE u.at \notin InFlight
  <2>1. Flight' = Flight \ {r}
    BY <1>4, <1>5, <1>7 DEF Flight
  <2>2. Cardinality(Flight') = IF r \in Flight THEN Cardinality(Flight) - 1
                               ELSE Cardinality(Flight)
    BY <1>1, <2>1, FS_RemoveElement
  <2> QED BY <1>1, <1>2, <1>3, <1>7, <2>2
<1> QED BY <1>6, <1>7

LEMMA MovedInv ==
    ASSUME ItemsAssumption, ItemsInv, NEW r \in Requests, NEW u, Moved(r, u),
           backend' = backend, items' \in [Requests -> Names \cup {Free}], Unique(items)',
           active' = active + (IF u.at \in InFlight THEN 1 ELSE 0)
                            - (IF req[r].at \in InFlight THEN 1 ELSE 0)
    PROVE  ItemsInv'
<1>1. active' = Cardinality(Flight)'
  BY MovedFlight DEF Flight
<1>2. BeforeIsOver' /\ InOrder' /\ \A q \in Requests : ReqInv(q)'
  BY MovedBefore, MovedOrder, MovedReqInv
<1>3. DOMAIN req' = Requests
  BY MovedReq
<1>4. ledger' \in Seq(Entries) /\ log' \in Seq(Entries) /\ TrueBook(ledger)' /\ TrueBook(log)'
  BY MovedBooks
<1>5. backend' \in {"memory", "postgres"}
  BY DEF ItemsInv
<1> QED BY <1>1, <1>2, <1>3, <1>4, <1>5 DEF ItemsInv

-----------------------------------------------------------------------------
(* The table *)

\* A table with unique names stays so when an item takes a name that no other
\* has, or gives its name up; and when it takes one that another has, it does
\* not.
LEMMA PutUnique ==
    ASSUME ItemsAssumption, items \in [Requests -> Names \cup {Free}], Unique(items),
           NEW i \in Requests, NEW n
    PROVE  /\ Unique(Put(i, Free))
           /\ n \in Names => (Unique(Put(i, n)) <=> ~ NameTaken(n, Requests \ {i}))
           /\ items[i] = Free /\ n \in Names =>
                 (NameTaken(n, Requests) <=> NameTaken(n, Requests \ {i}))
<1>1. Put(i, n)[i] = n /\ Put(i, Free)[i] = Free
  BY DEF Put
<1>2. \A j \in Requests : j # i => Put(i, n)[j] = items[j] /\ Put(i, Free)[j] = items[j]
  BY DEF Put
<1>3. \A j, k \in Requests : items[j] = items[k] => j = k \/ items[j] = Free
  BY DEF Unique
<1>4. Unique(Put(i, Free))
  BY <1>1, <1>2, <1>3 DEF Unique
<1>5. ASSUME n \in Names
      PROVE  Unique(Put(i, n)) <=> ~ NameTaken(n, Requests \ {i})
  <2>1. n # Free
    BY <1>5 DEF ItemsAssumption
  <2>2. ASSUME ~ NameTaken(n, Requests \ {i})
        PROVE  Unique(Put(i, n))
    BY <1>1, <1>2, <1>3, <2>2 DEF Unique, NameTaken
  <2>3. ASSUME Unique(Put(i, n))
        PROVE  ~ NameTaken(n, Requests \ {i})
    <3> SUFFICES ASSUME NEW j \in Requests \ {i}, items[j] = n
                 PROVE  FALSE
      BY DEF NameTaken
    <3>1. Put(i, n)[j] = Put(i, n)[i]
      BY <1>1, <1>2
    <3> QED BY <1>1, <2>1, <2>3, <3>1 DEF Unique
  <2> QED BY <2>2, <2>3
<1>6. items[i] = Free /\ n \in Names =>
         (NameTaken(n, Requests) <=> NameTaken(n, Requests \ {i}))
  BY DEF NameTaken, ItemsAssumption
<1> QED BY <1>4, <1>5, <1>6

\* The repositories answer alike.
LEMMA Alike ==
    ASSUME ItemsAssumption, items \in [Requests -> Names \cup {Free}], Unique(items),
           NEW kind \in Writes, NEW i \in Requests, NEW n \in Names
    PROVE  \/ MemoryWrite(kind, i, n) = PostgresWrite(kind, i, n)
           \/ kind = "create" /\ items[i] # Free
<1>1. /\ Unique(Put(i, n)) <=> ~ NameTaken(n, Requests \ {i})
      /\ items[i] = Free => (NameTaken(n, Requests) <=> NameTaken(n, Requests \ {i}))
  BY PutUnique
<1> QED BY <1>1 DEF MemoryWrite, PostgresWrite, Writes

LEMMA WriteUnique ==
    ASSUME ItemsAssumption, items \in [Requests -> Names \cup {Free}], Unique(items),
           NEW kind \in Writes, NEW i \in Requests, NEW n \in Names,
           Answer(kind, i, n) = "ok", backend \in {"memory", "postgres"}
    PROVE  Unique(Put(i, IF kind = "delete" THEN Free ELSE n))
<1>1. /\ Unique(Put(i, Free))
      /\ Unique(Put(i, n)) <=> ~ NameTaken(n, Requests \ {i})
  BY PutUnique
<1>2. NameTaken(n, Requests \ {i}) => NameTaken(n, Requests)
  BY DEF NameTaken
<1>3. CASE kind = "delete"
  BY <1>1, <1>3
<1>4. CASE kind = "create"
  BY <1>1, <1>2, <1>4 DEF Answer, MemoryWrite, PostgresWrite, Writes
<1>5. CASE kind = "update"
  BY <1>1, <1>5 DEF Answer, MemoryWrite, PostgresWrite, Writes
<1> QED BY <1>3, <1>4, <1>5 DEF Writes

LEMMA Takes ==
    ASSUME ItemsAssumption, ItemsInv, NEW r \in Requests, Call(r) \in Calls[r],
           NEW answer, Take(r, answer),
           answer = Answer(Call(r).kind, Item(r), Call(r).name)
    PROVE  /\ items' \in [Requests -> Names \cup {Free}] /\ Unique(items)'
           /\ IF answer = "ok" /\ Call(r).kind \in Writes
              THEN ledger' = Append(ledger, Entering(r, Call(r)))
              ELSE ledger' = ledger
<1>1. items \in [Requests -> Names \cup {Free}] /\ Unique(items)
      /\ backend \in {"memory", "postgres"}
  BY DEF ItemsInv
<1>2. Item(r) \in Requests /\ Call(r).name \in Names
  BY CallTypes DEF Item
<1>3. CASE answer = "ok" /\ Call(r).kind \in Writes
  <2> PICK n : n = IF Call(r).kind = "delete" THEN Free ELSE Call(r).name
    OBVIOUS
  <2>1. Unique(Put(Item(r), n))
    BY <1>1, <1>2, <1>3, WriteUnique
  <2>2. items' = Put(Item(r), n) /\ ledger' = Append(ledger, Entering(r, Call(r)))
    BY <1>3, WrittenIsEntering DEF Take, Written
  <2>3. Put(Item(r), n) \in [Requests -> Names \cup {Free}]
    BY <1>1, <1>2 DEF Put
  <2> QED BY <1>3, <2>1, <2>2, <2>3 DEF Unique
<1>4. CASE ~ (answer = "ok" /\ Call(r).kind \in Writes)
  BY <1>1, <1>4 DEF Take, Unique
<1> QED BY <1>3, <1>4

-----------------------------------------------------------------------------
(* The steps *)

LEMMA Standing ==
    ASSUME ItemsInv, NEW r \in Requests, req[r].at # "new"
    PROVE  /\ req[r].call = Call(r) /\ Call(r) \in Calls[r]
           /\ Known(req[r], By(ledger, r), By(log, r))
           /\ req[r].before \subseteq Over
  BY DEF ItemsInv, ReqInv, Effects, Events, By, Call, BeforeIsOver

\* A step that writes in no book.
LEMMA Stays ==
    ASSUME ItemsAssumption, ItemsInv, NEW r \in Requests, NEW u, Set(r, u),
           UNCHANGED <<backend, items, ledger, log>>,
           req[r].at # "new", req[r].at = "over" => u.at = "over",
           u.at # "new", u.call = req[r].call, u.before = req[r].before,
           u.bus = "ok" => req[r].at # "over" \/ req[r].bus = "ok",
           Known(u, By(ledger, r), By(log, r)),
           active' = active + (IF u.at \in InFlight THEN 1 ELSE 0)
                            - (IF req[r].at \in InFlight THEN 1 ELSE 0)
    PROVE  ItemsInv'
<1>1. Moved(r, u)
  BY Standing DEF Moved, Set
<1>2. items' \in [Requests -> Names \cup {Free}] /\ Unique(items)'
  BY DEF ItemsInv, Unique
<1> QED BY <1>1, <1>2, MovedInv

LEMMA GaugeType ==
    ASSUME ItemsAssumption, ItemsInv
    PROVE  active \in Int
<1>1. IsFiniteSet(Requests) /\ Flight \subseteq Requests
  BY DEF ItemsAssumption, Flight
<1>2. Cardinality(Flight) \in Nat
  BY <1>1, FS_Subset, FS_CardinalityType
<1> QED BY <1>2 DEF ItemsInv

LEMMA SameGauge ==
    ASSUME ItemsAssumption, ItemsInv, NEW r, NEW u, UNCHANGED active,
           u.at \in InFlight <=> req[r].at \in InFlight
    PROVE  active' = active + (IF u.at \in InFlight THEN 1 ELSE 0)
                            - (IF req[r].at \in InFlight THEN 1 ELSE 0)
  BY GaugeType

\* A step of a request that stays in flight, writes in no book and tells
\* nothing.
LEMMA StaysInFlight ==
    ASSUME ItemsAssumption, ItemsInv, NEW r \in Requests, NEW u, Set(r, u),
           UNCHANGED <<backend, items, active, ledger, log>>,
           req[r].at \in InFlight, u.at \in InFlight,
           u.call = req[r].call, u.before = req[r].before, u.bus = "unused",
           Known(u, By(ledger, r), By(log, r))
    PROVE  ItemsInv'
<1>1. active' = active + (IF u.at \in InFlight THEN 1 ELSE 0)
                       - (IF req[r].at \in InFlight THEN 1 ELSE 0)
  BY SameGauge
<1>2. req[r].at # "new" /\ req[r].at # "over" /\ u.at # "new" /\ u.bus # "ok"
  BY DEF InFlight, InService
<1> QED BY <1>1, <1>2, Stays

LEMMA RouteKeeps ==
    ASSUME ItemsAssumption, ItemsInv, NEW r \in Requests, Route(r)
    PROVE  ItemsInv'
<1> PICK q, E, V : q = req[r] /\ E = By(ledger, r) /\ V = By(log, r)
  OBVIOUS
<1>1. q.at = "routing" /\ q.call = Call(r) /\ Known(q, E, V)
  BY Standing DEF Route
<1>2. Asking(q, E, V) /\ E = {}
  BY <1>1 DEF Known, Asking, Denied, Ended, Cancelled
<1>3. Shaped(q) /\ Open(q, E, V)
  BY <1>1 DEF Known
<1>4. CASE Denial(Call(r)) = {}
  <2> PICK u : u = [q EXCEPT !.at = "calling"]
    OBVIOUS
  <2>1. Set(r, u) /\ UNCHANGED <<backend, items, active, ledger, log>>
    BY <1>4 DEF Route
  <2>2. /\ Shaped(u) /\ u.at = "calling"
        /\ u.call = q.call /\ u.counted = q.counted /\ u.result = q.result /\ u.bus = q.bus
        /\ u.late = q.late /\ u.before = q.before /\ u.status = q.status /\ u.page = q.page
    BY <1>3 DEF Shaped
  <2>3. Known(u, E, V)
    BY <1>1, <1>2, <1>3, <1>4, <2>2 DEF Known, Open, Asking
  <2>4. q.at \in InFlight /\ u.at \in InFlight /\ u.bus = "unused"
    BY <1>1, <1>2, <2>2 DEF InFlight, InService, Asking
  <2> QED BY <2>1, <2>2, <2>3, <2>4, StaysInFlight
<1>5. CASE Denial(Call(r)) # {}
  <2>1. PICK s \in Denial(Call(r)) : Set(r, [q EXCEPT !.at = "responding", !.status = s])
    BY <1>5 DEF Route
  <2> PICK u : u = [q EXCEPT !.at = "responding", !.status = s]
    OBVIOUS
  <2>2. Set(r, u) /\ UNCHANGED <<backend, items, active, ledger, log>>
    BY <2>1 DEF Route
  <2>3. /\ Shaped(u) /\ u.at = "responding" /\ u.status = s
        /\ u.call = q.call /\ u.counted = q.counted /\ u.result = q.result /\ u.bus = q.bus
        /\ u.late = q.late /\ u.before = q.before
    BY <1>3 DEF Shaped
  <2>4. Known(u, E, V)
    BY <1>1, <1>2, <1>3, <2>1, <2>3 DEF Known, Open, Asking, Denied
  <2>5. q.at \in InFlight /\ u.at \in InFlight /\ u.bus = "unused"
    BY <1>1, <1>2, <2>3 DEF InFlight, Asking
  <2> QED BY <2>2, <2>3, <2>4, <2>5, StaysInFlight
<1> QED BY <1>4, <1>5

\* What the request has counted when its service call ends.
Counts(q, publish, result) == q.counted \o publish \o <<<<Operation(q.call), Outcome(result)>>>>

LEMMA ReturnedIs ==
    ASSUME NEW r, Shaped(req[r]), NEW result, NEW publish, NEW u, u = Returned(r, result, publish)
    PROVE  /\ Shaped(u) /\ u.at = "responding" /\ u.result = result
           /\ u.status = Status(Call(r), result) /\ u.call = Call(r)
           /\ u.counted = Counts(req[r], publish, result)
           /\ u.page = req[r].page /\ u.bus = req[r].bus /\ u.late = req[r].late
           /\ u.before = req[r].before
<1> PICK q, t, x : /\ q = req[r] /\ t = Status(Call(r), result)
                   /\ x = Counts(q, publish, result)
  OBVIOUS
<1>1. u = [q EXCEPT !.at = "responding", !.result = result, !.status = t, !.counted = x]
  BY DEF Returned, Counts, Call
<1> QED BY <1>1 DEF Shaped, Call

\* A call that made no write returns.
LEMMA ReturnKnown ==
    ASSUME NEW q, NEW u, NEW E, NEW V, Asking(q, E, V), Open(q, E, V), Shaped(u),
           NEW result \in Results, Denial(q.call) = {}, E = {},
           u.at = "responding", u.result = result, u.status = Status(q.call, result),
           u.call = q.call, u.bus = q.bus, u.counted = Counts(q, <<>>, result),
           \/ u.late = q.late
           \/ u.late = "write" /\ q.call.kind \in Writes /\ result = "unavailable",
           ~ (result = "ok" /\ q.call.kind \in Writes),
           (result = "ok" /\ q.call.kind = "list") => PageFits(q.call, u.page)
    PROVE  Known(u, E, V)
<1>1. u.counted = Tally(u)
  BY DEF Tally, Publish, Asking, Counts
<1>2. Open(u, E, V)
  BY DEF Open, Asking
<1>3. Ended(u, E, V)
  BY <1>1 DEF Ended, Asking
<1> QED BY <1>2, <1>3 DEF Known

\* A request is in its statement, and nothing of it took effect.
LEMMA InStatement ==
    ASSUME ItemsInv, NEW r \in Requests, req[r].at \in {"calling", "counting"}
    PROVE  LET q == req[r] E == By(ledger, r) V == By(log, r) IN
           /\ q.call = Call(r) /\ Call(r) \in Calls[r] /\ Shaped(q)
           /\ Asking(q, E, V) /\ Open(q, E, V) /\ E = {} /\ V = {}
           /\ Denial(Call(r)) = {} /\ q.late = "no" /\ q.bus = "unused"
           /\ q.at = "counting" => Call(r).kind = "list"
<1> PICK q, E, V : q = req[r] /\ E = By(ledger, r) /\ V = By(log, r)
  OBVIOUS
<1>1. q.at \in {"calling", "counting"} /\ q.call = Call(r) /\ Call(r) \in Calls[r]
      /\ Known(q, E, V)
  BY Standing
<1>2. Asking(q, E, V)
  BY <1>1 DEF Known, Denied, Ended, Cancelled
<1> QED BY <1>1, <1>2 DEF Known, Asking

LEMMA Returning ==
    ASSUME ItemsAssumption, ItemsInv, NEW r \in Requests, req[r].at \in {"calling", "counting"},
           UNCHANGED <<backend, items, active, ledger, log>>,
           NEW u, Set(r, u), Shaped(u), NEW result \in Results,
           u.at = "responding", u.result = result, u.status = Status(Call(r), result),
           u.call = Call(r), u.bus = req[r].bus, u.before = req[r].before,
           u.counted = Counts(req[r], <<>>, result),
           \/ u.late = req[r].late
           \/ u.late = "write" /\ Call(r).kind \in Writes /\ result = "unavailable",
           ~ (result = "ok" /\ Call(r).kind \in Writes),
           (result = "ok" /\ Call(r).kind = "list") => PageFits(Call(r), u.page)
    PROVE  ItemsInv'
<1> PICK q, E, V : q = req[r] /\ E = By(ledger, r) /\ V = By(log, r)
  OBVIOUS
<1>1. /\ q.call = Call(r) /\ Asking(q, E, V) /\ Open(q, E, V) /\ E = {}
      /\ Denial(q.call) = {} /\ q.bus = "unused"
  BY InStatement
<1>2. Known(u, E, V)
  BY <1>1, ReturnKnown
<1>3. active' = active + (IF u.at \in InFlight THEN 1 ELSE 0)
                       - (IF req[r].at \in InFlight THEN 1 ELSE 0)
  BY SameGauge DEF InFlight, InService
<1>4. /\ req[r].at # "new" /\ req[r].at # "over" /\ u.at # "new"
      /\ u.call = req[r].call /\ u.before = req[r].before /\ u.bus # "ok"
  BY <1>1
<1> QED BY <1>2, <1>3, <1>4, Stays

LEMMA AnswerResult ==
    ASSUME NEW kind, NEW i, NEW n, backend \in {"memory", "postgres"}
    PROVE  Answer(kind, i, n) \in {"ok", "conflict", "missing"}
  BY DEF Answer, MemoryWrite, PostgresWrite

LEMMA RowsFit ==
    ASSUME ItemsAssumption, NEW r \in Requests, NEW c \in Calls[r]
    PROVE  Rows(c) > 0 => Rows(c) = Min({c.limit, Total - c.offset})
<1>1. Total \in Nat
  <2>1. IsFiniteSet({i \in Requests : items[i] # Free})
    BY FS_Subset DEF ItemsAssumption
  <2> QED BY <2>1, FS_CardinalityType DEF Total
<1>2. c.limit \in Int /\ Total - c.offset \in Int
  BY <1>1, CallTypes
<1> PICK x : x = Min({c.limit, Total - c.offset})
  OBVIOUS
<1>3. x \in Int /\ 0 \in Int
  BY <1>2, MinOfTwo
<1>4. Max({0, x}) = IF 0 >= x THEN 0 ELSE x
  BY <1>3, MaxOfTwo
<1> QED BY <1>3, <1>4 DEF Rows

LEMMA StatementKeeps ==
    ASSUME ItemsAssumption, ItemsInv, NEW r \in Requests, Statement(r)
    PROVE  ItemsInv'
<1> PICK q, E, V, c, answer :
        /\ q = req[r] /\ E = By(ledger, r) /\ V = By(log, r)
        /\ c = Call(r) /\ answer = Answer(Call(r).kind, Item(r), Call(r).name)
  OBVIOUS
<1>1. q.at = "calling" /\ q.call = c /\ c \in Calls[r]
  BY InStatement DEF Statement
<1>2. Asking(q, E, V) /\ E = {} /\ Denial(c) = {} /\ V = {}
  BY InStatement DEF Statement
<1>3. Shaped(q) /\ Open(q, E, V)
  BY InStatement DEF Statement
<1>4. /\ items' \in [Requests -> Names \cup {Free}] /\ Unique(items)'
      /\ IF answer = "ok" /\ c.kind \in Writes
         THEN ledger' = Append(ledger, Entering(r, c)) ELSE ledger' = ledger
  BY <1>1, Takes DEF Statement
<1>5. answer \in {"ok", "conflict", "missing"}
  BY AnswerResult DEF ItemsInv
<1>6. UNCHANGED <<backend, active, log>>
  BY DEF Statement
<1>7. CASE answer = "ok" /\ c.kind \in Writes
  <2> PICK u, n : u = [q EXCEPT !.at = "emitting"] /\ n = Len(ledger) + 1
    OBVIOUS
  <2>1. Set(r, u) /\ ledger' = Append(ledger, Entering(r, c))
    BY <1>4, <1>7 DEF Statement
  <2>2. /\ Shaped(u) /\ u.at = "emitting"
        /\ u.call = q.call /\ u.counted = q.counted /\ u.result = q.result /\ u.bus = q.bus
        /\ u.late = q.late /\ u.before = q.before /\ u.status = q.status /\ u.page = q.page
    BY <1>3 DEF Shaped
  <2>3. By(ledger', r) = {n}
    <3>1. ledger \in Seq(Entries) /\ Entering(r, c) \in Entries /\ Entering(r, c).by = r
      BY <1>1, EnteringType DEF ItemsInv
    <3>2. By(Append(ledger, Entering(r, c)), r) = By(ledger, r) \cup {Len(ledger) + 1}
      BY <3>1, EntryBy
    <3>3. By(ledger', r) = E \cup {n}
      BY <2>1, <3>2
    <3> QED BY <1>2, <3>3
  <2>4. Known(u, {n}, V)
    BY <1>1, <1>2, <1>3, <1>7, <2>2 DEF Known, Open, Asking, AtMostOne
  <2>5. Moved(r, u)
    <3>1. req[r].at # "new" /\ req[r].at # "over" /\ u.at # "new" /\ u.bus # "ok"
      BY <1>1, <1>2, <2>2 DEF Asking
    <3>2. u.call = c /\ u.call = req[r].call /\ u.before = req[r].before
          /\ req[r].before \subseteq Over
      BY <1>1, <2>2, <3>1, Standing
    <3>3. Known(u, By(ledger', r), By(log', r))
      BY <1>6, <2>3, <2>4
    <3>4. req' = [req EXCEPT ![r] = u]
      BY <2>1 DEF Set
    <3> QED BY <1>1, <1>6, <2>1, <3>1, <3>2, <3>3, <3>4 DEF Moved
  <2>6. active' = active + (IF u.at \in InFlight THEN 1 ELSE 0)
                         - (IF req[r].at \in InFlight THEN 1 ELSE 0)
    <3>1. q.at \in InFlight /\ u.at \in InFlight
      BY <1>1, <2>2 DEF InFlight, InService
    <3> QED BY <1>6, <3>1, SameGauge
  <2> QED BY <1>4, <1>6, <2>5, <2>6, MovedInv
<1>8. CASE ~ (answer = "ok" /\ c.kind \in Writes)
  <2>1. UNCHANGED <<backend, items, active, ledger, log>>
    BY <1>6, <1>8 DEF Statement, Take
  <2>2. CASE Recount(c)
    <3> PICK u : u = [q EXCEPT !.at = "counting"]
      OBVIOUS
    <3>1. Set(r, u) /\ c.kind = "list"
      BY <1>8, <2>2 DEF Statement, Recount
    <3>2. /\ Shaped(u) /\ u.at = "counting"
          /\ u.call = q.call /\ u.counted = q.counted /\ u.result = q.result /\ u.bus = q.bus
          /\ u.late = q.late /\ u.before = q.before /\ u.status = q.status /\ u.page = q.page
      BY <1>3 DEF Shaped
    <3>3. Known(u, E, V)
      BY <1>1, <1>2, <1>3, <3>1, <3>2 DEF Known, Open, Asking
    <3>4. /\ u.bus # "ok" /\ u.call = req[r].call /\ u.before = req[r].before
          /\ req[r].at # "new" /\ req[r].at # "over" /\ u.at # "new"
      BY <1>1, <1>2, <3>2 DEF Asking
    <3>5. active' = active + (IF u.at \in InFlight THEN 1 ELSE 0)
                           - (IF req[r].at \in InFlight THEN 1 ELSE 0)
      BY <1>1, <2>1, <3>2, SameGauge DEF InFlight, InService
    <3> QED BY <2>1, <3>1, <3>3, <3>4, <3>5, Stays
  <2>3. CASE ~ Recount(c) /\ c.kind = "list"
    <3> PICK p : p = <<Rows(c), Total>>
      OBVIOUS
    <3>1. PICK w, u : w = Returned(r, answer, <<>>) /\ u = [w EXCEPT !.page = p]
      OBVIOUS
    <3>2. Set(r, u)
      BY <1>8, <2>3, <3>1 DEF Statement, Paged
    <3>3. /\ Shaped(w) /\ w.at = "responding" /\ w.result = answer
          /\ w.status = Status(c, answer) /\ w.call = c
          /\ w.counted = Counts(q, <<>>, answer)
          /\ w.bus = q.bus /\ w.late = q.late /\ w.before = q.before
      BY <1>3, <3>1, ReturnedIs
    <3>4. /\ Shaped(u) /\ u.at = "responding" /\ u.result = answer
          /\ u.status = Status(c, answer) /\ u.call = c
          /\ u.counted = Counts(q, <<>>, answer)
          /\ u.bus = q.bus /\ u.late = q.late /\ u.before = q.before
      BY <3>1, <3>3 DEF Shaped
    <3>5. PageFits(c, u.page)
      <4>1. u.page = <<Rows(c), Total>>
        BY <3>1, <3>3 DEF Shaped
      <4> QED BY <1>1, <4>1, RowsFit DEF PageFits
    <3> QED BY <1>1, <1>5, <1>8, <2>1, <3>2, <3>4, <3>5, Returning DEF Results
  <2>4. CASE ~ Recount(c) /\ c.kind # "list"
    <3>1. PICK u : u = Returned(r, answer, <<>>)
      OBVIOUS
    <3>2. Set(r, u)
      BY <1>8, <2>4, <3>1 DEF Statement, Return
    <3>3. /\ Shaped(u) /\ u.at = "responding" /\ u.result = answer
          /\ u.status = Status(c, answer) /\ u.call = c
          /\ u.counted = Counts(q, <<>>, answer)
          /\ u.bus = q.bus /\ u.late = q.late /\ u.before = q.before
      BY <1>3, <3>1, ReturnedIs
    <3> QED BY <1>1, <1>5, <1>8, <2>1, <2>4, <3>2, <3>3, Returning DEF Results
  <2> QED BY <2>2, <2>3, <2>4
<1> QED BY <1>7, <1>8

LEMMA CountKeeps ==
    ASSUME ItemsAssumption, ItemsInv, NEW r \in Requests, Count(r)
    PROVE  ItemsInv'
<1>1. req[r].at = "counting" /\ UNCHANGED <<backend, items, active, ledger, log>>
  BY DEF Count
<1>2. PICK p, w, u : /\ p = <<0, Total>> /\ w = Returned(r, "ok", <<>>)
                     /\ u = [w EXCEPT !.page = p]
  OBVIOUS
<1>3. Set(r, u)
  BY <1>2 DEF Count, Paged
<1>4. Shaped(req[r]) /\ Call(r).kind = "list"
  BY <1>1, InStatement
<1>5. /\ Shaped(w) /\ w.at = "responding" /\ w.result = "ok"
      /\ w.status = Status(Call(r), "ok") /\ w.call = Call(r)
      /\ w.counted = Counts(req[r], <<>>, "ok")
      /\ w.bus = req[r].bus /\ w.late = req[r].late /\ w.before = req[r].before
  BY <1>2, <1>4, ReturnedIs
<1>6. /\ Shaped(u) /\ u.at = "responding" /\ u.result = "ok"
      /\ u.status = Status(Call(r), "ok") /\ u.call = Call(r)
      /\ u.counted = Counts(req[r], <<>>, "ok")
      /\ u.bus = req[r].bus /\ u.late = req[r].late /\ u.before = req[r].before
  BY <1>2, <1>5 DEF Shaped
<1>7. PageFits(Call(r), u.page)
  <2>1. u.page = <<0, Total>>
    BY <1>2, <1>5 DEF Shaped
  <2> QED BY <2>1 DEF PageFits
<1> QED BY <1>1, <1>3, <1>4, <1>6, <1>7, Returning DEF Results, Writes

LEMMA RaisesKeeps ==
    ASSUME ItemsAssumption, ItemsInv, NEW r \in Requests, Raises(r)
    PROVE  ItemsInv'
<1>1. /\ req[r].at \in {"calling", "counting"}
      /\ UNCHANGED <<backend, items, active, ledger, log>>
  BY DEF Raises
<1>2. Shaped(req[r])
  BY <1>1, InStatement
<1>3. ASSUME NEW result \in {"unavailable", "error"}, Return(r, result)
      PROVE  ItemsInv'
  <2>1. PICK u : u = Returned(r, result, <<>>)
    OBVIOUS
  <2>2. Set(r, u)
    BY <1>3, <2>1 DEF Return
  <2>3. /\ Shaped(u) /\ u.at = "responding" /\ u.result = result
        /\ u.status = Status(Call(r), result) /\ u.call = Call(r)
        /\ u.counted = Counts(req[r], <<>>, result)
        /\ u.bus = req[r].bus /\ u.late = req[r].late /\ u.before = req[r].before
    BY <1>2, <2>1, ReturnedIs
  <2> QED BY <1>1, <2>2, <2>3, Returning DEF Results
<1>4. ASSUME Call(r).kind \in Writes,
             Set(r, [Returned(r, "unavailable", <<>>) EXCEPT !.late = "write"])
      PROVE  ItemsInv'
  <2>1. PICK w, u : w = Returned(r, "unavailable", <<>>) /\ u = [w EXCEPT !.late = "write"]
    OBVIOUS
  <2>2. Set(r, u)
    BY <1>4, <2>1
  <2>3. /\ Shaped(w) /\ w.at = "responding" /\ w.result = "unavailable"
        /\ w.status = Status(Call(r), "unavailable") /\ w.call = Call(r)
        /\ w.counted = Counts(req[r], <<>>, "unavailable")
        /\ w.bus = req[r].bus /\ w.before = req[r].before
    BY <1>2, <2>1, ReturnedIs
  <2>4. /\ Shaped(u) /\ u.at = "responding" /\ u.result = "unavailable"
        /\ u.status = Status(Call(r), "unavailable") /\ u.call = Call(r)
        /\ u.counted = Counts(req[r], <<>>, "unavailable")
        /\ u.bus = req[r].bus /\ u.late = "write" /\ u.before = req[r].before
    BY <2>1, <2>3 DEF Shaped
  <2> QED BY <1>1, <1>4, <2>2, <2>4, Returning DEF Results
<1> QED BY <1>3, <1>4 DEF Raises

LEMMA RespondKeeps ==
    ASSUME ItemsAssumption, ItemsInv, NEW r \in Requests, Respond(r)
    PROVE  ItemsInv'
<1> PICK q, E, V, x :
        /\ q = req[r] /\ E = By(ledger, r) /\ V = By(log, r)
        /\ x = Append(q.counted, <<"http", q.status>>)
  OBVIOUS
<1>1. q.at = "responding" /\ q.call = Call(r) /\ Known(q, E, V)
  BY Standing DEF Respond
<1>2. PICK u : u = [q EXCEPT !.at = "over", !.counted = x]
  OBVIOUS
<1>3. Set(r, u) /\ UNCHANGED <<backend, items, ledger, log>> /\ active' = active - 1
  BY <1>2 DEF Respond
<1>4. /\ Shaped(u) /\ u.at = "over" /\ u.counted = x
      /\ u.call = q.call /\ u.result = q.result /\ u.bus = q.bus
      /\ u.late = q.late /\ u.before = q.before /\ u.status = q.status /\ u.page = q.page
  <2>1. Shaped(q)
    BY <1>1 DEF Known
  <2> QED BY <1>2, <2>1 DEF Shaped
<1>5. Open(u, E, V)
  BY <1>1, <1>4 DEF Known, Open
<1>6. ASSUME Denied(q, E, V)
      PROVE  Known(u, E, V)
  <2>1. x = <<<<"http", q.status>>>>
    <3>1. q.counted = <<>>
      BY <1>1, <1>6 DEF Denied
    <3> QED BY <3>1
  <2>2. Denied(u, E, V)
    BY <1>1, <1>4, <1>6, <2>1 DEF Denied
  <2> QED BY <1>4, <1>5, <2>2 DEF Known
<1>7. ASSUME Ended(q, E, V)
      PROVE  Known(u, E, V)
  <2>1. Tally(u) = Tally(q) /\ q.counted = Tally(q)
    BY <1>1, <1>4, <1>7 DEF Tally, Publish, Ended
  <2>2. Ended(u, E, V)
    BY <1>1, <1>4, <1>7, <2>1 DEF Ended
  <2> QED BY <1>4, <1>5, <2>2 DEF Known
<1>8. Known(u, E, V)
  BY <1>1, <1>6, <1>7 DEF Known, Asking, Cancelled
<1>9. active' = active + (IF u.at \in InFlight THEN 1 ELSE 0)
                       - (IF req[r].at \in InFlight THEN 1 ELSE 0)
  BY <1>1, <1>3, <1>4, GaugeType DEF InFlight, InService
<1> QED BY <1>1, <1>3, <1>4, <1>8, <1>9, Stays

LEMMA CancelKeeps ==
    ASSUME ItemsAssumption, ItemsInv, NEW r \in Requests, Cancel(r)
    PROVE  ItemsInv'
<1> PICK q, E, V : q = req[r] /\ E = By(ledger, r) /\ V = By(log, r)
  OBVIOUS
<1>1. q.at \in InFlight /\ q.call = Call(r) /\ Known(q, E, V)
  BY Standing DEF Cancel, InFlight, InService
<1>2. PICK u, late, x :
        /\ u = [q EXCEPT !.at = "over", !.result = "cancelled", !.late = late, !.counted = x]
        /\ \/ late = q.late
           \/ late = "write" /\ q.at = "calling" /\ Call(r).kind \in Writes
           \/ late = "event" /\ q.at = "emitting"
        /\ Set(r, u)
  BY DEF Cancel
<1>3. UNCHANGED <<backend, items, ledger, log>> /\ active' = active - 1
  BY DEF Cancel
<1>4. /\ Shaped(u) /\ u.at = "over" /\ u.result = "cancelled" /\ u.late = late
      /\ u.call = q.call /\ u.bus = q.bus /\ u.before = q.before
  <2>1. Shaped(q)
    BY <1>1 DEF Known
  <2> QED BY <1>2, <2>1 DEF Shaped
<1>5. q.at \in {"calling", "emitting"} => Asking(q, E, V)
  BY <1>1 DEF Known, Denied, Ended, Cancelled
<1>6. Open(u, E, V)
  BY <1>1, <1>2, <1>4, <1>5 DEF Known, Open, Asking
<1>7. Known(u, E, V)
  BY <1>4, <1>6 DEF Known, Cancelled
<1>8. active' = active + (IF u.at \in InFlight THEN 1 ELSE 0)
                       - (IF req[r].at \in InFlight THEN 1 ELSE 0)
  BY <1>1, <1>3, <1>4, GaugeType DEF InFlight, InService
<1>9. req[r].at # "new" /\ req[r].at # "over"
  BY <1>1 DEF InFlight, InService
<1> QED BY <1>2, <1>3, <1>4, <1>7, <1>8, <1>9, Stays

\* A step that writes an entry in the log.
LEMMA Logs ==
    ASSUME ItemsAssumption, ItemsInv, NEW r \in Requests, req[r].at # "new",
           By(log, r) = {}, log' = Append(log, Written(r))
    PROVE  /\ log' = Append(log, Entering(r, Call(r)))
           /\ \E n : By(log', r) = {n}
<1>1. Written(r) = Entering(r, Call(r))
  BY WrittenIsEntering
<1>2. log \in Seq(Entries) /\ Entering(r, Call(r)) \in Entries
      /\ Entering(r, Call(r)).by = r
  BY Standing, EnteringType DEF ItemsInv
<1>3. By(Append(log, Entering(r, Call(r))), r) = By(log, r) \cup {Len(log) + 1}
  BY <1>2, EntryBy
<1>4. By(log', r) = {} \cup {Len(log) + 1}
  BY <1>1, <1>3
<1> QED BY <1>1, <1>4

LEMMA PublishedIs ==
    ASSUME NEW r, Shaped(req[r]), NEW outcome, NEW late, Published(r, outcome, late)
    PROVE  \E u : /\ Set(r, u) /\ Shaped(u) /\ u.at = "responding" /\ u.result = "ok"
                  /\ u.status = Status(Call(r), "ok") /\ u.call = Call(r)
                  /\ u.counted = Counts(req[r], <<<<"event", outcome>>>>, "ok")
                  /\ u.bus = outcome /\ u.late = late /\ u.before = req[r].before
<1>1. PICK w, u : /\ w = Returned(r, "ok", <<<<"event", outcome>>>>)
                  /\ u = [w EXCEPT !.bus = outcome, !.late = late]
  OBVIOUS
<1>2. Set(r, u)
  BY <1>1 DEF Published
<1>3. /\ Shaped(w) /\ w.at = "responding" /\ w.result = "ok"
      /\ w.status = Status(Call(r), "ok") /\ w.call = Call(r)
      /\ w.counted = Counts(req[r], <<<<"event", outcome>>>>, "ok")
      /\ w.before = req[r].before
  BY <1>1, ReturnedIs
<1>4. /\ Shaped(u) /\ u.at = "responding" /\ u.result = "ok"
      /\ u.status = Status(Call(r), "ok") /\ u.call = Call(r)
      /\ u.counted = Counts(req[r], <<<<"event", outcome>>>>, "ok")
      /\ u.bus = outcome /\ u.late = late /\ u.before = req[r].before
  BY <1>1, <1>3 DEF Shaped
<1> QED BY <1>2, <1>4

LEMMA EmitKeeps ==
    ASSUME ItemsAssumption, ItemsInv, NEW r \in Requests, Emit(r)
    PROVE  ItemsInv'
<1> PICK q, E, V : q = req[r] /\ E = By(ledger, r) /\ V = By(log, r)
  OBVIOUS
<1>1. q.at = "emitting" /\ q.call = Call(r) /\ Call(r) \in Calls[r] /\ Known(q, E, V)
      /\ q.before \subseteq Over
  BY Standing DEF Emit
<1>2. /\ Shaped(q) /\ Open(q, E, V) /\ Asking(q, E, V)
  BY <1>1 DEF Known, Denied, Ended, Cancelled
<1>3. E # {} /\ V = {} /\ q.call.kind \in Writes /\ q.counted = <<>> /\ Denial(q.call) = {}
  BY <1>1, <1>2 DEF Asking, Open
<1>4. /\ UNCHANGED <<backend, items, active, ledger>>
      /\ \/ log' = Append(log, Written(r)) /\ Published(r, "ok", "no")
         \/ log' = log /\ \E late \in {"no", "event"} : Published(r, "error", late)
  BY DEF Emit
<1>5. PICK outcome, late :
         /\ Published(r, outcome, late)
         /\ \/ outcome = "ok" /\ late = "no" /\ log' = Append(log, Written(r))
            \/ outcome = "error" /\ late \in {"no", "event"} /\ log' = log
  BY <1>4
<1>6. PICK u : /\ Set(r, u) /\ Shaped(u) /\ u.at = "responding" /\ u.result = "ok"
               /\ u.status = Status(Call(r), "ok") /\ u.call = Call(r)
               /\ u.counted = Counts(req[r], <<<<"event", outcome>>>>, "ok")
               /\ u.bus = outcome /\ u.late = late /\ u.before = req[r].before
  BY <1>2, <1>5, PublishedIs
<1>7. u.counted = Tally(u)
  BY <1>1, <1>3, <1>6 DEF Tally, Publish, Counts
<1>8. PICK W : /\ W = By(log', r) /\ AtMostOne(W)
               /\ IF outcome = "ok" THEN W # {} ELSE W = {}
  <2>1. CASE outcome = "ok"
    <3>1. \E n : By(log', r) = {n}
      BY <1>1, <1>3, <1>5, <2>1, Logs
    <3> QED BY <2>1, <3>1 DEF AtMostOne
  <2>2. CASE outcome = "error"
    BY <1>3, <1>5, <2>2 DEF AtMostOne
  <2> QED BY <1>5, <2>1, <2>2
<1>9. Open(u, E, W)
  BY <1>1, <1>2, <1>3, <1>5, <1>6, <1>8 DEF Open
<1>10. Ended(u, E, W)
  <2>1. Writes \cap {"list"} = {}
    BY DEF Writes
  <2> QED BY <1>1, <1>3, <1>5, <1>6, <1>7, <1>8, <2>1 DEF Ended, Results
<1>11. Known(u, By(ledger', r), By(log', r))
  <2>1. By(ledger', r) = E
    BY <1>4
  <2> QED BY <1>6, <1>8, <1>9, <1>10, <2>1 DEF Known
<1>12. log' = log \/ log' = Append(log, Entering(r, u.call))
  BY <1>5, <1>6, WrittenIsEntering
<1>13. Moved(r, u)
  BY <1>1, <1>4, <1>6, <1>11, <1>12 DEF Moved, Set
<1>14. items' \in [Requests -> Names \cup {Free}] /\ Unique(items)'
  BY <1>4 DEF ItemsInv, Unique
<1> QED BY <1>1, <1>4, <1>6, <1>13, <1>14, MovedInv, SameGauge DEF InFlight, InService

LEMMA ArriveKeeps ==
    ASSUME ItemsAssumption, ItemsInv, NEW r \in Requests, NEW c \in Calls[r], Arrive(r, c)
    PROVE  ItemsInv'
<1>1. PICK u : u = Arrived(c)
  OBVIOUS
<1>2. /\ req[r].at = "new" /\ Set(r, u) /\ UNCHANGED <<backend, items, ledger, log>>
      /\ active' = active + 1
  BY <1>1 DEF Arrive
<1>3. /\ Shaped(u) /\ u.at = "routing" /\ u.call = c /\ u.counted = <<>>
      /\ u.result = "none" /\ u.bus = "unused" /\ u.late = "no" /\ u.before = Over
  BY <1>1 DEF Arrived, Shaped, Over
<1>4. By(ledger', r) = {} /\ By(log', r) = {}
  BY <1>2 DEF ItemsInv, TrueBook, By
<1>5. Known(u, {}, {})
  BY <1>3 DEF Known, Open, Asking, AtMostOne
<1>6. Moved(r, u)
  BY <1>2, <1>3, <1>4, <1>5 DEF Moved, Set
<1>7. items' \in [Requests -> Names \cup {Free}] /\ Unique(items)'
  BY <1>2 DEF ItemsInv, Unique
<1>8. active' = active + (IF u.at \in InFlight THEN 1 ELSE 0)
                       - (IF req[r].at \in InFlight THEN 1 ELSE 0)
  BY <1>2, <1>3, GaugeType DEF InFlight, InService
<1> QED BY <1>2, <1>6, <1>7, <1>8, MovedInv

LEMMA LateKeeps ==
    ASSUME ItemsAssumption, ItemsInv, NEW r \in Requests, Late(r)
    PROVE  ItemsInv'
<1> PICK q, E, V : q = req[r] /\ E = By(ledger, r) /\ V = By(log, r)
  OBVIOUS
<1>1. /\ q.at # "new" /\ q.late # "no" /\ q.call = Call(r) /\ Call(r) \in Calls[r]
      /\ Known(q, E, V) /\ q.before \subseteq Over
  BY Standing DEF Late
<1>2. Shaped(q) /\ Open(q, E, V) /\ (Ended(q, E, V) \/ Cancelled(q))
  BY <1>1 DEF Known, Asking, Denied
<1>3. PICK u : u = [q EXCEPT !.late = "no"]
  OBVIOUS
<1>4. Set(r, u) /\ UNCHANGED <<backend, active>>
  BY <1>3 DEF Late
<1>5. /\ Shaped(u) /\ u.late = "no" /\ u.at = q.at /\ u.counted = q.counted
      /\ u.call = q.call /\ u.result = q.result /\ u.bus = q.bus
      /\ u.before = q.before /\ u.status = q.status /\ u.page = q.page
  BY <1>2, <1>3 DEF Shaped
<1>6. Tally(u) = Tally(q) /\ u.bus # "ok"
  BY <1>1, <1>2, <1>5 DEF Tally, Publish, Open
<1>7. ASSUME NEW F, NEW W, Open(u, F, W), F = By(ledger', r), W = By(log', r),
             q.late = "write" => W = {}, q.late = "event" => F = E
      PROVE  Known(u, By(ledger', r), By(log', r))
  <2>1. CASE Cancelled(q)
    BY <1>5, <1>7, <2>1 DEF Known, Cancelled
  <2>2. CASE Ended(q, E, V)
    <3>1. q.result \notin {"conflict", "missing", "error"}
      BY <1>1, <2>2 DEF Ended
    <3>2. Ended(u, F, W)
      BY <1>1, <1>2, <1>5, <1>6, <1>7, <2>2, <3>1 DEF Ended, Open
    <3> QED BY <1>5, <1>7, <3>2 DEF Known
  <2> QED BY <1>2, <2>1, <2>2
<1>8. CASE q.late = "write"
  <2>1. Take(r, Answer(Call(r).kind, Item(r), Call(r).name)) /\ UNCHANGED log
    BY <1>8 DEF Late
  <2>2. PICK answer : answer = Answer(Call(r).kind, Item(r), Call(r).name)
    OBVIOUS
  <2>3. /\ items' \in [Requests -> Names \cup {Free}] /\ Unique(items)'
        /\ IF answer = "ok" /\ Call(r).kind \in Writes
           THEN ledger' = Append(ledger, Entering(r, Call(r))) ELSE ledger' = ledger
    BY <1>1, <2>1, <2>2, Takes
  <2>4. E = {} /\ V = {} /\ q.call.kind \in Writes
    BY <1>2, <1>8 DEF Open
  <2>5. AtMostOne(By(ledger', r))
    <3>1. CASE ledger' = ledger
      BY <2>4, <3>1 DEF AtMostOne
    <3>2. CASE ledger' = Append(ledger, Entering(r, Call(r)))
      <4>1. /\ ledger \in Seq(Entries) /\ Entering(r, Call(r)) \in Entries
            /\ Entering(r, Call(r)).by = r
        BY <1>1, EnteringType DEF ItemsInv
      <4>2. By(Append(ledger, Entering(r, Call(r))), r) = By(ledger, r) \cup {Len(ledger) + 1}
        BY <4>1, EntryBy
      <4>3. By(ledger', r) = {} \cup {Len(ledger) + 1}
        BY <2>4, <3>2, <4>2
      <4> QED BY <4>3 DEF AtMostOne
    <3> QED BY <2>3, <3>1, <3>2
  <2>6. By(log', r) = {}
    BY <2>1, <2>4
  <2>7. Open(u, By(ledger', r), By(log', r))
    BY <1>5, <1>6, <2>4, <2>5, <2>6 DEF Open, AtMostOne
  <2>8. Known(u, By(ledger', r), By(log', r))
    BY <1>7, <1>8, <2>6, <2>7
  <2>9. Moved(r, u)
    BY <1>1, <1>4, <1>5, <1>6, <2>1, <2>3, <2>8 DEF Moved, Set
  <2> QED BY <1>4, <1>5, <2>3, <2>9, MovedInv, SameGauge
<1>9. CASE q.late = "event"
  <2>1. log' = Append(log, Written(r)) /\ UNCHANGED <<items, ledger>>
    BY <1>9 DEF Late
  <2>2. E # {} /\ V = {} /\ q.call.kind \in Writes /\ AtMostOne(E)
    BY <1>2, <1>9 DEF Open
  <2>3. /\ log' = Append(log, Entering(r, Call(r)))
        /\ AtMostOne(By(log', r)) /\ By(log', r) # {}
    BY <1>1, <2>1, <2>2, Logs DEF AtMostOne
  <2>4. By(ledger', r) = E
    BY <2>1
  <2>5. Open(u, By(ledger', r), By(log', r))
    BY <1>5, <1>6, <2>2, <2>3, <2>4 DEF Open
  <2>6. Known(u, By(ledger', r), By(log', r))
    BY <1>7, <1>9, <2>4, <2>5
  <2>7. Moved(r, u)
    BY <1>1, <1>4, <1>5, <1>6, <2>1, <2>3, <2>6 DEF Moved, Set
  <2>8. items' \in [Requests -> Names \cup {Free}] /\ Unique(items)'
    BY <2>1 DEF ItemsInv, Unique
  <2> QED BY <1>4, <1>5, <2>7, <2>8, MovedInv, SameGauge
<1> QED BY <1>1, <1>2, <1>8, <1>9 DEF Open

-----------------------------------------------------------------------------
(* The theorems *)

LEMMA InitInv ==
    ASSUME ItemsAssumption, Init
    PROVE  ItemsInv
<1>1. items \in [Requests -> Names \cup {Free}] /\ Unique(items)
  BY DEF Init, Unique
<1>2. DOMAIN req = Requests /\ \A r \in Requests : req[r].at = "new"
  BY DEF Init, Nothing
<1>3. Flight = {}
  BY <1>2 DEF Flight, InFlight, InService
<1>4. active = Cardinality(Flight)
  BY <1>3, FS_EmptySet DEF Init
<1>5. ledger \in Seq(Entries) /\ log \in Seq(Entries) /\ DOMAIN ledger = {} /\ DOMAIN log = {}
  BY DEF Init
<1>6. TrueBook(ledger) /\ TrueBook(log) /\ InOrder
  BY <1>5 DEF TrueBook, InOrder
<1>7. BeforeIsOver /\ \A r \in Requests : ReqInv(r)
  BY <1>2 DEF BeforeIsOver, ReqInv
<1> QED BY <1>1, <1>2, <1>4, <1>5, <1>6, <1>7 DEF Init, ItemsInv

LEMMA NextInv ==
    ASSUME ItemsAssumption, ItemsInv, Next
    PROVE  ItemsInv'
<1>1. PICK r \in Requests :
         \/ \E c \in Calls[r] : Arrive(r, c)
         \/ Route(r) \/ Statement(r) \/ Count(r) \/ Raises(r)
         \/ Emit(r) \/ Late(r) \/ Respond(r) \/ Cancel(r)
  BY DEF Next
<1>2. CASE \E c \in Calls[r] : Arrive(r, c)
  BY <1>2, ArriveKeeps
<1>3. CASE Route(r)
  BY <1>3, RouteKeeps
<1>4. CASE Statement(r)
  BY <1>4, StatementKeeps
<1>5. CASE Count(r)
  BY <1>5, CountKeeps
<1>6. CASE Raises(r)
  BY <1>6, RaisesKeeps
<1>7. CASE Emit(r)
  BY <1>7, EmitKeeps
<1>8. CASE Late(r)
  BY <1>8, LateKeeps
<1>9. CASE Respond(r)
  BY <1>9, RespondKeeps
<1>10. CASE Cancel(r)
  BY <1>10, CancelKeeps
<1> QED BY <1>1, <1>2, <1>3, <1>4, <1>5, <1>6, <1>7, <1>8, <1>9, <1>10

LEMMA StutterInv ==
    ASSUME ItemsInv, UNCHANGED vars
    PROVE  ItemsInv'
  BY DEF vars, ItemsInv, Unique, ReqInv, Call, Effects, Events, Flight, TrueBook, Entering,
         BeforeIsOver, Over, InOrder

LEMMA ItemsAlways ==
    ASSUME ItemsAssumption
    PROVE  Spec => []ItemsInv
<1>1. Init => ItemsInv
  BY InitInv
<1>2. ItemsInv /\ [Next]_vars => ItemsInv'
  BY NextInv, StutterInv
<1> QED BY <1>1, <1>2, PTL DEF Spec

\* A request that was answered was denied or ended.
LEMMA AnsweredIs ==
    ASSUME ItemsInv, NEW r \in Requests, Answered(r)
    PROVE  LET q == req[r] E == Effects(r) V == Events(r) IN
           /\ q.at = "over" /\ q.call = Call(r) /\ Open(q, E, V)
           /\ Denied(q, E, V) \/ Ended(q, E, V)
<1> PICK q, E, V : q = req[r] /\ E = Effects(r) /\ V = Events(r)
  OBVIOUS
<1>1. q.at = "over" /\ q.result # "cancelled"
  BY DEF Answered
<1>2. q.call = Call(r) /\ Known(q, E, V)
  BY <1>1 DEF ItemsInv, ReqInv, Call
<1> QED BY <1>1, <1>2 DEF Known, Asking, Cancelled

\* The requests, the table and the books have their types, and the gauge is
\* never negative and never above the number of requests.
THEOREM ItemTypes ==
    ASSUME ItemsAssumption
    PROVE  Spec => []TypeOK
<1>1. ASSUME ItemsInv
      PROVE  TypeOK
  <2>1. \A r \in Requests : req[r].at \in InFlight \cup {"new", "over"}
    <3> SUFFICES ASSUME NEW r \in Requests, req[r].at # "new"
                 PROVE  req[r].at \in InFlight \cup {"over"}
      OBVIOUS
    <3>1. Known(req[r], Effects(r), Events(r))
      BY <1>1 DEF ItemsInv, ReqInv
    <3> QED BY <3>1 DEF Known, Asking, Denied, Ended, Cancelled, InFlight, InService
  <2>2. active \in 0..Cardinality(Requests)
    <3>1. IsFiniteSet(Requests) /\ Flight \subseteq Requests
      BY DEF ItemsAssumption, Flight
    <3>2. /\ Cardinality(Flight) \in Nat /\ Cardinality(Requests) \in Nat
          /\ Cardinality(Flight) <= Cardinality(Requests)
      BY <3>1, FS_Subset, FS_CardinalityType
    <3> QED BY <1>1, <3>2 DEF ItemsInv
  <2> QED BY <1>1, <2>1, <2>2 DEF TypeOK, ItemsInv
<1> QED BY <1>1, ItemsAlways, PTL

LEMMA StatusOf ==
    ASSUME NEW c, NEW result \in Results
    PROVE  LET s == Status(c, result) IN
           /\ s < 300 <=> result = "ok"
           /\ s \notin {401, 403, 422}
           /\ s \in 400..500 => result \in {"conflict", "missing", "error"}
           /\ s = 404 <=> result = "missing"
           /\ s = 409 => result = "conflict"
           /\ result = "conflict" /\ c.kind # "health" => s = 409
           /\ result = "unavailable" => s = 503
           /\ result = "error" /\ c.kind # "health" => s = 500
  BY DEF Status, ErrorStatus, Results

LEMMA DenialIs ==
    ASSUME NEW c, NEW s \in Denial(c)
    PROVE  s \in {401, 403, 422} /\ ~ (s < 300)
  BY DEF Denial

\* A client is told what happened: a write answered 2xx took effect exactly
\* once, one answered 4xx or 500 never, one answered 503 at most once; a page
\* agrees with its total; two items never share a name; and the repositories
\* answer alike.
THEOREM AnswersTellTheTruth ==
    ASSUME ItemsAssumption
    PROVE  Spec => []AnswersAreTrue
<1>1. ASSUME ItemsInv
      PROVE  AnswersAreTrue
  <2>1. ASSUME NEW r \in Requests, Answered(r)
        PROVE  /\ (req[r].status < 300 /\ Call(r).kind \in Writes)
                     => Cardinality(Effects(r)) = 1
               /\ req[r].status \in 400..500 => Effects(r) = {}
               /\ Cardinality(Effects(r)) <= 1
               /\ (req[r].status < 300 /\ Call(r).kind = "list") =>
                     LET rows == req[r].page[1] total == req[r].page[2] IN
                     rows > 0 => (rows = Min({Call(r).limit, total - Call(r).offset}))
    <3> PICK q, E, V : q = req[r] /\ E = Effects(r) /\ V = Events(r)
      OBVIOUS
    <3>1. /\ q.at = "over" /\ q.call = Call(r) /\ Open(q, E, V)
          /\ Denied(q, E, V) \/ Ended(q, E, V)
      BY <1>1, <2>1, AnsweredIs
    <3>2. Cardinality(E) <= 1 /\ (E # {} => Cardinality(E) = 1)
      BY <3>1, OneIsOne DEF Open
    <3>3. CASE Denied(q, E, V)
      <4>1. ~ (q.status < 300) /\ E = {}
        BY <3>3, DenialIs DEF Denied
      <4> QED BY <3>2, <4>1
    <3>4. CASE Ended(q, E, V)
      <4>1. q.status < 300 => q.result = "ok"
        BY <3>4, StatusOf DEF Ended
      <4>2. q.status \in 400..500 => E = {}
        BY <3>4, StatusOf DEF Ended
      <4>3. q.status < 300 /\ q.call.kind \in Writes => E # {}
        BY <3>4, <4>1 DEF Ended
      <4>4. q.status < 300 /\ q.call.kind = "list" => PageFits(q.call, q.page)
        BY <3>4, <4>1 DEF Ended
      <4> QED BY <3>1, <3>2, <4>2, <4>3, <4>4 DEF PageFits
    <3> QED BY <3>1, <3>3, <3>4
  <2>2. Unique(items) /\ items \in [Requests -> Names \cup {Free}]
    BY <1>1 DEF ItemsInv
  <2>3. \A kind \in Writes, i \in Requests, n \in Names :
           \/ MemoryWrite(kind, i, n) = PostgresWrite(kind, i, n)
           \/ kind = "create" /\ items[i] # Free
    BY <2>2, Alike
  <2> QED BY <2>1, <2>2, <2>3 DEF AnswersAreTrue
<1> QED BY <1>1, ItemsAlways, PTL

\* An event tells of a write that took effect and is told once; a write that
\* was answered 2xx is told unless its publish failed; and the event of a
\* request that was answered comes before those of all later requests.
THEOREM EventsTellOfWrites ==
    ASSUME ItemsAssumption
    PROVE  Spec => []EventsFollowWrites
<1>1. ASSUME ItemsInv
      PROVE  EventsFollowWrites
  <2>1. ASSUME NEW r \in Requests
        PROVE  AtMostOne(Events(r)) /\ (Events(r) # {} => Effects(r) # {})
    <3>1. CASE req[r].at = "new"
      BY <1>1, <3>1 DEF ItemsInv, TrueBook, Events, AtMostOne
    <3>2. CASE req[r].at # "new"
      BY <1>1, <3>2 DEF ItemsInv, ReqInv, Known, Open
    <3> QED BY <3>1, <3>2
  <2>2. ASSUME NEW n \in DOMAIN log
        PROVE  \E k \in DOMAIN ledger : ledger[k] = log[n]
    <3> PICK r : r = log[n].by
      OBVIOUS
    <3>1. r \in Requests /\ log[n] = Entering(r, Call(r)) /\ n \in Events(r)
      BY <1>1 DEF ItemsInv, TrueBook, Events
    <3>2. PICK k \in DOMAIN ledger : ledger[k].by = r
      BY <2>1, <3>1 DEF Effects
    <3>3. ledger[k] = Entering(r, Call(r))
      BY <1>1, <3>2 DEF ItemsInv, TrueBook
    <3> QED BY <3>1, <3>3
  <2>3. \A r \in Requests : Cardinality(Events(r)) <= 1
    BY <2>1, OneIsOne
  <2>4. ASSUME NEW r \in Requests, Answered(r), Effects(r) # {}, req[r].status < 300
        PROVE  Events(r) # {} \/ req[r].bus = "error"
    <3> PICK q, E, V : q = req[r] /\ E = Effects(r) /\ V = Events(r)
      OBVIOUS
    <3>1. Open(q, E, V) /\ (Denied(q, E, V) \/ Ended(q, E, V))
      BY <1>1, <2>4, AnsweredIs
    <3>2. Ended(q, E, V)
      BY <2>4, <3>1 DEF Denied
    <3>3. q.result = "ok" /\ q.call.kind \in Writes
      BY <2>4, <3>1, <3>2, StatusOf DEF Ended, Open
    <3> QED BY <3>2, <3>3 DEF Ended
  <2>5. InOrder
    BY <1>1 DEF ItemsInv
  <2> QED BY <2>2, <2>3, <2>4, <2>5 DEF EventsFollowWrites, InOrder
<1> QED BY <1>1, ItemsAlways, PTL

\* The gauge is the number of requests in flight, and a request that was not
\* cancelled is counted once, by the status it was answered, its operation by
\* the outcome that belongs to the status, its event by what became of it.
THEOREM CountersAreTrue ==
    ASSUME ItemsAssumption
    PROVE  Spec => []MetricsAreTrue
<1>1. ASSUME ItemsInv
      PROVE  MetricsAreTrue
  <2>1. active = Cardinality({r \in Requests : req[r].at \in InFlight})
    BY <1>1 DEF ItemsInv, Flight
  <2>2. ASSUME NEW r \in Requests, Answered(r)
        PROVE  LET s == req[r].status IN
               req[r].counted =
                 IF s \in {401, 403, 422} THEN <<<<"http", s>>>>
                 ELSE (IF s < 300 /\ Call(r).kind \in Writes THEN <<<<"event", req[r].bus>>>>
                       ELSE <<>>) \o
                      <<<<Operation(Call(r)),
                          CASE s < 300 -> "ok" [] s = 404 -> "not_found" [] s = 409 -> "conflict"
                            [] OTHER -> IF Call(r).kind = "health" THEN Outcome(req[r].result)
                                        ELSE IF s = 503 THEN "unavailable" ELSE "error">>,
                        <<"http", s>>>>
    <3> DEFINE q == req[r]
               E == Effects(r)
               V == Events(r)
               c == Call(r)
               s == req[r].status
    <3>1. /\ q.at = "over" /\ q.call = c
          /\ Denied(q, E, V) \/ Ended(q, E, V)
      BY <1>1, <2>2, AnsweredIs
    <3>2. CASE Denied(q, E, V)
      <4>1. s \in {401, 403, 422} /\ q.counted = <<<<"http", s>>>>
        BY <3>1, <3>2, DenialIs DEF Denied
      <4> QED BY <4>1
    <3>3. CASE Ended(q, E, V)
      <4>1. PICK o : o = CASE s < 300 -> "ok" [] s = 404 -> "not_found" [] s = 409 -> "conflict"
                           [] OTHER -> IF c.kind = "health" THEN Outcome(q.result)
                                       ELSE IF s = 503 THEN "unavailable" ELSE "error"
        OBVIOUS
      <4>2. q.result \in Results /\ s = Status(c, q.result)
        BY <3>1, <3>3 DEF Ended
      <4>3. o = Outcome(q.result)
        BY <4>1, <4>2, StatusOf DEF Outcome, Results
      <4>4. s \notin {401, 403, 422} /\ (s < 300 <=> q.result = "ok")
        BY <4>2, StatusOf
      <4> PICK x, y, e :
             /\ x = <<Operation(c), Outcome(q.result)>> /\ y = <<"http", s>>
             /\ e = <<"event", q.bus>>
        OBVIOUS
      <4>5. Tally(q) = IF s < 300 /\ c.kind \in Writes THEN <<>> \o <<e>> \o <<x>>
                       ELSE <<>> \o <<>> \o <<x>>
        BY <3>1, <4>4 DEF Tally, Publish
      <4>6. q.counted = Append(Tally(q), y)
        BY <3>1, <3>3 DEF Ended
      <4>7. q.counted = (IF s < 300 /\ c.kind \in Writes THEN <<e>> ELSE <<>>) \o <<x, y>>
        <5>1. CASE s < 300 /\ c.kind \in Writes
          <6>1. q.counted = Append(<<>> \o <<e>> \o <<x>>, y)
            BY <4>5, <4>6, <5>1
          <6>2. Append(<<>> \o <<e>> \o <<x>>, y) = <<e>> \o <<x, y>>
            BY Tallies
          <6>3. q.counted = <<e>> \o <<x, y>>
            BY <6>1, <6>2
          <6> QED BY <5>1, <6>3
        <5>2. CASE ~ (s < 300 /\ c.kind \in Writes)
          <6>1. q.counted = Append(<<>> \o <<>> \o <<x>>, y)
            BY <4>5, <4>6, <5>2
          <6>2. q.counted = <<>> \o <<x, y>>
            BY Zenon, <6>1, Tallies
          <6> QED BY <5>2, <6>2
        <5> QED BY <5>1, <5>2
      <4>8. x = <<Operation(c), o>>
        BY <4>3
      <4>9. q.counted = (IF s < 300 /\ c.kind \in Writes THEN <<<<"event", q.bus>>>> ELSE <<>>)
                        \o <<<<Operation(c), o>>, <<"http", s>>>>
        BY Zenon, <4>7, <4>8
      <4> QED BY Zenon, <4>1, <4>4, <4>9
    <3> QED BY <3>1, <3>2, <3>3
  <2> QED BY <2>1, <2>2 DEF MetricsAreTrue
<1> QED BY <1>1, ItemsAlways, PTL

=============================================================================
