---------------------------- MODULE ItemRequests ----------------------------
(***************************************************************************)
(* Requests on items, from the telemetry middleware through authorization, *)
(* the metered ItemService and the repository to the event that announces  *)
(* a change, and back.  The write and its event are two transactions; each *)
(* call can fail before or after its effect, a client can be gone when it  *)
(* is answered, and a request can be cancelled in the middle of a call.    *)
(* A name stands for all spellings that are equal without case and blanks. *)
(***************************************************************************)
EXTENDS Integers, Sequences, FiniteSets, FiniteSetsExt

CONSTANTS
    Requests,   \* an item created by a request has the request as its id
    Names,
    Free,       \* the name of an id without an item
    Calls       \* for each request, the calls it may be

Kinds == {"create", "update", "delete", "get", "list", "health"}
Writes == {"create", "update", "delete"}

ASSUME ItemsAssumption ==
    /\ Free \notin Names /\ IsFiniteSet(Requests)
    /\ \A r \in Requests : \A c \in Calls[r] :
          c \in [kind : Kinds, item : Requests, name : Names, limit : Nat, offset : Nat,
                 token : {"none", "read", "write"}, valid : BOOLEAN]

VARIABLES
    backend,    \* PERSISTENCE_BACKEND
    items,      \* the name of each item
    req,        \* the requests
    active,     \* the gauge http.server.active_requests
    ledger,     \* history: the writes, in the order they took effect
    log         \* the events that were published

vars == <<backend, items, req, active, ledger, log>>

Nothing == [at |-> "new"]
InService == {"calling", "counting", "emitting"}
InFlight == InService \cup {"routing", "responding"}

Init ==
    /\ backend \in {"memory", "postgres"}
    /\ items = [i \in Requests |-> Free]
    /\ req = [r \in Requests |-> Nothing]
    /\ active = 0
    /\ ledger = <<>> /\ log = <<>>

Call(r) == req[r].call
Item(r) == IF Call(r).kind = "create" THEN r ELSE Call(r).item
Put(i, n) == [items EXCEPT ![i] = n]

-----------------------------------------------------------------------------
(* The two repositories: the answer to a write, which is made if it is "ok" *)

\* _name_taken: there, the check and the write have no await between them.
NameTaken(n, others) == \E i \in others : items[i] = n

MemoryWrite(kind, i, n) ==
    IF kind # "create" /\ items[i] = Free THEN "missing"
    ELSE IF \/ kind = "create" /\ NameTaken(n, Requests)
            \/ kind = "update" /\ NameTaken(n, Requests \ {i}) THEN "conflict"
    ELSE "ok"

\* The unique index on lower(btrim(name)), checked on what a statement makes.
Unique(table) ==
    \A i, j \in Requests : table[i] = table[j] => i = j \/ table[i] = Free

PostgresWrite(kind, i, n) ==
    IF kind # "create" /\ items[i] = Free THEN "missing"   \* the statement finds no row
    ELSE IF kind = "delete" \/ Unique(Put(i, n)) THEN "ok"
    ELSE "conflict"

Answer(kind, i, n) ==
    CASE kind \in Writes /\ backend = "memory" -> MemoryWrite(kind, i, n)
      [] kind \in Writes /\ backend = "postgres" -> PostgresWrite(kind, i, n)
      [] kind = "get" /\ items[i] = Free -> "missing"
      [] OTHER -> "ok"

Total == Cardinality({i \in Requests : items[i] # Free})

\* The rows of a page, and whether its total takes a second statement: rows
\* carry it, an empty first page means none.
Rows(c) == Max({0, Min({c.limit, Total - c.offset})})
Recount(c) ==
    backend = "postgres" /\ c.kind = "list" /\ Rows(c) = 0 /\ c.offset > 0

-----------------------------------------------------------------------------
(* Middleware, authorization and the error handlers *)

Needed(kind) == IF kind \in Writes THEN "write" ELSE "read"

\* 401, 403, and 422 for what parses but is not valid, in this order; the
\* health check is for everybody.
Denial(c) ==
    IF c.kind = "health" THEN {}
    ELSE IF c.token = "none" THEN {401}
    ELSE IF c.token # Needed(c.kind) THEN {403}
    ELSE IF ~ c.valid THEN {422}
    ELSE {}

\* The exception handlers.
ErrorStatus(result) ==
    CASE result = "conflict" -> 409 [] result = "unavailable" -> 503 [] OTHER -> 500

\* The routes; the health check answers any failure itself.
Status(c, result) ==
    CASE result = "ok" -> IF c.kind = "create" THEN 201
                          ELSE IF c.kind = "delete" THEN 204 ELSE 200
      [] result = "missing" -> 404
      [] OTHER -> IF c.kind = "health" THEN 503 ELSE ErrorStatus(result)

\* MeteredItemService: what an operation is counted as.
Outcome(result) == IF result = "missing" THEN "not_found" ELSE result

\* The operation a health check performs is a list().
Operation(c) == IF c.kind = "health" THEN "list" ELSE c.kind

Set(r, to) == req' = [req EXCEPT ![r] = to]

\* The service call ends and is counted in its finally, the publish it made,
\* if any, in the finally of MeteredEventBus before.
Returned(r, result, publish) ==
    [req[r] EXCEPT !.at = "responding", !.result = result, !.status = Status(Call(r), result),
                   !.counted = @ \o publish \o <<<<Operation(Call(r)), Outcome(result)>>>>]
Return(r, result) == Set(r, Returned(r, result, <<>>))
Paged(r, result, rows) == Set(r, [Returned(r, result, <<>>) EXCEPT !.page = <<rows, Total>>])
Published(r, outcome, late) ==
    Set(r, [Returned(r, "ok", <<<<"event", outcome>>>>) EXCEPT !.bus = outcome, !.late = late])

-----------------------------------------------------------------------------
(* The steps of a request *)

Arrived(c) ==
    [at |-> "routing", call |-> c, counted |-> <<>>, result |-> "none", status |-> 500,
     page |-> <<0, 0>>, bus |-> "unused", late |-> "no",
     before |-> {q \in Requests : req[q].at = "over"}]

\* Mutant: the gauge is not raised.
ArriveUncounted(r, c) ==
    /\ req[r].at = "new"
    /\ Set(r, Arrived(c))
    /\ UNCHANGED <<backend, items, active, ledger, log>>

Arrive(r, c) ==
    /\ req[r].at = "new"
    /\ active' = active + 1
    /\ Set(r, Arrived(c))
    /\ UNCHANGED <<backend, items, ledger, log>>

Route(r) ==
    /\ req[r].at = "routing"
    /\ IF Denial(Call(r)) = {} THEN Set(r, [req[r] EXCEPT !.at = "calling"])
       ELSE \E s \in Denial(Call(r)) :
               Set(r, [req[r] EXCEPT !.at = "responding", !.status = s])
    /\ UNCHANGED <<backend, items, active, ledger, log>>

Written(r) == [by |-> r, item |-> Item(r),
               name |-> IF Call(r).kind = "delete" THEN Free ELSE Call(r).name]

\* The statement takes effect, if it is a write that is possible.
Take(r, answer) ==
    IF answer = "ok" /\ Call(r).kind \in Writes
    THEN /\ items' = Put(Item(r), Written(r).name)
         /\ ledger' = Append(ledger, Written(r))
    ELSE UNCHANGED <<items, ledger>>

Statement(r) ==
    LET c == Call(r)
        answer == Answer(c.kind, Item(r), c.name)
    IN
    /\ req[r].at = "calling"
    /\ Take(r, answer)
    /\ IF answer = "ok" /\ c.kind \in Writes THEN Set(r, [req[r] EXCEPT !.at = "emitting"])
       ELSE IF Recount(c) THEN Set(r, [req[r] EXCEPT !.at = "counting"])
       ELSE IF c.kind = "list" THEN Paged(r, answer, Rows(c))
       ELSE Return(r, answer)
    /\ UNCHANGED <<backend, active, log>>

\* list() past the end: the total is read by a statement of its own.
Count(r) ==
    /\ req[r].at = "counting"
    /\ Paged(r, "ok", 0)
    /\ UNCHANGED <<backend, items, active, ledger, log>>

\* The database raises: an error, or a connection-level failure, which
\* _translating turns into StorageUnavailableError.  A statement whose answer
\* was lost may be committed all the same, at once or later.
Raises(r) ==
    /\ backend = "postgres" /\ req[r].at \in {"calling", "counting"}
    /\ \/ \E result \in {"unavailable", "error"} : Return(r, result)
       \/ /\ Call(r).kind \in Writes
          /\ Set(r, [Returned(r, "unavailable", <<>>) EXCEPT !.late = "write"])
    /\ UNCHANGED <<backend, items, active, ledger, log>>

\* What was asked of the server takes effect though nobody waits for it.
Late(r) ==
    /\ req[r].at # "new" /\ req[r].late # "no"
    /\ Set(r, [req[r] EXCEPT !.late = "no"])
    /\ IF req[r].late = "write"
       THEN Take(r, Answer(Call(r).kind, Item(r), Call(r).name)) /\ UNCHANGED log
       ELSE log' = Append(log, Written(r)) /\ UNCHANGED <<items, ledger>>
    /\ UNCHANGED <<backend, active>>

\* Mutant: a bus that fails fails the write.
EmitOrFail(r) ==
    /\ req[r].at = "emitting"
    /\ \/ log' = Append(log, Written(r)) /\ Published(r, "ok", "no")
       \/ log' = log /\ Return(r, "error")
    /\ UNCHANGED <<backend, items, active, ledger>>

\* Mutant: the answer does not wait for the event.
EmitLater(r) ==
    /\ \/ /\ req[r].at = "emitting"
          /\ log' = log /\ Published(r, "pending", "no")
       \/ /\ req[r].at = "over" /\ req[r].bus = "pending"
          /\ log' = Append(log, Written(r)) /\ Set(r, [req[r] EXCEPT !.bus = "ok"])
    /\ UNCHANGED <<backend, items, active, ledger>>

\* _emit: the bus may raise, and the event get into the log all the same; the
\* write stands.
Emit(r) ==
    /\ req[r].at = "emitting"
    /\ \/ log' = Append(log, Written(r)) /\ Published(r, "ok", "no")
       \/ log' = log /\ \E late \in {"no", "event"} : Published(r, "error", late)
    /\ UNCHANGED <<backend, items, active, ledger>>

\* The response, or the exception, passes the middleware: it is counted by
\* its status even if the client is gone and the write raises.
Respond(r) ==
    /\ req[r].at = "responding"
    /\ active' = active - 1
    /\ Set(r, [req[r] EXCEPT !.at = "over", !.counted = Append(@, <<"http", req[r].status>>)])
    /\ UNCHANGED <<backend, items, ledger, log>>

\* Mutant: the gauge is lowered where a response is counted.
CancelUncounted(r) ==
    /\ req[r].at \in InFlight
    /\ Set(r, [req[r] EXCEPT !.at = "over", !.result = "cancelled"])
    /\ UNCHANGED <<backend, items, active, ledger, log>>

\* A shutdown cancels the request, and what it waits for may take effect.
\* `except Exception` does not see the cancellation, so the operation is
\* counted as "ok", as is the publish it waited for, and the response is not
\* counted.
Cancel(r) ==
    /\ req[r].at \in InFlight
    /\ active' = active - 1
    /\ \E late \in {req[r].late}
             \cup (IF req[r].at = "calling" /\ backend = "postgres"
                      /\ Call(r).kind \in Writes THEN {"write"} ELSE {})
             \cup (IF req[r].at = "emitting" THEN {"event"} ELSE {}) :
          Set(r, [req[r] EXCEPT !.at = "over", !.result = "cancelled", !.late = late,
                  !.counted = @ \o (IF req[r].at = "emitting" THEN <<<<"event", "ok">>>>
                                    ELSE <<>>)
                                \o (IF req[r].at \in InService
                                    THEN <<<<Operation(Call(r)), "ok">>>> ELSE <<>>)])
    /\ UNCHANGED <<backend, items, ledger, log>>

Next ==
    \E r \in Requests :
        \/ \E c \in Calls[r] : Arrive(r, c)
        \/ Route(r) \/ Statement(r) \/ Count(r) \/ Raises(r)
        \/ Emit(r) \/ Late(r) \/ Respond(r) \/ Cancel(r)

Spec == Init /\ [][Next]_vars

-----------------------------------------------------------------------------
(* Properties *)

Entries == [by : Requests, item : Requests, name : Names \cup {Free}]

TypeOK ==
    /\ backend \in {"memory", "postgres"}
    /\ items \in [Requests -> Names \cup {Free}]
    /\ \A r \in Requests : req[r].at \in InFlight \cup {"new", "over"}
    /\ active \in 0..Cardinality(Requests)
    /\ ledger \in Seq(Entries) /\ log \in Seq(Entries)

Answered(r) == req[r].at = "over" /\ req[r].result # "cancelled"
Effects(r) == {n \in DOMAIN ledger : ledger[n].by = r}
Events(r) == {n \in DOMAIN log : log[n].by = r}

\* What a client is told is what happened, whoever else writes and whatever
\* fails: a 2xx write took effect once, one that was refused (4xx) or failed
\* (500) not at all, and only a 503 leaves it open, at most once; a page
\* agrees with its total; names stay unique; and both repositories would
\* answer alike.
AnswersAreTrue ==
    /\ \A r \in Requests : Answered(r) =>
          /\ (req[r].status < 300 /\ Call(r).kind \in Writes)
                => Cardinality(Effects(r)) = 1
          /\ req[r].status \in 400..500 => Effects(r) = {}
          /\ Cardinality(Effects(r)) <= 1
          /\ (req[r].status < 300 /\ Call(r).kind = "list") =>
                LET rows == req[r].page[1] total == req[r].page[2] IN
                rows > 0 => (rows = Min({Call(r).limit, total - Call(r).offset}))
    /\ Unique(items)
    /\ \A kind \in Writes, i \in Requests, n \in Names :
          \/ MemoryWrite(kind, i, n) = PostgresWrite(kind, i, n)
          \/ kind = "create" /\ items[i] # Free

\* An event tells of one write that took effect, and is told once; every
\* write that was answered 2xx is told unless the bus failed; and the event
\* of a request that was answered comes before those of all later requests.
EventsFollowWrites ==
    /\ \A n \in DOMAIN log : \E k \in DOMAIN ledger : ledger[k] = log[n]
    /\ \A r \in Requests : Cardinality(Events(r)) <= 1
    /\ \A r \in Requests :
          (Answered(r) /\ Effects(r) # {} /\ req[r].status < 300) =>
              \/ Events(r) # {}
              \/ req[r].bus = "error"
    /\ \A n, k \in DOMAIN log :
          (req[log[n].by].bus = "ok" /\ log[n].by \in req[log[k].by].before) => n < k

\* Telemetry: the gauge is the number of requests in flight, and a request
\* that was not cancelled is counted once, by the status it was answered,
\* its operation by the outcome that belongs to that status, and its event by
\* what became of the publish, which no status tells.
MetricsAreTrue ==
    /\ active = Cardinality({r \in Requests : req[r].at \in InFlight})
    /\ \A r \in Requests : Answered(r) =>
          LET s == req[r].status IN
          req[r].counted =
             IF s \in {401, 403, 422} THEN <<<<"http", s>>>>
             ELSE (IF s < 300 /\ Call(r).kind \in Writes THEN <<<<"event", req[r].bus>>>>
                   ELSE <<>>) \o
                  <<<<Operation(Call(r)),
                      CASE s < 300 -> "ok" [] s = 404 -> "not_found" [] s = 409 -> "conflict"
                        [] OTHER -> IF Call(r).kind = "health" THEN Outcome(req[r].result)
                                    ELSE IF s = 503 THEN "unavailable" ELSE "error">>,
                    <<"http", s>>>>

=============================================================================
