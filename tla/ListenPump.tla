----------------------------- MODULE ListenPump -----------------------------
(***************************************************************************)
(* How a container's event pump learns that there is something to fetch    *)
(* (_pump and _listen in src/adapters/events/postgres.py): it is woken by  *)
(* a NOTIFY that a second task hears on a connection of its own, or by the *)
(* timeout of its wait, which is long only while that task trusts its      *)
(* connection.  Both tasks outlive any error; close() ends both.           *)
(* What a row is and who gets it is the business of PostgresEventBus.      *)
(***************************************************************************)
EXTENDS Naturals, FiniteSets, FiniteSetsExt

CONSTANTS
    Short, Long,    \* the pump's waits: _poll_interval, and with LISTEN
    Probe, Retry,   \* listen_probe_timeout, _PROBE_RETRY_SECONDS
    MaxBackoff,     \* where both backoffs stop growing
    BatchSize,
    MaxSeq,         \* bound on the events
    MaxFaults       \* bound on what goes wrong

ASSUME WaitsAssumption ==
    /\ {Short, Long, Probe, Retry, MaxBackoff, BatchSize} \subseteq Nat \ {0}
    /\ Short <= Long
    /\ {MaxSeq, MaxFaults} \subseteq Nat

VARIABLES
    (* the database and the network *)
    head,       \* the events that are committed
    dsn,        \* EVENT_BUS_LISTEN_URL: "none", a "session" or a "pooler"
    conn,       \* the LISTEN connection
    notice,     \* a NOTIFY on events is under way to the connection
    probe,      \* the test NOTIFY
    faults,     \* how much has gone wrong
    (* the pump *)
    pump, timer, backoff,
    cursor, wake,
    (* the listener *)
    listen, ltimer, lbackoff,
    listening,
    closing,
    (* history *)
    age,        \* how long the oldest committed event has not been fetched,
                \* counted up to more than the long wait
    trusted     \* the listener was listening when the pump began its wait

network == <<head, dsn, conn, notice, probe>>
pumpVars == <<pump, timer, backoff, cursor, trusted>>
listenVars == <<listen, ltimer, lbackoff, listening>>
vars == <<network, faults, pumpVars, wake, listenVars, closing, age>>

\* "deaf" hears nothing, as behind a pooler; "dead" is gone and the client
\* has not noticed.
Init ==
    /\ dsn \in {"none", "session", "pooler"}
    /\ head = 0 /\ cursor = 0
    /\ conn = "none" /\ notice = FALSE /\ probe = "none"
    /\ faults = 0
    /\ pump = "draining" /\ timer = 0 /\ backoff = 1 /\ wake = FALSE
    /\ listen = IF dsn = "none" THEN "off" ELSE "connecting"
    /\ ltimer = 0 /\ lbackoff = 1 /\ listening = FALSE
    /\ closing = FALSE
    /\ age = 0 /\ trusted = FALSE

Fault == faults < MaxFaults /\ faults' = faults + 1

\* Mutant: the delay grows without bound.
Uncapped(b) == 2 * b

Double(b) == Min({2 * b, MaxBackoff})

-----------------------------------------------------------------------------
(* The database *)

\* publish_event() on any container: the row and its NOTIFY.
Publish ==
    /\ head < MaxSeq
    /\ head' = head + 1
    /\ notice' = (notice \/ conn = "live")
    /\ UNCHANGED <<dsn, conn, probe, faults, pumpVars, wake, listenVars, closing, age>>

\* The callback of the listener.
Hear ==
    /\ notice /\ conn = "live"
    /\ notice' = FALSE /\ wake' = TRUE
    /\ UNCHANGED <<head, dsn, conn, probe, faults, pumpVars, listenVars, closing, age>>

\* The connection ends, with or without the client's notice.
Break ==
    /\ Fault
    /\ \/ conn \in {"live", "deaf"} /\ conn' = "broken"
       \/ conn = "live" /\ conn' = "dead"
    /\ notice' = FALSE
    /\ UNCHANGED <<head, dsn, probe, pumpVars, wake, listenVars, closing, age>>

-----------------------------------------------------------------------------
(* _pump *)

Fetched == Min({head, cursor + BatchSize})

\* One round of _drain(); it ends with a batch that is not full.
Fetch ==
    /\ pump = "draining"
    /\ cursor' = Fetched
    /\ pump' = IF Fetched - cursor < BatchSize THEN "drained" ELSE "draining"
    /\ backoff' = IF pump' = "drained" THEN 1 ELSE backoff
    /\ age' = IF Fetched = head THEN 0 ELSE age
    /\ UNCHANGED <<network, faults, timer, trusted, wake, listenVars, closing>>

\* Mutant: an error ends the pump.
PumpDies ==
    /\ Fault
    /\ pump \in {"draining", "drained"}
    /\ pump' = "off"
    /\ UNCHANGED <<network, timer, backoff, cursor, trusted, wake, listenVars, closing, age>>

\* The fetch fails, or the pruning after it.
PumpError ==
    /\ Fault
    /\ pump \in {"draining", "drained"}
    /\ pump' = "failing" /\ timer' = backoff /\ backoff' = Double(backoff)
    /\ UNCHANGED <<network, cursor, trusted, wake, listenVars, closing, age>>

PumpRetry ==
    /\ pump = "failing" /\ timer = 0 /\ pump' = "draining"
    /\ UNCHANGED <<network, faults, timer, backoff, cursor, trusted, wake,
                   listenVars, closing, age>>

\* Mutant: the event is cleared after the fetch, before the wait.
ClearAndWait ==
    /\ pump = "drained"
    /\ pump' = "waiting" /\ wake' = FALSE
    /\ timer' = IF listening THEN Long ELSE Short
    /\ trusted' = (listen = "listening")
    /\ UNCHANGED <<network, faults, backoff, cursor, listenVars, closing, age>>

Wait ==
    /\ pump = "drained"
    /\ pump' = "waiting"
    /\ timer' = IF listening THEN Long ELSE Short
    /\ trusted' = (listen = "listening")
    /\ UNCHANGED <<network, faults, backoff, cursor, wake, listenVars, closing, age>>

Wake ==
    /\ pump = "waiting" /\ (wake \/ timer = 0)
    /\ wake' = FALSE /\ pump' = "draining"
    /\ UNCHANGED <<network, faults, timer, backoff, cursor, trusted, listenVars, closing, age>>

-----------------------------------------------------------------------------
(* _listen *)

Connect ==
    /\ listen = "connecting" /\ listen' = "asking"
    /\ conn' = IF dsn = "session" THEN "live" ELSE "deaf"
    /\ UNCHANGED <<head, dsn, notice, probe, faults, pumpVars, wake, ltimer, lbackoff,
                   listening, closing, age>>

\* pg_notify on a connection of the pool.
Ask ==
    /\ listen = "asking" /\ listen' = "probing" /\ ltimer' = Probe
    /\ probe' = "sent"
    /\ UNCHANGED <<head, dsn, conn, notice, faults, pumpVars, wake, lbackoff, listening,
                   closing, age>>

\* The test NOTIFY is late.
ProbeLate ==
    /\ Fault
    /\ probe = "sent" /\ probe' = "none"
    /\ UNCHANGED <<head, dsn, conn, notice, pumpVars, wake, listenVars, closing, age>>

\* Mutant: the pump is not woken for what came before.
TrustSilently ==
    /\ listen = "probing" /\ probe = "sent" /\ conn = "live"
    /\ listen' = "listening" /\ listening' = TRUE /\ lbackoff' = 1
    /\ probe' = "none"
    /\ UNCHANGED <<head, dsn, conn, notice, faults, pumpVars, wake, ltimer, closing, age>>

\* Heard in time: now the pump may wait for long.
Trust ==
    /\ listen = "probing" /\ probe = "sent" /\ conn = "live"
    /\ listen' = "listening" /\ listening' = TRUE /\ lbackoff' = 1
    /\ wake' = TRUE
    /\ probe' = "none"
    /\ UNCHANGED <<head, dsn, conn, notice, faults, pumpVars, ltimer, closing, age>>

\* Not heard: the connection stays open while the task sleeps.
Distrust ==
    /\ listen = "probing" /\ ltimer = 0 /\ ~ (probe = "sent" /\ conn = "live")
    /\ listen' = "napping" /\ ltimer' = Retry
    /\ probe' = "none"
    /\ UNCHANGED <<head, dsn, conn, notice, faults, pumpVars, wake, lbackoff, listening,
                   closing, age>>

\* Mutant: the flag stays.
KeepFlag == conn' = "none" /\ notice' = FALSE /\ probe' = "none" /\ UNCHANGED listening

\* `finally`: the connection is closed, and a NOTIFY on its way is lost.
Release == conn' = "none" /\ notice' = FALSE /\ probe' = "none" /\ listening' = FALSE

\* `continue` after the sleep: no backoff.
Again ==
    /\ listen = "napping" /\ ltimer = 0
    /\ listen' = "connecting" /\ Release
    /\ UNCHANGED <<head, dsn, faults, pumpVars, wake, ltimer, lbackoff, closing, age>>

\* connect, add_listener or pg_notify raises, or the connection is lost.
ListenError ==
    /\ \/ listen \in {"connecting", "asking"} /\ Fault
       \/ listen = "listening" /\ conn = "broken" /\ UNCHANGED faults
    /\ listen' = "sleeping" /\ ltimer' = lbackoff /\ lbackoff' = Double(lbackoff)
    /\ Release
    /\ UNCHANGED <<head, dsn, pumpVars, wake, closing, age>>

Reconnect ==
    /\ listen = "sleeping" /\ ltimer = 0 /\ listen' = "connecting"
    /\ UNCHANGED <<network, faults, pumpVars, wake, ltimer, lbackoff, listening, closing, age>>

-----------------------------------------------------------------------------
(* close(), and time *)

Close ==
    /\ ~ closing /\ closing' = TRUE
    /\ UNCHANGED <<network, faults, pumpVars, wake, listenVars, age>>

\* The cancellation reaches a task wherever it waits.
EndPump ==
    /\ closing /\ pump # "off" /\ pump' = "off"
    /\ UNCHANGED <<network, faults, timer, backoff, cursor, trusted, wake, listenVars,
                   closing, age>>

EndListen ==
    /\ closing /\ listen # "off" /\ listen' = "off" /\ Release
    /\ UNCHANGED <<head, dsn, faults, pumpVars, wake, ltimer, lbackoff, closing, age>>

PumpStep == Fetch \/ PumpRetry \/ Wait \/ Wake \/ EndPump
ListenStep == Connect \/ Ask \/ Trust \/ Distrust \/ Again \/ Reconnect \/ EndListen \/ ListenError

\* Nobody has anything to do but wait.
Idle ==
    /\ ~ notice
    /\ pump \in {"waiting", "failing"} => timer > 0
    /\ pump = "waiting" => ~ wake
    /\ pump \notin {"draining", "drained"}
    /\ listen \in {"off", "listening"} \/ (listen \in {"probing", "napping", "sleeping"} /\ ltimer > 0)
    /\ ~ (listen = "probing" /\ probe = "sent" /\ conn = "live")
    /\ ~ (listen = "listening" /\ conn = "broken")
    /\ closing => pump = "off" /\ listen = "off"

Tick ==
    /\ Idle /\ ~ closing
    /\ timer' = Max({1, timer}) - 1 /\ ltimer' = Max({1, ltimer}) - 1
    /\ age' = IF cursor < head THEN Min({age + 1, Long + 1}) ELSE 0
    /\ UNCHANGED <<network, faults, pump, backoff, cursor, trusted, wake, listen, lbackoff,
                   listening, closing>>

Next ==
    \/ Publish \/ Hear \/ Break \/ ProbeLate
    \/ PumpStep \/ PumpError
    \/ ListenStep
    \/ Close \/ Tick

\* The loop runs, the calls to the database end, time passes.
Fairness ==
    /\ WF_vars(PumpStep) /\ WF_vars(ListenStep)
    /\ WF_vars(Hear) /\ WF_vars(Tick)

Spec == Init /\ [][Next]_vars /\ Fairness

-----------------------------------------------------------------------------
(* Properties *)

TypeOK ==
    /\ head \in 0..MaxSeq /\ cursor \in 0..head
    /\ dsn \in {"none", "session", "pooler"}
    /\ conn \in {"none", "live", "deaf", "broken", "dead"}
    /\ notice \in BOOLEAN /\ probe \in {"none", "sent"}
    /\ faults \in 0..MaxFaults
    /\ pump \in {"draining", "drained", "waiting", "failing", "off"}
    /\ timer \in 0..Max({Long, MaxBackoff}) /\ backoff \in 1..MaxBackoff
    /\ listen \in {"off", "connecting", "asking", "probing", "napping", "listening", "sleeping"}
    /\ ltimer \in 0..Max({Probe, Retry, MaxBackoff}) /\ lbackoff \in 1..MaxBackoff
    /\ {wake, listening, closing, trusted} \subseteq BOOLEAN
    /\ age \in 0..(Long + 1)
    /\ notice => conn = "live"

\* An event is fetched at once if a LISTEN connection hears; within the poll
\* interval if the pump had none to trust, or one that turned out to be deaf;
\* and within the long wait in any case, even when the connection dies
\* unnoticed or a NOTIFY is lost with it.  Only a database that does not
\* answer makes it wait longer.
NoticedInTime ==
    Idle /\ pump = "waiting" =>
        /\ listening /\ conn = "live" => cursor = head
        /\ cursor < head => age <= IF trusted THEN Long ELSE Short

\* However often a connection is lost, deaf or late, the tasks end up, once
\* nothing more goes wrong, with every event fetched and with a connection
\* that is trusted if it can be; or both tasks have ended, and the
\* connection is closed, if the bus is.
SettlesDown ==
    <>[]( /\ closing => pump = "off" /\ listen = "off" /\ conn = "none"
          /\ ~ closing =>
                /\ cursor = head
                /\ dsn = "session" => listening /\ conn \in {"live", "dead"}
                /\ dsn # "session" => ~ listening )

=============================================================================
