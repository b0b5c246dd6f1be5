------------------------------ MODULE Lifespan ------------------------------
(***************************************************************************)
(* The life of a container's process: lifespan() in src/main.py over the   *)
(* wiring of src/deps.py.  It validates its configuration, opens the pool, *)
(* migrates or verifies the schema (Migrations), starts the event pump,    *)
(* builds the adapters and serves; then it gives everything back in the    *)
(* opposite order.  Any step can raise, requests ask for adapters while it *)
(* shuts down, the process can die, and it can run the lifespan again.     *)
(***************************************************************************)
EXTENDS Migrations

CONSTANTS
    Releases,   \* what may be deployed: code, backends and environment
    NoRelease,
    MaxStarts   \* bound on the lifespans that are entered

ASSUME LifespanAssumption ==
    /\ MaxStarts \in Nat
    /\ \A r \in Releases : r.files \in Codes /\ r.auto \in BOOLEAN

VARIABLES
    release,    \* what each process runs
    stage,      \* where its lifespan is
    starts,     \* how many lifespans were entered, of all processes
    pool,       \* deps._pool: the pool's number, 0 for None
    leaving,    \* the pool close_resources() took out of deps._pool
    open,       \* the pools that are connected
    cache,      \* the lru_caches: <<factory, number of the pool it is on>>
    pumps       \* the pools on which an event pump runs

lifeVars == <<release, stage, starts, pool, leaving, open, cache, pumps>>
vars == <<schemaVars, lifeVars>>

Factories == {"repository", "event_bus", "webhook_store", "ticket_store"}
Starting == {"opening", "migrating", "starting", "wiring"}
Stopping == {"stopping_bus", "clearing", "closing_pool"}

LifeTypeOK ==
    /\ release \in [Programs -> Releases \cup {NoRelease}]
    /\ stage \in [Programs -> Starting \cup Stopping \cup {"none", "down", "serving"}]
    /\ starts \in 0..MaxStarts
    /\ pool \in [Programs -> 0..MaxStarts]
    /\ leaving \in [Programs -> 0..MaxStarts]
    /\ open \in [Programs -> SUBSET (1..MaxStarts)]
    /\ cache \in [Programs -> SUBSET (Factories \X (0..MaxStarts))]
    /\ pumps \in [Programs -> SUBSET (1..MaxStarts)]

TypeOK == SchemaTypeOK /\ LifeTypeOK

Init ==
    /\ SchemaInit
    /\ release = [p \in Programs |-> NoRelease]
    /\ stage = [p \in Programs |-> "none"]
    /\ starts = 0
    /\ pool = [p \in Programs |-> 0]
    /\ leaving = [p \in Programs |-> 0]
    /\ open = [p \in Programs |-> {}]
    /\ cache = [p \in Programs |-> {}]
    /\ pumps = [p \in Programs |-> {}]

-----------------------------------------------------------------------------
(* Configuration and factories *)

Backend(p, f) == IF f = "repository" THEN release[p].store ELSE release[p].bus
NeedsPool(p) == \E f \in Factories : Backend(p, f) = "postgres"
SharedBus(p) == release[p].bus = "postgres"

\* validate_auth_config(), and the backends' required variables.
AuthValid(r) == r.secret
BackendsValid(r) == "postgres" \in {r.store, r.bus} => r.url
Configured(r) == AuthValid(r) /\ BackendsValid(r)

\* _refuse_memory_in_prod
Refused(r) == r.prod /\ "memory" \in {r.store, r.bus}

Cached(p, f) == {o \in cache[p] : o[1] = f}

\* A factory on Postgres raises while there is no pool, and caches nothing.
Buildable(p, f) == Backend(p, f) = "postgres" => pool[p] # 0

Built(p, f) == <<f, IF Backend(p, f) = "postgres" THEN pool[p] ELSE 0>>

\* The caches after fs were asked for.
Get(p, fs) ==
    cache[p] \cup {Built(p, f) : f \in {g \in fs : Cached(p, g) = {} /\ Buildable(p, g)}}

\* The bus that is cached is on one pool; none if it is not built.
BusPool(p) == {o[2] : o \in Cached(p, "event_bus")}

Enter(p, s) == stage' = [stage EXCEPT ![p] = s]
Set(v, p, x) == [v EXCEPT ![p] = x]

-----------------------------------------------------------------------------
(* lifespan(), up to its yield *)

\* A new process, or lifespan() once more in the same one.
Launch(p, r) ==
    /\ stage[p] \in {"none", "down"} /\ starts < MaxStarts
    /\ stage[p] = "down" => r = release[p]
    /\ release' = Set(release, p, r)
    /\ starts' = starts + 1
    /\ Enter(p, IF ~ Configured(r) THEN "down"
                ELSE IF "postgres" \in {r.store, r.bus} /\ pool[p] = 0 THEN "opening"
                ELSE "starting")
    /\ UNCHANGED <<pool, leaving, open, cache, pumps, schemaVars>>

\* create_pool() may raise.  Then migrate_on_startup().
OpenPool(p) ==
    /\ stage[p] = "opening"
    /\ \/ /\ Enter(p, "down")
          /\ UNCHANGED <<pool, open, schemaVars>>
       \/ /\ Enter(p, "migrating")
          /\ pool' = Set(pool, p, starts)
          /\ open' = Set(open, p, open[p] \cup {starts})
          /\ Boot(p, release[p].files, release[p].auto)
    /\ UNCHANGED <<release, starts, leaving, cache, pumps>>

\* The first step of close_resources(): deps._pool is None from here on.
TakePool(p) ==
    /\ pool' = Set(pool, p, 0)
    /\ leaving' = Set(leaving, p, pool[p])
    /\ Enter(p, IF pool[p] # 0 /\ SharedBus(p) THEN "stopping_bus" ELSE "clearing")
    /\ UNCHANGED <<release, starts, open, cache, pumps, schemaVars>>

Migrated(p) ==
    /\ stage[p] = "migrating" /\ at[p] = "ready"
    /\ cache' = Set(cache, p, {})
    /\ Enter(p, "starting")
    /\ UNCHANGED <<release, starts, pool, leaving, open, pumps, schemaVars>>

MigrationRefused(p) == stage[p] = "migrating" /\ at[p] = "refused" /\ TakePool(p)

\* The bus starts its pump once; start() reads the head of the log first,
\* and if that raises nothing is given back.
StartBus(p) ==
    /\ stage[p] = "starting"
    /\ IF SharedBus(p)
       THEN /\ cache' = Set(cache, p, Get(p, {"event_bus"}))
            /\ \/ /\ Enter(p, "wiring")
                  /\ pumps' = Set(pumps, p, pumps[p] \cup {o[2] : o \in {q \in cache'[p] : q[1] = "event_bus"}})
               \/ Enter(p, "down") /\ UNCHANGED pumps
       ELSE Enter(p, "wiring") /\ UNCHANGED <<cache, pumps>>
    /\ UNCHANGED <<release, starts, pool, leaving, open, schemaVars>>

InitDependencies(p) ==
    /\ stage[p] = "wiring" /\ ~ Refused(release[p])
    /\ cache' = Set(cache, p, Get(p, Factories))
    /\ Enter(p, "serving")
    /\ UNCHANGED <<release, starts, pool, leaving, open, pumps, schemaVars>>

RefuseMemory(p) == stage[p] = "wiring" /\ Refused(release[p]) /\ TakePool(p)

-----------------------------------------------------------------------------
(* Requests, and the way down *)

\* Mutant: the factories outlive their pool.
KeepCaches(p) == stage[p] = "clearing" /\ Enter(p, "closing_pool")
    /\ UNCHANGED <<release, starts, pool, leaving, open, cache, pumps, schemaVars>>

\* A request that is still running asks for an adapter.
Use(p, f) ==
    /\ stage[p] \in {"serving"} \cup Stopping
    /\ cache' = Set(cache, p, Get(p, {f}))
    /\ UNCHANGED <<release, stage, starts, pool, leaving, open, pumps, schemaVars>>

Shutdown(p) == stage[p] = "serving" /\ TakePool(p)

\* Mutant: the pool is closed while its pump runs.
PoolFirst(p) ==
    /\ stage[p] = "stopping_bus"
    /\ open' = Set(open, p, open[p] \ {leaving[p]})
    /\ Enter(p, "clearing")
    /\ UNCHANGED <<release, starts, pool, leaving, cache, pumps, schemaVars>>

\* Mutant: what the factory raises is not swallowed.
StopCachedBus(p) ==
    /\ stage[p] = "stopping_bus"
    /\ BusPool(p) # {}
    /\ pumps' = Set(pumps, p, pumps[p] \ BusPool(p))
    /\ Enter(p, "clearing")
    /\ UNCHANGED <<release, starts, pool, leaving, open, cache, schemaVars>>

\* The bus, if one is cached, stops its pump; without one the factory raises
\* for want of a pool, which close_resources() swallows.
StopBus(p) ==
    /\ stage[p] = "stopping_bus"
    /\ pumps' = Set(pumps, p, pumps[p] \ BusPool(p))
    /\ Enter(p, "clearing")
    /\ UNCHANGED <<release, starts, pool, leaving, open, cache, schemaVars>>

ClearCaches(p) ==
    /\ stage[p] = "clearing"
    /\ cache' = Set(cache, p, {})
    /\ Enter(p, "closing_pool")
    /\ UNCHANGED <<release, starts, pool, leaving, open, pumps, schemaVars>>

ClosePool(p) ==
    /\ stage[p] = "closing_pool"
    /\ open' = Set(open, p, open[p] \ {leaving[p]})
    /\ leaving' = Set(leaving, p, 0)
    /\ IF leaving[p] # 0 THEN Quit(p) ELSE UNCHANGED schemaVars
    /\ Enter(p, "down")
    /\ UNCHANGED <<release, starts, pool, cache, pumps>>

\* The process ends: after its lifespan, or anywhere before that.
Exit(p) ==
    /\ stage[p] # "none"
    /\ Quit(p)
    /\ Enter(p, "none")
    /\ release' = Set(release, p, NoRelease)
    /\ pool' = Set(pool, p, 0) /\ leaving' = Set(leaving, p, 0)
    /\ open' = Set(open, p, {}) /\ cache' = Set(cache, p, {}) /\ pumps' = Set(pumps, p, {})
    /\ UNCHANGED starts

MigrateStep(p) == stage[p] = "migrating" /\ Migrate(p) /\ UNCHANGED lifeVars

StartUp(p) ==
    \/ OpenPool(p) \/ MigrateStep(p) \/ Migrated(p) \/ MigrationRefused(p)
    \/ StartBus(p) \/ InitDependencies(p) \/ RefuseMemory(p)

CloseResources(p) == StopBus(p) \/ ClearCaches(p) \/ ClosePool(p)

Next ==
    \E p \in Programs :
        \/ \E r \in Releases : Launch(p, r)
        \/ StartUp(p)
        \/ \E f \in Factories : Use(p, f)
        \/ Shutdown(p)
        \/ CloseResources(p)
        \/ Exit(p)

\* Startup and shutdown are not abandoned: calls to the database end, if only
\* by a timeout, and the loop runs.
Fairness ==
    \A p \in Programs : WF_vars(StartUp(p)) /\ WF_vars(CloseResources(p))

Spec == Init /\ [][Next]_vars /\ Fairness

-----------------------------------------------------------------------------
(* Properties *)

\* While a container serves, the schema has every migration of its release,
\* unchanged, whatever other releases do; and each factory has built what it
\* is asked for, on the pool that is open.
ServesOnItsSchema ==
    \A p \in Programs : stage[p] = "serving" =>
        /\ NeedsPool(p) => release[p].files \subseteq InEffect
        /\ \A f \in Factories : Cached(p, f) = {Built(p, f)} /\ Buildable(p, f)
        /\ SharedBus(p) => pumps[p] = {pool[p]}

\* What is built on a pool goes before the pool does, on every way out: a
\* failed startup, a request in the middle of the shutdown, a database that
\* does not answer.  No pump runs without its pool, nothing cached outlives
\* it, and a lifespan that is over leaves no pump, pool, session or lock
\* behind.  (A pool whose event bus did not start stays in deps._pool, and is
\* the pool of the next lifespan.)
NothingOutlivesItsPool ==
    \A p \in Programs :
        /\ pumps[p] \subseteq open[p]
        /\ stage[p] \notin Stopping => \A o \in cache[p] : o[2] \in open[p] \cup {0}
        /\ stage[p] \in {"none", "down"} =>
              /\ pumps[p] = {}
              /\ open[p] = {pool[p]} \ {0}
              /\ at[p] # "off" => pool[p] # 0
              /\ lock # p

\* A start ends in service or in a clean refusal, however many others wait
\* for the same lock, and a shutdown ends.
StartsAndStopsEnd ==
    \A p \in Programs :
        stage[p] \in Starting \cup Stopping ~> stage[p] \in {"none", "down", "serving"}

=============================================================================
