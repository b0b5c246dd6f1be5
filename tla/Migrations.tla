----------------------------- MODULE Migrations -----------------------------
(***************************************************************************)
(* Schema migrations (src/adapters/persistence/migrations.py): programs of *)
(* different releases start together on one database and each applies what *)
(* its release has and the database lacks, in one transaction under an     *)
(* advisory lock, or only verifies that nothing is missing.  A migration   *)
(* file is a pair <<version, text>>; its text stands for its checksum.     *)
(***************************************************************************)
EXTENDS Naturals, Sequences, SequencesExt

CONSTANTS
    Programs,   \* containers, and operators who run scripts/migrate.py
    Codes,      \* the migration directories of the releases
    Nobody

VARIABLES
    (* the database *)
    history,    \* the committed transactions, each the files it executed
    rows,       \* the files recorded in schema_migrations
    lock,       \* the holder of the advisory lock LOCK_KEY
    (* each program, and the transaction it has open *)
    at,         \* how far its startup has come
    files,      \* the migration directory of its release
    todo,       \* the pending migrations it still has to apply
    executed,   \* the files its transaction has executed
    recorded    \* the rows its transaction has inserted

database == <<history, rows>>
transaction == <<todo, executed, recorded>>
schemaVars == <<history, rows, lock, at, files, todo, executed, recorded>>

Places == {"off", "lock", "batch", "record", "verify", "ready", "refused"}

Versions(fs) == {f[1] : f \in fs}

ASSUME MigrationsAssumption ==
    /\ Nobody \notin Programs
    /\ \A fs \in Codes : Versions(fs) \subseteq Nat

SchemaInit ==
    /\ history = <<>> /\ rows = {} /\ lock = Nobody
    /\ at = [p \in Programs |-> "off"]
    /\ files = [p \in Programs |-> {}]
    /\ todo = [p \in Programs |-> {}]
    /\ executed = [p \in Programs |-> <<>>]
    /\ recorded = [p \in Programs |-> {}]

-----------------------------------------------------------------------------
(* Directories and what the database says of them *)

\* discover(): no two files may share a version.
WellFormed(fs) == \A f, g \in fs : f[1] = g[1] => f = g

Pending(p) == {f \in files[p] : f[1] \notin Versions(rows)}
Changed(p) == {f \in files[p] : f[1] \in Versions(rows) /\ f \notin rows}

\* Mutant: verify_up_to_date looks for changed files only.
OnlyChanged(p) == Changed(p)

\* The files status() does not call applied.
Problems(p) == Pending(p) \cup Changed(p)

Move(p, from, to) == at[p] = from /\ at' = [at EXCEPT ![p] = to]

\* The transaction of p is over: rolled back unless the database variables
\* say otherwise, and its advisory lock is released.
EndTransaction(p) ==
    /\ lock' = IF lock = p THEN Nobody ELSE lock
    /\ todo' = [todo EXCEPT ![p] = {}]
    /\ executed' = [executed EXCEPT ![p] = <<>>]
    /\ recorded' = [recorded EXCEPT ![p] = {}]

-----------------------------------------------------------------------------
(* Actions *)

\* migrate_on_startup, AUTO_MIGRATE on or off.
Boot(p, fs, auto) ==
    /\ Move(p, "off", IF ~ WellFormed(fs) THEN "refused"
                      ELSE IF auto THEN "lock" ELSE "verify")
    /\ files' = [files EXCEPT ![p] = fs]
    /\ UNCHANGED <<database, lock, transaction>>

\* Mutant: the batch begins without the advisory lock.
BeginUnlocked(p) ==
    /\ Changed(p) = {}
    /\ Move(p, "lock", "batch")
    /\ lock' = p
    /\ todo' = [todo EXCEPT ![p] = Pending(p)]
    /\ UNCHANGED <<database, files, executed, recorded>>

\* run_migrations gets the lock, reads what is applied and finds no drift ...
Begin(p) == lock = Nobody /\ BeginUnlocked(p)

\* ... or finds a file that was changed after it was applied,
RefuseDrift(p) ==
    /\ lock = Nobody /\ Changed(p) # {}
    /\ Move(p, "lock", "refused")
    /\ UNCHANGED <<database, lock, files, transaction>>

\* ... or waits for the lock longer than lock_timeout.
LockTimeout(p) ==
    /\ lock # Nobody
    /\ Move(p, "lock", "refused")
    /\ UNCHANGED <<database, lock, files, transaction>>

\* Mutant: the newest first.
NewestFirst(fs) == CHOOSE f \in fs : \A g \in fs : g[1] <= f[1]

First(fs) == CHOOSE f \in fs : \A g \in fs : f[1] <= g[1]

\* Mutant: every migration is a transaction of its own, recorded later.
ExecuteAlone(p) ==
    /\ todo[p] # {}
    /\ Move(p, "batch", "record")
    /\ executed' = [executed EXCEPT ![p] = Append(@, First(todo[p]))]
    /\ history' = Append(history, <<First(todo[p])>>)
    /\ UNCHANGED <<rows, lock, files, todo, recorded>>

Execute(p) ==
    /\ todo[p] # {}
    /\ Move(p, "batch", "record")
    /\ executed' = [executed EXCEPT ![p] = Append(@, First(todo[p]))]
    /\ UNCHANGED <<database, lock, files, todo, recorded>>

\* The version is the primary key of schema_migrations: an INSERT waits for
\* another transaction's row and fails on a committed one.
Record(p) ==
    LET f == Last(executed[p]) IN
    /\ Move(p, "record", "batch")
    /\ f[1] \notin Versions(rows \cup UNION {recorded[q] : q \in Programs})
    /\ recorded' = [recorded EXCEPT ![p] = @ \cup {f}]
    /\ todo' = [todo EXCEPT ![p] = @ \ {f}]
    /\ UNCHANGED <<database, lock, files, executed>>

\* A statement fails or times out: everything is rolled back.
Fail(p) ==
    /\ \/ Move(p, "batch", "refused")
       \/ Move(p, "record", "refused")
    /\ EndTransaction(p)
    /\ UNCHANGED <<database, files>>

\* All pending files are applied and the repeatable ones, which leave no
\* record, have run.  The answer to the COMMIT may be lost.
Commit(p) ==
    /\ todo[p] = {}
    /\ Move(p, "batch", "ready") \/ Move(p, "batch", "refused")
    /\ history' = IF executed[p] = <<>> THEN history
                  ELSE Append(history, executed[p])
    /\ rows' = rows \cup recorded[p]
    /\ EndTransaction(p)
    /\ UNCHANGED files

\* verify_up_to_date, in one read and without the lock.
Verify(p) ==
    /\ Move(p, "verify", IF Problems(p) = {} THEN "ready" ELSE "refused")
    /\ UNCHANGED <<database, lock, files, transaction>>

\* The program is done with the database, or dies at any point of it: the
\* server ends its session and rolls back what was open.
Quit(p) ==
    /\ at' = [at EXCEPT ![p] = "off"]
    /\ files' = [files EXCEPT ![p] = {}]
    /\ EndTransaction(p)
    /\ UNCHANGED database

RunMigrations(p) ==
    \/ Begin(p) \/ RefuseDrift(p) \/ LockTimeout(p)
    \/ Execute(p) \/ Record(p) \/ Fail(p) \/ Commit(p)

Migrate(p) == RunMigrations(p) \/ Verify(p)

SchemaNext ==
    \E p \in Programs :
        \/ Migrate(p)
        \/ Quit(p)
        \/ \E fs \in Codes, auto \in BOOLEAN : Boot(p, fs, auto)

SchemaSpec == SchemaInit /\ [][SchemaNext]_schemaVars

-----------------------------------------------------------------------------
(* Properties *)

SchemaTypeOK ==
    LET Files == UNION Codes IN
    /\ history \in Seq(Seq(Files))
    /\ rows \subseteq Files
    /\ lock \in Programs \cup {Nobody}
    /\ at \in [Programs -> Places]
    /\ files \in [Programs -> Codes \cup {{}}]
    /\ todo \in [Programs -> SUBSET Files]
    /\ executed \in [Programs -> Seq(Files)]
    /\ recorded \in [Programs -> SUBSET Files]
    /\ \A p \in Programs : lock = p <=> at[p] \in {"batch", "record"}

InEffect == UNION {ToSet(history[n]) : n \in DOMAIN history}

\* schema_migrations tells what is in the schema: a migration is recorded if
\* and only if it took effect, no version takes effect twice whoever else
\* starts, fails or dies meanwhile, and each batch went up in version.
RecordedAsApplied ==
    /\ rows = InEffect
    /\ \A n, k \in DOMAIN history : n < k =>
          Versions(ToSet(history[n])) \cap Versions(ToSet(history[k])) = {}
    /\ \A n \in DOMAIN history : \A i, j \in DOMAIN history[n] :
          i < j => history[n][i][1] < history[n][j][1]

Admitted == [p \in Programs |-> IF at[p] = "ready" THEN files[p] ELSE {}]

\* Every release sees the contract: batches are atomic, and whoever starts on
\* the schema has all of its migrations there, unchanged, for as long as it
\* runs.
Contract == INSTANCE SchemaContract WITH schema <- InEffect, admitted <- Admitted
AtomicBatches == Contract!Spec

=============================================================================
