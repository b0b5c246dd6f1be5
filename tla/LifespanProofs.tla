--------------------------- MODULE LifespanProofs ---------------------------
(***************************************************************************)
(* Proofs about Migrations and Lifespan for any number of programs,        *)
(* releases and starts and any migration directories: schema_migrations    *)
(* records what took effect, and a release's migrations go into the schema *)
(* as a whole; every lifespan uses the database as Migrations allows,      *)
(* serves on its schema, and leaves nothing that outlives its pool.        *)
(***************************************************************************)
EXTENDS Lifespan, WellFoundedInduction, SequenceTheorems, TLAPS

-----------------------------------------------------------------------------
(* Migrations *)

InTransaction == {"batch", "record"}

\* Only the holder of the lock has a transaction that did anything.
IdleInv(p) ==
    at[p] \notin InTransaction =>
        todo[p] = {} /\ executed[p] = <<>> /\ recorded[p] = {}

\* A program that was not refused came with a directory without two files
\* for one version.
FilesInv(p) ==
    at[p] \notin {"off", "refused"} => files[p] \in Codes /\ WellFormed(files[p])

\* What a transaction executed, recorded and has still to do are the files
\* of its release that the table does not have; it goes up in version, and
\* only the file executed last may wait for its record.
BatchInv(p) ==
    LET ex == executed[p] IN
    at[p] \in InTransaction =>
        /\ todo[p] \cup recorded[p] \subseteq files[p]
        /\ files[p] \subseteq rows \cup recorded[p] \cup todo[p]
        /\ \A f \in todo[p] \cup recorded[p] : f[1] \notin Versions(rows)
        /\ \A i, j \in 1..Len(ex) : i < j => ex[i][1] < ex[j][1]
        /\ at[p] = "batch" =>
              /\ recorded[p] = {ex[i] : i \in 1..Len(ex)}
              /\ \A f \in todo[p] : \A i \in 1..Len(ex) : ex[i][1] < f[1]
        /\ at[p] = "record" =>
              /\ ex # <<>> /\ Last(ex) \in todo[p]
              /\ recorded[p] \cup {Last(ex)} = {ex[i] : i \in 1..Len(ex)}
              /\ \A f \in todo[p] \ {Last(ex)} : \A i \in 1..Len(ex) : ex[i][1] < f[1]

\* Whoever was admitted finds its files recorded.
AdmittedInv(p) == at[p] = "ready" => files[p] \subseteq rows

\* No version is recorded twice.
RowsUnique == \A f, g \in rows : f[1] = g[1] => f = g

Own(p) == IdleInv(p) /\ FilesInv(p) /\ BatchInv(p) /\ AdmittedInv(p)

Batches == RecordedAsApplied /\ RowsUnique /\ \A p \in Programs : Own(p)

-----------------------------------------------------------------------------
\* Of the files of a directory one has the lowest version.
LEMMA FirstIsLeast ==
    ASSUME NEW fs, fs # {}, Versions(fs) \subseteq Nat
    PROVE  First(fs) \in fs /\ \A g \in fs : First(fs)[1] <= g[1]
<1>1. Versions(fs) # {}
  BY DEF Versions
<1>2. PICK v \in Versions(fs) : \A y \in Versions(fs) : ~ (<<y, v>> \in OpToRel(<, Nat))
  BY <1>1, NatLessThanWellFounded, WFMin
<1>3. PICK f \in fs : f[1] = v
  BY DEF Versions
<1>4. ASSUME NEW g \in fs PROVE f[1] <= g[1]
  <2>1. g[1] \in Versions(fs) /\ g[1] \in Nat /\ v \in Nat
    BY DEF Versions
  <2>2. ~ (g[1] < v)
    BY <1>2, <2>1 DEF OpToRel
  <2> QED BY <1>3, <2>1, <2>2
<1>5. \E h \in fs : \A g \in fs : h[1] <= g[1]
  BY <1>4
<1> QED BY <1>5 DEF First

\* A file has a version.
LEMMA VersionsNat ==
    ASSUME MigrationsAssumption, NEW f \in UNION Codes
    PROVE  f[1] \in Nat
BY DEF MigrationsAssumption, Versions

\* The last of the files executed is the one appended.
LEMMA LastAppended ==
    ASSUME NEW S, NEW q \in Seq(S), NEW x \in S
    PROVE  /\ Append(q, x) \in Seq(S) /\ Append(q, x) # <<>> /\ Last(Append(q, x)) = x
           /\ Len(q) \in Nat /\ Len(Append(q, x)) = Len(q) + 1
           /\ Append(q, x)[Len(q) + 1] = x
           /\ \A i \in 1..Len(q) : Append(q, x)[i] = q[i]
           /\ \A i \in 1..Len(Append(q, x)) : i \in 1..Len(q) \/ i = Len(q) + 1
<1>1. Len(q) \in Nat
  BY LenProperties
<1>2. Append(q, x) \in Seq(S) /\ Append(q, x) # <<>> /\ Len(Append(q, x)) = Len(q) + 1
      /\ \A i \in 1..Len(q) : Append(q, x)[i] = q[i]
      /\ Append(q, x)[Len(q) + 1] = x
  BY AppendProperties
<1>3. Last(Append(q, x)) = x
  BY <1>2 DEF Last
<1>4. \A i \in 1..Len(Append(q, x)) : i \in 1..Len(q) \/ i = Len(q) + 1
  BY <1>1, <1>2
<1> QED BY <1>1, <1>2, <1>3, <1>4

-----------------------------------------------------------------------------
(* Types *)

\* A step keeps the types.
LEMMA SchemaTypeStep ==
    ASSUME MigrationsAssumption, SchemaTypeOK, Batches, [SchemaNext]_schemaVars
    PROVE  SchemaTypeOK'
<1> DEFINE Files == UNION Codes
<1> USE MigrationsAssumption
<1>1. /\ history \in Seq(Seq(Files)) /\ rows \subseteq Files /\ lock \in Programs \cup {Nobody}
      /\ at \in [Programs -> Places] /\ files \in [Programs -> Codes \cup {{}}]
      /\ todo \in [Programs -> SUBSET Files] /\ executed \in [Programs -> Seq(Files)]
      /\ recorded \in [Programs -> SUBSET Files]
      /\ \A p \in Programs : lock = p <=> at[p] \in {"batch", "record"}
  BY DEF SchemaTypeOK
<1>2. ASSUME NEW p \in Programs, EndTransaction(p)
      PROVE  /\ lock' \in Programs \cup {Nobody}
             /\ todo' \in [Programs -> SUBSET Files] /\ executed' \in [Programs -> Seq(Files)]
             /\ recorded' \in [Programs -> SUBSET Files]
             /\ \A q \in Programs : lock' = q <=> lock = q /\ q # p
  <2>1. <<>> \in Seq(Files)
    OBVIOUS
  <2> QED BY <1>1, <1>2, <2>1 DEF EndTransaction, MigrationsAssumption
<1>3. ASSUME NEW p \in Programs, NEW fs \in Codes, NEW auto \in BOOLEAN, Boot(p, fs, auto)
      PROVE  SchemaTypeOK'
  BY <1>1, <1>3 DEF Boot, Move, database, transaction, SchemaTypeOK, Places
<1>4. ASSUME NEW p \in Programs, Begin(p) PROVE SchemaTypeOK'
  <2>1. Pending(p) \in SUBSET Files
    BY <1>1 DEF Pending
  <2> QED BY <1>1, <1>4, <2>1
          DEF Begin, BeginUnlocked, Move, database, SchemaTypeOK, Places, MigrationsAssumption
<1>5. ASSUME NEW p \in Programs, RefuseDrift(p) \/ LockTimeout(p) \/ Verify(p)
      PROVE  SchemaTypeOK'
  BY <1>1, <1>5 DEF RefuseDrift, LockTimeout, Verify, Move, database, transaction, SchemaTypeOK,
                    Places
<1>6. ASSUME NEW p \in Programs, Execute(p) PROVE SchemaTypeOK'
  <2>1. First(todo[p]) \in Files
    <3>1. Versions(todo[p]) \subseteq Nat
      BY <1>1, VersionsNat DEF Versions
    <3> QED BY <1>1, <1>6, <3>1, FirstIsLeast DEF Execute
  <2>2. executed' \in [Programs -> Seq(Files)]
    BY <1>1, <1>6, <2>1 DEF Execute
  <2> QED BY <1>1, <1>6, <2>2 DEF Execute, Move, database, SchemaTypeOK, Places
<1>7. ASSUME NEW p \in Programs, Record(p) PROVE SchemaTypeOK'
  <2>1. Last(executed[p]) \in Files
    BY <1>1, <1>7 DEF Record, Move, Batches, Own, BatchInv, InTransaction
  <2> QED BY <1>1, <1>7, <2>1 DEF Record, Move, database, SchemaTypeOK, Places
<1>8. ASSUME NEW p \in Programs, Fail(p) PROVE SchemaTypeOK'
  BY <1>1, <1>2, <1>8 DEF Fail, Move, database, SchemaTypeOK, Places
<1>9. ASSUME NEW p \in Programs, Commit(p) PROVE SchemaTypeOK'
  <2>1. history' \in Seq(Seq(Files)) /\ rows' \subseteq Files
    BY <1>1, <1>9 DEF Commit
  <2> QED BY <1>1, <1>2, <1>9, <2>1 DEF Commit, Move, SchemaTypeOK, Places
<1>10. ASSUME NEW p \in Programs, Quit(p) PROVE SchemaTypeOK'
  BY <1>1, <1>2, <1>10 DEF Quit, database, SchemaTypeOK, Places
<1>11. CASE UNCHANGED schemaVars
  BY <1>1, <1>11 DEF schemaVars, SchemaTypeOK
<1> QED
  BY <1>3, <1>4, <1>5, <1>6, <1>7, <1>8, <1>9, <1>10, <1>11 DEF SchemaNext, Migrate, RunMigrations

-----------------------------------------------------------------------------
(* What was recorded took effect *)

\* Who is left alone keeps its invariant while the table stays.
LEMMA Undisturbed ==
    ASSUME NEW q, Own(q), rows' = rows, at'[q] = at[q], files'[q] = files[q],
           todo'[q] = todo[q], executed'[q] = executed[q], recorded'[q] = recorded[q]
    PROVE  Own(q)'
BY DEF Own, IdleInv, FilesInv, BatchInv, AdmittedInv, InTransaction, Versions, WellFormed

\* A step that commits nothing has to be looked at for one program only.
LEMMA NothingCommitted ==
    ASSUME Batches, UNCHANGED database, NEW p \in Programs, Own(p)',
           \A q \in Programs \ {p} :
               /\ at'[q] = at[q] /\ files'[q] = files[q] /\ todo'[q] = todo[q]
               /\ executed'[q] = executed[q] /\ recorded'[q] = recorded[q]
    PROVE  Batches'
<1>1. history' = history /\ rows' = rows
  BY DEF database
<1>2. RecordedAsApplied' /\ RowsUnique'
  BY <1>1 DEF Batches, RecordedAsApplied, RowsUnique, InEffect
<1>3. ASSUME NEW q \in Programs PROVE Own(q)'
  BY <1>1, Undisturbed DEF Batches
<1> QED BY <1>2, <1>3 DEF Batches

\* A batch that goes up in version, has no version of the table and is all
\* that is recorded keeps the table true.
LEMMA Appended ==
    ASSUME NEW Files, history \in Seq(Seq(Files)), RecordedAsApplied, RowsUnique,
           NEW ex \in Seq(Files), NEW rec,
           rec = {ex[i] : i \in 1..Len(ex)},
           \A i, j \in 1..Len(ex) : i < j => ex[i][1] < ex[j][1],
           \A f \in rec : f[1] \notin Versions(rows),
           WellFormed(rec),
           history' = Append(history, ex), rows' = rows \cup rec
    PROVE  RecordedAsApplied' /\ RowsUnique'
<1> DEFINE N == Len(history)
<1>1. N \in Nat /\ DOMAIN history = 1..N /\ DOMAIN ex = 1..Len(ex)
  BY LenProperties
<1>2. /\ Len(history') = N + 1 /\ history'[N + 1] = ex
      /\ \A n \in 1..N : history'[n] = history[n]
      /\ history' \in Seq(Seq(Files))
  BY AppendProperties
<1>3. DOMAIN history' = 1..(N + 1)
  BY <1>2, LenProperties
<1>4. \A n \in DOMAIN history' : n \in 1..N \/ n = N + 1
  BY <1>1, <1>3
<1>5. 1..N \subseteq DOMAIN history' /\ N + 1 \in DOMAIN history'
  BY <1>1, <1>3
<1>6. ToSet(ex) = rec
  BY <1>1 DEF ToSet
<1>7. InEffect' = InEffect \cup rec
  <2>1. InEffect' = UNION {ToSet(history'[n]) : n \in DOMAIN history'}
    BY DEF InEffect
  <2>2. \A n \in 1..N : ToSet(history'[n]) = ToSet(history[n])
    BY <1>2
  <2>3. ToSet(history'[N + 1]) = rec
    BY <1>2, <1>6
  <2>4. InEffect = UNION {ToSet(history[n]) : n \in 1..N}
    BY <1>1 DEF InEffect
  <2>5. ASSUME NEW f \in InEffect'
        PROVE  f \in InEffect \cup rec
    <3>1. PICK n \in DOMAIN history' : f \in ToSet(history'[n])
      BY <2>1
    <3>2. CASE n \in 1..N
      BY <2>2, <2>4, <3>1, <3>2
    <3>3. CASE n = N + 1
      BY <2>3, <3>1, <3>3
    <3> QED BY <1>4, <3>2, <3>3
  <2>6. ASSUME NEW f \in InEffect
        PROVE  f \in InEffect'
    <3>1. PICK n \in 1..N : f \in ToSet(history[n])
      BY <2>4
    <3> QED BY <1>5, <2>1, <2>2, <3>1
  <2>7. rec \subseteq InEffect'
    BY <1>5, <2>1, <2>3
  <2> QED BY <2>5, <2>6, <2>7
<1>8. rows' = InEffect'
  BY <1>7 DEF RecordedAsApplied
<1>9. ASSUME NEW n \in DOMAIN history', NEW k \in DOMAIN history', n < k
      PROVE  Versions(ToSet(history'[n])) \cap Versions(ToSet(history'[k])) = {}
  <2>1. n \in 1..N
    BY <1>1, <1>3, <1>9
  <2>2. history'[n] = history[n]
    BY <1>2, <2>1
  <2>3. CASE k \in 1..N
    BY <1>1, <1>2, <1>9, <2>1, <2>2, <2>3 DEF RecordedAsApplied
  <2>4. CASE k = N + 1
    <3>1. ToSet(history'[k]) = rec
      BY <1>2, <1>6, <2>4
    <3>2. ToSet(history[n]) \subseteq rows
      BY <1>1, <2>1 DEF RecordedAsApplied, InEffect
    <3> QED BY <2>2, <3>1, <3>2 DEF Versions
  <2> QED BY <1>4, <2>3, <2>4
<1>10. ASSUME NEW n \in DOMAIN history',
              NEW i \in DOMAIN history'[n], NEW j \in DOMAIN history'[n], i < j
       PROVE  history'[n][i][1] < history'[n][j][1]
  <2>1. CASE n \in 1..N
    BY <1>1, <1>2, <1>10, <2>1 DEF RecordedAsApplied
  <2>2. CASE n = N + 1
    BY <1>1, <1>2, <1>10, <2>2
  <2> QED BY <1>4, <2>1, <2>2
<1>11. RecordedAsApplied'
  BY <1>8, <1>9, <1>10 DEF RecordedAsApplied
<1>12. RowsUnique'
  BY DEF RowsUnique, WellFormed, Versions
<1> QED BY <1>11, <1>12

\* Boot, the verification and the refusals move a program that has no
\* transaction.
LEMMA OutsideStep ==
    ASSUME SchemaTypeOK, Batches, NEW p \in Programs,
           \/ \E fs \in Codes, auto \in BOOLEAN : Boot(p, fs, auto)
           \/ RefuseDrift(p) \/ LockTimeout(p) \/ Verify(p)
    PROVE  Batches'
<1>1. /\ at \in [Programs -> Places] /\ files \in [Programs -> Codes \cup {{}}]
      /\ IdleInv(p) /\ FilesInv(p)
  BY DEF SchemaTypeOK, Batches, Own
<1>2. UNCHANGED <<database, transaction>>
  BY DEF Boot, RefuseDrift, LockTimeout, Verify
<1>3. /\ at'[p] \in {"refused", "lock", "verify", "ready"}
      /\ at[p] \notin InTransaction
      /\ \A q \in Programs \ {p} : at'[q] = at[q] /\ files'[q] = files[q]
  BY <1>1 DEF Boot, RefuseDrift, LockTimeout, Verify, Move, InTransaction
<1>4. at'[p] # "refused" => files'[p] \in Codes /\ WellFormed(files'[p])
  BY <1>1 DEF Boot, RefuseDrift, LockTimeout, Verify, Move, FilesInv
<1>5. at'[p] = "ready" => files'[p] \subseteq rows'
  <2>1. ASSUME at'[p] = "ready" PROVE Verify(p) /\ Problems(p) = {}
    BY <1>1, <2>1 DEF Boot, RefuseDrift, LockTimeout, Verify, Move
  <2> QED BY <1>2, <2>1 DEF Verify, Problems, Pending, Changed, database
<1>6. Own(p)'
  BY <1>1, <1>2, <1>3, <1>4, <1>5
     DEF Own, IdleInv, FilesInv, BatchInv, AdmittedInv, InTransaction, transaction, WellFormed
<1> QED BY <1>2, <1>3, <1>6, NothingCommitted DEF transaction

\* A batch starts with all that is pending.
LEMMA BeginStep ==
    ASSUME SchemaTypeOK, Batches, NEW p \in Programs, Begin(p)
    PROVE  Batches'
<1>1. /\ at \in [Programs -> Places] /\ todo \in [Programs -> SUBSET UNION Codes]
      /\ IdleInv(p) /\ FilesInv(p)
  BY DEF SchemaTypeOK, Batches, Own
<1>2. /\ at[p] = "lock" /\ at'[p] = "batch" /\ Changed(p) = {}
      /\ todo'[p] = Pending(p)
      /\ history' = history /\ rows' = rows
      /\ files' = files /\ executed' = executed /\ recorded' = recorded
      /\ \A q \in Programs \ {p} : at'[q] = at[q] /\ todo'[q] = todo[q]
  BY <1>1 DEF Begin, BeginUnlocked, Move, database
<1>3. /\ executed'[p] = <<>> /\ recorded'[p] = {}
      /\ files'[p] \in Codes /\ WellFormed(files'[p])
  BY <1>1, <1>2 DEF IdleInv, FilesInv, InTransaction
<1>4. files'[p] \subseteq rows \cup todo'[p] /\ todo'[p] \subseteq files'[p]
  BY <1>2 DEF Pending, Changed
<1>5. \A f \in todo'[p] : f[1] \notin Versions(rows)
  BY <1>2 DEF Pending
<1>6. Len(executed'[p]) = 0
  BY <1>3
<1>7. 1..Len(executed'[p]) = {}
  BY <1>6
<1>8. BatchInv(p)'
  BY <1>2, <1>3, <1>4, <1>5, <1>7 DEF BatchInv
<1>9. Own(p)'
  BY <1>2, <1>3, <1>8 DEF Own, IdleInv, FilesInv, AdmittedInv, InTransaction, WellFormed
<1> QED BY <1>2, <1>9, NothingCommitted DEF database

\* The next file to be executed is the lowest of those left.
LEMMA ExecuteStep ==
    ASSUME MigrationsAssumption, SchemaTypeOK, Batches, NEW p \in Programs, Execute(p)
    PROVE  Batches'
<1> DEFINE f == First(todo[p])
           ex == executed[p]
           x == executed'[p]
<1>1. /\ at \in [Programs -> Places] /\ todo[p] \subseteq UNION Codes
      /\ executed \in [Programs -> Seq(UNION Codes)]
      /\ IdleInv(p) /\ FilesInv(p) /\ BatchInv(p)
  BY DEF SchemaTypeOK, Batches, Own
<1>2. /\ at[p] = "batch" /\ at'[p] = "record" /\ todo[p] # {}
      /\ x = Append(ex, f)
      /\ history' = history /\ rows' = rows
      /\ files' = files /\ todo' = todo /\ recorded' = recorded
      /\ \A q \in Programs \ {p} : at'[q] = at[q] /\ executed'[q] = executed[q]
  BY <1>1 DEF Execute, Move, database
<1>3. f \in todo[p] /\ \A g \in todo[p] : f[1] <= g[1]
  <2>1. Versions(todo[p]) \subseteq Nat
    BY <1>1, VersionsNat DEF Versions
  <2> QED BY <1>2, <2>1, FirstIsLeast
<1> HIDE DEF f
<1>4. ex \in Seq(UNION Codes) /\ f \in UNION Codes
  BY <1>1, <1>3
<1> HIDE DEF x, ex
<1>5. /\ x # <<>> /\ Last(x) = f /\ Len(ex) \in Nat /\ Len(x) = Len(ex) + 1
      /\ x[Len(ex) + 1] = f /\ \A i \in 1..Len(ex) : x[i] = ex[i]
      /\ \A i \in 1..Len(x) : i \in 1..Len(ex) \/ i = Len(ex) + 1
  <2>1. x = Append(ex, f)
    BY <1>2
  <2> QED BY <1>4, <2>1, LastAppended
<1>6. /\ todo[p] \cup recorded[p] \subseteq files[p]
      /\ files[p] \subseteq rows \cup recorded[p] \cup todo[p]
      /\ \A g \in todo[p] \cup recorded[p] : g[1] \notin Versions(rows)
      /\ \A i, j \in 1..Len(ex) : i < j => ex[i][1] < ex[j][1]
      /\ recorded[p] = {ex[i] : i \in 1..Len(ex)}
      /\ \A g \in todo[p] : \A i \in 1..Len(ex) : ex[i][1] < g[1]
  BY <1>1, <1>2 DEF BatchInv, InTransaction, ex
<1>7. \A i, j \in 1..Len(x) : i < j => x[i][1] < x[j][1]
  <2> SUFFICES ASSUME NEW i \in 1..Len(x), NEW j \in 1..Len(x), i < j
               PROVE  x[i][1] < x[j][1]
    OBVIOUS
  <2>1. i \in 1..Len(ex)
    BY <1>5
  <2>2. CASE j \in 1..Len(ex)
    BY <1>5, <1>6, <2>1, <2>2
  <2>3. CASE j = Len(ex) + 1
    BY <1>3, <1>5, <1>6, <2>1, <2>3
  <2> QED BY <1>5, <2>2, <2>3
<1>8. recorded[p] \cup {f} = {x[i] : i \in 1..Len(x)}
  <2>1. \A i \in 1..Len(ex) : i \in 1..Len(x)
    BY <1>5
  <2>2. Len(ex) + 1 \in 1..Len(x)
    BY <1>5
  <2> QED BY <1>5, <1>6, <2>1, <2>2
<1>9. \A g \in todo[p] \ {f} : \A i \in 1..Len(x) : x[i][1] < g[1]
  <2> SUFFICES ASSUME NEW g \in todo[p] \ {f}, NEW i \in 1..Len(x)
               PROVE  x[i][1] < g[1]
    OBVIOUS
  <2>1. CASE i \in 1..Len(ex)
    BY <1>5, <1>6, <2>1
  <2>2. CASE i = Len(ex) + 1
    <3>1. f[1] \in Nat /\ g[1] \in Nat
      BY <1>1, <1>3, VersionsNat
    <3>2. f[1] # g[1]
      <4>1. WellFormed(files[p])
        BY <1>1, <1>2 DEF FilesInv
      <4> QED BY <1>3, <1>6, <4>1 DEF WellFormed
    <3> QED BY <1>3, <1>5, <2>2, <3>1, <3>2
  <2> QED BY <1>5, <2>1, <2>2
<1>10. BatchInv(p)'
  <2>1. /\ todo'[p] = todo[p] /\ recorded'[p] = recorded[p] /\ files'[p] = files[p]
        /\ Versions(rows)' = Versions(rows) /\ at'[p] # "batch"
    BY <1>2 DEF Versions
  <2> QED BY <1>2, <1>3, <1>5, <1>6, <1>7, <1>8, <1>9, <2>1 DEF BatchInv, x
<1>11. Own(p)'
  BY <1>1, <1>2, <1>10 DEF Own, IdleInv, FilesInv, AdmittedInv, InTransaction, WellFormed
<1> QED BY <1>2, <1>11, NothingCommitted DEF database

\* The file executed last is recorded.
LEMMA RecordStep ==
    ASSUME SchemaTypeOK, Batches, NEW p \in Programs, Record(p)
    PROVE  Batches'
<1> DEFINE f == Last(executed[p])
<1>1. /\ at \in [Programs -> Places] /\ todo \in [Programs -> SUBSET UNION Codes]
      /\ recorded \in [Programs -> SUBSET UNION Codes]
      /\ IdleInv(p) /\ FilesInv(p) /\ BatchInv(p)
  BY DEF SchemaTypeOK, Batches, Own
<1>2. /\ at[p] = "record" /\ at'[p] = "batch"
      /\ todo'[p] = todo[p] \ {f} /\ recorded'[p] = recorded[p] \cup {f}
      /\ history' = history /\ rows' = rows
      /\ files' = files /\ executed' = executed
      /\ \A q \in Programs \ {p} :
            at'[q] = at[q] /\ todo'[q] = todo[q] /\ recorded'[q] = recorded[q]
  BY <1>1 DEF Record, Move, database
<1> HIDE DEF f
<1>3. /\ todo[p] \cup recorded[p] \subseteq files[p] /\ f \in todo[p]
      /\ files[p] \subseteq rows \cup recorded[p] \cup todo[p]
      /\ \A g \in todo[p] \cup recorded[p] : g[1] \notin Versions(rows)
      /\ \A i, j \in 1..Len(executed[p]) : i < j => executed[p][i][1] < executed[p][j][1]
      /\ recorded[p] \cup {f} = {executed[p][i] : i \in 1..Len(executed[p])}
      /\ \A g \in todo[p] \ {f} : \A i \in 1..Len(executed[p]) : executed[p][i][1] < g[1]
  BY <1>1, <1>2 DEF BatchInv, InTransaction, f
<1>4. /\ todo'[p] \cup recorded'[p] = todo[p] \cup recorded[p]
      /\ Versions(rows)' = Versions(rows) /\ at'[p] # "record"
  BY <1>2, <1>3 DEF Versions
<1>5. BatchInv(p)'
  BY <1>2, <1>3, <1>4 DEF BatchInv
<1>6. Own(p)'
  BY <1>1, <1>2, <1>5 DEF Own, IdleInv, FilesInv, AdmittedInv, InTransaction, WellFormed
<1> QED BY <1>2, <1>6, NothingCommitted DEF database

\* Whoever gives its transaction up leaves nothing of it.
LEMMA GiveUpStep ==
    ASSUME SchemaTypeOK, Batches, NEW p \in Programs, Fail(p) \/ Quit(p)
    PROVE  Batches'
<1>1. /\ at \in [Programs -> Places] /\ files \in [Programs -> Codes \cup {{}}]
      /\ todo \in [Programs -> SUBSET UNION Codes]
      /\ executed \in [Programs -> Seq(UNION Codes)]
      /\ recorded \in [Programs -> SUBSET UNION Codes]
  BY DEF SchemaTypeOK
<1>2. /\ at'[p] \in {"off", "refused"}
      /\ todo'[p] = {} /\ executed'[p] = <<>> /\ recorded'[p] = {}
      /\ UNCHANGED database
      /\ \A q \in Programs \ {p} :
            /\ at'[q] = at[q] /\ files'[q] = files[q] /\ todo'[q] = todo[q]
            /\ executed'[q] = executed[q] /\ recorded'[q] = recorded[q]
  BY <1>1 DEF Fail, Quit, Move, EndTransaction
<1>3. Own(p)'
  BY <1>2 DEF Own, IdleInv, FilesInv, BatchInv, AdmittedInv, InTransaction
<1> QED BY <1>2, <1>3, NothingCommitted

\* A commit brings all that was executed into effect, with its record.
LEMMA CommitStep ==
    ASSUME MigrationsAssumption, SchemaTypeOK, Batches, NEW p \in Programs, Commit(p)
    PROVE  Batches'
<1> DEFINE ex == executed[p]
           rec == recorded[p]
<1>1. /\ history \in Seq(Seq(UNION Codes)) /\ at \in [Programs -> Places]
      /\ todo \in [Programs -> SUBSET UNION Codes]
      /\ executed \in [Programs -> Seq(UNION Codes)]
      /\ recorded \in [Programs -> SUBSET UNION Codes]
      /\ \A q \in Programs : lock = q <=> at[q] \in InTransaction
      /\ RecordedAsApplied /\ RowsUnique
      /\ \A q \in Programs : Own(q)
  BY DEF SchemaTypeOK, Batches, InTransaction
<1>2. /\ at[p] = "batch" /\ at'[p] \in {"ready", "refused"} /\ todo[p] = {}
      /\ history' = IF ex = <<>> THEN history ELSE Append(history, ex)
      /\ rows' = rows \cup rec /\ files' = files
      /\ todo'[p] = {} /\ executed'[p] = <<>> /\ recorded'[p] = {}
      /\ \A q \in Programs \ {p} :
            /\ at'[q] = at[q] /\ todo'[q] = todo[q]
            /\ executed'[q] = executed[q] /\ recorded'[q] = recorded[q]
  BY <1>1 DEF Commit, Move, EndTransaction
<1>3. /\ rec \subseteq files[p] /\ files[p] \subseteq rows \cup rec
      /\ \A f \in rec : f[1] \notin Versions(rows)
      /\ \A i, j \in 1..Len(ex) : i < j => ex[i][1] < ex[j][1]
      /\ rec = {ex[i] : i \in 1..Len(ex)}
  BY <1>1, <1>2 DEF Own, BatchInv, InTransaction
<1>4. files[p] \in Codes /\ WellFormed(files[p])
  BY <1>1, <1>2 DEF Own, FilesInv
<1>5. RecordedAsApplied' /\ RowsUnique'
  <2>1. CASE ex = <<>>
    <3>1. Len(ex) = 0
      BY <2>1
    <3>2. rec = {}
      BY <1>3, <3>1
    <3>3. history' = history /\ rows' = rows
      BY <1>2, <2>1, <3>2
    <3>4. RecordedAsApplied /\ RowsUnique
      BY <1>1
    <3> QED BY <3>3, <3>4 DEF RecordedAsApplied, RowsUnique, InEffect
  <2>2. CASE ex # <<>>
    <3>1. WellFormed(rec)
      BY <1>3, <1>4 DEF WellFormed
    <3>2. ex \in Seq(UNION Codes) /\ history' = Append(history, ex)
      BY <1>1, <1>2, <2>2
    <3> HIDE DEF ex, rec
    <3> QED BY <1>1, <1>2, <1>3, <3>1, <3>2, Appended
  <2> QED BY <2>1, <2>2
<1>6. Own(p)'
  BY <1>2, <1>3, <1>4
     DEF Own, IdleInv, FilesInv, BatchInv, AdmittedInv, InTransaction, WellFormed
<1>7. ASSUME NEW q \in Programs \ {p} PROVE Own(q)'
  <2>1. at[q] \notin InTransaction /\ Own(q)
    BY <1>1, <1>2, <1>7 DEF InTransaction
  <2> QED BY <1>2, <1>7, <2>1
          DEF Own, IdleInv, FilesInv, BatchInv, AdmittedInv, WellFormed
<1> QED BY <1>5, <1>6, <1>7 DEF Batches

\* A step keeps the record true.
LEMMA BatchesStep ==
    ASSUME MigrationsAssumption, SchemaTypeOK, Batches, [SchemaNext]_schemaVars
    PROVE  Batches'
<1>1. CASE UNCHANGED schemaVars
  <2>1. /\ history' = history /\ rows' = rows /\ at' = at /\ files' = files
        /\ todo' = todo /\ executed' = executed /\ recorded' = recorded
    BY <1>1 DEF schemaVars
  <2>2. RecordedAsApplied' /\ RowsUnique'
    BY <2>1 DEF Batches, RecordedAsApplied, RowsUnique, InEffect
  <2>3. ASSUME NEW q \in Programs PROVE Own(q)'
    BY <2>1, Undisturbed DEF Batches
  <2> QED BY <2>2, <2>3 DEF Batches
<1>2. ASSUME NEW p \in Programs, Migrate(p) \/ Quit(p) PROVE Batches'
  BY <1>2, OutsideStep, BeginStep, ExecuteStep, RecordStep, GiveUpStep, CommitStep
     DEF Migrate, RunMigrations
<1>3. ASSUME NEW p \in Programs, NEW fs \in Codes, NEW auto \in BOOLEAN, Boot(p, fs, auto)
      PROVE  Batches'
  BY <1>3, OutsideStep
<1> QED BY <1>1, <1>2, <1>3 DEF SchemaNext

-----------------------------------------------------------------------------
(* Theorems *)

\* The database starts empty.
LEMMA SchemaInitial ==
    ASSUME MigrationsAssumption, SchemaInit
    PROVE  SchemaTypeOK /\ Batches
<1>1. <<>> \in Seq(UNION Codes) /\ <<>> \in Seq(Seq(UNION Codes))
  OBVIOUS
<1>2. SchemaTypeOK
  BY <1>1 DEF SchemaInit, SchemaTypeOK, Places, MigrationsAssumption
<1>3. DOMAIN history = {} /\ rows = {}
  BY DEF SchemaInit
<1>4. RecordedAsApplied /\ RowsUnique
  BY <1>3 DEF RecordedAsApplied, RowsUnique, InEffect
<1>5. ASSUME NEW p \in Programs PROVE Own(p)
  BY DEF SchemaInit, Own, IdleInv, FilesInv, BatchInv, AdmittedInv, InTransaction
<1> QED BY <1>2, <1>4, <1>5 DEF Batches

\* Whatever the programs of any releases do, schema_migrations records what
\* took effect and nothing else, each version once and in order.
THEOREM SchemaInvariant == SchemaSpec => [](SchemaTypeOK /\ Batches)
<1>1. SchemaInit => SchemaTypeOK /\ Batches
  BY SchemaInitial, MigrationsAssumption
<1>2. SchemaTypeOK /\ Batches /\ [SchemaNext]_schemaVars => (SchemaTypeOK /\ Batches)'
  BY SchemaTypeStep, BatchesStep, MigrationsAssumption
<1> QED BY <1>1, <1>2, PTL DEF SchemaSpec

\* Types, for every set of programs and of directories.
THEOREM SchemaTypes == SchemaSpec => []SchemaTypeOK
BY SchemaInvariant, PTL

\* The record is true: whatever took effect is recorded and the reverse, no
\* version takes effect twice, and every batch goes up in version.
THEOREM RecordsAreTrue == SchemaSpec => []RecordedAsApplied
<1>1. Batches => RecordedAsApplied
  BY DEF Batches
<1> QED BY <1>1, SchemaInvariant, PTL

-----------------------------------------------------------------------------
(* The contract *)

\* What a step does to the programs that are admitted.
LEMMA AdmittedStep ==
    ASSUME SchemaTypeOK, NEW p \in Programs,
           \A q \in Programs \ {p} : at'[q] = at[q] /\ files'[q] = files[q]
    PROVE  /\ at'[p] = "ready" => Admitted' = [Admitted EXCEPT ![p] = files'[p]]
           /\ at[p] # "ready" /\ at'[p] # "ready" => Admitted' = Admitted
           /\ at'[p] # "ready" => Admitted' = [Admitted EXCEPT ![p] = {}]
BY DEF SchemaTypeOK, Admitted

\* The initial states are those of the contract.
LEMMA ContractInit == SchemaInit => Contract!Init
<1> SUFFICES ASSUME SchemaInit PROVE Contract!Init
  OBVIOUS
<1>1. InEffect = {}
  <2>1. DOMAIN history = {}
    BY DEF SchemaInit
  <2> QED BY <2>1 DEF InEffect
<1>2. Admitted = [p \in Programs |-> {}]
  BY DEF SchemaInit, Admitted
<1> QED BY <1>1, <1>2 DEF Contract!Init, Contract!NoneAdmitted

\* A commit is a migration of the contract, an admission its Admit, the end of a
\* program its Dismiss; the rest does not show.
LEMMA ContractStep ==
    ASSUME MigrationsAssumption, SchemaTypeOK, Batches, SchemaTypeOK', Batches',
           [SchemaNext]_schemaVars
    PROVE  [Contract!Next]_<<InEffect, Admitted>>
<1>1. /\ at \in [Programs -> Places] /\ files \in [Programs -> Codes \cup {{}}]
      /\ rows = InEffect /\ rows' = InEffect' /\ RowsUnique'
      /\ \A q \in Programs : Own(q)
  BY DEF SchemaTypeOK, Batches, RecordedAsApplied
<1>2. history' = history => InEffect' = InEffect
  BY DEF InEffect
<1>3. CASE UNCHANGED schemaVars
  BY <1>2, <1>3 DEF schemaVars, Admitted
<1>4. ASSUME NEW p \in Programs, Commit(p)
      PROVE  Contract!Next
  <2>1. /\ at[p] = "batch" /\ at'[p] \in {"ready", "refused"} /\ todo[p] = {}
        /\ rows' = rows \cup recorded[p] /\ files' = files
        /\ \A q \in Programs \ {p} : at'[q] = at[q]
    BY <1>1, <1>4 DEF Commit, Move
  <2>2. /\ recorded[p] \subseteq files[p] /\ files[p] \subseteq rows \cup recorded[p]
        /\ files[p] \in Codes
    BY <1>1, <2>1 DEF Own, BatchInv, FilesInv, InTransaction
  <2>3. InEffect' = InEffect \cup files[p]
    BY <1>1, <2>1, <2>2
  <2>4. Contract!Agree(files[p])
    BY <1>1, <2>3 DEF RowsUnique, Contract!Agree
  <2>5. Contract!Migrate(files[p])
    BY <2>3, <2>4 DEF Contract!Migrate
  <2>6. CASE at'[p] = "ready"
    <3>1. Admitted' = [Admitted EXCEPT ![p] = files[p]]
      BY <2>1, <2>6, AdmittedStep
    <3>2. Contract!Admit(p, files[p])
      BY <2>3, <3>1 DEF Contract!Admit
    <3> QED BY <2>2, <2>5, <3>2 DEF Contract!Next
  <2>7. CASE at'[p] = "refused"
    <3>1. Admitted' = Admitted
      BY <2>1, <2>7, AdmittedStep
    <3> QED BY <2>2, <2>5, <3>1 DEF Contract!Next
  <2> QED BY <2>1, <2>6, <2>7
<1>5. ASSUME NEW p \in Programs, Verify(p)
      PROVE  [Contract!Next]_<<InEffect, Admitted>>
  <2>1. /\ at[p] = "verify" /\ at'[p] \in {"ready", "refused"}
        /\ history' = history /\ files' = files /\ rows' = rows
        /\ \A q \in Programs \ {p} : at'[q] = at[q]
    BY <1>1, <1>5 DEF Verify, Move, database
  <2>2. CASE at'[p] = "ready"
    <3>1. Admitted' = [Admitted EXCEPT ![p] = files[p]]
      BY <2>1, <2>2, AdmittedStep
    <3>2. files[p] \in Codes
      BY <1>1, <2>1 DEF Own, FilesInv
    <3>3. files[p] \subseteq InEffect'
      <4>1. Own(p)'
        BY DEF Batches
      <4> QED BY <1>1, <2>1, <2>2, <4>1 DEF Own, AdmittedInv
    <3>4. Contract!Admit(p, files[p])
      BY <3>1, <3>3 DEF Contract!Admit
    <3> QED BY <1>2, <2>1, <3>2, <3>4 DEF Contract!Next
  <2>3. CASE at'[p] = "refused"
    BY <1>2, <2>1, <2>3, AdmittedStep
  <2> QED BY <2>1, <2>2, <2>3
<1>6. ASSUME NEW p \in Programs, Quit(p)
      PROVE  Contract!Next
  <2>1. /\ at'[p] = "off" /\ history' = history
        /\ \A q \in Programs \ {p} : at'[q] = at[q] /\ files'[q] = files[q]
    BY <1>1, <1>6 DEF Quit, database
  <2>2. Contract!Dismiss(p)
    BY <1>2, <2>1, AdmittedStep DEF Contract!Dismiss
  <2> QED BY <2>2 DEF Contract!Next
<1>7. ASSUME NEW p \in Programs,
             \/ Begin(p) \/ RefuseDrift(p) \/ LockTimeout(p)
             \/ Execute(p) \/ Record(p) \/ Fail(p)
             \/ \E fs \in Codes, auto \in BOOLEAN : Boot(p, fs, auto)
      PROVE  UNCHANGED <<InEffect, Admitted>>
  <2>1. /\ at[p] # "ready" /\ at'[p] # "ready" /\ history' = history
        /\ \A q \in Programs \ {p} : at'[q] = at[q] /\ files'[q] = files[q]
    BY <1>1, <1>7 DEF Begin, BeginUnlocked, RefuseDrift, LockTimeout, Execute, Record, Fail, Boot,
                      Move, database
  <2> QED BY <1>2, <2>1, AdmittedStep
<1> QED
  BY <1>3, <1>4, <1>5, <1>6, <1>7 DEF SchemaNext, Migrate, RunMigrations

\* Migrations implements its contract: batches go into effect as a whole, and
\* a release is admitted only to a schema that has all of its migrations.
THEOREM SchemaImplementsContract == SchemaSpec => AtomicBatches
<1>1. SchemaInit => Contract!Init
  BY ContractInit
<1>2. SchemaTypeOK /\ Batches /\ (SchemaTypeOK /\ Batches)' /\ [SchemaNext]_schemaVars
      => [Contract!Next]_<<InEffect, Admitted>>
  BY ContractStep, MigrationsAssumption
<1> QED BY <1>1, <1>2, SchemaInvariant, PTL DEF SchemaSpec, AtomicBatches, Contract!Spec

-----------------------------------------------------------------------------
(* Lifespan *)

\* The pool a process has: deps._pool, or what the shutdown took out of it.
Held(p) == IF stage[p] \in Stopping THEN leaving[p] ELSE pool[p]

ReleaseInv(p) ==
    IF stage[p] = "none"
    THEN release[p] = NoRelease /\ pool[p] = 0 /\ cache[p] = {}
    ELSE release[p] \in Releases /\ starts > 0

PoolInv(p) ==
    /\ stage[p] \in Stopping => pool[p] = 0
    /\ stage[p] \notin Stopping => leaving[p] = 0
    /\ stage[p] = "opening" => pool[p] = 0
    /\ open[p] = {Held(p)} \ {0}
    /\ stage[p] \in {"starting", "wiring", "serving"} /\ NeedsPool(p) => pool[p] # 0

\* An adapter on Postgres is on the pool the process has.
CacheInv(p) ==
    /\ \A o \in cache[p] :
          IF Backend(p, o[1]) = "postgres"
          THEN o = <<o[1], Held(p)>> /\ Held(p) # 0 /\ stage[p] # "closing_pool"
          ELSE o = <<o[1], 0>>
    /\ stage[p] = "serving" =>
          \A f \in Factories : \E o \in cache[p] : o[1] = f

\* A pump runs between the start of the bus and its stop, and its bus is the
\* one in the cache.
PumpInv(p) ==
    /\ \A n \in pumps[p] :
          /\ <<"event_bus", n>> \in cache[p] /\ n = Held(p) /\ n # 0
          /\ stage[p] \in {"wiring", "serving", "stopping_bus"}
    /\ stage[p] \in {"wiring", "serving"} /\ SharedBus(p) => pumps[p] = {pool[p]}
    /\ pumps[p] # {} => SharedBus(p)

\* The process has a session with the database as long as it has a pool, and
\* has migrated when it serves.
SessionInv(p) ==
    /\ at[p] = "off" <=> Held(p) = 0
    /\ at[p] # "off" => files[p] = release[p].files
    /\ stage[p] \in {"down", "starting", "wiring", "serving"} => at[p] \in {"off", "ready"}
    /\ stage[p] \in Stopping => at[p] \in {"off", "ready", "refused"}

LifeInv(p) ==
    ReleaseInv(p) /\ PoolInv(p) /\ CacheInv(p) /\ PumpInv(p) /\ SessionInv(p)

Lives == \A p \in Programs : LifeInv(p)

-----------------------------------------------------------------------------
(* Types *)

\* What a factory builds has the type of the caches.
LEMMA GetType ==
    ASSUME LifeTypeOK, NEW p \in Programs, NEW fs \in SUBSET Factories
    PROVE  Get(p, fs) \in SUBSET (Factories \X (0..MaxStarts))
<1>1. /\ cache[p] \in SUBSET (Factories \X (0..MaxStarts)) /\ pool[p] \in 0..MaxStarts
      /\ 0 \in 0..MaxStarts
  BY LifespanAssumption DEF LifeTypeOK, LifespanAssumption
<1>2. \A f \in Factories : Built(p, f) \in Factories \X (0..MaxStarts)
  BY <1>1 DEF Built
<1> QED BY <1>1, <1>2 DEF Get

\* A step keeps the types.
LEMMA LifeTypeStep ==
    ASSUME LifeTypeOK, Lives, [Next]_vars
    PROVE  LifeTypeOK'
<1>1. /\ release \in [Programs -> Releases \cup {NoRelease}]
      /\ stage \in [Programs -> Starting \cup Stopping \cup {"none", "down", "serving"}]
      /\ starts \in 0..MaxStarts
      /\ pool \in [Programs -> 0..MaxStarts]
      /\ leaving \in [Programs -> 0..MaxStarts]
      /\ open \in [Programs -> SUBSET (1..MaxStarts)]
      /\ cache \in [Programs -> SUBSET (Factories \X (0..MaxStarts))]
      /\ pumps \in [Programs -> SUBSET (1..MaxStarts)]
      /\ MaxStarts \in Nat /\ 0 \in 0..MaxStarts
  BY LifespanAssumption DEF LifeTypeOK, LifespanAssumption
<1>2. ASSUME NEW p \in Programs, NEW r \in Releases, Launch(p, r) PROVE LifeTypeOK'
  BY <1>1, <1>2 DEF Launch, Enter, Set, LifeTypeOK, Starting
<1>3. ASSUME NEW p \in Programs, OpenPool(p) PROVE LifeTypeOK'
  <2>1. starts \in 1..MaxStarts
    BY <1>1, <1>3 DEF OpenPool, Lives, LifeInv, ReleaseInv
  <2> QED BY <1>1, <1>3, <2>1 DEF OpenPool, Enter, Set, LifeTypeOK, Starting
<1>4. ASSUME NEW p \in Programs, TakePool(p) PROVE LifeTypeOK'
  BY <1>1, <1>4 DEF TakePool, Enter, Set, LifeTypeOK, Stopping
<1>5. ASSUME NEW p \in Programs, Migrated(p) PROVE LifeTypeOK'
  BY <1>1, <1>5 DEF Migrated, Enter, Set, LifeTypeOK, Starting
<1>6. ASSUME NEW p \in Programs, StartBus(p) PROVE LifeTypeOK'
  <2>1. /\ stage' \in [Programs -> Starting \cup Stopping \cup {"none", "down", "serving"}]
        /\ UNCHANGED <<release, starts, pool, leaving, open>>
    BY <1>1, <1>6 DEF StartBus, Enter, Starting
  <2>2. Get(p, {"event_bus"}) \in SUBSET (Factories \X (0..MaxStarts))
    BY GetType DEF Factories
  <2>3. cache' \in [Programs -> SUBSET (Factories \X (0..MaxStarts))]
    BY <1>1, <1>6, <2>2 DEF StartBus, Set
  <2>4. pumps' \in [Programs -> SUBSET (1..MaxStarts)]
    <3>1. CASE SharedBus(p)
      <4>1. cache'[p] = Get(p, {"event_bus"})
        BY <1>1, <1>6, <3>1 DEF StartBus, Set
      <4>2. ASSUME NEW o \in cache'[p], o[1] = "event_bus" PROVE o[2] \in 1..MaxStarts
        <5>1. CASE o \in cache[p]
          <6>1. o[2] = Held(p) /\ Held(p) # 0
            BY <1>1, <3>1, <4>2, <5>1 DEF Lives, LifeInv, CacheInv, SharedBus, Backend
          <6> QED BY <1>1, <6>1 DEF Held
        <5>2. CASE o = Built(p, "event_bus") /\ Buildable(p, "event_bus")
          BY <1>1, <3>1, <5>2 DEF Built, Buildable, SharedBus, Backend
        <5> QED BY <4>1, <5>1, <5>2 DEF Get
      <4>3. {o[2] : o \in {q \in cache'[p] : q[1] = "event_bus"}} \in SUBSET (1..MaxStarts)
        BY <4>2
      <4> QED BY <1>1, <1>6, <3>1, <4>3 DEF StartBus, Set
    <3>2. CASE ~ SharedBus(p)
      BY <1>1, <1>6, <3>2 DEF StartBus
    <3> QED BY <3>1, <3>2
  <2> QED BY <1>1, <2>1, <2>3, <2>4 DEF LifeTypeOK
<1>7. ASSUME NEW p \in Programs, InitDependencies(p) PROVE LifeTypeOK'
  BY <1>1, <1>7, GetType DEF InitDependencies, Enter, Set, LifeTypeOK
<1>8. ASSUME NEW p \in Programs, NEW f \in Factories, Use(p, f) PROVE LifeTypeOK'
  BY <1>1, <1>8, GetType DEF Use, Set, LifeTypeOK
<1>9. ASSUME NEW p \in Programs, StopBus(p) PROVE LifeTypeOK'
  BY <1>1, <1>9 DEF StopBus, Enter, Set, LifeTypeOK, Stopping
<1>10. ASSUME NEW p \in Programs, ClearCaches(p) PROVE LifeTypeOK'
  BY <1>1, <1>10 DEF ClearCaches, Enter, Set, LifeTypeOK, Stopping
<1>11. ASSUME NEW p \in Programs, ClosePool(p) PROVE LifeTypeOK'
  BY <1>1, <1>11 DEF ClosePool, Enter, Set, LifeTypeOK
<1>12. ASSUME NEW p \in Programs, Exit(p) PROVE LifeTypeOK'
  BY <1>1, <1>12 DEF Exit, Enter, Set, LifeTypeOK
<1>13. ASSUME UNCHANGED lifeVars PROVE LifeTypeOK'
  BY <1>1, <1>13 DEF lifeVars, LifeTypeOK
<1> QED
  BY <1>2, <1>3, <1>4, <1>5, <1>6, <1>7, <1>8, <1>9, <1>10, <1>11, <1>12, <1>13
     DEF Next, StartUp, CloseResources, Shutdown, MigrationRefused, RefuseMemory, MigrateStep, vars

-----------------------------------------------------------------------------
(* A lifespan is a program of Migrations *)

\* What a lifespan does to the database a program of Migrations may do.
LEMMA IsSchemaStep ==
    ASSUME LifeTypeOK, Lives, [Next]_vars
    PROVE  [SchemaNext]_schemaVars
<1>1. ASSUME NEW p \in Programs, OpenPool(p) PROVE SchemaNext \/ UNCHANGED schemaVars
  <2>1. release[p] \in Releases
    BY <1>1 DEF OpenPool, Lives, LifeInv, ReleaseInv
  <2>2. release[p].files \in Codes /\ release[p].auto \in BOOLEAN
    BY <2>1, LifespanAssumption DEF LifespanAssumption
  <2> QED BY <1>1, <2>2 DEF OpenPool, SchemaNext
<1>2. ASSUME NEW p \in Programs, MigrateStep(p) \/ ClosePool(p) \/ Exit(p)
      PROVE  SchemaNext \/ UNCHANGED schemaVars
  BY <1>2 DEF MigrateStep, ClosePool, Exit, SchemaNext
<1>3. ASSUME NEW p \in Programs,
             \/ \E r \in Releases : Launch(p, r)
             \/ TakePool(p) \/ Migrated(p) \/ StartBus(p) \/ InitDependencies(p)
             \/ StopBus(p) \/ ClearCaches(p)
             \/ \E f \in Factories : Use(p, f)
      PROVE  UNCHANGED schemaVars
  BY <1>3 DEF Launch, TakePool, Migrated, StartBus, InitDependencies, StopBus, ClearCaches, Use
<1>4. CASE UNCHANGED vars
  BY <1>4 DEF vars
<1> QED
  BY <1>1, <1>2, <1>3, <1>4
     DEF Next, StartUp, CloseResources, Shutdown, MigrationRefused, RefuseMemory

-----------------------------------------------------------------------------
(* What a process holds, step by step *)

\* A step leaves a process alone that is not its own.
LeavesAlone(q) ==
    /\ release'[q] = release[q] /\ stage'[q] = stage[q] /\ pool'[q] = pool[q]
    /\ leaving'[q] = leaving[q] /\ open'[q] = open[q] /\ cache'[q] = cache[q]
    /\ pumps'[q] = pumps[q] /\ at'[q] = at[q] /\ files'[q] = files[q]

\* Whoever is left alone keeps its invariant.
LEMMA Alone ==
    ASSUME NEW q, LifeInv(q), LeavesAlone(q), starts' >= starts, starts \in Nat, starts' \in Nat
    PROVE  LifeInv(q)'
<1>1. /\ Held(q)' = Held(q) /\ NeedsPool(q)' = NeedsPool(q) /\ SharedBus(q)' = SharedBus(q)
      /\ \A f \in Factories : Backend(q, f)' = Backend(q, f)
  BY DEF LeavesAlone, Held, NeedsPool, SharedBus, Backend
<1>2. ReleaseInv(q)' /\ PoolInv(q)' /\ SessionInv(q)'
  BY <1>1 DEF LeavesAlone, LifeInv, ReleaseInv, PoolInv, SessionInv
<1>3. CacheInv(q)' /\ PumpInv(q)'
  BY <1>1 DEF LeavesAlone, LifeInv, CacheInv, PumpInv, Backend
<1> QED BY <1>2, <1>3 DEF LifeInv

\* The values of one process.
LEMMA LifeTypes ==
    ASSUME LifeTypeOK, SchemaTypeOK
    PROVE  /\ DOMAIN release = Programs /\ DOMAIN stage = Programs /\ DOMAIN pool = Programs
           /\ DOMAIN leaving = Programs /\ DOMAIN open = Programs /\ DOMAIN cache = Programs
           /\ DOMAIN pumps = Programs /\ DOMAIN at = Programs /\ DOMAIN files = Programs
BY DEF LifeTypeOK, SchemaTypeOK

\* A lifespan that is entered again finds what the last one left.
LEMMA LaunchStep ==
    ASSUME LifeTypeOK, SchemaTypeOK, Lives, NEW p \in Programs, NEW r \in Releases, Launch(p, r)
    PROVE  LifeInv(p)' /\ \A q \in Programs \ {p} : LeavesAlone(q)
<1>1. /\ release'[p] = r /\ starts' = starts + 1 /\ starts \in Nat
      /\ pool' = pool /\ leaving' = leaving /\ open' = open /\ cache' = cache
      /\ pumps' = pumps /\ at' = at /\ files' = files
      /\ stage[p] \in {"none", "down"} /\ (stage[p] = "down" => release[p] = r)
      /\ \/ stage'[p] = "down"
         \/ stage'[p] = "opening" /\ pool[p] = 0
         \/ stage'[p] = "starting" /\ ("postgres" \in {r.store, r.bus} => pool[p] # 0)
      /\ \A q \in Programs \ {p} : release'[q] = release[q] /\ stage'[q] = stage[q]
  BY LifeTypes, LifespanAssumption
     DEF Launch, Enter, Set, schemaVars, LifeTypeOK, LifespanAssumption
<1>2. LifeInv(p)
  BY DEF Lives
<1>3. /\ Held(p) = pool[p] /\ Held(p)' = pool[p] /\ leaving[p] = 0
      /\ open[p] = {pool[p]} \ {0}
  BY <1>1, <1>2 DEF Held, Stopping, LifeInv, PoolInv
<1>4. stage'[p] = "starting" /\ NeedsPool(p)' => pool[p] # 0
  BY <1>1 DEF NeedsPool, Backend
<1>5. ReleaseInv(p)' /\ PoolInv(p)'
  BY <1>1, <1>3, <1>4 DEF ReleaseInv, PoolInv, Stopping
<1>6. pumps[p] = {}
  BY <1>1, <1>2 DEF LifeInv, PumpInv
<1>7. CacheInv(p)' /\ PumpInv(p)'
  <2>1. CASE stage[p] = "none"
    <3>1. cache'[p] = {}
      BY <1>1, <1>2, <2>1 DEF LifeInv, ReleaseInv
    <3> QED BY <1>1, <1>6, <3>1 DEF CacheInv, PumpInv
  <2>2. CASE stage[p] = "down"
    <3>1. release'[p] = release[p]
      BY <1>1, <2>2
    <3> QED BY <1>1, <1>2, <1>3, <1>6, <3>1 DEF LifeInv, CacheInv, PumpInv, Backend
  <2> QED BY <1>1, <2>1, <2>2
<1>8. SessionInv(p)'
  <2>1. at[p] = "off" <=> pool[p] = 0
    BY <1>2, <1>3 DEF LifeInv, SessionInv
  <2>2. at[p] \in {"off", "ready"} /\ (at[p] # "off" => files[p] = r.files)
    BY <1>1, <1>2, <2>1 DEF LifeInv, SessionInv, ReleaseInv
  <2> QED BY <1>1, <1>3, <2>1, <2>2 DEF SessionInv, Stopping
<1> QED BY <1>1, <1>5, <1>7, <1>8 DEF LifeInv, LeavesAlone

\* The pool is the first thing a lifespan holds.
LEMMA OpenPoolStep ==
    ASSUME LifeTypeOK, SchemaTypeOK, Lives, NEW p \in Programs, OpenPool(p)
    PROVE  LifeInv(p)' /\ \A q \in Programs \ {p} : LeavesAlone(q)
<1>1. /\ stage[p] = "opening" /\ release' = release /\ starts' = starts
      /\ leaving' = leaving /\ cache' = cache /\ pumps' = pumps
      /\ \/ /\ stage'[p] = "down" /\ pool' = pool /\ open' = open
            /\ at' = at /\ files' = files
         \/ /\ stage'[p] = "migrating" /\ pool'[p] = starts /\ open'[p] = open[p] \cup {starts}
            /\ at'[p] \in {"refused", "lock", "verify"} /\ files'[p] = release[p].files
            /\ \A q \in Programs \ {p} :
                  /\ pool'[q] = pool[q] /\ open'[q] = open[q]
                  /\ at'[q] = at[q] /\ files'[q] = files[q]
      /\ \A q \in Programs \ {p} : stage'[q] = stage[q]
  BY LifeTypes DEF OpenPool, Enter, Set, schemaVars, Boot, Move
<1>2. LifeInv(p)
  BY DEF Lives
<1>3. /\ pool[p] = 0 /\ leaving[p] = 0 /\ Held(p) = 0 /\ open[p] = {} /\ at[p] = "off"
      /\ pumps[p] = {} /\ starts > 0 /\ starts # 0 /\ release[p] \in Releases
      /\ \A o \in cache[p] : Backend(p, o[1]) # "postgres" /\ o = <<o[1], 0>>
  BY <1>1, <1>2, LifespanAssumption
     DEF LifeInv, PoolInv, SessionInv, PumpInv, ReleaseInv, CacheInv, Held, Stopping, LifeTypeOK,
         LifespanAssumption
<1>4. \A o \in cache'[p] : Backend(p, o[1])' # "postgres" /\ o = <<o[1], 0>>
  BY <1>1, <1>3 DEF Backend
<1>5. CASE stage'[p] = "down"
  BY <1>1, <1>3, <1>4, <1>5
     DEF LifeInv, ReleaseInv, PoolInv, CacheInv, PumpInv, SessionInv, Held, Stopping, LeavesAlone
<1>6. CASE stage'[p] = "migrating"
  BY <1>1, <1>3, <1>4, <1>6
     DEF LifeInv, ReleaseInv, PoolInv, CacheInv, PumpInv, SessionInv, Held, Stopping, LeavesAlone
<1> QED BY <1>1, <1>5, <1>6

\* While it migrates a process has a pool, and nothing is on it yet.
LEMMA MigrateStepStep ==
    ASSUME LifeTypeOK, SchemaTypeOK, Lives, NEW p \in Programs, MigrateStep(p)
    PROVE  LifeInv(p)' /\ \A q \in Programs \ {p} : LeavesAlone(q)
<1>1. /\ stage[p] = "migrating" /\ release' = release /\ stage' = stage /\ starts' = starts
      /\ pool' = pool /\ leaving' = leaving /\ open' = open /\ cache' = cache
      /\ pumps' = pumps /\ files' = files
      /\ at[p] # "off" /\ at'[p] # "off"
      /\ \A q \in Programs \ {p} : at'[q] = at[q]
  BY LifeTypes
     DEF MigrateStep, lifeVars, Migrate, RunMigrations, Begin, BeginUnlocked, RefuseDrift,
         LockTimeout, Execute, Record, Fail, Commit, Verify, Move
<1>2. LifeInv(p)
  BY DEF Lives
<1>3. Held(p)' = Held(p) /\ NeedsPool(p)' = NeedsPool(p) /\ SharedBus(p)' = SharedBus(p)
  BY <1>1 DEF Held, NeedsPool, SharedBus, Backend
<1>4. ReleaseInv(p)' /\ PoolInv(p)' /\ CacheInv(p)' /\ PumpInv(p)'
  BY <1>1, <1>2, <1>3 DEF LifeInv, ReleaseInv, PoolInv, CacheInv, PumpInv, Backend
<1>5. SessionInv(p)'
  BY <1>1, <1>2, <1>3 DEF LifeInv, SessionInv, Stopping
<1> QED BY <1>1, <1>4, <1>5 DEF LifeInv, LeavesAlone

\* The caches are empty when the migration is over.
LEMMA MigratedStep ==
    ASSUME LifeTypeOK, SchemaTypeOK, Lives, NEW p \in Programs, Migrated(p)
    PROVE  LifeInv(p)' /\ \A q \in Programs \ {p} : LeavesAlone(q)
<1>1. /\ stage[p] = "migrating" /\ at[p] = "ready" /\ stage'[p] = "starting" /\ cache'[p] = {}
      /\ release' = release /\ starts' = starts /\ pool' = pool /\ leaving' = leaving
      /\ open' = open /\ pumps' = pumps /\ at' = at /\ files' = files
      /\ \A q \in Programs \ {p} : stage'[q] = stage[q] /\ cache'[q] = cache[q]
  BY LifeTypes DEF Migrated, Enter, Set, schemaVars
<1>2. LifeInv(p)
  BY DEF Lives
<1>3. Held(p) = pool[p] /\ Held(p)' = pool[p] /\ pool[p] # 0 /\ pumps[p] = {}
  BY <1>1, <1>2 DEF Held, Stopping, LifeInv, SessionInv, PumpInv
<1> QED
  BY <1>1, <1>2, <1>3
     DEF LifeInv, ReleaseInv, PoolInv, CacheInv, PumpInv, SessionInv, Stopping, LeavesAlone

\* However the shutdown is entered, the process holds what it held.
LEMMA TakePoolStep ==
    ASSUME LifeTypeOK, SchemaTypeOK, Lives, NEW p \in Programs,
           MigrationRefused(p) \/ RefuseMemory(p) \/ Shutdown(p)
    PROVE  LifeInv(p)' /\ \A q \in Programs \ {p} : LeavesAlone(q)
<1>1. /\ stage[p] \in {"migrating", "wiring", "serving"}
      /\ stage[p] = "migrating" => at[p] = "refused"
      /\ pool'[p] = 0 /\ leaving'[p] = pool[p]
      /\ stage'[p] = IF pool[p] # 0 /\ SharedBus(p) THEN "stopping_bus" ELSE "clearing"
      /\ release' = release /\ starts' = starts /\ open' = open /\ cache' = cache
      /\ pumps' = pumps /\ at' = at /\ files' = files
      /\ \A q \in Programs \ {p} :
            stage'[q] = stage[q] /\ pool'[q] = pool[q] /\ leaving'[q] = leaving[q]
  BY LifeTypes DEF MigrationRefused, RefuseMemory, Shutdown, TakePool, Enter, Set, schemaVars
<1>2. LifeInv(p)
  BY DEF Lives
<1>3. /\ Held(p) = pool[p] /\ Held(p)' = pool[p]
      /\ stage'[p] \in Stopping /\ stage'[p] # "closing_pool"
      /\ stage[p] \notin Stopping
  BY <1>1 DEF Held, Stopping
<1>4. stage'[p] \in {"stopping_bus", "clearing"}
  BY <1>1
<1>5. ReleaseInv(p)' /\ PoolInv(p)' /\ SessionInv(p)'
  BY <1>1, <1>2, <1>3, <1>4 DEF LifeInv, ReleaseInv, PoolInv, SessionInv, Stopping
<1>6. SharedBus(p)' = SharedBus(p) /\ \A f \in STRING : Backend(p, f)' = Backend(p, f)
  BY <1>1 DEF SharedBus, Backend
<1>7. CacheInv(p)'
  BY <1>1, <1>2, <1>3, <1>4 DEF LifeInv, CacheInv, Backend
<1>8. PumpInv(p)'
  <2>1. ASSUME NEW n \in pumps[p] PROVE stage'[p] = "stopping_bus"
    BY <1>1, <1>2, <1>3, <2>1 DEF LifeInv, PumpInv
  <2> QED BY <1>1, <1>2, <1>3, <1>4, <1>6, <2>1 DEF LifeInv, PumpInv
<1> QED BY <1>1, <1>5, <1>7, <1>8 DEF LifeInv, LeavesAlone

\* What the caches hold after a factory was asked.
LEMMA GetIsHeld ==
    ASSUME NEW p \in Programs, LifeInv(p), NEW fs \in SUBSET Factories,
           cache[p] \subseteq Factories \X (0..MaxStarts)
    PROVE  /\ \A o \in Get(p, fs) :
                 IF Backend(p, o[1]) = "postgres"
                 THEN o = <<o[1], Held(p)>> /\ Held(p) # 0
                      /\ (stage[p] # "closing_pool" \/ o \in cache[p])
                 ELSE o = <<o[1], 0>>
           /\ \A f \in fs : Buildable(p, f) => \E o \in Get(p, fs) : o[1] = f
           /\ cache[p] \subseteq Get(p, fs)
<1>1. ASSUME NEW f \in Factories, Buildable(p, f), Backend(p, f) = "postgres"
      PROVE  pool[p] = Held(p) /\ pool[p] # 0 /\ stage[p] # "closing_pool"
  BY <1>1 DEF Buildable, LifeInv, PoolInv, Held, Stopping
<1>2. ASSUME NEW o \in Get(p, fs)
      PROVE  IF Backend(p, o[1]) = "postgres"
             THEN o = <<o[1], Held(p)>> /\ Held(p) # 0
                  /\ (stage[p] # "closing_pool" \/ o \in cache[p])
             ELSE o = <<o[1], 0>>
  <2>1. CASE o \in cache[p]
    BY <2>1 DEF LifeInv, CacheInv
  <2>2. CASE \E f \in fs : Buildable(p, f) /\ o = Built(p, f)
    <3>1. PICK f \in fs : Buildable(p, f) /\ o = Built(p, f)
      BY <2>2
    <3>2. o[1] = f /\ o[2] = (IF Backend(p, f) = "postgres" THEN pool[p] ELSE 0)
      BY <3>1 DEF Built
    <3> QED BY <1>1, <3>1, <3>2 DEF Built
  <2> QED BY <2>1, <2>2 DEF Get
<1>3. ASSUME NEW f \in fs, Buildable(p, f) PROVE \E o \in Get(p, fs) : o[1] = f
  <2>1. CASE Cached(p, f) = {}
    <3>1. Built(p, f) \in Get(p, fs)
      BY <1>3, <2>1 DEF Get
    <3> QED BY <3>1 DEF Built
  <2>2. CASE Cached(p, f) # {}
    BY <2>2 DEF Cached, Get
  <2> QED BY <2>1, <2>2
<1>4. cache[p] \subseteq Get(p, fs)
  BY DEF Get
<1> QED BY <1>2, <1>3, <1>4

\* The bus that starts is on the pool of the process.
LEMMA StartBusStep ==
    ASSUME LifeTypeOK, SchemaTypeOK, Lives, NEW p \in Programs, StartBus(p)
    PROVE  LifeInv(p)' /\ \A q \in Programs \ {p} : LeavesAlone(q)
<1> DEFINE C == Get(p, {"event_bus"})
           P == {o[2] : o \in {q \in C : q[1] = "event_bus"}}
<1>1. /\ stage[p] = "starting"
      /\ release' = release /\ starts' = starts /\ pool' = pool /\ leaving' = leaving
      /\ open' = open /\ at' = at /\ files' = files
      /\ \/ /\ SharedBus(p) /\ cache'[p] = C
            /\ \/ stage'[p] = "wiring" /\ pumps'[p] = pumps[p] \cup P
               \/ stage'[p] = "down" /\ pumps'[p] = pumps[p]
         \/ ~ SharedBus(p) /\ stage'[p] = "wiring" /\ cache'[p] = cache[p] /\ pumps'[p] = pumps[p]
      /\ \A q \in Programs \ {p} :
            stage'[q] = stage[q] /\ cache'[q] = cache[q] /\ pumps'[q] = pumps[q]
  BY LifeTypes DEF StartBus, Enter, Set, schemaVars
<1>2. LifeInv(p)
  BY DEF Lives
<1>3. /\ Held(p) = pool[p] /\ Held(p)' = pool[p] /\ stage'[p] \in {"wiring", "down"}
      /\ pumps[p] = {} /\ (NeedsPool(p) => pool[p] # 0)
  BY <1>1, <1>2 DEF Held, Stopping, LifeInv, PoolInv, PumpInv
<1>4. /\ SharedBus(p)' = SharedBus(p) /\ NeedsPool(p)' = NeedsPool(p)
      /\ SharedBus(p) => pool[p] # 0 /\ Buildable(p, "event_bus")
  BY <1>1, <1>3 DEF SharedBus, NeedsPool, Backend, Buildable, Factories
<1>5. ReleaseInv(p)' /\ PoolInv(p)' /\ SessionInv(p)'
  BY <1>1, <1>2, <1>3, <1>4 DEF LifeInv, ReleaseInv, PoolInv, SessionInv, Stopping
<1>6. cache[p] \subseteq Factories \X (0..MaxStarts)
  BY DEF LifeTypeOK
<1>7. /\ \A o \in C : IF Backend(p, o[1]) = "postgres"
                      THEN o = <<o[1], Held(p)>> /\ Held(p) # 0 ELSE o = <<o[1], 0>>
      /\ SharedBus(p) => \E o \in C : o[1] = "event_bus"
  <2>1. {"event_bus"} \in SUBSET Factories
    BY DEF Factories
  <2> QED BY <1>2, <1>4, <1>6, <2>1, GetIsHeld
<1> HIDE DEF C
<1>8. CacheInv(p)'
  BY <1>1, <1>2, <1>3, <1>7 DEF LifeInv, CacheInv, Backend
<1>9. SharedBus(p) => P = {pool[p]} /\ <<"event_bus", pool[p]>> \in C
  <2> SUFFICES ASSUME SharedBus(p) PROVE P = {pool[p]} /\ <<"event_bus", pool[p]>> \in C
    OBVIOUS
  <2>1. \A o \in C : o[1] = "event_bus" => o = <<"event_bus", pool[p]>>
    BY <1>3, <1>7 DEF Backend, SharedBus
  <2>2. PICK o \in C : o[1] = "event_bus"
    BY <1>7
  <2> QED BY <2>1, <2>2
<1> HIDE DEF P
<1>10. PumpInv(p)'
  BY <1>1, <1>3, <1>4, <1>9 DEF PumpInv
<1> QED BY <1>1, <1>5, <1>8, <1>10 DEF LifeInv, LeavesAlone

\* A factory that is asked leaves the process what it holds; asked for all of
\* them, the process has them all.
LEMMA AskStep ==
    ASSUME LifeTypeOK, SchemaTypeOK, Lives, NEW p \in Programs,
           InitDependencies(p) \/ \E f \in Factories : Use(p, f)
    PROVE  LifeInv(p)' /\ \A q \in Programs \ {p} : LeavesAlone(q)
<1>1. PICK fs \in SUBSET Factories :
         /\ cache'[p] = Get(p, fs)
         /\ \/ stage[p] = "wiring" /\ stage'[p] = "serving" /\ fs = Factories
            \/ stage[p] \in {"serving"} \cup Stopping /\ stage'[p] = stage[p]
  <2>1. CASE InitDependencies(p)
    <3>1. /\ Factories \in SUBSET Factories /\ cache'[p] = Get(p, Factories)
          /\ stage[p] = "wiring" /\ stage'[p] = "serving"
      BY <2>1, LifeTypes DEF InitDependencies, Enter, Set
    <3> QED BY <3>1
  <2>2. ASSUME NEW f \in Factories, Use(p, f)
        PROVE  /\ {f} \in SUBSET Factories /\ cache'[p] = Get(p, {f})
               /\ stage[p] \in {"serving"} \cup Stopping /\ stage'[p] = stage[p]
    BY <2>2, LifeTypes DEF Use, Set
  <2> QED BY <2>1, <2>2
<1>2. /\ release' = release /\ starts' = starts /\ pool' = pool /\ leaving' = leaving
      /\ open' = open /\ pumps' = pumps /\ at' = at /\ files' = files
      /\ \A q \in Programs \ {p} : stage'[q] = stage[q] /\ cache'[q] = cache[q]
  BY LifeTypes DEF InitDependencies, Use, Enter, Set, schemaVars
<1>3. LifeInv(p)
  BY DEF Lives
<1>4. /\ Held(p)' = Held(p) /\ SharedBus(p)' = SharedBus(p) /\ NeedsPool(p)' = NeedsPool(p)
      /\ stage[p] \in Stopping => stage'[p] = stage[p]
  BY <1>1, <1>2 DEF Held, Stopping, SharedBus, NeedsPool, Backend
<1>5. ReleaseInv(p)' /\ PoolInv(p)' /\ SessionInv(p)'
  BY <1>1, <1>2, <1>3, <1>4 DEF LifeInv, ReleaseInv, PoolInv, SessionInv, Stopping
<1>6. /\ \A o \in Get(p, fs) :
            IF Backend(p, o[1]) = "postgres"
            THEN o = <<o[1], Held(p)>> /\ Held(p) # 0
                 /\ (stage[p] # "closing_pool" \/ o \in cache[p])
            ELSE o = <<o[1], 0>>
      /\ \A f \in fs : Buildable(p, f) => \E o \in Get(p, fs) : o[1] = f
      /\ cache[p] \subseteq Get(p, fs)
  BY <1>3, GetIsHeld DEF LifeTypeOK
<1>7. CacheInv(p)'
  <2>1. ASSUME NEW o \in cache'[p], Backend(p, o[1]) = "postgres"
        PROVE  stage'[p] # "closing_pool"
    <3>1. stage[p] # "closing_pool"
      BY <1>1, <1>3, <1>6, <2>1 DEF LifeInv, CacheInv
    <3> QED BY <1>1, <3>1 DEF Stopping
  <2>2. \A o \in cache'[p] :
           IF Backend(p, o[1])' = "postgres"
           THEN o = <<o[1], Held(p)'>> /\ Held(p)' # 0 /\ stage'[p] # "closing_pool"
           ELSE o = <<o[1], 0>>
    BY <1>1, <1>2, <1>4, <1>6, <2>1 DEF Backend
  <2>3. ASSUME stage'[p] = "serving", NEW f \in Factories
        PROVE  \E o \in cache'[p] : o[1] = f
    <3>1. CASE stage[p] = "wiring"
      <4>1. Buildable(p, f)
        BY <1>3, <3>1 DEF Buildable, LifeInv, PoolInv, NeedsPool
      <4> QED BY <1>1, <1>6, <3>1, <4>1 DEF Stopping
    <3>2. CASE stage[p] = "serving"
      BY <1>1, <1>3, <1>6, <3>2 DEF LifeInv, CacheInv
    <3> QED BY <1>1, <2>3, <3>1, <3>2 DEF Stopping
  <2> QED BY <2>2, <2>3 DEF CacheInv
<1>8. PumpInv(p)'
  BY <1>1, <1>2, <1>3, <1>4, <1>6 DEF LifeInv, PumpInv, Stopping
<1> QED BY <1>2, <1>5, <1>7, <1>8 DEF LifeInv, LeavesAlone

\* The bus that stops is the one whose pump runs.
LEMMA StopBusStep ==
    ASSUME LifeTypeOK, SchemaTypeOK, Lives, NEW p \in Programs, StopBus(p)
    PROVE  LifeInv(p)' /\ \A q \in Programs \ {p} : LeavesAlone(q)
<1>1. /\ stage[p] = "stopping_bus" /\ stage'[p] = "clearing"
      /\ pumps'[p] = pumps[p] \ BusPool(p)
      /\ release' = release /\ starts' = starts /\ pool' = pool /\ leaving' = leaving
      /\ open' = open /\ cache' = cache /\ at' = at /\ files' = files
      /\ \A q \in Programs \ {p} : stage'[q] = stage[q] /\ pumps'[q] = pumps[q]
  BY LifeTypes DEF StopBus, Enter, Set, schemaVars
<1>2. LifeInv(p)
  BY DEF Lives
<1>3. pumps'[p] = {}
  <2>1. ASSUME NEW n \in pumps[p] PROVE n \in BusPool(p)
    <3>1. <<"event_bus", n>> \in Cached(p, "event_bus")
      BY <1>2, <2>1 DEF LifeInv, PumpInv, Cached
    <3> QED BY <3>1 DEF BusPool
  <2> QED BY <1>1, <2>1
<1>4. Held(p)' = Held(p)
  BY <1>1 DEF Held, Stopping
<1> QED
  BY <1>1, <1>2, <1>3, <1>4
     DEF LifeInv, ReleaseInv, PoolInv, CacheInv, PumpInv, SessionInv, Backend, Stopping, LeavesAlone

\* Only adapters in memory can be built behind this.
LEMMA ClearCachesStep ==
    ASSUME LifeTypeOK, SchemaTypeOK, Lives, NEW p \in Programs, ClearCaches(p)
    PROVE  LifeInv(p)' /\ \A q \in Programs \ {p} : LeavesAlone(q)
<1>1. /\ stage[p] = "clearing" /\ stage'[p] = "closing_pool" /\ cache'[p] = {}
      /\ release' = release /\ starts' = starts /\ pool' = pool /\ leaving' = leaving
      /\ open' = open /\ pumps' = pumps /\ at' = at /\ files' = files
      /\ \A q \in Programs \ {p} : stage'[q] = stage[q] /\ cache'[q] = cache[q]
  BY LifeTypes DEF ClearCaches, Enter, Set, schemaVars
<1>2. LifeInv(p)
  BY DEF Lives
<1>3. Held(p)' = Held(p) /\ pumps[p] = {}
  BY <1>1, <1>2 DEF Held, Stopping, LifeInv, PumpInv
<1> QED
  BY <1>1, <1>2, <1>3
     DEF LifeInv, ReleaseInv, PoolInv, CacheInv, PumpInv, SessionInv, Stopping, LeavesAlone

\* The pool goes when nothing is on it any more.
LEMMA ClosePoolStep ==
    ASSUME LifeTypeOK, SchemaTypeOK, Lives, NEW p \in Programs, ClosePool(p)
    PROVE  LifeInv(p)' /\ \A q \in Programs \ {p} : LeavesAlone(q)
<1>1. /\ stage[p] = "closing_pool" /\ stage'[p] = "down"
      /\ open'[p] = open[p] \ {leaving[p]} /\ leaving'[p] = 0
      /\ release' = release /\ starts' = starts /\ pool' = pool
      /\ cache' = cache /\ pumps' = pumps
      /\ IF leaving[p] # 0 THEN at'[p] = "off" ELSE at'[p] = at[p]
      /\ \A q \in Programs \ {p} :
            /\ stage'[q] = stage[q] /\ open'[q] = open[q] /\ leaving'[q] = leaving[q]
            /\ at'[q] = at[q] /\ files'[q] = files[q]
  BY LifeTypes DEF ClosePool, Quit, Enter, Set, schemaVars
<1>2. LifeInv(p)
  BY DEF Lives
<1>3. /\ Held(p) = leaving[p] /\ pool[p] = 0 /\ Held(p)' = 0 /\ pumps[p] = {}
      /\ open'[p] = {} /\ at'[p] = "off"
      /\ \A o \in cache[p] : Backend(p, o[1]) # "postgres" /\ o = <<o[1], 0>>
  BY <1>1, <1>2 DEF Held, Stopping, LifeInv, PoolInv, CacheInv, PumpInv, SessionInv
<1>4. \A o \in cache'[p] : Backend(p, o[1])' # "postgres" /\ o = <<o[1], 0>>
  BY <1>1, <1>3 DEF Backend
<1> QED
  BY <1>1, <1>2, <1>3, <1>4
     DEF LifeInv, ReleaseInv, PoolInv, CacheInv, PumpInv, SessionInv, Stopping, LeavesAlone

\* Nothing is left of a process that ends.
LEMMA ExitStep ==
    ASSUME LifeTypeOK, SchemaTypeOK, Lives, NEW p \in Programs, Exit(p)
    PROVE  LifeInv(p)' /\ \A q \in Programs \ {p} : LeavesAlone(q)
<1>1. /\ stage'[p] = "none" /\ release'[p] = NoRelease /\ pool'[p] = 0 /\ leaving'[p] = 0
      /\ open'[p] = {} /\ cache'[p] = {} /\ pumps'[p] = {} /\ at'[p] = "off"
      /\ \A q \in Programs \ {p} : LeavesAlone(q)
  BY LifeTypes DEF Exit, Quit, Enter, Set, LeavesAlone
<1>2. Held(p)' = 0
  BY <1>1 DEF Held, Stopping
<1> QED
  BY <1>1, <1>2 DEF LifeInv, ReleaseInv, PoolInv, CacheInv, PumpInv, SessionInv, Stopping

\* A step keeps what every process holds.
LEMMA LivesStep ==
    ASSUME LifeTypeOK, SchemaTypeOK, Lives, [Next]_vars
    PROVE  Lives'
<1>1. starts \in Nat /\ \A p \in Programs : LifeInv(p)
  BY LifespanAssumption DEF LifeTypeOK, LifespanAssumption, Lives
<1>2. CASE UNCHANGED vars
  <2>1. starts' = starts
    BY <1>2 DEF vars, lifeVars
  <2>2. ASSUME NEW p \in Programs PROVE LeavesAlone(p)
    BY <1>2 DEF vars, lifeVars, schemaVars, LeavesAlone
  <2>3. ASSUME NEW p \in Programs PROVE LifeInv(p)'
    BY <1>1, <2>1, <2>2, Alone
  <2> QED BY <2>3 DEF Lives
<1>3. CASE Next
  <2>1. starts' = starts \/ starts' = starts + 1
    BY <1>3
       DEF Next, Launch, StartUp, OpenPool, MigrateStep, Migrated, MigrationRefused, TakePool,
           StartBus, InitDependencies, RefuseMemory, Use, Shutdown, CloseResources, StopBus,
           ClearCaches, ClosePool, Exit, lifeVars
  <2>2. starts' \in Nat /\ starts' >= starts
    BY <1>1, <2>1
  <2>3. PICK p \in Programs : LifeInv(p)' /\ \A q \in Programs \ {p} : LeavesAlone(q)
    BY <1>3, LaunchStep, OpenPoolStep, MigrateStepStep, MigratedStep, TakePoolStep, StartBusStep,
       AskStep, StopBusStep, ClearCachesStep, ClosePoolStep, ExitStep
       DEF Next, StartUp, CloseResources
  <2>4. ASSUME NEW q \in Programs \ {p} PROVE LifeInv(q)'
    BY <1>1, <2>2, <2>3, Alone
  <2> QED BY <2>3, <2>4 DEF Lives
<1> QED BY <1>2, <1>3

\* At the start there are no processes.
LEMMA LifeInitial ==
    ASSUME Init
    PROVE  LifeTypeOK /\ Lives
<1>1. LifeTypeOK
  BY LifespanAssumption DEF Init, LifeTypeOK, LifespanAssumption
<1>2. ASSUME NEW p \in Programs PROVE LifeInv(p)
  <2>1. /\ release[p] = NoRelease /\ stage[p] = "none" /\ pool[p] = 0 /\ leaving[p] = 0
        /\ open[p] = {} /\ cache[p] = {} /\ pumps[p] = {} /\ at[p] = "off"
    BY DEF Init, SchemaInit
  <2>2. Held(p) = 0
    BY <2>1 DEF Held, Stopping
  <2> QED
    BY <2>1, <2>2
       DEF LifeInv, ReleaseInv, PoolInv, CacheInv, PumpInv, SessionInv, Stopping
<1> QED BY <1>1, <1>2 DEF Lives

-----------------------------------------------------------------------------
(* Theorems *)

\* The inductive invariant of the composition.
THEOREM LifeInvariant == Spec => [](TypeOK /\ Batches /\ Lives)
<1>1. Init => TypeOK /\ Batches /\ Lives
  BY LifeInitial, SchemaInitial, MigrationsAssumption DEF Init, TypeOK
<1>2. TypeOK /\ Batches /\ Lives /\ [Next]_vars => (TypeOK /\ Batches /\ Lives)'
  <2> SUFFICES ASSUME TypeOK, Batches, Lives, [Next]_vars PROVE (TypeOK /\ Batches /\ Lives)'
    OBVIOUS
  <2>1. LifeTypeOK /\ SchemaTypeOK
    BY DEF TypeOK
  <2>2. [SchemaNext]_schemaVars
    BY <2>1, IsSchemaStep
  <2>3. SchemaTypeOK' /\ Batches'
    BY <2>1, <2>2, SchemaTypeStep, BatchesStep, MigrationsAssumption
  <2>4. LifeTypeOK' /\ Lives'
    BY <2>1, LifeTypeStep, LivesStep
  <2> QED BY <2>3, <2>4 DEF TypeOK
<1> QED BY <1>1, <1>2, PTL DEF Spec

\* Types, for every set of processes, releases and directories.
THEOREM LifeTypesHold == Spec => []TypeOK
BY LifeInvariant, PTL

\* A container that runs its lifespan uses the database as a program of
\* Migrations does: migrate_on_startup is all it does to the schema.
THEOREM LifespanMigrates == Spec => SchemaSpec
<1>1. Init => SchemaInit
  BY DEF Init
<1>2. TypeOK /\ Lives /\ [Next]_vars => [SchemaNext]_schemaVars
  BY IsSchemaStep DEF TypeOK
<1> QED BY <1>1, <1>2, LifeInvariant, PTL DEF Spec, SchemaSpec

\* So what schema_migrations records is what took effect, whatever containers
\* start, stop or die.
THEOREM DeploysRecordAsApplied == Spec => []RecordedAsApplied
BY LifespanMigrates, RecordsAreTrue, PTL

\* And every release is admitted to a schema that has all of its migrations.
THEOREM DeploysAreAtomic == Spec => AtomicBatches
BY LifespanMigrates, SchemaImplementsContract, PTL

\* A container that serves has its migrations in the schema, its adapters on
\* the open pool and, on the shared bus, its pump.
THEOREM ServingIsReady == Spec => []ServesOnItsSchema
<1>1. TypeOK /\ Batches /\ Lives => ServesOnItsSchema
  <2> SUFFICES ASSUME TypeOK, Batches, Lives, NEW p \in Programs, stage[p] = "serving"
               PROVE  /\ NeedsPool(p) => release[p].files \subseteq InEffect
                      /\ \A f \in Factories : Cached(p, f) = {Built(p, f)} /\ Buildable(p, f)
                      /\ SharedBus(p) => pumps[p] = {pool[p]}
    BY DEF ServesOnItsSchema
  <2>1. LifeInv(p) /\ Own(p) /\ rows = InEffect
    BY DEF Lives, Batches, RecordedAsApplied
  <2>2. Held(p) = pool[p] /\ (NeedsPool(p) => pool[p] # 0)
    BY <2>1 DEF Held, Stopping, LifeInv, PoolInv
  <2>3. NeedsPool(p) => release[p].files \subseteq InEffect
    BY <2>1, <2>2 DEF LifeInv, SessionInv, Own, AdmittedInv
  <2>4. ASSUME NEW f \in Factories PROVE Cached(p, f) = {Built(p, f)} /\ Buildable(p, f)
    <3>1. Buildable(p, f)
      BY <2>2 DEF Buildable, NeedsPool
    <3>2. \A o \in cache[p] : o[1] = f => o = Built(p, f)
      BY <2>1, <2>2 DEF LifeInv, CacheInv, Built
    <3>3. \E o \in cache[p] : o[1] = f
      BY <2>1 DEF LifeInv, CacheInv
    <3>4. Built(p, f)[1] = f
      BY DEF Built
    <3> QED BY <3>1, <3>2, <3>3, <3>4 DEF Cached
  <2>5. SharedBus(p) => pumps[p] = {pool[p]}
    BY <2>1 DEF LifeInv, PumpInv
  <2> QED BY <2>3, <2>4, <2>5
<1> QED BY <1>1, LifeInvariant, PTL

\* Nothing that is built on a pool, and no pump, session or lock, outlives it.
THEOREM PoolsGoLast == Spec => []NothingOutlivesItsPool
<1>1. TypeOK /\ Batches /\ Lives => NothingOutlivesItsPool
  <2> SUFFICES ASSUME TypeOK, Lives, NEW p \in Programs
               PROVE  /\ pumps[p] \subseteq open[p]
                      /\ stage[p] \notin Stopping => \A o \in cache[p] : o[2] \in open[p] \cup {0}
                      /\ stage[p] \in {"none", "down"} =>
                            /\ pumps[p] = {}
                            /\ open[p] = {pool[p]} \ {0}
                            /\ at[p] # "off" => pool[p] # 0
                            /\ lock # p
    BY DEF NothingOutlivesItsPool
  <2>1. LifeInv(p)
    BY DEF Lives
  <2>2. pumps[p] \subseteq open[p]
    BY <2>1 DEF LifeInv, PumpInv, PoolInv
  <2>3. \A o \in cache[p] : o[2] \in open[p] \cup {0}
    BY <2>1 DEF LifeInv, CacheInv, PoolInv
  <2>4. CASE stage[p] \in {"none", "down"}
    <3>1. Held(p) = pool[p]
      BY <2>4 DEF Held, Stopping
    <3>2. pumps[p] = {} /\ open[p] = {pool[p]} \ {0} /\ (at[p] # "off" => pool[p] # 0)
      BY <2>1, <2>4, <3>1 DEF LifeInv, PumpInv, PoolInv, SessionInv
    <3>3. at[p] \notin {"batch", "record"}
      BY <2>1, <2>4, <3>1 DEF LifeInv, SessionInv, ReleaseInv
    <3>4. lock # p
      BY <3>3 DEF TypeOK, SchemaTypeOK
    <3> QED BY <2>2, <2>3, <3>2, <3>4
  <2> QED BY <2>2, <2>3, <2>4
<1> QED BY <1>1, LifeInvariant, PTL

=============================================================================
