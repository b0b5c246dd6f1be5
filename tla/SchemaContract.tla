--------------------------- MODULE SchemaContract ---------------------------
(***************************************************************************)
(* What src/adapters/persistence/migrations.py promises of the schema.  A  *)
(* program is admitted to the database only while every migration of its   *)
(* own is in the schema, unchanged; the schema moves to it in one step,    *)
(* never by part of a batch, and never loses or rewrites a migration.      *)
(***************************************************************************)
CONSTANTS
    Programs,   \* the processes that use the database
    Codes       \* the sets of <<version, text>> their releases come with

VARIABLES
    schema,     \* the migrations in effect
    admitted    \* what each admitted program was admitted with

NoneAdmitted == [p \in Programs |-> {}]

Init == schema = {} /\ admitted = NoneAdmitted

\* Two texts for one version exclude one another.
Agree(code) == \A f, g \in schema \cup code : f[1] = g[1] => f = g

Migrate(code) ==
    /\ Agree(code)
    /\ schema' = schema \cup code

Admit(p, code) ==
    /\ code \subseteq schema'
    /\ admitted' = [admitted EXCEPT ![p] = code]

Dismiss(p) == admitted' = [admitted EXCEPT ![p] = {}] /\ UNCHANGED schema

Next ==
    \E p \in Programs :
        \/ \E code \in Codes :
              \/ Migrate(code) /\ Admit(p, code)
              \/ Migrate(code) /\ UNCHANGED admitted
              \/ UNCHANGED schema /\ Admit(p, code)
        \/ Dismiss(p)

Spec == Init /\ [][Next]_<<schema, admitted>>

=============================================================================
