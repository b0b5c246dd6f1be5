------------------------- MODULE MCPostgresEventBus -------------------------
(* Small instances of PostgresEventBus for TLC. *)
EXTENDS PostgresEventBus, TLC

CONSTANTS c1, c2, s1, s2, t1, t2

\* Every client subscribes to t1; t2 is there when rows of another topic
\* have to be passed over.
MCTopicOf == [s \in Subs |-> t1]

Symmetry == Permutations(Containers)

=============================================================================
