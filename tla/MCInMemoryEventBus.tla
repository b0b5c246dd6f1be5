------------------------- MODULE MCInMemoryEventBus -------------------------
(* Small instances of InMemoryEventBus for TLC. *)
EXTENDS InMemoryEventBus

CONSTANTS s1, s2, t1, t2

\* Both clients follow t1; t2 is there to be passed over.
MCTopicOf == [s \in Subs |-> t1]

=============================================================================
