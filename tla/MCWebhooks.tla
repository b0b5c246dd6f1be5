----------------------------- MODULE MCWebhooks -----------------------------
(* Small instances of Webhooks for TLC: one id that is sent again and again *)
(* and one that is sent once or twice.                                      *)
EXTENDS Webhooks, TLC

CONSTANTS d1, d2, d3, d4, d5, i1, i2

MCIdOf == [d \in Deliveries |-> IF d \in {d1, d2, d3, d4} THEN i1 ELSE i2]

\* The tries of one id may be exchanged.
Symmetry == Permutations({d1, d2, d3, d4})

\* Every answer there is, and two with more than one fault.
MCFaults == {{}, {"size", "signature"}, {"signature", "payload"}} \cup {{c} : c \in Checks}

=============================================================================
