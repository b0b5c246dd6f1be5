------------------------- MODULE MCStreamEndpoints -------------------------
(* Small instances of StreamEndpoints for TLC. *)
EXTENDS StreamEndpoints

CONSTANTS h1, w1, t1

\* An event the users do not see and one they do.
MCIds == 1..2
MCHidden == {1}

\* Enough for the liveness of a stream: one event, and no frame for it.
MCOneId == {1}
MCOneHidden == {1}

=============================================================================
