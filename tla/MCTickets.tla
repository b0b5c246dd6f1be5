----------------------------- MODULE MCTickets -----------------------------
(* Small instances of Tickets for TLC. *)
EXTENDS Tickets, TLC

CONSTANTS c1, c2, db, u1, u2, u3

\* u2 reads no webhooks and may write.
MCScopes ==
    u1 :> {"events:read", "items:read", "webhooks:read"} @@
    u2 :> {"events:read", "items:read", "items:write"} @@
    u3 :> {"events:read"}

\* The clock of one container lags behind the others.
MCSkew == c1 :> 0 @@ c2 :> -1 @@ db :> 0

\* Many requests for tickets on one container, or few, and handshakes on both.
MCBounds ==
    {[checks |-> 5, uses |-> 0, on |-> {c1}],
     [checks |-> 2, uses |-> 2, on |-> {c1}],
     [checks |-> 1, uses |-> 2, on |-> {c2}]}

=============================================================================
