--------------------------- MODULE MCItemRequests ---------------------------
(* Small instances of ItemRequests for TLC. *)
EXTENDS ItemRequests, TLC

CONSTANTS r1, r2, r3, a, b

Do(kind, n) ==
    [kind |-> kind, item |-> r1, name |-> n, limit |-> 1, offset |-> 1,
     token |-> Needed(kind), valid |-> TRUE]

\* One request creates an item, the second is a rival for its name or changes
\* it, and the third changes it too, reads, or is refused.
MCCalls ==
    r1 :> {Do("create", a)} @@
    r2 :> {Do("create", a), Do("update", b)} @@
    r3 :> {Do("create", b), Do("update", b), Do("delete", a), Do("get", a),
           Do("list", a), Do("health", a),
           [Do("list", a) EXCEPT !.token = "write"],
           [Do("delete", a) EXCEPT !.token = "none"],
           [Do("update", a) EXCEPT !.valid = FALSE]}

=============================================================================
