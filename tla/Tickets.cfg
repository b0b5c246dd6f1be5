\* Two containers, three users for two buckets, and either five requests for
\* tickets or two handshakes with fewer.  It stops when these are used up.
CONSTANTS
    c1 = c1
    c2 = c2
    db = db
    u1 = u1
    u2 = u2
    u3 = u3
    Limiters = {c1, c2}
    Keys = {u1, u2, u3}
    Database = db
    Scopes <- MCScopes
    Skew <- MCSkew
    Burst = 2
    Rate = 2
    Unit = 3
    MaxKeys = 2
    Ttl = 2
    PruneEvery = 2
    Bounds <- MCBounds
    MaxTime = 4

SPECIFICATION Spec
CHECK_DEADLOCK FALSE

INVARIANTS
    TypeOK
    LimitIsKept
    OneConnection
