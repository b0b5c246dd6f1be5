\* An SSE stream and a WebSocket that share one slot; two events, one of them
\* hidden from the users.  It stops when both connections have been used.
CONSTANTS
    h1 = h1
    w1 = w1
    t1 = t1
    Sse = {h1}
    Ws = {w1}
    MaxConnections = 1
    Topic = t1
    Ids <- MCIds
    Hidden <- MCHidden
    HeadWriteFails = FALSE

SPECIFICATION Spec
CHECK_DEADLOCK FALSE

INVARIANTS
    TypeOK
    SlotsCounted
    OneWriter
    NothingSkipped
    NothingLeft
    ReasonIsTrue
