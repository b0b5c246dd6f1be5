\* The write of the head of a response can raise.
CONSTANTS
    h1 = h1
    w1 = w1
    t1 = t1
    Sse = {h1}
    Ws = {w1}
    MaxConnections = 1
    Topic = t1
    Ids <- MCOneId
    Hidden <- MCOneHidden
    HeadWriteFails = TRUE

SPECIFICATION Spec
CHECK_DEADLOCK FALSE

INVARIANTS
    SlotsCounted
