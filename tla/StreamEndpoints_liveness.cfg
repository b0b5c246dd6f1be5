\* The same with one event, which is hidden, under fairness.
CONSTANTS
    h1 = h1
    w1 = w1
    t1 = t1
    Sse = {h1}
    Ws = {w1}
    MaxConnections = 1
    Topic = t1
    Ids <- MCOneId
    Hidden <- MCOneHidden
    HeadWriteFails = FALSE

SPECIFICATION FairSpec
CHECK_DEADLOCK FALSE

PROPERTIES
    StreamsEnd
