\* Three requests on one item and two names, each of a few kinds.  It
\* stops when all are answered.
CONSTANTS
    r1 = r1
    r2 = r2
    r3 = r3
    a = a
    b = b
    Requests = {r1, r2, r3}
    Names = {a, b}
    Free = Free
    Calls <- MCCalls

SPECIFICATION Spec
CHECK_DEADLOCK FALSE

INVARIANTS
    TypeOK
    AnswersAreTrue
    EventsFollowWrites
    MetricsAreTrue
