\* One id that is sent up to four times and one that is sent once; anything
\* can fail.  It stops when the sender has no tries left.
CONSTANTS
    d1 = d1  d2 = d2  d3 = d3  d4 = d4  d5 = d5  i1 = i1  i2 = i2
    Ids = {i1, i2}
    Deliveries = {d1, d2, d3, d4, d5}
    IdOf <- MCIdOf
    Faults <- MCFaults

SPECIFICATION Spec
SYMMETRY Symmetry
CHECK_DEADLOCK FALSE

INVARIANTS
    TypeOK
    PublishedOnce
    AcknowledgedIsPublished
