\* Two processes, three lifespans, six releases.  It stops when the lifespans
\* have been used up.
CONSTANTS
    p1 = p1
    p2 = p2
    Programs = {p1, p2}
    Nobody = Nobody
    Codes <- MCCodes
    NoRelease = NoRelease
    Releases <- MCReleases
    MaxStarts = 3

SPECIFICATION Spec
CHECK_DEADLOCK FALSE

INVARIANTS
    TypeOK
    RecordedAsApplied
    ServesOnItsSchema
    NothingOutlivesItsPool
PROPERTIES
    AtomicBatches
    StartsAndStopsEnd
