\* A wait for NOTIFY is three times as long as the poll interval; three
\* faults.  It stops when the bus is closed.
CONSTANTS
    Short = 1
    Long = 3
    Probe = 1
    Retry = 2
    MaxBackoff = 2
    BatchSize = 2
    MaxSeq = 3
    MaxFaults = 3

SPECIFICATION Spec
CHECK_DEADLOCK FALSE

INVARIANTS
    TypeOK
    NoticedInTime
PROPERTIES
    SettlesDown
