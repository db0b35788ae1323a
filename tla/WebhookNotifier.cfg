\* Two tickets, a drain and a stop of the process.
SPECIFICATION Spec

\* Every ticket is delivered or lost in the end.
CHECK_DEADLOCK FALSE

CONSTANTS
    Tickets = {1, 2}
    Attempts = 3
    MaxStops = 1

INVARIANTS
    TypeOK
    AuditTellsTruth

PROPERTIES
    DrainedIsQuiet
    DeliveriesEnd
