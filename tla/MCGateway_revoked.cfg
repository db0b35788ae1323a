\* The policy stops allowing the tool after its executor died.
SPECIFICATION FairSpec

\* Every call may end refused or answered, with nothing left to do.
CHECK_DEADLOCK FALSE

CONSTANTS
    c1 = c1
    c2 = c2
    x1 = x1
    x2 = x2
    o1 = o1
    o2 = o2
    r1 = r1
    r2 = r2
    a1 = a1
    a2 = a2
    None = None
    Tickets = {c1}
    Args = {a1}
    Resumes = {x1}
    Operators = {o1}
    Replicas = {r1}
    Home <- Together
    Grants = {"interactive", "async", None}
    Faults = {"crash"}
    MaxFaults = 1

PROPERTIES
    ClaimsAreClosed
