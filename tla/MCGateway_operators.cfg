\* Two operators that may edit, the timeout of a waiter and executors that outlive their lease.
SPECIFICATION Spec

\* Every call may end refused or answered, with nothing left to do.
CHECK_DEADLOCK FALSE

CONSTANTS
    c1 = c1
    c2 = c2
    x1 = x1
    x2 = x2
    o1 = o1
    o2 = o2
    r1 = r1
    r2 = r2
    a1 = a1
    a2 = a2
    None = None
    Tickets = {c1}
    Args = {a1, a2}
    Resumes = {x1}
    Operators = {o1, o2}
    Replicas = {r1, r2}
    Home <- Spread
    Grants = {"interactive", "async"}
    Faults = {"slow"}
    MaxFaults = 0

SYMMETRY ArgsSymmetry

INVARIANTS
    ExecutesWhatWasApproved
    EditsAreDisclosed
    RecordedStands
    OneVerdict
