\* One call, two resumes and an operator on two replicas, a crash or an abort.
SPECIFICATION Spec

\* Every call may end refused or answered, with nothing left to do.
CHECK_DEADLOCK FALSE

CONSTANTS
    c1 = c1
    c2 = c2
    x1 = x1
    x2 = x2
    o1 = o1
    o2 = o2
    r1 = r1
    r2 = r2
    a1 = a1
    a2 = a2
    None = None
    Tickets = {c1}
    Args = {a1}
    Resumes = {x1, x2}
    Operators = {o1}
    Replicas = {r1, r2}
    Home <- Spread
    Grants = {"auto", "interactive", "async", None}
    Faults = {"crash", "abort"}
    MaxFaults = 1

INVARIANTS
    TypeOK
    AtMostOnce
    DeniedNeverRuns
    AnswersAgree
    NoLostWakeup

PROPERTIES
    LifeSpec
    VerdictsReachTheLog
