\* Calls and listings that share the sessions of two upstreams.
SPECIFICATION Spec

CONSTANTS
    u1 = u1
    u2 = u2
    c1 = c1
    c2 = c2
    l1 = l1
    l2 = l2
    Nobody = Nobody
    Targets <- BothTargets
    Callers = {c1}
    Target <- FirstTarget
    Listers = {l1, l2}
    MaxSessions = 2

INVARIANTS
    TypeOK
    NoSessionLeaks
    WholeListing

PROPERTIES
    CallsEnd
