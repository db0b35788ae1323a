\* Two publishes, an agent on each replica, an operator who looks, one fault.
SPECIFICATION Spec

CONSTANTS
    r1 = r1
    r2 = r2
    a1 = a1
    a2 = a2
    o1 = o1
    p1 = p1
    p2 = p2
    Nobody = Nobody
    Replicas = {r1, r2}
    Readers = {a1, a2}
    Refreshers = {o1}
    Publishers = {p1, p2}
    Home <- PublishedOnFirst
    Interval = 1
    MaxFaults = 1

INVARIANTS
    TypeOK

PROPERTIES
    NeverGoesBack
    RefreshIsCurrent
    Converges
