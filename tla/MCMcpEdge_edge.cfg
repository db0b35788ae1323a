\* Four requests of two agents, cancellations, a manager that fails, a shutdown.
SPECIFICATION Spec

\* A behaviour ends with its last request.
CHECK_DEADLOCK FALSE

CONSTANTS
    a1 = a1
    a2 = a2
    r1 = r1
    r2 = r2
    r3 = r3
    r4 = r4
    Agents = {a1, a2}
    AgentOf <- MCAgentOf
    Limit = 2
    MaxMinute = 2
    MaxCount = 4

INVARIANTS
    EdgeTypeOK
    OnlyKnownReasonsBreak
    WithinBudget
PROPERTIES
    EveryoneServed
