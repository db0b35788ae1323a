\* Four tickets, three of them selected, one to a page: each is once a cursor.
SPECIFICATION Spec

\* A walk ends, and every ticket is decided.
CHECK_DEADLOCK FALSE

CONSTANTS
    Tickets = {1, 2, 3, 4}
    ToolOf <- MCToolOf
    AgentOf <- MCAgentOf
    Fold <- MCFold
    OneOf <- MCOneOf
    Queries <- MCQueries
    Anyone = Anyone
    Query <- MCQuery
    MaxPage = 1
    Start = Start
    End = End

INVARIANTS
    TypeOK
    WalkMissesNothing
    OldestFirst
    StoresAgree
