\* Every document of up to two rules, and a call under a few of them.
SPECIFICATION PipelineSpec

\* A behaviour ends with the answer, once the ticket is settled.
CHECK_DEADLOCK FALSE

CONSTANTS
    t1 = t1
    t2 = t2
    u1 = u1
    u2 = u2
    g1 = g1
    None = None
    Owner <- MCOwner
    Agents = {g1}
    Arguments <- MCArguments
    Annotations <- MCAnnotations
    Documents <- MCDocuments
    MaxVersions = 2
    Served <- MCServed
    Requests <- MCRequests
    Edits <- MCEdits
    Extras <- MCExtras

INVARIANTS
    PipelineTypeOK
    GrantedIsListed
    UntrustedClaimsIgnored
    UpstreamGetsWhatWasChecked
    TicketKeepsReferences
    ResultsAreRedacted
