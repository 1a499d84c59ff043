SPECIFICATION FairSpec
CONSTANTS
    Requests = {r1}
    Workers = {w1}
    AttemptLimit = 3
    HandOffAuthorised = FALSE
    MaxLeaseRevision = 3
    MaxClaimRevision = 3
    MaxStops = 0
CHECK_DEADLOCK FALSE
PROPERTIES
    RevocationConcludes
