SPECIFICATION Spec
CONSTANTS
    Requests = {r1}
    Workers = {w1, w2}
    AttemptLimit = 2
    HandOffAuthorised = TRUE
    MaxLeaseRevision = 3
    MaxClaimRevision = 3
    MaxStops = 1
CHECK_DEADLOCK FALSE
INVARIANTS
    RowsSound EnvironmentCovered ShellKept
PROPERTIES
    LeaseNotRevived
