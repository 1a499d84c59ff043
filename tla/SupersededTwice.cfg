SPECIFICATION Spec
CONSTANTS
    w1 = w1
    w2 = w2
    Workers = {w1, w2}
    Class = "Work"
    Provider = "container"
    MaxAttempts = 2
    LeaseDuration = 2
    ProviderTimeout = 1
    RetryDelay = 1
    OperationBudget = 2
    EligibilityTimes = {2}
    ApiKinds = {}
    BusKinds = {"Delete"}
    MaxClock = 2
    LastCommand = 2
    MaxOperations = 3
    MaxStops = 0
    MaxProviderStep = 3
    MaxLeaseRevision = 2
    Prompt = FALSE
SYMMETRY Permutations2
CHECK_DEADLOCK FALSE
INVARIANTS
    OlderLeasesExpire
