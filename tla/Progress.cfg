SPECIFICATION FairSpec
CONSTANTS
    w1 = w1
    w2 = w2
    Workers = {w1}
    Class = "Experiment"
    Provider = "container"
    MaxAttempts = 2
    LeaseDuration = 2
    ProviderTimeout = 1
    RetryDelay = 1
    OperationBudget = 2
    EligibilityTimes = {20}
    ApiKinds = {"Delete"}
    BusKinds = {}
    MaxClock = 14
    LastCommand = 1
    MaxOperations = 2
    MaxStops = 1
    MaxProviderStep = 5
    MaxLeaseRevision = 1
    Prompt = TRUE
CHECK_DEADLOCK FALSE
PROPERTIES
    OperationTerminates
