SPECIFICATION RuntimeSpec
CONSTANTS
    Class = "Experiment"
    Provider = "container"
    MaxAttempts = 2
    ProviderTimeout = 1
    RetryDelay = 1
    Runtimes = {"container", "kubevirt"}
    RuntimeKinds = {"Stop", "Start", "Restart", "Delete", "Freeze", "Retry", "Reset"}
    RuntimeBudget = 1
    RuntimeLease = 1
    MaxTick = 2
    LastRequest = 1
    MaxRequested = 3
    MaxFaults = 1
    MaxSteps = 5
    MaxCalls = 1
CHECK_DEADLOCK FALSE
INVARIANTS
    RuntimeFenced ClusterTrue
