SPECIFICATION MCSpec
CONSTANTS
    Class = "Work"
    Provider = "container"
    MaxAttempts = 2
    ProviderTimeout = 1
    RetryDelay = 1
    OperationBudget = 2
    EligibilityTimes = {3}
    CommandKinds = {"Start", "Stop", "Restart", "Reset", "Retry", "Recover",
                    "Expire", "Delete", "Cancel", "Cleanup", "Freeze"}
    Times <- MCTimes
    Leases <- MCLeases
    MaxTime = 3
    MaxRevision = 9
CHECK_DEADLOCK FALSE
INVARIANTS
    AggregateTypeOK NeverWedged NoDeadEnd RuntimeAsIntended ActionSelected OutcomeIsTrue
PROPERTIES
    IntentHolds
