SPECIFICATION Spec
CONSTANTS
  Processes = {p1, p2}
  NoProcess = none
  MaxAttempts = 2
  MaxBuildAttempts = 2
  MaxStops = 1
  MaxRepairs = 1
  MaxInFlight = 1
  MaxCost = 2
  MaxTokens = 1
  MaxRequests = 1
  MaxInput = 3
  MaxLines = 4
CHECK_DEADLOCK FALSE
INVARIANTS
    RunsFaithful ResultsSound
PROPERTIES
    SettledStays GenerationEnds
