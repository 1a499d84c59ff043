SPECIFICATION Spec
CONSTANTS
  MaxBundles = 4
  MaxFreezeAttempts = 2
  Paths <- MCPaths
  Parent <- MCParent
  Contents <- MCContents
  SizeOf <- MCSizeOf
  Manifests <- MCManifests
  MaxEdits = 2
  Plans <- MCPlans
  MaxStepAttempts = 2
  MaxRequests = 2
  MaxCalls = 3
  MaxDrift = 1
  OjRequests <- MCOjRequests
  Assertions <- MCAssertions
  FactKind <- MCFactKind
  Documents <- MCDocuments
  FactsMax = 4
CHECK_DEADLOCK FALSE
INVARIANTS
    SubmissionSound RunsSound RunnersSound
PROPERTIES
    RequestsFenced SubmissionEnds
