SPECIFICATION ControlSpec
CONSTANTS
  Releases = {r1}
  Dispatchers = {d1, d2}
  Consumers = {c1, c2}
  MaxCopies = 2
  MaxDeliver = 2
  MaxFailures = 1
  FileCount = 2
  Completers = {p1, p2}
  MaxVersions = 2
  MaxLapses = 2
  MaxCleanupAttempts = 1
  RunConsumers = {k1}
  RunDesks = {h1}
  MaxRetries = 1
  ContainerCandidates = {image}
  MachineCandidates = {}
  EvaluationCandidates = {exam}
  Desks = {desk1, desk2}
  MaxPolicies = 2
  MaxTrust = 2
  MaxReleases = 1
  Writers = {w1, w2}
  Clients = {b1}
  MaxCourseEvents = 4
  PageLimit = 2
  MaxDrops = 1
CHECK_DEADLOCK FALSE
INVARIANTS
    ReleasesDelivered ProjectionsSound SseNoLoss
PROPERTIES
    ControlSteps ControlProgresses
