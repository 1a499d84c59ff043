SPECIFICATION Spec
CONSTANTS
  Grants = {g1}
  Processes = {p1, p2}
  NoGrant = NoGrant
  NoProcess = NoProcess
  MaxAttempts = 2
  MaxRevision = 3
  Connections = {c1, c2}
  MaxSessionRevision = 3
  Consoles = {k1, k2}
  NoConsole = NoConsole
  MaxConsoles = 1
  MaxEnvironment = 2
  MaxStops = 1
CHECK_DEADLOCK FALSE
INVARIANTS
    SessionsAuthorized GrantsFollowed
PROPERTIES
    EndedGrantsStay 
