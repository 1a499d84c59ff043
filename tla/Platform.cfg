SPECIFICATION PlatformSpec
CONSTANTS
    Jobs = {j1, j2, j3}
    NoJob = NoJob
    Releases = {"r1", "r2"}
    Domains <- MCDomains
    Catalog <- MCCatalog
    MaxMigrationFaults = 1
    LinkCapacity = 1
    MaxFrames = 2
    MaxReplacements = 1
    OutputLimit = 1
    Transactions = {t1}
    Callbacks = {c1, c2}
    MaxEnvironmentChanges = 1
CHECK_DEADLOCK FALSE
INVARIANTS
    MigrationsSound RelaySound RequestsSound
PROPERTIES
    MigrationEnds
