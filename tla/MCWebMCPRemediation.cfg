CONSTANTS
    secret = secret
    high = high
    tenant = tenant
    path = path
    clean = clean
    leaking = leaking
    None = None
    Checks <- MCChecks
    PlatformChecks <- MCPlatformChecks
    SeverityOf <- MCSeverityOf
    BlockingOf <- MCBlockingOf
    FindingIdOf <- MCFindingIdOf
    Clients = {1, 2}
    Scenarios = {tenant, path}
    MatchesIn <- MCMatchesIn
    Versions = {clean, leaking}
    Shipped <- MCShipped
    Edited = {tenant}
    MaxEdits = 2
    MaxRestarts = 1
    MaxLosses = 1
SPECIFICATION Spec
INVARIANTS
    TypeOK
    VerdictIsAboutTheCandidate
    JudgedVerdictsAreTheGatekeepers
    KnownUntilRestart
    StuckOnlyOnChange
PROPERTIES
    ClientsFinish
CHECK_DEADLOCK FALSE
