CONSTANTS
    secret = secret
    crit = crit
    high = high
    med = med
    low = low
    soft = soft
    None = None
    Checks <- MCChecks
    PlatformChecks <- MCPlatformChecks
    SeverityOf <- MCSeverityOf
    BlockingOf <- MCBlockingOf
    FindingIdOf <- MCFindingIdOf
    PolicyCommands <- MCPolicyCommands
SPECIFICATION Spec
INVARIANTS
    TypeOK
    ReportDecidesOnObservation
    GatesAgree
PROPERTIES
    NoVerdictOnTamperedEvidence
    CallEnds
CHECK_DEADLOCK FALSE
