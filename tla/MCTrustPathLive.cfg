CONSTANTS
    vulnerable = vulnerable
    fixed = fixed
    strict = strict
    lax = lax
    cloudKey = cloudKey
    nextKey = nextKey
    demoKey = demoKey
    secret = secret
    high = high
    med = med
    proofRel = proofRel
    attackRel = attackRel
    prevRel = prevRel
    ampRel = ampRel
    None = None
    NoKeyId = NoKeyId
    ZeroDigest = ZeroDigest
    Checks <- MCChecks
    PlatformChecks <- MCPlatformChecks
    SeverityOf <- MCSeverityOf
    BlockingOf <- MCBlockingOf
    FindingIdOf <- MCFindingIdOf
    ReleaseIds = {proofRel, attackRel, prevRel}
    EscapedIds = {}
    Sources = {vulnerable, fixed}
    Policies = {strict}
    ExecutionIds <- MCExecutionIds
    Keys = {cloudKey, demoKey}
    KeyIds = {cloudKey, nextKey, demoKey}
    KeyIdOf <- MCKeyIdOf
    TrustedKey = cloudKey
    TrustedKeyId = cloudKey
    FutureTolerance = 1
    MaxTtl = 3
    Ttl = 1
    Calls = {1, 2}
    Failing <- MCFailing
    CommandsOf <- MCCommandsOf
    Flaky = {}
    Configurations <- MCConfiguration
    Leads <- MCLead
    Pins <- MCOnePin
    DemoKey = demoKey
    ProofRelease = proofRel
    AttackRelease = attackRel
    PreviousRelease = prevRel
    AttackSource = vulnerable
    PreviousSource = fixed
    Attacks = {"replay_previous_go"}
    MaxTime = 0
    MaxReplies = 2
SPECIFICATION Spec
INVARIANTS
    ProofIsRecorded
PROPERTIES
    CallsEnd
CHECK_DEADLOCK FALSE
