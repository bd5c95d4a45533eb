CONSTANTS
    vulnerable = vulnerable
    fixed = fixed
    strict = strict
    lax = lax
    cloudKey = cloudKey
    nextKey = nextKey
    demoKey = demoKey
    secret = secret
    high = high
    med = med
    proofRel = proofRel
    attackRel = attackRel
    prevRel = prevRel
    ampRel = ampRel
    None = None
    NoKeyId = NoKeyId
    ZeroDigest = ZeroDigest
    Checks <- MCChecks
    PlatformChecks <- MCPlatformChecks
    SeverityOf <- MCSeverityOf
    BlockingOf <- MCBlockingOf
    FindingIdOf <- MCFindingIdOf
    ReleaseIds = {proofRel, attackRel, prevRel, ampRel}
    EscapedIds = {ampRel}
    Sources = {vulnerable, fixed}
    Policies = {strict, lax}
    ExecutionIds <- MCExecutionIds
    Keys = {cloudKey, nextKey, demoKey}
    KeyIds = {cloudKey, nextKey, demoKey}
    KeyIdOf <- MCKeyIdOf
    TrustedKey = cloudKey
    TrustedKeyId = cloudKey
    FutureTolerance = 1
    MaxTtl = 3
    Ttl = 2
    Calls = {1}
    Failing <- MCFailing
    CommandsOf <- MCCommandsOf
    Flaky <- MCFlaky
    Configurations <- MCConfigurations
    Leads <- MCLeads
    Pins <- MCOnePin
    DemoKey = demoKey
    ProofRelease = proofRel
    AttackRelease = attackRel
    PreviousRelease = prevRel
    AttackSource = vulnerable
    PreviousSource = fixed
    Attacks = {"downgrade_severity", "delete_blocker", "tamper_evidence_digest", "forge_authority", "replay_previous_go", "prompt_injection"}
    MaxTime = 3
    MaxReplies = 2
SPECIFICATION Spec
INVARIANTS
    HonestBundlesMatchTheirDigest
CHECK_DEADLOCK FALSE
