CONSTANTS
    tenant = tenant
    path = path
    c1 = c1
    None = None
    Scenarios = {tenant, path}
    Clicks = {c1}
    Edited = {tenant}
    MaxVersion = 1
    NumAttacks = 2
SPECIFICATION Spec
INVARIANTS
    TypeOK
    VerifiedIsWhatIsShown
PROPERTIES
    StopStops
    CheckResolves
    GuidedEnds
