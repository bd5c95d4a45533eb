CONSTANTS
    None = None
    MaxRepeat = 2
    MaxFailures = 2
    Evidence <- MCEvidence
    Batteries <- MCBatteries
SPECIFICATION Spec
INVARIANTS
    TypeOK
    VerifiedMeansUnmoved
    OnlyDeferredPassesTheGuard
