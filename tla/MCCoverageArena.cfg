CONSTANTS
    None = None
    AlphaNum = 1
    AlphaDen = 20
    Benchmarks <- MCBenchmarks
SPECIFICATION Spec
INVARIANTS
    TypeOK
    OracleFollowsGate
    ReceiptCoversTheBenchmark
    FrontierIsMonotone
    ListedCanBeMinimized
    McNemarIsExact
    HolmIsClosedTesting
