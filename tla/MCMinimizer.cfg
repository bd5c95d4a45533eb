CONSTANTS
    MaxLines = 8
    Budgets = {8, 50}
SPECIFICATION SearchSpec
INVARIANTS
    SearchTypeOK
    ReturnedIsAnEscape
    MinimalMeansMinimal
    CostIsQuadratic
CHECK_DEADLOCK FALSE
