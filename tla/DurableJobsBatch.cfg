SPECIFICATION Spec
CONSTANTS
    Sources = {s1, s2}
    Handled = {s1}
    Retryable = {}
    Workers = {w1, w2}
    Operators = {}
    MaxAttempts = 2
    LeaseTicks = 1
    Batch = 2
    DbFaults = FALSE
    MaxClaims = 2
    None = None
SYMMETRY WorkerSymmetry
INVARIANTS
    OnlyLatestClaimOwns
