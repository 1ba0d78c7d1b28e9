SPECIFICATION FairSpec
CONSTANTS
    Sources = {s1}
    Handled = {s1}
    Retryable = {}
    Workers = {w1, w2}
    Operators = {}
    MaxAttempts = 1
    LeaseTicks = 1
    Batch = 1
    DbFaults = TRUE
    MaxClaims = 3
    None = None
PROPERTIES
    OrphanLeaseIsRecovered
