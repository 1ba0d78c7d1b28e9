SPECIFICATION Spec
CONSTANTS
    Sources = {s1}
    Handled = {s1}
    Retryable = {s1}
    Workers = {w1, w2}
    Operators = {o1}
    MaxAttempts = 2
    LeaseTicks = 2
    Batch = 1
    DbFaults = FALSE
    MaxClaims = 3
    None = None
SYMMETRY WorkerSymmetry
PROPERTIES
    SettledIsFinal
    AttemptBudget
    ImplementsLeasedQueue
