SPECIFICATION FairSpec
CONSTANTS
    Links = {l1, l2}
    Requests = {r1, r2}
    MaxTokens = 2
    MaxFaults = 1
    None = None
INVARIANTS
    CodeExchangedOnce
    UsableHasToken
    LeaseIsExclusive
PROPERTIES
    RefreshEnds
CHECK_DEADLOCK FALSE
