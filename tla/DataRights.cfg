SPECIFICATION FairSpec
CONSTANTS
    Jobs = {q1, q2}
    Clients = {c1, c2}
    MaxClaims = 2
    None = None
INVARIANTS
    OneOpenRequest
    CompletedHasArtifact
    

    
CHECK_DEADLOCK FALSE
