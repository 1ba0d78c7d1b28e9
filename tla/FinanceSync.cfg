SPECIFICATION Spec
CONSTANTS
    Events = {e1}
    Jobs <- MCJobs
    AgentSync = AgentSync
    MaxUpdates = 2
    MaxClaims = 2
    MaxRunning = 2
    MaxFaults = 1
INVARIANTS
    LockIsExclusive
    CursorCoversStored
    ReconciledIsStored
    LockedIsInUse
CHECK_DEADLOCK FALSE
