SPECIFICATION BookingFairSpec
CONSTANTS
    Jobs <- MCJobs
    LastVersion = 2
    MaxClaims = 2
    MaxRunning = 2
    MaxFaults = 1
INVARIANTS
    SerialRunsConverge

    
CHECK_DEADLOCK FALSE
