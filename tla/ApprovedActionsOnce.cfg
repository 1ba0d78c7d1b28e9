SPECIFICATION FairSpec
CONSTANTS
    Gated = {a1}
    Hosted = {h1}
    Turns = {t1, t2}
    None = None
INVARIANTS
    ReportedDoneIsPerformed
PROPERTIES
    ImplementsSingleUseApproval
    FinishedRowSettles
    OnlyCutRunsStayOpen
CHECK_DEADLOCK FALSE
