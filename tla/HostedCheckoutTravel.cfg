SPECIFICATION Spec
CONSTANTS
    Travel = {t1}
    Shopping = {}
    Handoff = {}
    Offers = {o1, o2}
    Requests = {r1, r2, r3}
    MaxApprovals = 2
    None = None
SYMMETRY RequestSymmetry
INVARIANTS
    ConfirmationQueuedFirst
