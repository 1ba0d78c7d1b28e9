SPECIFICATION Spec
CONSTANTS
    Travel = {t1}
    Shopping = {s1}
    Handoff = {h1}
    Offers = {o1, o2}
    Requests = {r1, r2}
    MaxApprovals = 2
    None = None
SYMMETRY RequestSymmetry
INVARIANTS
    HandedOutOnce
    ApprovedAsHashed
PROPERTIES
    ImplementsOneTimeHandoff
