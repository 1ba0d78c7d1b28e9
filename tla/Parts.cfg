SPECIFICATION Spec
CONSTANTS
    Invites = {1, 2, 3}
    Users = {a1, a2}
    Callers = {c1, c2}
    Limit = 1
    None = None
    Runs = {a1, a2}
    MaxEndpoints = 3
    Desks = {a1, a2}
    MaxEdits = 2
    Plain = {0}
    Editors = {a1, a2}
    MaxVersions = 2
    Writers = {a1, a2}
    MaxEntries = 4
    Resources = {a1, a2}
    MaxVersion = 2
    MaxRefreshes = 3
    StartTries = 2
    Agents = {a1, a2}
    Loads = {c1, c2}
    MaxTurns = 1
    Calls = {c1}
    Probed = {2}
    Kinds = {k1}
    Null = None
    MaxTickets = 2
    Grants = {a1, a2}
    Searches = {s1}
    NoTicket = None
    Rows = {1, 2}
    Tasks = {c1, c2}
    MaxContents = 2
    NoRow = None
    Files = {a1, a2}
    Installs = {c1, c2}
    Prompts = {p1}
    Chunks = 2
    NoFile = None
    Requests = {c1, c2}
    Chosen = {"active"}
    MaxTokens = 3
SYMMETRY PartSymmetry
INVARIANTS
    OneAccessPerInvitation
    LimitButForRenewals
    AgentsCallVettedEndpoints
    PublishedWasJudged
    RegistryFollowsRow
    RunsAreReady
    ForksComeFromOverlap
    IdleViewIsCurrent
    ConversationIsShown
    ReadIsCleared
    QuietVaultIsCurrent
    WeightsAreVerified
    ActiveHoldsCurrentToken
CHECK_DEADLOCK FALSE
