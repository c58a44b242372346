SPECIFICATION Spec
CONSTANTS
    NumRounds = 1
    EmptySlots <- MCEmptySlots
    Rank <- MCRank
    Users = {u1}
    Requests = {r1, r2}
    Owner <- MCOwner
    Bodies <- MCBodies
    Attempts = 2
    Late = {}
    Sheets = {}
    SofaAuthoritative = TRUE
    StartStamps = {TRUE}
    EspnFeed = FALSE
    SofaFeed = TRUE
    LockLead = 1
    LockTrail = 1
    OpenWindow = 1
    Backstop = 1
    FirstDay = 0
    LastDay = 0
    SiteDefault = "r1_progressive"
    AdminMay = {"site_mode"}
INVARIANTS
    NoHoles
PROPERTIES
    EverySaveAnswered
    ClosesEventually
