SPECIFICATION Spec
CONSTANTS
    NumRounds = 3
    EmptySlots <- MCEmptySlots
    Rank <- MCRank
    Users = {u1}
    Requests = {r1}
    Owner <- MCOwner
    Bodies <- MCBodies
    Attempts = 1
    Late = {}
    Sheets <- MCSheets
    SofaAuthoritative = TRUE
    StartStamps = {TRUE}
    EspnFeed = FALSE
    SofaFeed = TRUE
    LockLead = 1
    LockTrail = 1
    OpenWindow = 2
    Backstop = 2
    FirstDay = 0
    LastDay = 0
    SiteDefault = "r1_progressive"
    AdminMay = {}
PROPERTIES
    KnockedOutNeverReturns
