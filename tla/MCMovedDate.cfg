SPECIFICATION Spec
CONSTANTS
    NumRounds = 2
    EmptySlots <- MCEmptySlots
    Rank <- MCRank
    Users = {u1}
    Requests = {r1}
    Owner <- MCOwner
    Bodies <- MCBodies
    Attempts = 1
    Late = {}
    Sheets <- MCMovedSheets
    SofaAuthoritative = FALSE
    StartStamps = {}
    EspnFeed = TRUE
    SofaFeed = FALSE
    LockLead = 1
    LockTrail = 1
    OpenWindow = 1
    Backstop = 1
    FirstDay = 0
    LastDay = 3
    SiteDefault = "draw_start"
    AdminMay = {}
PROPERTIES
    LockIsFinal
