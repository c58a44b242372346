SPECIFICATION Spec
CONSTANTS
    Draws = {"large", "small"}
    NumRounds <- TwoRounds
    BucketOf <- OneBucket
    Stops = 1
    Calendar = {"men", "late", "open"}
    BucketFor <- Tour
    WeekFor <- OneWeek
    Sweepers = {"job", "startup"}
    Flaps = 1
    Crashes = 1
    Fields = {"men1", "women1"}
    Announced = {"men1"}
    Official = {"men1"}
    Places = {"m1", "m2", "w1"}
    FieldOf <- MenOrWomen
    MatchOf <- Halves
    Qualifying = {"m1", "m2", "w1"}
    NamesAt <- Players
    Runners = {"job"}
    Blank = "blank"
    Halts = 1
CHECK_DEADLOCK FALSE
INVARIANTS
    NotesTypeOK
    DigestIsWhole
    OneMailPerRound
    StampedMeansMailed
    OneMailPerWeek
    HoldersAreTold
    FieldAnnouncedWhole
PROPERTIES
    WholeWeek
    RoundReachesInbox
    NewsIsToldOnce
    NewsGoesOut
