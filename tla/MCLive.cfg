SPECIFICATION Spec
CONSTANTS
    Top = 2
    CardTop = 1
    Completing = {"page"}
    Columns <- TwoSets
    None = None
    End = End
    Mishaps = 1
    Room = 2
    Cards = {c1}
    Crowd = TRUE
    Rotations = 1
INVARIANTS
    LiveTypeOK
    NudgeIsComing
    PushIsComing
PROPERTIES
    ASetIsNotTakenBack
    CardsComeToAnEnd
