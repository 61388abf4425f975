SPECIFICATION Spec
CONSTANTS
    Ops2D = {drill}
    Ops3D = {finish}
    MaxEdits = 2
    MaxCalcs = 2
    MaxSaves = 2
    MaxOpens = 1
    MaxPosts = 1
    MaxUsed = 4
    NoArt = NoArt
    drill = drill
    finish = finish
INVARIANTS
    TypeOK
    ResultMatchesOperation
    ReferencedArtifactsExist
    NoEditLostBetweenSaves
    PostedIsCurrent
CHECK_DEADLOCK FALSE
