SPECIFICATION Spec
CONSTANTS
    File = {f}
    MaxOpens = 2
    MaxEdits = 2
    MaxSaves = 1
    MaxAutos = 1
    None = None
    f = f
INVARIANTS TypeOK CleanIsSaved ExtractedWhileNeeded
PROPERTY LeavingKeepsWork
CHECK_DEADLOCK FALSE
