SPECIFICATION Spec
CONSTANTS
    MaxEdits = 2
    Absent = Absent
    Empty = Empty
PROPERTY FailedApplyKeepsProject
