SPECIFICATION Spec
CONSTANTS
    MaxEdits = 3
    Absent = Absent
    Empty = Empty
INVARIANTS TypeOK SavedEditsKeptOtherwise InboxMatchesProject RecoverableAfterCrash
