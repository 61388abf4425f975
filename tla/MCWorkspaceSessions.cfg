SPECIFICATION Spec
CONSTANTS
    Session = {s1, s2}
    Root = {r1, r2}
    Operations = {"open", "readOnly", "create", "workspace", "close", "document"}
    Nothing = Nothing
    Document = Document
    Unlocked = Unlocked
SYMMETRY MCSymmetry
INVARIANTS TypeOK WriterHoldsLock LiveLockIsInUse
PROPERTY LockLostOnlyByOwnCall
CHECK_DEADLOCK FALSE
