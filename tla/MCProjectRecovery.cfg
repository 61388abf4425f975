SPECIFICATION Spec
CONSTANTS
    MaxEdits = 3
    MaxSessions = 3
    Torn = Torn
    None = None
INVARIANTS TypeOK AckedWorkKept FirstCrashIsOffered
PROPERTY RecoveryIsExact
CHECK_DEADLOCK FALSE
