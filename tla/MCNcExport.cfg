SPECIFICATION NcSpec
CONSTANTS
    Ops = {rough, finish}
    Names = {a, b}
    MaxToolpaths = 1
    MaxUsed = 3
    NoFile = NoFile
    rough = rough
    finish = finish
    a = a
    b = b
INVARIANTS
    NcTypeOK
    ReadableUnlessDamaged
    CurrentIsMadeFromToolpath
    FailedExportIsUndone
PROPERTIES
    ImplementsLedger
CHECK_DEADLOCK FALSE
SYMMETRY NcSymmetry
