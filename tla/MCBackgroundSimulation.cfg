SPECIFICATION Spec
CONSTANTS
    Root = {p}
    Operation = {a}
    Thread = {t}
    Lead = Lead
    Refused = {}
    Chunks = 1
    MaxRuns = 1
    MaxCalculations = 2
    MaxGeneration = 2
    MaxForeground = 2
    None = None
INVARIANTS TypeOK  ForegroundBalanced
PROPERTIES  ForegroundYields QueueDrainsUnlessRefused
