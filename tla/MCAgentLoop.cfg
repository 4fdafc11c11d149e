SPECIFICATION LoopSpec
CONSTANTS
    Runner = loop
    Callers = {loop}
    Taken = taken_from_you
    Notes = {taken_from_you, granted_to_you}
    MaxId = 2
    MaxWire = 1
    MaxTurns = 2
    MaxBatch = 2
    MaxCalls = 2
    MaxRuns = 3
INVARIANTS
    OneCallAfterTheNotice
    HistoryIsPaired
PROPERTIES
    RunEnds
CHECK_DEADLOCK FALSE
