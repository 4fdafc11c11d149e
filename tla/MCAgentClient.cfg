SPECIFICATION ClientSpec
CONSTANTS
    Callers = {g1, g2}
    Notes = {event}
    MaxId = 2
    MaxWire = 2
INVARIANTS
    NobodyParked
    NoWorkForNobody
PROPERTIES
    EveryRequestEnds
    CancelStopsTheWork
CHECK_DEADLOCK FALSE
