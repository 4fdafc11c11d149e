SPECIFICATION HubSpec
CONSTANTS
    Ids = {s1, agent}
    Nobody = nobody
    Agent = agent
    Broadcasts = {b1, b2}
    Requests = {t1, t2}
    Overlapping = FALSE
INVARIANTS
    AnnouncedReachesSource
    ClosedWatchesNothing
SYMMETRY Symmetry
VIEW WithoutFreed
CHECK_DEADLOCK FALSE
