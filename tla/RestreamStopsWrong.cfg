\* Two destinations that elementTag tells apart.
SPECIFICATION MCSpec
CONSTANTS
    Ids = {d1, d2}
    Tags = {"a", "b"}
    Tag <- MCOwnTag
    Cadences = {0, 2}
    Askers = {k1}
    MaxBranches = 2
    MaxErrors = 1
    Toolbars = {b1}
    Agents = {g1, g2}
    Paths = {f1, f2}
    MaxEncoders = 2
    Sessions = {s1, s2}
    Tracks = {t1, t2, t3}
PROPERTY StopsWhatFailed
CHECK_DEADLOCK FALSE
