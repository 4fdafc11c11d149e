\* Two destinations, with two branches in all, and one who asks for them; a
\* toolbar, two agents, two encoders and two names; two sessions with three tracks.
SPECIFICATION MCSpec
CONSTANTS
    Ids = {d1, d2}
    Tags = {"a"}
    Tag <- MCTag
    Cadences = {0, 2}
    Askers = {k1}
    MaxBranches = 2
    MaxErrors = 1
    Toolbars = {b1}
    Agents = {g1, g2}
    Paths = {f1, f2}
    MaxEncoders = 2
    Sessions = {s1, s2}
    Tracks = {t1, t2, t3}
INVARIANT NothingLeftBehind
INVARIANT OneCadence
INVARIANT OneRecording
INVARIANT HandsOverClosedFiles
INVARIANT MicrophoneStays
SYMMETRY MCSymmetry
CHECK_DEADLOCK FALSE
