SPECIFICATION MCSpec
CONSTANTS
    Sessions = {s1}
    Agent = agent
    ControlFree = free
    Calls = {c1, c2}
    MaxViewers = 2
    MaxPrompts = 1
    Links = {n1, n2}
    Unnamed = {c2}
    Tools = {"input", "request_control", "ask_human", "release_control", "room_state", "malformed", "other"}
INVARIANTS
    OneAnswerEach
    StoppedIsAnswered
    GoneLeavesNothing
SYMMETRY Symmetry
CHECK_DEADLOCK FALSE
