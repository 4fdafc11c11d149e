SPECIFICATION FairSpec
CONSTANTS
    Sessions = {s1}
    Agent = agent
    ControlFree = free
    Calls = {c1, c2}
    MaxViewers = 1
    MaxPrompts = 2
PROPERTIES
    PromptsComeDown
