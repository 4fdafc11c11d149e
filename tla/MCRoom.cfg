SPECIFICATION Spec
CONSTANTS
    Sessions = {s1, s2}
    Agent = agent
    ControlFree = free
    Calls = {c1, c2}
    MaxViewers = 2
    MaxPrompts = 2
INVARIANTS
    DialogHasItsCall
    GrantNeedsFirstYes
PROPERTIES
    ImplementsToken
SYMMETRY Symmetry
