\* Two waiters on a channel of one; two sessions with one key, one button and
\* one of the gamepad; two calls and one person in the pane; two SSH sessions,
\* two tunnels for one address; two commands and one reader on a shell.
SPECIFICATION MCSpec
CONSTANTS
    Waiters = {w1, w2}
    Kinds = {"windows", "desktop", "active"}
    Interned = {"windows", "desktop"}
    Want = {"windows", "active"}
    Buffer = 1
    MaxChanges = 3
    Quiet = 2
    Patience = 3
    MaxTime = 5
    MaxPaints = 3
    Sessions = {s1, s2}
    Agent = agent
    Nobody = nobody
    Keys = {k1}
    Buttons = {b1}
    PadButtons = {g1}
    MaxPresses = 2
    Runs = {r1, r2}
    Others = {p1}
    Elsewhere = e1
    Program = {r1}
    Ends = {p1}
    Hosts = {h1, h2}
    Tunnels = {t1, t2}
    Closers = {c1}
    Addrs = {a1}
    Callers = {u1, u2}
    Readers = {q1}
    NobodysOwn = nobodys
    Ceiling = 1
    KeptTail = 1
    MaxChunks = 3
INVARIANT NobodySleepsThrough
INVARIANT KeysComeUpWithTheirDriver
INVARIANT OutcomeIsOwn
INVARIANT PortsAreFreed
INVARIANT OutputReachesOneCall
SYMMETRY Symmetry
CHECK_DEADLOCK FALSE
