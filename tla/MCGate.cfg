\* Two origins for a ledger of one, two connections; two tickets and two
\* browsers; eight paths, four trees, two changes by the desktop; a session
\* and four copies, a channel with room for one shape of three; two calls of
\* the browser tools and two changes of the page by itself.
SPECIFICATION MCSpec
CONSTANTS
    Origins = {o1, o2}
    Shared = shared
    Visits = {v1, v2}
    Burst = 2
    BanAfter = 2
    BanFirst = 2
    BanMax = 3
    MaxKeys = 1
    SweepEvery = 1
    TokenTTL = 2
    AuthEnabled = TRUE
    Watched = {o1}
    Strides = {3, 7}
    MaxTime = 7
    Paths <- MCPaths
    Root <- Home
    Puts <- MCPuts
    Trees <- MCTrees
    MaxLinks = 2
    Browsers = {"ann", "bob"}
    Agent = "agent"
    TicketTTL = 1
    Uploads = {u1}
    MaxEdits = 2
    MaxTickets = 2
    LastTime = 3
    Pages = {p1}
    Texts = {x1, x2}
    NoText = notext
    Shapes = {a1, a2}
    NoShape = noshape
    ShapeBuffer = 1
    MaxCopies = 4
    MaxShapes = 3
    Calls = {c1, c2}
    NoCall = nocall
    MaxFuss = 2
INVARIANT OneBurstAndTheTrickle
INVARIANT OneDownloadEach
INVARIANT PagesCatchUp
INVARIANT ReportsAreTrue
PROPERTY BansStandAndGrow
PROPERTY KeepsBelowRoot
SYMMETRY MCSymmetry
CHECK_DEADLOCK FALSE
