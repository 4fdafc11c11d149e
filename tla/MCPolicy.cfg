\* One connection that restricts itself twice and makes one call; an action log
\* that rotates every second line; and a run offered five tools that searches
\* twice, on a server with one more.
SPECIFICATION MCSpec
CONSTANTS
    Words <- MCWords
    Tools <- AllTools
    Core <- CoreTools
    Discovery = TRUE
    Envs <- MCEnvs
    Requests <- MCRequests
    Attempts <- MCAttempts
    Args <- MCArgs
    Links = {l1}
    Calls = {c1}
    MaxRequests = 2
    RingMax = 2
    FileCap = 2
    MaxEntries = 6
    MaxFaults = 3
    Offerable = {"tool_search", "screenshot", "wait", "ssh_exec", "ssh_list"}
    Searchable = {"tool_search", "screenshot", "ssh_exec", "ssh_list", "shell_open"}
    Steady = {"tool_search", "screenshot", "wait", "ask_human"}
    SearchTool = "tool_search"
    Skills = TRUE
    Goals <- MCGoals
    Queries <- MCQueries
    Limits = {0, 1, 2}
    MaxSearches = 2
INVARIANT GivenUpStaysGivenUp
INVARIANT ShownIsCallable
INVARIANT TrailKeepsTheNewest
INVARIANT ToolsStayInReach
PROPERTY NarrowsButForTwoWays
CHECK_DEADLOCK FALSE
