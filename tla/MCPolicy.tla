------------------------------ MODULE MCPolicy ------------------------------
(***************************************************************************)
(* Policy over the real catalogue: a daemon with a ceiling or without, and *)
(* requests that lower the level, raise it, deny and list by name and by   *)
(* prefix.  The calls name one tool of each kind that the checks tell      *)
(* apart, and one that does not exist.                                     *)
(*                                                                         *)
(* A call puts one line into the action log whatever becomes of it, so the *)
(* log is explored beside the calls and not with them, and so are the      *)
(* tools that an agent shows its model: `part` says which.                 *)
(***************************************************************************)
EXTENDS Policy, Catalogue, ActionLog, ToolSearch

VARIABLE part

Exact(stem)  == [stem |-> stem, star |-> FALSE]
Prefix(stem) == [stem |-> stem, star |-> TRUE]

Ask(level, deny, allow) == [level |-> level, deny |-> deny, allow |-> allow]

\* validateCatalogue lets the server start.
ASSUME CatalogueStarts == Valid(AllTools)

MCAttempts == {
    <<"wait", "for", "window">>, <<"read", "file">>, <<"run", "command">>, <<"type", "text">>,
    <<"no", "such", "tool">>}

MCWords == UNION {{n[i] : i \in DOMAIN n} : n \in {t.name : t \in AllTools} \cup MCAttempts}
             \cup {"\\x00none"}

MCEnvs == {
    Ask("bogus", {}, {}),
    Ask("safe", {Prefix(<<"ssh">>)}, {}),
    Ask("full", {}, {Exact(<<"wait">>), Prefix(<<"read">>), Prefix(<<"ssh">>)})}

MCRequests == {
    Ask("readonly", {}, {}),
    Ask("full", {}, {Prefix(<<"wait">>), Prefix(<<"ssh", "list">>)}),
    Ask("full", {Prefix(<<"wait">>)}, {}),
    Ask("full", {}, {Exact(<<"ssh", "list">>), Exact(<<"run", "command">>)}),
    Ask("", {Exact(<<"read", "file">>)}, {Prefix(<<"ui">>)})}

MCArgs == {{}, {"as_root"}}

\* Three ways a tool may meet a query, or none: its name and a phrase, its
\* category, two words of its description, one of them.
MCTerm(name, category, described) ==
    [name |-> name, category |-> category, described |-> described, long |-> TRUE]

Named    == [phrases |-> 1, terms |-> <<MCTerm("word", TRUE, TRUE), MCTerm("inside", FALSE, FALSE)>>]
Themed   == [phrases |-> 0, terms |-> <<MCTerm("no", TRUE, FALSE), MCTerm("no", FALSE, FALSE)>>]
Guessed  == [phrases |-> 0, terms |-> <<MCTerm("no", FALSE, TRUE), MCTerm("no", FALSE, TRUE)>>]
OffTopic == [phrases |-> 0, terms |-> <<MCTerm("no", FALSE, FALSE), MCTerm("no", FALSE, TRUE)>>]

MCPlaces == [ssh_exec |-> 1, ssh_list |-> 2, shell_open |-> 3, screenshot |-> 4, tool_search |-> 5, wait |-> 6]

MCQueriesOf(shows) ==
    {[t \in DOMAIN MCPlaces |-> [shows |-> IF t = "tool_search" THEN Named ELSE f[t], place |-> MCPlaces[t]]] :
        f \in [DOMAIN MCPlaces \ {"tool_search"} -> shows]}

MCGoals   == MCQueriesOf({OffTopic, Guessed, Named})
MCQueries == MCQueriesOf({OffTopic, Themed})

\* Beside the other parts, a run that was given everything and does nothing.
IdleSearch ==
    /\ offered = Offerable /\ skillRead = Skills
    /\ started = [tools |-> Offerable, limit |-> 0, failed |-> FALSE, fitting |-> 0]
    /\ found = {} /\ searches = 0

MCInit ==
    /\ part \in {"calls", "log", "tools"} /\ PolicyInit /\ LogInit
    /\ part = "calls" => handle
    /\ part # "calls" => daemon = NewPolicy(Ask("bogus", {}, {}))
    /\ IF part = "tools" THEN SearchInit ELSE IdleSearch

MCNext ==
    \/ part = "calls" /\ PolicyNext /\ UNCHANGED <<logVars, searchVars, part>>
    \/ part = "log" /\ LogNext /\ UNCHANGED <<policyVars, searchVars, part>>
    \/ part = "tools" /\ SearchNext /\ UNCHANGED <<policyVars, logVars, part>>

MCSpec == MCInit /\ [][MCNext]_<<policyVars, logVars, searchVars, part>>
=============================================================================
