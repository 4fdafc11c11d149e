----------------------------- MODULE Catalogue -----------------------------
(***************************************************************************)
(* The tools of the MCP plane as the policy sees them: the toolDefs of     *)
(* internal/mcp/tools*.go with their risk, visibility and whether they     *)
(* have to hold the controls, and the indexes built from them at startup   *)
(* (registry.go).  Descriptions and schemas are left out, except for the   *)
(* one argument the policy looks at: as_root.                              *)
(*                                                                         *)
(* A name is the sequence of its words, so that one name can be the        *)
(* beginning of another (wait, wait_for_window): patterns compare prefixes *)
(***************************************************************************)
EXTENDS Sequences, FiniteSets

\* The toolDefs with these names and this classification.
Defs(risk, vis, control, root, names) ==
    {[name |-> n, risk |-> risk, vis |-> vis, control |-> control, root |-> root] : n \in names}

Reads(names)         == Defs("read", "unset", FALSE, FALSE, names)
Hides(risk, names)   == Defs(risk, "hidden", FALSE, FALSE, names)
Shows(risk, names)   == Defs(risk, "visible", TRUE, FALSE, names)
Injects(risk, names) == Defs(risk, "injects", TRUE, FALSE, names)

\* buildTools (tools.go)
BaseTools ==
    Reads({<<"screenshot">>, <<"list", "windows">>, <<"wait">>, <<"get", "recording", "status">>,
           <<"list", "recordings">>, <<"get", "clipboard">>}) \cup
    Injects("write", {<<"mouse", "move">>, <<"mouse", "click">>, <<"type", "text">>,
                      <<"key", "combo">>}) \cup
    Defs("danger", "visible", TRUE, TRUE, {<<"launch", "app">>}) \cup
    Shows("write", {<<"activate", "window">>}) \cup
    Defs("danger", "hidden", FALSE, TRUE, {<<"run", "command">>}) \cup
    Hides("write", {<<"start", "recording">>, <<"stop", "recording">>, <<"set", "clipboard">>})

\* buildRegistryTools (registry.go)
RegistryTools ==
    Reads({<<"tool", "search">>})

\* buildEventTools (events.go)
EventTools ==
    Reads({<<"subscribe", "events">>, <<"unsubscribe", "events">>})

\* buildAdvancedTools (tools_desktop.go), first windows and processes.
WindowTools ==
    Reads({<<"get", "active", "window">>, <<"wait", "for", "window">>, <<"list", "desktops">>,
           <<"list", "processes">>, <<"is", "running">>, <<"list", "installed", "apps">>,
           <<"list", "commands">>}) \cup
    Shows("write", {<<"move", "window">>, <<"resize", "window">>, <<"close", "window">>,
                    <<"minimize", "window">>, <<"maximize", "window">>, <<"restore", "window">>,
                    <<"fullscreen", "window">>, <<"set", "window", "desktop">>,
                    <<"switch", "desktop">>}) \cup
    Shows("danger", {<<"kill", "process">>})

\* Pointer, screen and gamepad.
PointerTools ==
    Reads({<<"get", "mouse", "position">>, <<"screenshot", "region">>,
           <<"get", "screen", "info">>, <<"get", "pixel", "color">>,
           <<"read", "screen", "text">>, <<"find", "text">>}) \cup
    Injects("write", {<<"mouse", "drag">>, <<"mouse", "scroll">>, <<"mouse", "down">>,
                      <<"mouse", "up">>, <<"gamepad", "button">>, <<"gamepad", "tap">>,
                      <<"gamepad", "axis">>}) \cup
    Defs("write", "hidden", TRUE, FALSE, {<<"gamepad", "state">>})

\* Files, sound, restreams and the desktop as a whole.
FileTools ==
    Reads({<<"get", "audio", "state">>, <<"list", "restreams">>, <<"get", "desktop", "info">>,
           <<"desktop", "state">>}) \cup
    Shows("write", {<<"set", "volume">>}) \cup
    Shows("danger", {<<"start", "restream">>, <<"stop", "restream">>}) \cup
    Defs("read", "unset", FALSE, TRUE, {<<"read", "file">>, <<"list", "directory">>}) \cup
    Defs("danger", "hidden", FALSE, TRUE, {<<"write", "file">>})

\* buildUITools (tools_ui.go)
UITools ==
    Defs("read", "hidden", FALSE, FALSE, {<<"ui", "at", "point">>}) \cup
    Reads({<<"ui", "tree">>, <<"ui", "find">>, <<"ui", "get", "text">>, <<"ui", "wait", "for">>}) \cup
    Injects("write", {<<"ui", "click">>, <<"ui", "set", "text">>, <<"ui", "focus">>})

\* buildSysTools (tools_sys.go): shells, then ssh and window properties.
ShellTools ==
    Hides("danger", {<<"shell", "open">>, <<"shell", "exec">>, <<"shell", "input">>,
                     <<"shell", "close">>}) \cup
    Reads({<<"shell", "read">>, <<"shell", "list">>})

SshTools ==
    Hides("danger", {<<"ssh", "connect">>, <<"ssh", "exec">>, <<"ssh", "upload">>,
                     <<"ssh", "download">>, <<"ssh", "tunnel", "local">>,
                     <<"ssh", "tunnel", "remote">>, <<"ssh", "tunnel", "close">>,
                     <<"ssh", "disconnect">>, <<"ssh", "keygen">>, <<"ssh", "copy", "id">>}) \cup
    Reads({<<"ssh", "list", "remote">>, <<"ssh", "tunnels">>, <<"ssh", "list">>,
           <<"window", "properties">>, <<"window", "hierarchy">>}) \cup
    Shows("write", {<<"window", "set", "state">>})

\* buildRootTools (tools_admin.go)
RootTools ==
    Reads({<<"sudo", "status">>, <<"search", "packages">>}) \cup
    Hides("danger", {<<"install", "packages">>, <<"remove", "packages">>,
                     <<"service", "control">>})

\* buildNextTools (tools_next.go)
NextTools ==
    Shows("danger", {<<"set", "resolution">>}) \cup
    Reads({<<"wait", "for", "idle">>, <<"ui", "diff">>, <<"action", "log">>,
           <<"snapshot", "list">>}) \cup
    Defs("danger", "visible", TRUE, TRUE, {<<"open", "app", "and", "wait">>}) \cup
    Injects("write", {<<"fill", "form">>}) \cup
    Hides("write", {<<"snapshot", "create">>}) \cup
    Hides("danger", {<<"snapshot", "restore">>, <<"snapshot", "delete">>})

\* roomTools (tools_room.go)
RoomTools ==
    Reads({<<"room", "state">>}) \cup
    Defs("write", "visible", FALSE, FALSE, {<<"ask", "human">>, <<"request", "control">>,
                                            <<"release", "control">>})

\* terminalTools (tools_terminal.go)
TerminalTools ==
    Injects("danger", {<<"terminal", "run">>}) \cup
    Shows("danger", {<<"terminal", "open">>}) \cup
    Reads({<<"check", "errors">>, <<"terminal", "read">>})

\* buildBrowserTools (tools_ui.go)
BrowserTools ==
    Shows("write", {<<"browser", "open">>, <<"browser", "goto">>}) \cup
    Reads({<<"browser", "tabs">>, <<"browser", "text">>, <<"browser", "wait", "for">>}) \cup
    Shows("danger", {<<"browser", "eval">>}) \cup
    Injects("write", {<<"browser", "click">>, <<"browser", "type">>})

\* What the server is built with.
AllTools ==
    BaseTools \cup RegistryTools \cup EventTools \cup WindowTools \cup PointerTools \cup
    FileTools \cup UITools \cup ShellTools \cup SshTools \cup RootTools \cup NextTools \cup RoomTools \cup
    TerminalTools \cup BrowserTools

\* coreTools: what tools/list mentions when MCP_DISCOVERY is on.
CoreTools ==
    {<<"tool", "search">>, <<"screenshot">>, <<"ui", "tree">>, <<"ui", "find">>, <<"ui", "click">>,
     <<"mouse", "click">>, <<"type", "text">>, <<"key", "combo">>, <<"list", "windows">>,
     <<"run", "command">>, <<"wait">>, <<"room", "state">>}

\* validateCatalogue: what NewServer refuses to start without. The vocabulary of
\* the search, which must not outlive a tool, is not part of it here.
Classified(t) ==
    /\ t.risk # "unset"
    /\ t.risk = "read" => t.vis \in {"unset", "hidden"}
    /\ t.risk # "read" => t.vis # "unset"
    /\ t.vis = "injects" => t.control

Valid(tools) ==
    /\ \A t \in tools : Classified(t)
    /\ \A t, u \in tools : t.name = u.name => t = u

\* effectiveVisibility: what is published for a tool.
EffectiveVisibility(t) == IF t.vis = "unset" /\ t.risk = "read" THEN "hidden" ELSE t.vis
=============================================================================
