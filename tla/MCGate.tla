------------------------------- MODULE MCGate -------------------------------
(***************************************************************************)
(* What pages and files go through: the limiter with its logins, the       *)
(* tickets with their deliveries, the tree, the clipboard and pointer of   *)
(* the sessions, and the tools that work on a page.  They share nothing,   *)
(* and are explored one beside the other.                                  *)
(***************************************************************************)
EXTENDS Gate, FileServer, Feeds, Browser, TLC

VARIABLE part

Home == <<"home">>

MCPaths == {<<>>, <<"etc">>, <<"etc", "a">>, Home, <<"home", "a">>, <<"home", "b">>,
            <<"home", "a", "a">>, <<"home", "b", "a">>}

Link(to) == [kind |-> "link", to |-> to]

\* Below the root a directory with a file in it, and a link.
Tree(target) ==
    [p \in MCPaths |-> CASE p \in {<<>>, <<"etc">>, Home, <<"home", "a">>} -> Plain("dir")
                         [] p = <<"home", "a", "a">> -> Plain("file")
                         [] p = <<"home", "b">>      -> Link(target)
                         [] OTHER                    -> Plain("none")]

\* To a directory out of the root, to a file that is not there, to the root and
\* to nowhere.
MCTrees == {Tree(t) : t \in {<<"etc">>, <<"etc", "a">>, Home, <<"home", "b", "a">>}}

\* A link comes, or a file.
MCPuts == {Link(<<"etc">>), Plain("file")}

MCInit ==
    /\ part \in {"gate", "tickets", "tree", "clip", "cursor", "browser"}
    /\ GateInit /\ FileInit /\ ClipInit /\ CursorInit /\ BrowserInit
    /\ part # "tree" => tree = Tree(Home)
    /\ part # "gate" => visit = [v \in Visits |-> [pc |-> "away", origin |-> CHOOSE o \in Origins : TRUE]]
    /\ part # "clip" => clip = NoText
    /\ part # "cursor" => shape = NoShape
    /\ part # "browser" => tab.open /\ ~tab.loading

MCNext ==
    \/ part = "gate" /\ GateNext /\ UNCHANGED <<fileVars, feedVars, browserVars, part>>
    \/ part = "tickets" /\ TicketNext /\ UNCHANGED <<gateVars, feedVars, browserVars, part>>
    \/ part = "tree" /\ TreeNext /\ UNCHANGED <<gateVars, feedVars, browserVars, part>>
    \/ part = "clip" /\ ClipNext /\ UNCHANGED <<gateVars, fileVars, cursorVars, browserVars, part>>
    \/ part = "cursor" /\ CursorNext /\ UNCHANGED <<gateVars, fileVars, clipVars, browserVars, part>>
    \/ part = "browser" /\ BrowserNext /\ UNCHANGED <<gateVars, fileVars, feedVars, part>>

MCSpec == MCInit /\ [][MCNext]_<<gateVars, fileVars, feedVars, browserVars, part>>

\* Visits and calls differ only by name.
MCSymmetry == Permutations(Visits) \cup Permutations(Calls)
=============================================================================
