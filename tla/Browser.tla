------------------------------- MODULE Browser -------------------------------
(***************************************************************************)
(* The browser tools (internal/mcp/cdp.go, tools_ui.go): every call opens  *)
(* a socket of its own to the first tab and sends one request at a time,   *)
(* while the page, the person at it and other calls go on changing what    *)
(* the next request will find.  The page is external.                      *)
(*                                                                         *)
(* One element is the target of every click, one field that of each        *)
(* browser_type; a document is the number of the navigation it came with.  *)
(***************************************************************************)
EXTENDS Naturals, Sequences

CONSTANTS
    Calls,     \* calls of the browser tools
    NoCall,
    MaxFuss    \* bound: what the page does of itself

ASSUME BrowserConstants == NoCall \notin Calls /\ MaxFuss \in Nat

VARIABLES
    tab,       \* the first tab: whether it is there and loading, its document,
               \* what is at the target's point, and whose field has the focus
    call,      \* each call: its tool, where it is, and the request it is at
    asked,     \* calls whose request the browser has to handle
    socket,     \* what each socket has to read: replies, and events once asked for
    listening, \* calls that sent Page.enable
    down,      \* calls whose press the page has seen, and not the release
    looked,    \* history: what each call's measuring, focusing or navigation found
    landed,    \* history: what its press, text or wait for a load came to
    committed, \* history: the document of each call's navigation
    moved,     \* history: calls that what they had found was changed under, before they acted on it
    fuss

history == <<looked, landed, committed>>
browserVars == <<tab, call, asked, socket, listening, down, history, moved, fuss>>

\* The requests of each tool, each sent once the last has been answered.
Requests ==
    [browser_click |-> <<"measure", "move", "press", "release">>,
     browser_type  |-> <<"focus", "insert">>,
     browser_goto  |-> <<"enable", "navigate">>,
     browser_eval  |-> <<"evaluate">>,
     browser_wait_for |-> <<"observe">>]

BrowserInit ==
    /\ tab \in [open : BOOLEAN, doc : {0}, loading : BOOLEAN, spot : {"target"}, focus : {NoCall}]
    /\ call = [c \in Calls |-> [tool |-> "none", pc |-> "away", at |-> 1, answer |-> "none"]]
    /\ asked = {} /\ socket = [c \in Calls |-> <<>>] /\ listening = {}
    /\ down = {} /\ looked = [c \in Calls |-> "nothing"] /\ landed = looked /\ committed = [c \in Calls |-> 0]
    /\ moved = {} /\ fuss = 0

\* What can be at the point where the target was.
Spots == {"target", "other", "void", "gone"}

Request(c) == Requests[call[c].tool][call[c].at]
Reply(says) == [t |-> "reply", says |-> says, doc |-> 0]
Event(what) == [t |-> "event", says |-> what, doc |-> tab.doc]
Answers(c, says) == socket' = [socket EXCEPT ![c] = Append(@, Reply(says))]
Tell(events) == socket' = [c \in Calls |-> IF c \in listening THEN socket[c] \o events ELSE socket[c]]

\* Those of a tool whose step has found something, and whose later one has not acted on it.
Resting(tool, step) ==
    {c \in Calls : call[c].tool = tool /\ call[c].pc \in {"send", "await", "event"} /\ landed[c] = "nothing"
                   /\ \/ call[c].at > step
                      \/ call[c].at = step /\ call[c].pc # "send" /\ c \notin asked}

-----------------------------------------------------------------------------
(* The page. *)

Fuss == fuss < MaxFuss /\ fuss' = fuss + 1

\* The target goes, is covered or uncovered, or leaves the part that is shown.
Shift ==
    /\ Fuss /\ tab.open
    /\ \E spot \in Spots \ {tab.spot} : tab' = [tab EXCEPT !.spot = spot]
    /\ moved' = moved \cup Resting("browser_click", 1)
    /\ UNCHANGED <<call, asked, socket, listening, down, history>>

\* A person clicks into another field.
Blur ==
    /\ Fuss /\ tab.focus # NoCall /\ tab' = [tab EXCEPT !.focus = NoCall]
    /\ moved' = moved \cup Resting("browser_type", 1)
    /\ UNCHANGED <<call, asked, socket, listening, down, history>>

LoadEnds ==
    /\ tab.loading /\ tab' = [tab EXCEPT !.loading = FALSE]
    /\ Tell(<<Event("load"), Event("stopped")>>)
    /\ UNCHANGED <<call, asked, listening, down, history, moved, fuss>>

\* A frame of the page has loaded, or the load is broken off.
FrameStops ==
    /\ Fuss /\ tab.loading /\ tab' \in {tab, [tab EXCEPT !.loading = FALSE]}
    /\ Tell(<<Event("stopped")>>)
    /\ UNCHANGED <<call, asked, listening, down, history, moved>>

TabCloses ==
    /\ Fuss /\ tab.open /\ tab' = [tab EXCEPT !.open = FALSE, !.loading = FALSE]
    /\ UNCHANGED <<call, asked, socket, listening, down, history, moved>>

\* browser_open starts a browser when there is no tab.
TabOpens ==
    /\ Fuss /\ ~tab.open /\ tab' = [tab EXCEPT !.open = TRUE]
    /\ UNCHANGED <<call, asked, socket, listening, down, history, moved>>

-----------------------------------------------------------------------------
(* The browser, handling a request.  That of a call which gave up may be    *)
(* handled all the same.                                                   *)

Handled(c) == c \in asked /\ tab.open /\ asked' = asked \ {c}

Finds(c, what) == looked' = [looked EXCEPT ![c] = what]

\* "gone" is no such element, or one without a box; "void" is a point where
\* nothing is hit, which does not count as covered.
Measure(c) ==
    /\ Request(c) = "measure" /\ Handled(c) /\ Answers(c, tab.spot) /\ Finds(c, tab.spot)
    /\ UNCHANGED <<tab, call, listening, down, landed, committed, moved, fuss>>

\* The field is not there; or it is, and may be past selecting. It takes the focus,
\* or is not one that does, which is not looked at.
FocusField(c) ==
    /\ Request(c) = "focus" /\ Handled(c)
    /\ \/ Answers(c, "gone") /\ Finds(c, "gone") /\ UNCHANGED <<tab, moved>>
       \/ /\ tab' \in {tab, [tab EXCEPT !.focus = c]}
          /\ Finds(c, IF tab'.focus = c THEN "target" ELSE "other")
          /\ \E says \in {"ok", "refused"} : Answers(c, says)
          /\ moved' = IF tab' = tab THEN moved ELSE moved \cup (Resting("browser_type", 1) \ {c})
    /\ UNCHANGED <<call, listening, down, landed, committed, fuss>>

\* Input.dispatchMouseEvent and Input.insertText act on whatever is there now.
Dispatch(c) ==
    /\ Request(c) \in {"move", "press", "release", "insert"} /\ Handled(c) /\ Answers(c, "ok")
    /\ down' = CASE Request(c) = "press"   -> down \cup {c}
                 [] Request(c) = "release" -> down \ {c}
                 [] OTHER                  -> down
    /\ landed' = [landed EXCEPT ![c] = CASE Request(c) = "press"  -> tab.spot
                                         [] Request(c) = "insert" -> IF tab.focus = c THEN "target" ELSE "other"
                                         [] OTHER -> @]
    /\ UNCHANGED <<tab, call, listening, looked, committed, moved, fuss>>

EnableEvents(c) ==
    /\ Request(c) = "enable" /\ Handled(c) /\ Answers(c, "ok")
    /\ listening' = listening \cup {c}
    /\ UNCHANGED <<tab, call, down, history, moved, fuss>>

Evaluate(c) ==
    /\ Request(c) = "evaluate" /\ Handled(c) /\ Answers(c, "ok")
    /\ UNCHANGED <<tab, call, listening, down, history, moved, fuss>>

\* The promise of a wait: the element is there, or the page's own timer is up.
WaitInPage(c) ==
    /\ Request(c) = "observe" /\ Handled(c)
    /\ Answers(c, IF tab.spot = "gone" THEN "timeout" ELSE "found")
    /\ UNCHANGED <<tab, call, listening, down, history, moved, fuss>>

\* Another document takes the tab, and the promises waiting in the old one with it.
Commit(c) ==
    LET waits == {w \in asked : Request(w) = "observe"}
    IN  /\ Request(c) = "navigate" /\ c \in asked /\ tab.open
        /\ asked' = asked \ ({c} \cup waits)
        /\ tab' = [tab EXCEPT !.doc = @ + 1, !.loading = TRUE, !.spot = "gone", !.focus = NoCall]
        /\ committed' = [committed EXCEPT ![c] = tab.doc + 1] /\ Finds(c, "target")
        /\ socket' = [w \in Calls |-> IF w = c THEN Append(socket[w], Reply("ok"))
                                     ELSE IF w \in waits THEN Append(socket[w], Reply("destroyed"))
                                     ELSE socket[w]]
        /\ moved' = moved \cup Resting("browser_click", 1) \cup Resting("browser_type", 1)
                          \cup (Resting("browser_goto", 2) \ {c})
        /\ UNCHANGED <<call, listening, down, landed, fuss>>

\* An error of the protocol, a script that throws, or a navigation that is refused.
Refuse(c) ==
    /\ Handled(c) /\ Answers(c, "refused")
    /\ UNCHANGED <<tab, call, listening, down, history, moved, fuss>>

-----------------------------------------------------------------------------
(* A call. *)

CallAt(c, pc) == call' = [call EXCEPT ![c].pc = pc]
Ends(c, answer) == call' = [call EXCEPT ![c].pc = "over", ![c].answer = answer]

\* cdpOpen.
OpenSocket(c, tool) ==
    /\ call[c].pc = "away"
    /\ call' = [call EXCEPT ![c] = [tool |-> tool, pc |-> IF tab.open THEN "send" ELSE "over", at |-> 1,
                                    answer |-> IF tab.open THEN "none" ELSE "failed"]]
    /\ UNCHANGED <<tab, asked, socket, listening, down, history, moved, fuss>>

SendRequest(c) ==
    /\ call[c].pc = "send" /\ CallAt(c, "await") /\ asked' = asked \cup {c}
    /\ UNCHANGED <<tab, socket, listening, down, history, moved, fuss>>

\* Slip: what covers the element is not asked about.
RefusesTheMissing(says) == says \in {"gone", "refused", "destroyed", "timeout"}

\* The replies that end a call.
RefusesToGoOn(says) == says \in {"gone", "other", "refused", "destroyed", "timeout"}

Said == [browser_click |-> "clicked", browser_type |-> "typed", browser_goto |-> "none",
         browser_eval |-> "value", browser_wait_for |-> "appeared"]

\* reply: events are thrown away while it looks for the answer.
ReadReply(c) ==
    LET m == Head(socket[c]) tool == call[c].tool
    IN  /\ call[c].pc = "await" /\ socket[c] # <<>>
        /\ socket' = [socket EXCEPT ![c] = Tail(@)]
        /\ CASE m.t = "event"         -> UNCHANGED call
             [] m.t = "reply" /\ RefusesToGoOn(m.says) -> Ends(c, "failed")
             [] m.t = "reply" /\ ~RefusesToGoOn(m.says) ->
                  IF call[c].at < Len(Requests[tool])
                  THEN call' = [call EXCEPT ![c].pc = "send", ![c].at = @ + 1]
                  ELSE IF tool = "browser_goto" THEN CallAt(c, "event") ELSE Ends(c, Said[tool])
        /\ UNCHANGED <<tab, asked, listening, down, history, moved, fuss>>

\* event, of whatever document.
ReadEvent(c) ==
    /\ call[c].pc = "event" /\ socket[c] # <<>>
    /\ socket' = [socket EXCEPT ![c] = Tail(@)]
    /\ Ends(c, IF Head(socket[c]).says = "load" THEN "loaded" ELSE "stopped")
    /\ landed' = [landed EXCEPT ![c] = IF Head(socket[c]).doc = committed[c] THEN "target" ELSE "other"]
    /\ UNCHANGED <<tab, asked, listening, down, looked, committed, moved, fuss>>

\* The deadline, or a tab that went away.
GivesUp(c) ==
    /\ call[c].pc \in {"await", "event"} \/ (call[c].pc = "send" /\ ~tab.open)
    /\ Ends(c, IF call[c].pc = "event" THEN "not loaded" ELSE "failed")
    /\ UNCHANGED <<tab, asked, socket, listening, down, history, moved, fuss>>

BrowserNext ==
    \/ Shift \/ Blur \/ LoadEnds \/ FrameStops \/ TabCloses \/ TabOpens
    \/ \E c \in Calls :
         \/ \E tool \in DOMAIN Requests : OpenSocket(c, tool)
         \/ call[c].tool # "none" /\ (\/ Measure(c) \/ FocusField(c) \/ Dispatch(c) \/ EnableEvents(c)
                                  \/ Evaluate(c) \/ WaitInPage(c) \/ Commit(c) \/ Refuse(c))
         \/ SendRequest(c) \/ ReadReply(c) \/ ReadEvent(c) \/ GivesUp(c)

BrowserSpec == BrowserInit /\ [][BrowserNext]_browserVars

-----------------------------------------------------------------------------
(* Properties. *)

Messages == [t : {"reply", "event"}, says : {"ok", "refused", "target", "other", "void", "gone", "found",
                                             "timeout", "destroyed", "load", "stopped"}, doc : Nat]

BrowserTypeOK ==
    /\ tab \in [open : BOOLEAN, doc : Nat, loading : BOOLEAN, spot : Spots,
                focus : Calls \cup {NoCall}]
    /\ call \in [Calls -> [tool : DOMAIN Requests \cup {"none"}, pc : {"away", "send", "await", "event", "over"},
                          at : 1..4, answer : {"none", "failed", "clicked", "typed", "value", "appeared",
                                               "loaded", "stopped", "not loaded"}]]
    /\ asked \subseteq Calls /\ listening \subseteq Calls /\ down \subseteq Calls /\ moved \subseteq Calls
    /\ socket \in [Calls -> Seq(Messages)] /\ committed \in [Calls -> Nat] /\ fuss \in Nat
    /\ looked \in [Calls -> Spots \cup {"nothing"}] /\ landed \in [Calls -> Spots \cup {"nothing"}]

\* What the browser tools report is what came of it.  What says that it clicked,
\* typed or loaded has looked, and has acted; no press goes out to an element that
\* was found missing or covered; and what a call came to is what it had found,
\* unless the page was changed under it in between.  And the page has the button
\* down only while a click is at work, or because one gave up in the middle.
\* (A point where nothing is hit and a field without the focus count as found.)
ReportsAreTrue ==
    /\ \A c \in Calls :
         /\ call[c].answer \in {"clicked", "typed", "loaded"} =>
              landed[c] # "nothing" /\ (c \notin moved => landed[c] = looked[c])
         /\ call[c].tool = "browser_click" /\ landed[c] # "nothing" => looked[c] \in {"target", "void"}
    /\ \A c \in down : call[c].pc \in {"send", "await"} \/ call[c].answer = "failed"
=============================================================================
