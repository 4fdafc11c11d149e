----------------------------- MODULE McpServer -----------------------------
(***************************************************************************)
(* The MCP plane in front of the room (internal/mcp/mcp.go: serve, handle, *)
(* handleToolCall, inflight; tools_room.go: callRoom, mayInject,           *)
(* toolAskHuman).  A connection is read by one goroutine, which registers  *)
(* each tools/call before it spawns the handler, and handles cancellations *)
(* itself; handlers run on goroutines of their own, and the last           *)
(* connection to hang up takes the agent out of the room.                  *)
(*                                                                         *)
(* It composes with Room: the Calls of Room are the requests, and a        *)
(* request for the controls, or a question, runs Room's steps while its    *)
(* handler is inside dispatch.  Policy, halts and unknown names are one    *)
(* nondeterministic refusal; what a tool does besides the room, and how    *)
(* long it takes, is left open.                                            *)
(***************************************************************************)
EXTENDS Room

CONSTANTS
    Links,    \* connections on the Unix socket
    Tools,    \* what requests may ask for: a subset of AllTools
    Unnamed   \* the requests without an id, which nothing can cancel by name

\* "input" stands for every tool that has to hold the controls, "malformed" for
\* a request whose params do not decode, "other" for what is not of interest.
AllTools == {"input", "request_control", "ask_human", "release_control", "room_state", "other",
             "malformed"}

ASSUME ToolsAssumption == Tools \subseteq AllTools /\ Unnamed \subseteq Calls

NoLink == "none"

ASSUME NamesAssumption == NoLink \notin Links

VARIABLES
    link,    \* each connection, down to the deferred steps of serve
    req      \* each request: its handler, and whoever stops it

mcpVars  == <<link, req>>
mcpAll   == <<vars, mcpVars>>

\* tool: what the handler is at, from when it has decoded the params. asking:
\* AskHuman's own goroutine has yet to begin. listed: in the connection's
\* inflight map. ctx: live until cancelled or done. answered: the atomic that lets
\* one reply through. replies: written on the wire. stopper: whether who took the
\* call out of the map to stop it has still to answer it, or only to write that.
NoReq == [pc |-> "none", link |-> NoLink, tool |-> "other", asking |-> FALSE, listed |-> FALSE,
          ctx |-> "live", answered |-> FALSE, replies |-> 0, stopper |-> "none"]

ReqPcs == {"none", "checks", "claim", "dispatch", "inside", "result", "write", "finish", "done"}

ReqState == [pc : ReqPcs, link : Links \cup {NoLink}, tool : AllTools, asking : BOOLEAN,
             listed : BOOLEAN, ctx : {"live", "done"}, answered : BOOLEAN, replies : 0..2,
             stopper : {"none", "answer", "write"}]

McpTypeOK ==
    /\ link \in [Links -> {"new", "open", "leaving", "cancelling", "answering", "gone"}]
    /\ req \in [Calls -> ReqState]

McpInit ==
    /\ Init
    /\ link = [n \in Links |-> "new"]
    /\ req = [c \in Calls |-> NoReq]

-----------------------------------------------------------------------------
Goes(c, pc) == req' = [req EXCEPT ![c].pc = pc, ![c].tool = IF pc = "result" THEN "other" ELSE @]

\* The handler has decoded the params, and they name tool t.
Starts(c, t, pc) ==
    /\ req[c].pc = "checks" /\ t \in Tools
    /\ req' = [req EXCEPT ![c].pc = pc, ![c].tool = IF pc = "result" THEN "other" ELSE t]

\* Slip: the reply does not look whether somebody answered already.
WinsAlways(r) == TRUE

\* reply: answered.Swap lets through whoever gets there first.
Wins(r) == ~ r.answered

\* The response goes out.
Written(r) == [r EXCEPT !.replies = @ + 1]

\* Slip: the entry goes, the work goes on.
DropKeepsWorking(r) == [r EXCEPT !.listed = FALSE]

\* The entry leaves the inflight map, and the call's context is over.
Drop(r) == [r EXCEPT !.listed = FALSE, !.ctx = "done"]

\* Whoever serves connection n is stopping a call of it.
Stopping(n) == \E c \in Calls : req[c].link = n /\ req[c].stopper # "none"

-----------------------------------------------------------------------------
(***************************************************************************)
(* The connection: serve.                                                  *)
(***************************************************************************)

Accept(n) ==
    /\ link[n] = "new"
    /\ link' = [link EXCEPT ![n] = "open"]
    /\ UNCHANGED <<vars, req>>

\* newPendingCall and the spawn of the handler: reading is sequential, so the
\* order on the wire is the order in the map. A request without an id stays out
\* of it: its context is nobody's but the handler's.
ReadCall(c, n) ==
    /\ link[n] = "open" /\ ~ Stopping(n)
    /\ req[c].pc = "none"
    /\ req' = [req EXCEPT ![c] = [NoReq EXCEPT !.pc = "checks", !.link = n,
                                               !.listed = c \notin Unnamed]]
    /\ UNCHANGED <<vars, link>>

\* notifications/cancelled, handled by the reader itself: take the call out of
\* the map and stop it ...
ReadCancel(c) ==
    /\ req[c].listed
    /\ link[req[c].link] = "open" /\ ~ Stopping(req[c].link)
    /\ req' = [req EXCEPT ![c] = [Drop(@) EXCEPT !.stopper = "answer"]]
    /\ UNCHANGED <<vars, link>>

\* ... then answer it, whatever the tool is doing: the swap ...
AnswerStopped(c) ==
    /\ req[c].stopper = "answer"
    /\ \A d \in Calls : req[d].link = req[c].link => req[d].stopper # "write"
    /\ req' = [req EXCEPT ![c] = [@ EXCEPT !.answered = TRUE,
                                           !.stopper = IF Wins(req[c]) THEN "write" ELSE "none"]]
    /\ UNCHANGED <<vars, link>>

\* ... and the write of whoever won it.
WriteStopped(c) ==
    /\ req[c].stopper = "write"
    /\ req' = [req EXCEPT ![c] = [Written(@) EXCEPT !.stopper = "none"]]
    /\ UNCHANGED <<vars, link>>

\* The scanner ends. The deferred calls run last to first: the events hub, the
\* room, the calls in flight. connLive is decremented here, and only whoever
\* brings it to zero goes on to the room.
HangUp(n) ==
    /\ link[n] = "open" /\ ~ Stopping(n)
    /\ link' = [link EXCEPT ![n] = IF \E m \in Links \ {n} : link[m] = "open"
                                     THEN "cancelling" ELSE "leaving"]
    /\ UNCHANGED <<vars, req>>

LeaveRoom(n) ==
    /\ link[n] = "leaving"
    /\ link' = [link EXCEPT ![n] = "cancelling"]
    /\ IF Agent \in members THEN LeaveAgent ELSE UNCHANGED vars
    /\ UNCHANGED req

\* Slip: the calls are stopped, and nobody answers for them.
CancelAllSilently(n) ==
    /\ link[n] = "cancelling"
    /\ link' = [link EXCEPT ![n] = "answering"]
    /\ req' = [c \in Calls |-> IF req[c].link = n /\ req[c].listed THEN Drop(req[c]) ELSE req[c]]
    /\ UNCHANGED vars

\* cancelAll: every call still listed is taken out and stopped, to be answered
\* one after the other.
CancelAll(n) ==
    /\ link[n] = "cancelling"
    /\ link' = [link EXCEPT ![n] = "answering"]
    /\ req' = [c \in Calls |-> IF req[c].link = n /\ req[c].listed
                                 THEN [Drop(req[c]) EXCEPT !.stopper = "answer"] ELSE req[c]]
    /\ UNCHANGED vars

\* conn.Close
Close(n) ==
    /\ link[n] = "answering" /\ ~ Stopping(n)
    /\ link' = [link EXCEPT ![n] = "gone"]
    /\ UNCHANGED <<vars, req>>

-----------------------------------------------------------------------------
(***************************************************************************)
(* The handler: handleToolCall.                                            *)
(***************************************************************************)

\* Params that do not decode are answered past the reply everybody else uses,
\* and the entry stays in the map.
BadParams(c) ==
    /\ req[c].pc = "checks" /\ "malformed" \in Tools
    /\ req' = [req EXCEPT ![c].pc = "done", ![c].tool = "malformed", ![c].replies = @ + 1]
    /\ UNCHANGED <<vars, link>>

\* Halted, unknown, denied by policy, unknown arguments; or a tool that touches
\* neither the room nor X, whenever it returns.
Elsewhere(c) ==
    /\ Starts(c, "other", "result")
    /\ UNCHANGED <<vars, link>>

\* Input has to hold the controls: mayInject joins the room ...
JoinToInject(c) ==
    /\ Starts(c, "input", "claim")
    /\ IF Agent \in members THEN UNCHANGED vars ELSE JoinAgent
    /\ UNCHANGED link

\* ... and then looks who drives.
MayInject(c) ==
    /\ req[c].pc = "claim"
    /\ Goes(c, IF controller = Agent THEN "dispatch" ELSE "result")
    /\ UNCHANGED <<vars, link>>

\* The tool returns, whether or not it was listening to its context. Until then
\* an input tool puts events into X, and nothing looks at the controls again.
Return(c) ==
    /\ req[c].pc = "dispatch" /\ req[c].tool = "input"
    /\ Goes(c, "result")
    /\ UNCHANGED <<vars, link>>

RoomState(c) ==
    /\ Starts(c, "room_state", "result")
    /\ IF Agent \in members THEN UNCHANGED vars ELSE JoinAgent
    /\ UNCHANGED link

GiveBack(c) ==
    /\ Starts(c, "release_control", "result")
    /\ IF controller = Agent THEN AgentReleases ELSE UNCHANGED vars
    /\ UNCHANGED link

AskToDrive(c) ==
    /\ Starts(c, "request_control", "inside")
    /\ RequestControl(c)
    /\ UNCHANGED link

\* The handler waits for AskHuman, or for its own cancellation.
Question(c) ==
    /\ req[c].pc = "checks" /\ "ask_human" \in Tools
    /\ req' = [req EXCEPT ![c].pc = "inside", ![c].tool = "ask_human", ![c].asking = TRUE]
    /\ UNCHANGED <<vars, link>>

\* AskHuman runs on a goroutine of its own, which may begin when the handler has
\* been cancelled and is gone. It posts; or it has nobody to ask and returns.
Asks(c) ==
    /\ req[c].asking
    /\ req' = [req EXCEPT ![c].asking = FALSE]
    /\ \/ AskHuman(c)
       \/ /\ Agent \notin members \/ ~ HumansPresent \/ pending["question"] # NoPrompt
          /\ UNCHANGED vars
    /\ UNCHANGED link

\* Inside the room the call takes Room's steps, with its handler waiting or gone.
AskingSteps(c) ==
    /\ \/ LookForHumans(c)
       \/ AskTurnedAway(c) \/ AskFindsFree(c) \/ AskPosts(c)
       \/ Receive(c) \/ Timeout(c) \/ TakeDown(c) \/ Seize(c)
    /\ UNCHANGED mcpVars

BackFromRoom(c) ==
    /\ req[c].pc = "inside"
    /\ \/ call[c].pc = "idle" /\ ~ req[c].asking
       \/ req[c].tool = "ask_human" /\ req[c].ctx = "done"
    /\ Goes(c, "result")
    /\ UNCHANGED <<vars, link>>

\* The result, or `cancelled`: the swap, and the write of whoever won it.
Reply(c) ==
    /\ req[c].pc = "result"
    /\ req' = [req EXCEPT ![c] = [@ EXCEPT !.answered = TRUE,
                                           !.pc = IF Wins(req[c]) THEN "write" ELSE "finish"]]
    /\ UNCHANGED <<vars, link>>

WriteReply(c) ==
    /\ req[c].pc = "write"
    /\ req' = [req EXCEPT ![c] = [Written(@) EXCEPT !.pc = "finish"]]
    /\ UNCHANGED <<vars, link>>

\* The deferred pending.done().
Done(c) ==
    /\ req[c].pc = "finish"
    /\ req' = [req EXCEPT ![c] = [Drop(@) EXCEPT !.pc = "done"]]
    /\ UNCHANGED <<vars, link>>

-----------------------------------------------------------------------------
Handler(c) ==
    \/ BadParams(c) \/ Elsewhere(c) \/ JoinToInject(c) \/ MayInject(c)
    \/ Return(c) \/ RoomState(c) \/ GiveBack(c) \/ AskToDrive(c) \/ Question(c)
    \/ AskingSteps(c) \/ Asks(c) \/ BackFromRoom(c) \/ Reply(c) \/ WriteReply(c) \/ Done(c)

Serve(n) == Accept(n) \/ HangUp(n) \/ LeaveRoom(n) \/ CancelAll(n) \/ Close(n)

StopCall(c) == ReadCancel(c) \/ AnswerStopped(c) \/ WriteStopped(c)

People == (\E s \in Sessions : PeopleStep(s)) /\ UNCHANGED mcpVars

McpNext ==
    \/ People
    \/ \E n \in Links : Serve(n) \/ \E c \in Calls : ReadCall(c, n)
    \/ \E c \in Calls : Handler(c) \/ StopCall(c)

McpSpec == McpInit /\ [][McpNext]_mcpAll

-----------------------------------------------------------------------------
(***************************************************************************)
(* Properties.                                                             *)
(***************************************************************************)

Running(c) == req[c].pc \notin {"none", "done"}
WellFormed(c) == req[c].tool # "malformed"

\* Every request whose params decode gets exactly one response: never two when
\* a cancellation, a hang-up and the tool's own result cross, and one by the
\* time its handler is done, or whoever stopped it is writing it.
OneAnswerEach ==
    \A c \in Calls : WellFormed(c) =>
        /\ req[c].replies <= 1
        /\ req[c].pc = "done" => req[c].replies = 1 \/ req[c].stopper = "write"

\* A stopped call has been told so, even while its tool works on: "the wait
\* always stops even when the work does not".  Until then whoever stopped it is
\* about to tell it, or its handler to write what it had come to.
StoppedIsAnswered ==
    \A c \in Calls : Running(c) /\ req[c].ctx = "done"
                       => req[c].replies = 1 \/ req[c].stopper # "none" \/ req[c].pc = "write"

\* What a connection started stops with it: no call that has an id is left
\* listed, live or unanswered on a connection that is gone, however late it was
\* read; but for one whose handler has its answer at hand.
GoneLeavesNothing ==
    \A c \in Calls \ Unnamed : req[c].pc # "none" /\ link[req[c].link] = "gone" =>
        /\ ~ req[c].listed
        /\ req[c].ctx = "done"
        /\ req[c].replies >= 1 \/ req[c].pc = "write"

(***************************************************************************)
(* What the comments say and the code does not do.                         *)
(***************************************************************************)

\* mcp.go: "left the desktop held by a process that no longer existed" is what
\* leaving the room on the last hang-up is for. As an invariant of the run mcp
\* it is violated.
SomebodyHoldsTheControls ==
    controller = Agent =>
        \/ \E n \in Links : link[n] \in {"open", "leaving"}
        \/ \E c \in Calls : Running(c)
=============================================================================
