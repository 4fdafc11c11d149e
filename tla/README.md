# SentinelDesk in TLA+

SentinelDesk shares one Linux desktop between people, who watch and steer it in
a browser (WebSocket and WebRTC), and an AI agent, which reaches it through MCP
over a Unix socket. This directory holds TLA+ models of the parts of it where
goroutines meet, TLC configurations that check them on small instances, and
TLAPS proofs of the properties that matter most, for every value of the
constants. `PROJECT.json` ties every definition to the lines it stands for.

    tlc -workers 2 -config MCRoom.cfg MCRoom
    tlapm RoomProofs.tla

1. Inventory
2. The modules and the code
3. Runs: what is checked, and within which bounds
4. Proofs
5. Where code and comments disagree
6. What is not modelled
7. Plan

## 1. Inventory

| part | its state | its operations | what makes it correct |
|---|---|---|---|
| room: `stream/room.go` | members, controller, numbers, pending prompts, presence watchers | Join, Leave, JoinAgent, LeaveAgent, TakeControl, ReleaseControl, AskForControl, AskHuman, the answers, WatchPresence | one driver at most, and a member; seats and numbers; a prompt belongs to one call; the agent takes the controls only when granted |
| capture: `room.go`, `media/pipeline.go` | videoPipe, audioPipe, bitrates, lastRate | startPipelines, stopPipelines, ReportBitrate, SetBitrateKbps | runs exactly while somebody watches; the encoder runs at the agreed rate |
| browser session: `stream/session.go` | its peer connection, its data channel | authenticate, start, handleInput, adaptBitrate, Close | what it leaves behind in the room when it goes |
| MCP plane: `mcp/mcp.go` | connections, calls in flight, halted connections, policy per connection | serve, handle, handleToolCall, cancel, cancelAll | one answer per request; a cancelled call is answered at once; nothing outlives its connection |
| room tools: `mcp/tools_room.go` | none | room_state, request_control, release_control, ask_human, mayInject | input only from who drives |
| events: `mcp/events.go` | per connection: topics, the sources and their stop, lastCtl | subscribe, unsubscribe, close, publish, watchRoom, watchX | no announced change is lost; no watcher is leaked |
| policy: `mcp/mcppolicy.go`, `registry.go` | the catalogue; level, denials, allow list of each connection; halts; the action log | Restrict, Allowed, Filter, handleToolCall's checks; Add, Clear, rotation | a connection can only give up rights; what is shown can be called; the trail keeps the newest entries |
| restream, recording, microphone: `media/` | branches of the pipeline and their cadence; one recorder; one upstream | StartRestream, StopRestream, watchBranch; Start, Stop; StartAudio, Stop | a branch is attached or gone; one recording, handed over when it is closed; a microphone is not taken away |
| gate: `stream/ratelimit.go`, `auth.go` | buckets, bans, session tokens | Take, Fail, pass, sweep; authenticate | one burst and the trickle; bans hold and escalate |
| files: `stream/files.go`, `delivery.go` | tickets, the tree below the root | newTicket, claimTicket, upload, mkdir, delete, rename, Deliver | a ticket works once; nothing outside the root is touched but by uploads through links |
| terminals: `mcp/tools_terminal.go`, `shell/` | the shared pane and its exit-code files; shells; ssh sessions and tunnels | terminal_open, terminal_run; Run, Drain, Close; TunnelLocal, TunnelRemote, CloseTunnel | an outcome is the caller's own; output reaches one call; ports are freed |
| desktop: `desktop/` | keys and buttons down; X subscriptions; the screen's last change; pointer and clipboard | Key, Button, ReleaseAll, Apply; WaitFor, QuietFor; refresh, Get, Set | nothing stays pressed; no wake-up is missed; pages catch up |
| browser tools: `mcp/cdp.go`, `tools_ui.go` | a socket per call | click, type, goto, eval, wait_for | what they report came true |
| agent: `agent/internal/`, `toolsearch/` | waiting requests; the run's turn, budget, interruption, tools on offer; the store | request, deliver, failWaiters; Run, NoteEvent; Select, Rank, discovered | every request returns; the run stops when the desktop is taken; tools stay in reach |

How they interact. A browser session calls into the room from its WebRTC and
WebSocket goroutines; the room calls back into sessions only to send. MCP
handlers, one goroutine per request, call the same room through the `Rooms`
interface; a connection's reader goroutine handles cancellations by itself. The
room announces changes by calling the presence callbacks, outside its lock, on
the goroutine of whoever made the change; each event hub reads the room again
on a goroutine of its own and writes to its connection. `Room.mu` protects
members, controls and prompts, but not the two pipeline fields. The agent
process talks to the MCP plane over one connection: its loop makes requests from
one goroutine, a reader goroutine hands out the answers and runs the handlers of
notifications. Nothing is persisted by the daemon, so it has no recovery; what
fails is connections, captures that do not start, and tools that do not listen
to their context. The agent keeps its runs in a database, and a later process
can resume one.

What is hard, then: operations split by an unlock (ask, wait, take down; read
the room, take the hub's lock); answers, timers, cancellations and hang-ups that
race for the same request; decisions made under a lock and carried out after it
(starting and stopping the capture, applying a bitrate, announcing); checks that
are stale by the time they are used (`mayInject`, "nobody drives"). `hazards` in
`PROJECT.json` lists them by line, with the properties that cover them.

## 2. The modules and the code

    ControlToken  <--refined by--  Room  <--extended by--  RoomCapture
         ^                          ^
         | extended by              | extended by
      EventHub                   McpServer   - - the wire - -   AgentClient
                                                                   ^
                                                       extended by |
                                                               AgentLoop

    MCPolicy:  Policy + Catalogue | ActionLog | ToolSearch
    MCGate:    Gate | FileServer (tickets, tree) | Feeds (clipboard, pointer) | Browser
    MCMedia:   Restream | Recorder | Microphone
    MCDesk:    Watch (windows, damage) | HeldInput | Terminal | SshTunnels | PtyShell

The modules of the last four lines share no state with one another in the code
either. Such an MC module holds them side by side and its `part` says which of
them moves in a behaviour, so one run explores each of them alone. What they
need of the rest they take as free moves: who drives, who is in the room.

**ControlToken** is what the room promises about the controls: at most one
participant holds them, only somebody present picks them up, they are put down
and never handed on when their holder goes.

**Room** is the membership and the controls. One action is one critical section
of `Room.mu`; a function that unlocks and locks again is cut there. `Admit` and
`Refuse` are the two outcomes of `Join`, evictions of dead connections included;
`Leave` is `Leave` with the session's `Close` around it. A connection is `up`,
`down` (ICE's `disconnected`, which may recover) or `closed`. `AskForControl` is
cut into `AskTurnedAway`/`AskFindsFree`/`AskPosts`, then `Receive` or `Timeout`
(its select), `TakeDown`, `Seize`; `AskHuman` posts and waits the same way.
`PickUp` and `Deliver` are the two halves of an answer, which reads the prompt
under the lock and sends outside it, into a channel with one slot. A handler may
outlive its session, so `TakeControl` is possible for a session that is gone.
`JoinAgent` does not count against `MaxViewers`, but the agent, once in, counts
against whoever joins next: `Full` counts every member, as the code does.

**RoomCapture** extends Room with what `Join` and `Leave` do after they release
the lock. `job` is the program counter of that tail: `build` and `play` are the
two accesses of `startPipelines` to `Room.videoPipe`, `stop` and `clear` those
of `stopPipelines`, `undo` is a `Join` whose capture did not start. `Play` on a
field cleared meanwhile is a nil dereference, which net/http recovers
(`PlayPanics`); the seat stays taken. `Report` is `ReportBitrate` up to its
unlock, `SetRate` what follows; `tuned` (the pipelines whose encoder a report
has set) and `crossed` (a report decided while another was being applied) are
history. The audio pipeline moves with the video one in the same statements and
is left out.

**McpServer** extends Room with connections and requests. `Accept`, `ReadCall`,
`ReadCancel`, `AnswerStopped`, `WriteStopped`, `HangUp`, `LeaveRoom`,
`CancelAll`, `Close` are the reader goroutine of `serve` with its deferred calls
in the order they run; the actions of `Handler` are `handleToolCall`, from the
decoding of its params to the deferred `done`. While a handler is inside a room
tool its steps are Room's. Which tool a request names is chosen when the handler
decodes it, since nothing before that looks. Halts, policy, unknown names and
unknown arguments are one refusal (`Elsewhere`). Request ids are unique in a
connection, as JSON-RPC asks; a request without an id (`Unnamed`) is not
registered. `stopper` is what whoever stopped a call has still to do for it:
swap the atomic `answered`, or write what it won; taking the call out of the
map, the swap and the write are three steps, as the swap and the write of the
handler's own reply are two. `ask_human` leaves its asking to a goroutine of its
own (`Asks`), which may begin when the handler has been cancelled. `connLive` is
the number of connections that are `open`.

**EventHub** is one connection's hub over ControlToken, which stands for the
room: `Loud` moves end in `broadcastPresence`, `Quiet` ones return without it
(the last viewer's departure; the evictions of a refused Join). `Announce`,
`Copy` and `Tell` are the broadcast: begun, the callbacks copied under the lock,
each called outside it. `subscribe` is cut at its unlocks into `SubscribeReads`,
`SubscribeSwaps`, `TearDown`, `Build` and `Store`; the goroutine of `watchRoom`
into `Wake`, `Look`, `Compare`, `Publish`, and `End`. Before a source's first
look `source[w].id` is history (who drove when it was registered); `quiet` and
`freed` are history as well. A Join undone by a failed capture announces nothing
on its way out either, and is not told apart from a Join and a Leave here.

**AgentClient** is the agent's end of a connection. A caller is a goroutine with
a context; `Begin`, `Number`, `Register`, `Send`/`SendFails` and the two selects
(`Take`, `Abandon`, `EndGrace`) are `Call` and `request`, cut wherever another
goroutine can come between. `give` is what `deliver` and `failWaiters` have taken
out of the map and not yet sent (`HandOver`); a channel has room for one answer
(`slot`), and `HandOver` can only run on an empty one. `FailWaiters` may run with
lines still unread: a broken transport cuts them off. The server is what
McpServer promises, seen from the wire: it reads in order and answers once, and
answers at once what it is told to drop (`serving`).

**AgentLoop** extends AgentClient with the run. `Replies` is a turn up to the
recording of it, `StartTool` and `EndTool` a call around the client's steps,
`ReadSkill` the call that stays in the process, `AfterCall` what follows a call:
the record, the check for an interruption, the next call or turn. The two looks
at `interrupted` (inside the loop over a batch and behind it) are one, since the
flag is never reset and nothing is done in between. A conversation is kept as
the set of calls its assistant messages ask for and the set of calls it has
results of. `Kill` and `ResumeRun` are the death of the process and another one
that continues a run of the database (`--resume`) with a fresh client. A row is
written or it is not: the loop drops what `RecordTurn` and `RecordCall` return,
and a database that does not open leaves it without a Recorder (`recorded`,
`Tries`, `RecordsCall`). What `Finish` notes of a run when it is over is read by
nobody the model has, and is left out. `late` and `lost`, the calls whose record
could not be written, are history.

**Catalogue** is every tool of `tools*.go` with its risk, its visibility, whether
it needs the controls and whether it takes `as_root`, and the check of the
catalogue that the daemon starts with. A name is the sequence of its words,
since wildcards compare prefixes. **Policy** is a connection's policy:
`RestrictSelf` is the inline `sentineldesk/policy`, a call carries the policy it
was read under (`ReadToolCall`), and `Checked` is the order of handleToolCall:
halted, unknown name, policy, unknown arguments, then the controls. **ActionLog**
numbers its entries; every write, rename and open may fail (`MaxFaults`).
**ToolSearch** is what an agent shows its model: `Select` at the start, `Widen`
after each search, both over the ranking `RankTools`. A query is what each tool
has to show for it, and the scores are those of `Rank`.

**Gate** has the limiter with a clock whose unit is the time one token takes,
and connections that take a token, open, and have a first frame judged, each
step alone. `Fail`, `Pass` and the sweep are critical sections of `IPGate.mu`.
**FileServer** has one-use tickets, deliveries that count those they tell, and a
tree whose root is one directory in it: links lead anywhere, below the root, out
of it, in a circle, or to what does not exist yet. `Resolved` is `resolve` with
both of its checks against the root, `Created` what `os.Create` makes of a path,
following a link at its end. An operation is one step from `resolve` to its
system call; an upload resolves its directory, and then puts each file in a step
of its own, with the desktop free to change the tree in between. **Feeds** is
the clipboard, from the X selection to the browser's machine and back, with
`lastClip` as the unguarded field it is (`Compare` reads it, `Remember` writes
it), and the pointer's shape through a channel with room for one. **Browser** is
a call's sequence of requests on a socket of its own (`Requests`), with a page
that moves, loads, navigates and closes by itself or by another call. A
measurement can find the element, another on top of it, nothing hit at its
centre (`void`, which the code takes for not covered) or no element; a field is
there or not, and takes the focus or does not, which the script answers with
`ok` alike. `looked` and `landed` are history: what a call found, and what its
press or text came to.

**Restream** cuts StartRestream at every call into GStreamer that can fail
(pads, link, sync), and detach likewise; `watch` is the eight-second goroutine
of each branch on the common bus. **Recorder** numbers encoders and gives each
the name of a file, which two may share: the code names a file by the second.
`signal`, `wait`, `clear` are the unlocked stretch of Stop. **Microphone** is
who publishes.

**Watch** has the two event loops: property changes fanned out into bounded
channels to `WaitFor`, and damage, whose region X reports once until it is
subtracted. `Interned` are the properties whose atoms existed when the
watcher started; a change of any other is reported to nobody. **HeldInput** tells
apart the check of an event or of an agent's tool call (under the room's lock)
from its injection; the end of a click, a drag or a tap, which lets go without a
check (`TapEnds`); and the three steps of `Close`: whether its session drives,
the release, and leaving. **Terminal** is the
pane: a line typed, read, executed, and the file its end is written to; a caller
only sees text, idleness and that file. **SshTunnels** cuts the opening of a
tunnel at the listen and the store, and closing at the sweep and the client.
**PtyShell** follows chunks of output from the command that prints them to the
one answer they end up in.

Operators marked *Slip* in the modules are the mistakes a careful change to the
code could make; each replaces the definition after it in a mutation run, and
the property named in `PROJECT.json` then fails.

## 3. Runs

| run | instance | question |
|---|---|---|
| `room` | 2 browsers, 2 calls, 2 prompts, 2 seats | prompts and grants; refinement of ControlToken |
| `room_progress` | 1 browser, 2 calls, 2 prompts; fair | does every prompt come down |
| `capture` | 3 browsers, 2 seats, the agent; 3 pipelines; 2 estimates | seats and numbers; capture and bitrate |
| `mcp` | 2 connections, 2 requests, one without an id; 1 browser | answers, cancellation, hang-up |
| `hub` | 1 viewer and the agent; 2 broadcasts; 2 subscription calls | is any announced change lost, any watcher leaked |
| `agent_client` | 2 goroutines, 2 requests, 1 kind of note; fair | answers, cancellation, the end of the connection |
| `agent_loop` | 3 runs of 2 turns, batches of 2, 2 calls; fair | interruption, Ctrl-C, kill and resume |
| `policy` | the real catalogue; 3 daemons, 5 requests, 2 restrictions, a call; a log of 6 entries; 6 tools, 2 searches | can a connection get back what it gave up; is the trail whole; do tools stay in reach |
| `gate` | 2 origins, a table of 1, 2 connections; 2 tickets, 2 browsers; 8 paths in 4 trees, an upload; 1 page, 4 copies, 3 shapes; 2 browser calls | bursts and bans; tickets; is anything outside the root touched; does a page catch up; are reports true |
| `media` | 2 destinations, 2 branches; 2 agents and a toolbar, 2 encoders, 2 file names; 2 sessions, 3 tracks | is anything left behind, or taken from another |
| `desk` | 2 waiters; 2 sessions and the agent, a key, a button, one of the pad; 2 calls and a person in the pane; 2 ssh sessions, 2 tunnels; 2 commands and a reader | lost wake-ups, keys, exit codes, ports, output |
| `restream_stops_wrong` | as `media`, with names that differ | a comment the code does not keep (section 5) |

The runs check what is hard. The type invariants, and `ControllerIsPresent`,
`NotOverfull`, `ArrivalTakesNothing`, `ReaderNeverBlocks`, `NoWaiterLeaks` and
`CallsOnRecord`, are true on the same instances (add them to the `.cfg` to see
it); where section 4 lists them they are proved.

Why the bounds are enough. *room*: two browsers give an eviction, a number taken
again, two answers to one prompt; two calls give two requests at once; two
prompts give an answer picked up for the first and delivered in the time of the
second, and both kinds up together. *capture*: with three browsers and two seats
one is refused, and with the agent counted two fill the room; three pipelines
give a second capture, and one that replaces a capture being stopped. Rates are
in units of 100 kbps: VideoKbps 40 and the floor 12 are the defaults of
`config.go`, the estimates 6 and 38 lie below the floor and within 10% of
VideoKbps. `MaxViewers` is 2 here for a reason: with one seat and the agent in
the room a Join evicts the last, dead viewer and then is refused, since the
agent counts; no `Leave` runs, and the capture keeps running for nobody. *mcp*:
one connection outlives the other, one request is cancelled while the other
runs; the viewer's connection ends when it leaves and not before
(`ViewerStaysUp`, a bound: what a dead one does to the room is `room`'s
question). *hub*: a source being replaced while two announcements are under way;
the `VIEW` leaves out `freed`, which no guard and none of that run's invariants
read.

*policy*: the daemon's policies are none (an unknown level), a level with a
denied prefix, and a list with exact names and prefixes; the requests lower,
raise, deny, list and ask for what was not on offer; two in a row give one that
would undo the other. A call names a tool of each risk, one that takes
`as_root`, one that injects and one that is none. The log rotates every second
line and has three faults, so a rotation fails, a start finds the file, and a
rename fails twice. Queries tell apart a tool met by name, by category, by two
words of its description and by one. *gate*: bans of 2 and then 3 units against
a time to live of 6 and strides of 3 and 7, so time passes within a ban, past it
and past the entry; a table of one makes the second origin the shared bucket's.
A link leads to a directory outside the root, to a file that is not there, to
the root, or nowhere; the desktop changes the tree twice, so a link can come in
place of the directory an upload was told. *media*: two ids with one element
name, two watchers on a bus with one error; two agents and a toolbar give two
Stops of one recording with a Start in between, and two names let the second
encoder write the first one's file or one of its own. *desk*: a channel of one
is full after one event; two presses let a key be held over a change of the
controls and the next driver press another before it is let go of, and two of
the three parties may be past a check at a time (`AtMostTwo`, a bound); two
kinds are wanted, of which one is never reported; two calls and a person type
into each other's lines, and a shell elsewhere writes the shared file; both
tunnels want the same address.

*agent_client*: two requests in flight together, one of them cancelled or
failing to send while the other is answered; a note before, between and behind
the answers. *agent_loop*: a batch with a call left when the notice comes, a
last turn reached with and without a batch, a run resumed from one stopped in a
batch, and a choice of runs to resume; two calls may be one batch, two turns, or
two runs, so the ledger spans them.

Stopping is legitimate where `CHECK_DEADLOCK` is off: connections, calls and
subscriptions are finite in number and never start again.

Fairness. `room_progress` assumes weak fairness of what a waiting call does by
itself (`Timeout`, `Receive`, `TakeDown`, `Seize`). Its timer is running before
it waits, Go's scheduler runs a goroutine that can run, and the locks it needs
are held for a bounded time. Nothing is assumed of people, browsers or the
network: nobody has to answer. `agent_client` assumes weak fairness of the
callers and of the reader, and of a server that reads its socket and answers
what it was told to drop (the reader goroutine of `serve` does that by itself,
`StoppedIsAnswered` is the promise behind it); nothing makes it answer anything
else. `agent_loop` assumes it of the run's goroutine, the client's and the
model's provider, which answers or fails, and of nothing at the server. The
other runs assume no fairness: what they check is safety, and their liveness
rests on people, pages, shells and servers that owe nobody anything.

Some properties carry a condition openly, by a history variable that guards and
other actions never read. `ClosedWatchesNothing` holds for a client that has one
subscription call in flight at a time (`Overlapping = FALSE`), which the server
does not enforce. `CaptureFits` leaves out an arrival or last departure that
lands while another session's start or stop is under way (`overlapped`);
`EncoderKeepsPace` reports that cross (`crossed`), and of a capture after the
first the time until a report has reached its encoder (`tuned`). `OneRecording`
leaves out what follows two Stops of one encoder (`crossed`), as does
`HandsOverClosedFiles` where it speaks of another encoder than the one stopped
(and once the recorder is free it allows a later one the same name),
`KeepsBelowRoot` the file of an upload that goes through a link, `CallsOnRecord`
the calls whose record could not be written (`lost`), `PagesCatchUp` copies that
cross and a shape that was dropped (`apart`, `missed`), `ReportsAreTrue`, for
its claim that a call came to what it had found, a page that changed after the
call had looked (`moved`; that it looked, acted, and pressed nothing found
missing or covered holds of every page), `NobodySleepsThrough` a wanted event
dropped for unwanted ones (`missed`) and properties that did not exist when the
watcher started, `KeysComeUpWithTheirDriver` what Close does not let go of
(`late`), `OutcomeIsOwn` for its exit code a pane that was not the call's own
(`crowded`) or a file that a shell elsewhere wrote (`borrowed`), and for its
`finished` a line the shell had not read yet (`slow`), `PortsAreFreed` a tunnel
stored after the sweep (`tooLate`). Each condition is as narrow as TLC would let
it be: without it the property is violated, and section 5 says by what.

## 4. Proofs

Every invariant and every action property that a passing run checks is proved
here for every value of the constants, but for one clause of `KeepsBelowRoot`: that
an upload goes out of the root through a link only. It follows a path through the
recursive function `Real`, and is left to TLC.

| theorem | says, for every value of the constants |
|---|---|
| `RoomProofs!Typing` | `TypeOK` |
| `RoomProofs!OnlyMembersDrive` | `ControllerIsPresent` |
| `RoomProofs!Numbering`, `Capacity` | `NumbersFitTheSeats`, `NotOverfull` |
| `RoomProofs!Arrival` | `ArrivalTakesNothing` |
| `RoomProofs!RoomImplementsToken` | Room implements ControlToken |
| `RoomProofs!Dialogs`, `Grants` | `DialogHasItsCall`, `GrantNeedsFirstYes` |
| `RoomLayersProofs!CaptureRefinesRoom`, `RoomHoldsUnderCapture` | capture steps are room steps, so the above hold with the capture |
| `RoomLayersProofs!CaptureTyping`, `Pace` | `CaptureTypeOK`, `EncoderKeepsPace` |
| `RoomLayersProofs!CaptureIsSound` | `CaptureFits`, in a room of two seats or more |
| `RoomLayersProofs!McpRefinesRoom`, `RoomHoldsUnderMcp` | the MCP plane's steps are room steps, and what follows |
| `RoomLayersProofs!OneAnswer`, `StoppedAnswered`, `NothingLeft` | `OneAnswerEach`, `StoppedIsAnswered`, `GoneLeavesNothing` |
| `EventHubProofs!HubTyping`, `Coalescing` | `HubTypeOK`, `AnnouncedReachesSource` |
| `EventHubProofs!NothingWatchesForTheDead` | `ClosedWatchesNothing`, when calls do not overlap |
| `EventHubProofs!TrailIsKept` | `TrailKeepsTheNewest` |
| `AgentProofs!ClientTypes`, `ReaderIsFree`, `NobodyIsParked`, `WaitersAreOwned` | `ClientTypeOK`, `ReaderNeverBlocks`, `NobodyParked`, `NoWaiterLeaks` |
| `AgentProofs!NobodysWorkIsStopped` | `NoWorkForNobody` |
| `AgentProofs!LoopTypes`, `NoticeIsHeeded`, `ModelSeesPairs`, `LedgerIsComplete` | `LoopTypeOK`, `OneCallAfterTheNotice`, `HistoryIsPaired`, `CallsOnRecord` |
| `AgentProofs!LoopStopsTheWork` | `NoWorkForNobody` of every client of the loop |
| `AgentProofs!ToolsInReach` | `ToolsStayInReach` |
| `PolicyProofs!PolicyTyping`, `GivenUpForGood`, `Narrowing` | `PolicyTypeOK`, `GivenUpStaysGivenUp`, `NarrowsButForTwoWays` |
| `PolicyProofs!ShownCanBeCalled` | `ShownIsCallable` |
| `GateProofs!GateIsSafe`, `BansHold` | `OneBurstAndTheTrickle`, `BansStandAndGrow` |
| `GateProofs!TreeIsSafe` | `KeepsBelowRoot`, but for its last clause: the root stays, and what changes outside of it is the file of an upload |
| `GateProofs!DownloadsAreSafe` | `OneDownloadEach` |
| `GateProofs!FeedsCatchUp` | `PagesCatchUp` |
| `GateProofs!ReportsHold` | `ReportsAreTrue` |
| `MediaProofs!RestreamingIsSafe`, `KeyframesKeepTime` | `NothingLeftBehind`, `OneCadence` |
| `MediaProofs!RecordingIsSafe`, `FilesAreClosed` | `OneRecording`, `HandsOverClosedFiles` |
| `MediaProofs!MicrophoneIsSafe` | `MicrophoneStays` |
| `DeskProofs!InputTyping`, `KeysComeUp` | `InputTypeOK`, `KeysComeUpWithTheirDriver` |
| `DeskProofs!NobodyOversleeps` | `NobodySleepsThrough` |
| `DeskProofs!OutcomesAreOwn` | `OutcomeIsOwn` |
| `DeskProofs!OutputIsShared` | `OutputReachesOneCall` |
| `DeskProofs!PortsFreed` | `PortsAreFreed` |

The components of `policy`, `gate`, `media` and `desk` share a run, not a state:
each theorem is about its own component's specification (`LogSpec`,
`FeedSpec`, `WatchSpec`, ...), whose initial predicate and next-state relation
are the ones the run's module joins.

Assumptions are those the modules state: special values (the agent, "free",
`NoCall`, `NoText`, ...) are not among the names they are told from; the sets of
browsers, of origins and of offered tools are finite; the bounds are natural
numbers; a restriction's and a ranking's data have the shapes the code gives
them (`OfferAssumption`: no two tools have one place in the order of names,
since names are unique); in the file trees a run may start with the root is a directory
(`TreesStand`); the first ban is no longer than the longest, and a bucket
refills within the time an idle entry is kept (`BurstBackInTime`, true of the
constants of `gate.go`). Browsers, calls, connections and broadcasts may be as many
as one likes. TLC evaluates each assumption on the runs' constants.

Two theorems carry a condition on a constant, and each has a counterexample
without it: `CaptureIsSound` asks for two seats, `NothingWatchesForTheDead` for
`Overlapping = FALSE` (section 5).

### The arguments

*Room.* *Typing* needs that `LowestFree` is a seat at all: Join counts
before it chooses, so at most MaxViewers - 1 numbers are taken and one of the
first MaxViewers is free (`LowestFreeIsASeat`, a pigeonhole argument, with
`LeastNatural` for the minimum). *Capacity*
and *Numbering* are then inductive with the type invariant. *OnlyMembersDrive*
is inductive alone: every removal clears the controls in the same critical
section, and `TakeControl` looks the member up. *Arrival* needs that a session
that has not joined is not a member (`NewcomersAreNew`). *Dialogs* needs that a
waiting call's number is a number (`WaitsHaveNumbers`); *Grants* that the
channel of a waiting call holds its first answer (`FirstInBox`), which is what
the non-blocking send into one slot ensures.

*Capture.* Whether the capture fits its viewers is only said of a room in which
no start or stop is under way, so the invariant says what holds meanwhile
(`Settles`): either all is quiet and fits, or exactly one goroutine is between
its decision and its last step (`Alone`), and its place tells what the field
holds, what plays and who is there. An arrival that evicts somebody and is then
refused breaks it with one seat, which the attempted proof showed. For the
pace, `PaceInv` says that the rate agreed on is at the first encoder, or on its
way there, and at a later one once it is `tuned` (`OneRate`); that nothing is sent
to a pipeline not built (`OnlyTheBuilt`), and nothing reported before the first
(`BeforeTheFirst`); and the hysteresis keeps that rate within a ninth of the least
of the reports, which every change of an entry recomputes.

*McpServer.* The invariant is `Books`: for every request, where its handler and
its stopper are fixes which of `ctx`, `answered`, `replies` go together (`Sound`: a
call that was stopped is answered, or its stopper is about to try; an answer is on
the wire, or due from the one who won it), and where its connection is fixes
whether it can be listed or being stopped (`Kept`: a connection that is leaving
stops nothing until it stops all). The handler, who stops a call, and the reader
preserve it separately (`HandlerKeeps`, `StopKeeps`, `ReaderKeeps`).

*EventHub.* `Registry`: a source is unknown to everybody before
it is built, a registered one has a goroutine and was not told to stop, and a
broadcast that is not telling has nobody left to tell. From it, coalescing is
safe step by step: a change is announced; an announcement reaches every source
registered by then or registered later with the change already seen; a mark is
removed only by a source about to look. For the closed connection, `Serial` (one
call at a time, so the slot for a stop function is empty when one is stored) and
`Owned` (whoever still watches is stored there, or in the hands of a call that
will store it or end it).

*ActionLog.* The ring holds the last entries by their numbers (`RingHolds`). On the
disk each generation climbs and the previous lies under the current
(`DiskClimbs`); from the first entry of either, only what could not be written is
missing (`DiskIsWhole`); and a generation outgrows the cap only by renames that
failed (`DiskFits`). A rotation moves all four at once, so it has a lemma
that looks at the files as they are after it.

*AgentClient.* `ClientInv` says where a request can be: it has a
number of its own (`NumbersAreTheirOwn`), nobody knows of a number before its
caller registered (`FreshIsUntouched`), and from then on it is in exactly one of
the waiters, the reader's hands and its channel (`SomewhereOnce`). `WireInv` adds
the wire: a request precedes its cancellation and is read once, an answered
request is not due again, a broken transport is empty, and what is due is
attended to by its caller or its cancellation (`DueIsAttended`).

*AgentLoop.* `LoopInv` says that calls are made in the order of
their numbers (`CallsAreInOrder`), that a run which began a call after the notice
is in it or over (`NoticedRunIsEnding`), and that the calls without a result are
those of the batch under way (`BatchIsOpen`). Each step of the loop is a step of
its client, no step of it, or the start of a new one (`LoopIsAClient`), which
carries `ClientInv` and `WireInv` over. `RecordFits`
adds that a run that records has a row, and that what is on no record was made and
could not be written; with it *LedgerIsComplete* is inductive.

*ToolSearch.* The claim counts, so the proof does: a ranking orders its tools
totally (score, then place), so the places of the ranked tools are the numbers
from 0 on, each once, and the first `n` places hold as many tools as there are,
or `n`. The first ranking is longer by the size of the core, so that enough are
left once the core is taken out of it.

*Policy.* `GivenUpInv` is about what a connection has asked
for so far: its policy, and that of every call it has sent, honours each of its
requests (`Honours`: the denials are in, the level is no higher), and a call past
the check is allowed by the policy it carries. `Restrict` keeps that
(`HonoursMore`), because denials are only ever added and a level is only ever
lowered (`RestrictLowers`). *Narrowing* is a fact about `Restrict` alone, taken
case by case over the lists. What is shown is computed from the connection's
policy as it is, so *ShownCanBeCalled* needs the policy's type and that the
check of a call agrees with the list for every tool of the catalogue.

*Gate.* `Accounts`: what a bucket has let through, with what it still has, is
never more than its burst and the time since. It survives the sweep because an
entry is taken only when idle for longer than it takes to refill, and a new entry
starts full (`Level`). `Remembered`: as long as a ban counts towards the next
one its entry is in the table, since it was seen no earlier than `BanMax` before
its end and is kept for twice that.

*FileServer.* The root is a directory (`TreeInv`), and an operation acts on what
`Resolved` returns: whatever links there are, that is below the root, or nowhere,
since both of its answers were looked at (`Confined`, one lemma for the operations,
one for uploads, one for the desktop). A deletion then takes only what is below
such a path and a rename moves a subtree below one to below another (`Becomes`);
the root is not what is moved or deleted, for it cannot be put below itself, and
the others lie below it. For tickets, numbers not given out are nowhere (`Unminted`),
and a ticket in the map was not served and was told to one browser (`OneUse`).

*Feeds.* One fact for both directions: the newest message on its way carries
what its sender remembers (`Tells`), so when nothing is on its way the two
sides agree. The pointer is the same with a channel (`Abreast`): the last shape in
it is the shape, and with an empty one, what was found on subscribing, or what
is drawn.

*Browser.* `Wire`: a request is with the browser, or its reply is on the socket,
or its call is about to send another; so a reply read is that to the last
request. `Looks`: no click comes past a measurement that found the element
missing or covered. `Holds`: what a reply says of the page is still so, or the
call is in `moved`. `OnTarget` and `Pressing` follow where a click, a text or a
load went.

*Restream, Recorder, Microphone.* `BranchesStand` says of each branch what it
has in the pipeline by where it is (listed, being built, being taken down once,
gone), `MapFits` that a branch is listed under the id it was made for, and
`TickerFits` that the one goroutine ticking is the one `kfStop` would end.
`RecorderBooks`: who stops an encoder took one that was started, goes on only
after waiting for its end (`StopsKnowTheirs`), is alone unless two crossed
(`OneStops`), and hands over something older than what is recorded by then
(`ReportsAreOld`). `MicBooks`: what plays is what its owner sent.

*HeldInput, SshTunnels.* `KeysComeUpWithTheirDriver` is inductive with its
types (`InputInv`): the books of the injector and of the gamepad are exactly what is
down, so `ReleaseAll` lets go of every key and button, and only the gamepad, what was
checked before, and what its Close found it no longer driving for can be left to a
session that is leaving (`LetGo`). Each step of the injector has one lemma for
whichever handler takes it (`InjectorKeeps`). `PortsAreFreed` needs
`SshBooks`: a listed session has not been closed, a call that has a session in
hand found it listed, and an open listener is its opener's or stored.

*Watch, Terminal, PtyShell.* A waiter that may sleep is subscribed or has a dead
channel (`Subscribed`), so what it wants is on the wire, in its channel, dropped
(`missed`) or behind it. In the pane, a command typed is there until it ends
(`Whereabouts`), and who is not crowded has the pane and its file to itself
(`Alone`). Chunks are numbered as they are printed: what a call has is older than
what is in the buffer, and that than what is in the terminal (`InOrder`); no two
calls have the same (`Apart`); and what a call's command printed is still to be
read, read, trimmed, or another's (`Accounted`).

### What is only model-checked

Liveness: `PromptsComeDown`, `EveryRequestEnds`, `CancelStopsTheWork`, `RunEnds`.
The prover does neither fairness nor ENABLED. And what the run
`restream_stops_wrong` refutes is refuted by TLC alone: it is a statement about
one behaviour. The type invariants of the modules without a typing theorem in the
table are conjuncts of the inductive invariants above, and proved with them.

## 5. Where code and comments disagree

Each has an entry under `findings`, with the line quoted. Eight of them are
written down as properties at the end of a module, and TLC refutes them when
they are added to a configuration: `AgentAsksWhoDrives` to `MCRoom.cfg` (the
agent can take a person's controls unasked), `CaptureAlwaysMatches` to
`MCRoomCapture.cfg` (arrivals and departures that overlap leave the capture
wrong), `SomebodyHoldsTheControls` to `MCMcpServer.cfg` (a call in flight leaves
the agent driving after its last connection is gone), `OnlyATakingIsTheft` to
`MCEventHub.cfg` without its `VIEW` (letting go of the controls can be reported
as having them taken), `NeverMorePermissive` to `MCPolicy.cfg` (a restriction
can widen in two corners), `ResumableDownloads` and `AlwaysBelowRoot` to
`MCGate.cfg`, the second as a PROPERTY (a download that broke off cannot be
resumed, since its ticket is spent; an upload follows a link at its file's name,
out of the root too), `NeverReportsAnOpenFile` to `MCMedia.cfg` (a recording
started in the second of the one just stopped writes the file being handed
over). With `Overlapping = TRUE`, `MCEventHub.cfg` shows the watcher that
overlapping subscriptions leak. The run `restream_stops_wrong` shows a watcher
that stops a new branch for the error of an old one.

The others were met while modelling. *Room and MCP plane*: a second capture
ignores the first reports; with one seat and the agent in the room, a Join that
is refused has evicted the only viewer, and the capture runs on for nobody (add
`INVARIANT CaptureFits` and `MaxViewers = 1` to `MCRoomCapture.cfg`); the
agent's input goes on after the controls moved; an evicted connection that
recovers stays outside the room; a call without an id is not ended with its
connection; a request that does not decode can be answered twice; the last
viewer's departure is announced to nobody; comments in `room.go` still speak of
an inheritance of the controls that the code no longer does; a read tool that
changes things. *Agent*: concurrent calls can share a progress token; after
Ctrl-C the rest of a batch is still sent, each call cancelled behind its back; a
resumed run has lost the results of the last batch, and gets the last reply as
JSON; the event handler is set while the reader is already running; a widening
drops skill_read, and does nothing under discovery; a goal that only core tools
match counts as unmatched; guesses can outrank matches. *Media*: a branch's
error is taken by another's watcher; a branch can be added to a closing
pipeline; of two Stops the later clears a recording started in between; a
destination is left to the next recording; a microphone stays with who had it.
*Gate and files*: deleting or moving a link acts on its target; a delivery
counts those it could not tell; a user name with a bar gets no valid token.
*Desk*: keys stay down when the controls had moved before a session closed; when
they move between Close's look and its release, the next driver's keys are let
go of; a property first written after the watcher started is never reported; a
wait can miss an event among unwanted ones; terminal_run reports a command that
prints nothing new as timed out, and can report another's exit code; a tunnel
can be stored in a closed session; a silent command counts as complete. *Pages*:
the page's old clipboard can overwrite the desktop's newer one; copies that
cross leave the two apart; a dropped pointer shape stays wrong; the pointer's
channel can outlive its session; any frame's end, and another call's navigation,
counts as this one's load; a click that gives up leaves the button down; a point
where nothing is hit counts as not covered; a field that does not take the focus
is typed into all the same.

## 6. What is not modelled

Pointer markers, message texts and layout; TLS, password comparison, WebRTC
negotiation, RTCP; GStreamer itself (a pipeline is built, playing or stopped, a
branch has pads, a link and a bus); the X server, tmux, shells and Chromium,
which are external parts that do what the code expects of them; HTTP encodings
of model providers; SQL; the splitting of text into words. Of the tools: AT-SPI,
packages and services, ssh transfers, screenshots and windows are calls that
keep nothing between one another, and appear only in the catalogue. These are
I/O, third-party code, or data no property here depends on. `components` in
`PROJECT.json` has the full list.

Where a module's step is coarser than the code's, or its data poorer:

- `Room.Admit`: Join looks at connections twice in one critical section, to evict
  the dead and to see whether the controller is alive. A connection that goes down
  between the two leaves a member that is down and controls that are free; the same
  state is reached by `Admit`, `Disconnect` and `ReleaseControl`.
- `McpServer`: a call leaves the map and has its context cancelled in one step, and
  a call's progress is not reported.
- `RoomCapture.Report`: a session reports when its estimate has moved; what it moved
  from is its entry in the room, where adaptBitrate has a variable of its own. The
  two differ for a session that was evicted and reports on.
- `FileServer`: an operation is one step from `resolve` to its system call, so a
  link put in the way between the two is not there for it; for an upload, whose
  body comes in between, it is. Requests without a session token are left out.
- `Recorder`: a file is a name and who writes it, not its content, and the
  caller's path of `Start` is left out, since nobody in `src/` gives one.
- `HeldInput`: the agent has one tool call past its check at a time, and one click,
  drag or tap under way.
- `Terminal.PaneIdle`: the code compares the name of the foreground process with
  the shells', so a script that bash runs is no `Program`.

Liveness stays with TLC throughout: the prover does not do fairness.

## 7. Plan

What is left, in order of what it protects:

1. **Refinements**: an abstract statement of what the client promises its callers
   (asked, answered once, over) implemented by AgentClient; one-use tickets and
   the recorder's file as abstract machines of their own.
2. **AgentClient over McpServer**: the server's half of AgentClient as what
   McpServer implements, with a mapping of its requests to `serving`.
3. **Action properties** beside the invariants proved: a stopped call stays
   stopped, an ended encoder stays ended, a number is not given out twice.
4. **HeldInput over Room** and **Restream over RoomCapture**: the free moves of
   the driver and of the pipeline replaced by the modules that say how they go.
5. **watchX** as a second source of EventHub, over Watch; progress notifications
   with their tokens.
