-------------------------------- MODULE Room --------------------------------
(***************************************************************************)
(* Who is in the room, who drives, and how the agent asks for the desktop  *)
(* (internal/stream/room.go, with the callers in stream/session.go and     *)
(* mcp/tools_room.go).                                                     *)
(*                                                                         *)
(* One action is one critical section of Room.mu: what the code does with  *)
(* the lock held is atomic, and a goroutine that releases the lock and     *)
(* takes it again is split at that point, so every other goroutine may run *)
(* in between.  The prompts (AskForControl, AskHuman) are the long ones:   *)
(* they post, unlock, wait on a one-slot channel or a timer, and lock      *)
(* again to take the prompt down.                                          *)
(*                                                                         *)
(* Left to other modules: the capture a Join starts and a Leave stops, and *)
(* the bitrates (RoomCapture, which extends this one).  Left out: pointer  *)
(* markers and the text of messages.                                       *)
(***************************************************************************)
EXTENDS Naturals, FiniteSets

CONSTANTS
    Sessions,     \* browser connections; each joins at most once (u1, u2, ...)
    Agent,        \* agentID: the one member without a WebRTC connection
    ControlFree,  \* the controller when nobody drives
    Calls,        \* MCP tool calls that may be in flight at the same time
    MaxViewers,   \* cfg.MaxViewers
    MaxPrompts    \* bound: how many prompts the agent posts in a behaviour

ASSUME IdsAssumption ==
    /\ Agent \notin Sessions
    /\ ControlFree \notin Sessions \cup {Agent}
    /\ IsFiniteSet(Sessions)
ASSUME BoundsAssumption == MaxViewers \in Nat /\ MaxPrompts \in Nat

Ids     == Sessions \cup {Agent}
Kinds   == {"control", "question"}
Prompts == 1..MaxPrompts
NoPrompt == 0
Answers == {"yes", "no"}

\* Viewer numbers. At most MaxViewers are taken when one is chosen, so one
\* more than that always leaves a free one.
Slots  == 1..(MaxViewers + 1)
NoSlot == 0

VARIABLES
    members,     \* keys of Room.members
    controller,  \* Room.controller
    slot,        \* the n of "Viewer n", NoSlot for who is not a member
    sess,        \* the session's own progress: Join, then Close
    conn,        \* what connectionAlive() would read off the PeerConnection
    pending,     \* Room.pending and Room.asking: the prompt on the screens
    posted,      \* Room.requestNo + Room.questionNo: prompts made so far
    call,        \* each MCP call's position in request_control or ask_human
    hand         \* an AnswerControlRequest/AnswerQuestion between its lock and its send

seatVars   == <<members, controller, slot>>
connVars   == <<sess, conn>>
promptVars == <<pending, posted, call, hand>>
vars       == <<seatVars, connVars, promptVars>>

NoHand == [prompt |-> NoPrompt, answer |-> "no"]

\* A call, with the request it made: box is the request's answer channel (one
\* slot), first is a history of the first answer that reached it.
Idle == [pc |-> "idle", kind |-> "control", prompt |-> NoPrompt, why |-> "none",
         box |-> "empty", first |-> "none"]

CallPcs == {"idle", "joined", "ask", "waiting", "answered", "seize"}
Whys    == {"none", "alone", "free", "granted", "refused"}

CallState == [pc : CallPcs, kind : Kinds, why : Whys, prompt : Prompts \cup {NoPrompt},
              box : Answers \cup {"empty"}, first : Answers \cup {"none"}]

TypeOK ==
    /\ members \in SUBSET Ids
    /\ controller \in Ids \cup {ControlFree}
    /\ slot \in [Sessions -> Slots \cup {NoSlot}]
    /\ sess \in [Sessions -> {"new", "in", "gone"}]
    /\ conn \in [Sessions -> {"up", "down", "closed"}]
    /\ pending \in [Kinds -> Prompts \cup {NoPrompt}]
    /\ posted \in 0..MaxPrompts
    /\ call \in [Calls -> CallState]
    /\ hand \in [Sessions -> [prompt : Prompts \cup {NoPrompt}, answer : Answers]]

Init ==
    /\ members = {}
    /\ controller = ControlFree
    /\ slot = [s \in Sessions |-> NoSlot]
    /\ sess = [s \in Sessions |-> "new"]
    /\ conn = [s \in Sessions |-> "up"]
    /\ pending = [k \in Kinds |-> NoPrompt]
    /\ posted = 0
    /\ call = [c \in Calls |-> Idle]
    /\ hand = [s \in Sessions |-> NoHand]

-----------------------------------------------------------------------------
(***************************************************************************)
(* Sessions.                                                               *)
(***************************************************************************)

\* Members whose connection Join finds dead and evicts. The agent has no
\* connection to lose. A connection that is only "down" (disconnected) counts.
Dead == {s \in members \cap Sessions : conn[s] # "up"}

\* What is left of the controls once the members in `gone` are out.
ControllerWithout(gone) == IF controller \in gone THEN ControlFree ELSE controller

SlotsWithout(gone) == [s \in Sessions |-> IF s \in gone THEN NoSlot ELSE slot[s]]

\* Slip: numbering by head count, as if nobody ever left in between.
LowestFreeByCount(stay) == Cardinality(stay \cap Sessions) + 1

\* The lowest visible number none of the members in `stay` wears.
LowestFree(stay) ==
    CHOOSE n \in Slots : /\ \A s \in stay \cap Sessions : slot[s] # n
                         /\ \A m \in Slots : m < n => \E s \in stay \cap Sessions : slot[s] = m

Full(stay) == Cardinality(stay) >= MaxViewers

\* Slip: whoever walks into a room nobody drives is handed the controls.
AdmitDrives(s) ==
    /\ sess[s] = "new"
    /\ ~ Full(members \ Dead)
    /\ members' = (members \ Dead) \cup {s}
    /\ controller' = IF ControllerWithout(Dead) = ControlFree THEN s ELSE controller
    /\ slot' = [SlotsWithout(Dead) EXCEPT ![s] = LowestFree(members \ Dead)]
    /\ sess' = [sess EXCEPT ![s] = "in"]
    /\ UNCHANGED <<conn, promptVars>>

\* Room.Join with room to spare: the dead are evicted, the newcomer gets an id
\* and a number, and drives nothing. The capture it may start is in RoomCapture.
Admit(s) ==
    /\ sess[s] = "new"
    /\ ~ Full(members \ Dead)
    /\ members' = (members \ Dead) \cup {s}
    /\ controller' = ControllerWithout(Dead)
    /\ slot' = [SlotsWithout(Dead) EXCEPT ![s] = LowestFree(members \ Dead)]
    /\ sess' = [sess EXCEPT ![s] = "in"]
    /\ UNCHANGED <<conn, promptVars>>

\* Room.Join on a full room: the session is turned away, the eviction stays.
Refuse(s) ==
    /\ sess[s] = "new"
    /\ Full(members \ Dead)
    /\ members' = members \ Dead
    /\ controller' = ControllerWithout(Dead)
    /\ slot' = SlotsWithout(Dead)
    /\ sess' = [sess EXCEPT ![s] = "gone"]
    /\ conn' = [conn EXCEPT ![s] = "closed"]
    /\ UNCHANGED promptVars

\* The PeerConnection loses its path, and may find it again.
Disconnect(s) ==
    /\ sess[s] = "in" /\ conn[s] = "up"
    /\ conn' = [conn EXCEPT ![s] = "down"]
    /\ UNCHANGED <<seatVars, sess, promptVars>>

Reconnect(s) ==
    /\ sess[s] = "in" /\ conn[s] = "down"
    /\ conn' = [conn EXCEPT ![s] = "up"]
    /\ UNCHANGED <<seatVars, sess, promptVars>>

\* Room.Leave from Session.Close (or from a Join whose capture failed): the
\* member goes if it is still one, and the controls it held are free.
Leave(s) ==
    /\ sess[s] = "in"
    /\ members' = members \ {s}
    /\ controller' = ControllerWithout(members \cap {s})
    /\ slot' = SlotsWithout({s})
    /\ sess' = [sess EXCEPT ![s] = "gone"]
    /\ conn' = [conn EXCEPT ![s] = "closed"]
    /\ UNCHANGED promptVars

\* A Join that panics after its member is in (RoomCapture says when): net/http
\* recovers, and the deferred Session.Close knows no member id yet, so the seat
\* stays taken, on a connection Close has closed.
AbandonSeat(s) ==
    /\ sess[s] = "in" /\ s \in members
    /\ sess' = [sess EXCEPT ![s] = "gone"]
    /\ conn' = [conn EXCEPT ![s] = "closed"]
    /\ UNCHANGED <<seatVars, promptVars>>

\* Slip: taking control without looking the member up.
TakeControlUnchecked(s) ==
    /\ sess[s] # "new"
    /\ controller' = s
    /\ UNCHANGED <<members, slot, connVars, promptVars>>

\* handleInput "take_control": from anybody, to a member. A handler may still
\* be running after its session closed or was evicted, hence the check.
TakeControl(s) ==
    /\ sess[s] # "new"
    /\ s \in members
    /\ controller' = s
    /\ UNCHANGED <<members, slot, connVars, promptVars>>

\* handleInput "release_control": the controls go free, to nobody.
ReleaseControl(s) ==
    /\ sess[s] # "new"
    /\ controller = s
    /\ controller' = ControlFree
    /\ UNCHANGED <<members, slot, connVars, promptVars>>

-----------------------------------------------------------------------------
(***************************************************************************)
(* The agent.  Its tool calls run on goroutines of their own, so several   *)
(* are in the room at once.                                                *)
(***************************************************************************)

\* HumansPresent: a browser member whose connection is alive.
HumansPresent == \E s \in members \cap Sessions : conn[s] = "up"

Step(c, fields) == call' = [call EXCEPT ![c] = fields]

Finish(c) == Step(c, Idle)

\* JoinAgent, from room_state or an input tool (mayInject): idempotent, no cap,
\* and never the controller on arrival.
JoinAgent ==
    /\ Agent \notin members
    /\ members' = members \cup {Agent}
    /\ UNCHANGED <<controller, slot, connVars, promptVars>>

\* LeaveAgent, when the last MCP connection is gone. Calls still in flight are
\* not stopped by it.
LeaveAgent ==
    /\ Agent \in members
    /\ members' = members \ {Agent}
    /\ controller' = ControllerWithout({Agent})
    /\ UNCHANGED <<slot, connVars, promptVars>>

\* request_control starts by joining.
RequestControl(c) ==
    /\ call[c].pc = "idle"
    /\ members' = members \cup {Agent}
    /\ Step(c, [Idle EXCEPT !.pc = "joined"])
    /\ UNCHANGED <<controller, slot, connVars, pending, posted, hand>>

\* It then looks for somebody to ask: with nobody there it takes the controls,
\* in a later critical section.
LookForHumans(c) ==
    /\ call[c].pc = "joined"
    /\ Step(c, IF HumansPresent THEN [call[c] EXCEPT !.pc = "ask"]
                                ELSE [call[c] EXCEPT !.pc = "seize", !.why = "alone"])
    /\ UNCHANGED <<seatVars, connVars, pending, posted, hand>>

\* A prompt goes up on every screen: pending is set, and the call waits on its
\* own channel with the lock released.
Post(c, k) ==
    /\ pending[k] = NoPrompt
    /\ posted < MaxPrompts
    /\ posted' = posted + 1
    /\ pending' = [pending EXCEPT ![k] = posted + 1]
    /\ Step(c, [Idle EXCEPT !.pc = "waiting", !.kind = k, !.prompt = posted + 1])
    /\ UNCHANGED <<seatVars, connVars, hand>>

\* AskForControl, first critical section, its early returns: the agent is not a
\* member, or it drives already, or another request is up.
AskTurnedAway(c) ==
    /\ call[c].pc = "ask"
    /\ \/ Agent \notin members
       \/ controller = Agent
       \/ controller # ControlFree /\ pending["control"] # NoPrompt
    /\ Finish(c)
    /\ UNCHANGED <<seatVars, connVars, pending, posted, hand>>

\* Nobody drives: there is nobody to ask, and the call goes on to take the
\* controls after releasing the lock.
AskFindsFree(c) ==
    /\ call[c].pc = "ask"
    /\ Agent \in members
    /\ controller = ControlFree
    /\ Step(c, [call[c] EXCEPT !.pc = "seize", !.why = "free"])
    /\ UNCHANGED <<seatVars, connVars, pending, posted, hand>>

\* A person drives: the request goes up.
AskPosts(c) ==
    /\ call[c].pc = "ask"
    /\ Agent \in members
    /\ controller \in Sessions
    /\ Post(c, "control")

\* AskHuman: only a member may ask, only when somebody is there to answer.
AskHuman(c) ==
    /\ call[c].pc = "idle"
    /\ Agent \in members
    /\ HumansPresent
    /\ Post(c, "question")

\* The select of AskForControl and AskHuman: an answer in the channel ...
Receive(c) ==
    /\ call[c].pc = "waiting"
    /\ call[c].box # "empty"
    /\ Step(c, [call[c] EXCEPT !.pc = "answered", !.box = "empty",
                               !.why = IF call[c].box = "yes" THEN "granted" ELSE "refused"])
    /\ UNCHANGED <<seatVars, connVars, pending, posted, hand>>

\* Slip: the timer returns straight away, with the prompt still up.
TimeoutReturns(c) ==
    /\ call[c].pc = "waiting"
    /\ Finish(c)
    /\ UNCHANGED <<seatVars, connVars, pending, posted, hand>>

\* ... or the timer, which is a refusal even if an answer arrives meanwhile.
Timeout(c) ==
    /\ call[c].pc = "waiting"
    /\ Step(c, [call[c] EXCEPT !.pc = "answered", !.why = "refused"])
    /\ UNCHANGED <<seatVars, connVars, pending, posted, hand>>

\* The prompt comes down, if it is still this call's; a granted control request
\* goes on to take the controls, everything else returns.
TakeDown(c) ==
    LET k == call[c].kind IN
    /\ call[c].pc = "answered"
    /\ pending' = IF pending[k] = call[c].prompt
                    THEN [pending EXCEPT ![k] = NoPrompt] ELSE pending
    /\ IF k = "control" /\ call[c].why = "granted"
         THEN Step(c, [call[c] EXCEPT !.pc = "seize"])
         ELSE Finish(c)
    /\ UNCHANGED <<seatVars, connVars, posted, hand>>

\* TakeControl(agentID), at the end of each of the three ways to get there. It
\* takes the controls from whoever holds them by then, and does nothing if the
\* agent has left; AskForControl reports a grant either way.
Seize(c) ==
    /\ call[c].pc = "seize"
    /\ controller' = IF Agent \in members THEN Agent ELSE controller
    /\ Finish(c)
    /\ UNCHANGED <<members, slot, connVars, pending, posted, hand>>

\* release_control.
AgentReleases ==
    /\ controller = Agent
    /\ controller' = ControlFree
    /\ UNCHANGED <<members, slot, connVars, promptVars>>

-----------------------------------------------------------------------------
(***************************************************************************)
(* People answer.  AnswerControlRequest and AnswerQuestion read the        *)
(* pending prompt under the lock and send outside it.                      *)
(***************************************************************************)

\* The browser names the prompt it drew; an answer to any other is dropped.
\* Sessions answer whether or not they are members.
PickUp(s, k, p, a) ==
    /\ sess[s] = "in"
    /\ hand[s] = NoHand
    /\ p # NoPrompt
    /\ pending[k] = p
    /\ hand' = [hand EXCEPT ![s] = [prompt |-> p, answer |-> a]]
    /\ UNCHANGED <<seatVars, connVars, pending, posted, call>>

\* Slip: the last answer wins.
AnsweredLastWins(req, a) ==
    [req EXCEPT !.box = a, !.first = IF @ = "none" THEN a ELSE @]

\* What a send that never blocks does to the request it reaches: it fills an
\* empty channel, or is dropped.
Answered(req, a) ==
    [req EXCEPT !.box   = IF @ = "empty" THEN a ELSE @,
                !.first = IF @ = "none" THEN a ELSE @]

\* The send. Past its select a call never reads its channel again.
Deliver(s) ==
    /\ hand[s].prompt # NoPrompt
    /\ hand' = [hand EXCEPT ![s] = NoHand]
    /\ call' = [c \in Calls |-> IF call[c].pc = "waiting" /\ call[c].prompt = hand[s].prompt
                                  THEN Answered(call[c], hand[s].answer)
                                  ELSE call[c]]
    /\ UNCHANGED <<seatVars, connVars, pending, posted>>

-----------------------------------------------------------------------------
PeopleStep(s) ==
    \/ Admit(s) \/ Refuse(s) \/ Disconnect(s) \/ Reconnect(s) \/ Leave(s)
    \/ TakeControl(s) \/ ReleaseControl(s)
    \/ \E k \in Kinds, p \in Prompts, a \in Answers : PickUp(s, k, p, a)
    \/ Deliver(s)

SessionStep(s) == PeopleStep(s) \/ AbandonSeat(s)

CallStep(c) ==
    \/ RequestControl(c) \/ LookForHumans(c)
    \/ AskTurnedAway(c) \/ AskFindsFree(c) \/ AskPosts(c) \/ AskHuman(c)
    \/ Receive(c) \/ Timeout(c) \/ TakeDown(c) \/ Seize(c)

AgentStep == JoinAgent \/ LeaveAgent \/ AgentReleases

Next ==
    \/ \E s \in Sessions : SessionStep(s)
    \/ \E c \in Calls : CallStep(c)
    \/ AgentStep

Spec == Init /\ [][Next]_vars

\* What a call does by itself, once it waits: the timer is always running, and
\* Go's scheduler runs every goroutine that is ready. Nobody has to answer.
CallProgress(c) == Timeout(c) \/ Receive(c) \/ TakeDown(c) \/ Seize(c)

FairSpec == Spec /\ \A c \in Calls : WF_vars(CallProgress(c))

-----------------------------------------------------------------------------
(***************************************************************************)
(* Properties.                                                             *)
(***************************************************************************)

\* Nobody who left, was evicted or was never admitted drives the desktop: the
\* controller is free or a member (TakeControl's check under the same lock as
\* every removal).
ControllerIsPresent == controller \in members \cup {ControlFree}

\* Viewers never exceed cfg.MaxViewers: Join counts under the lock it inserts
\* under, although the agent comes in without being counted against anybody.
NotOverfull == Cardinality(members \cap Sessions) <= MaxViewers

\* Two people in the room never carry the same "Viewer n", and n never runs
\* past the number of seats, however many connections came and went.
NumbersFitTheSeats ==
    \A s \in Sessions :
        /\ s \in members <=> slot[s] # NoSlot
        /\ s \in members => slot[s] <= MaxViewers
        /\ \A t \in Sessions \ {s} : slot[s] = slot[t] => slot[s] = NoSlot

Waits(c, k) == call[c].pc \in {"waiting", "answered"} /\ call[c].kind = k

\* A dialog is up exactly while one call is behind it: no two calls wait for
\* the same kind of answer, a waiting call's dialog is the one on the screens,
\* and no dialog outlives its call and locks every later request out.
DialogHasItsCall ==
    \A k \in Kinds :
        /\ \A c \in Calls : Waits(c, k) => pending[k] = call[c].prompt
        /\ \A c, d \in Calls : Waits(c, k) /\ Waits(d, k) => c = d
        /\ pending[k] # NoPrompt => \E c \in Calls : Waits(c, k)

\* A call goes on to drive on somebody's word only if the first word anybody
\* gave on its own request was yes: a later yes does not undo a no, a yes to
\* another request does not count, and a timeout is a refusal.
GrantNeedsFirstYes ==
    \A c \in Calls :
        call[c].pc = "seize" /\ call[c].why = "granted" => call[c].first = "yes"

\* Walking in takes nothing: no step makes its newcomer the controller, and who
\* still drives after somebody was admitted has a live connection.
ArrivalTakesNothing ==
    [][\A s \in Sessions :
          s \in members' \ members =>
              /\ controller' \in {controller, ControlFree}
              /\ controller' \in Sessions => conn[controller'] = "up"]_vars

\* The room implements the token.
Token == INSTANCE ControlToken WITH Nobody <- ControlFree,
                                    present <- members, holder <- controller
ImplementsToken == Token!Spec

\* A prompt does not stay up for ever, whoever answers, leaves or disconnects.
PromptsComeDown == \A p \in Prompts : [](p \in {pending[k] : k \in Kinds}
                                         => <>(p \notin {pending[k] : k \in Kinds}))

(***************************************************************************)
(* What the comments say and the code does not do.                         *)
(***************************************************************************)

\* room.go: "Taking it silently is what a human does ... An agent is
\* different ... So it asks, and waits." Nobody's controls go to the agent
\* except by a call that somebody granted: as a property of the run room it is
\* violated.
AgentAsksWhoDrives ==
    [][(controller \in Sessions /\ controller' = Agent) =>
          \E c \in Calls : call[c].pc = "seize" /\ call[c].why = "granted"]_vars
=============================================================================
