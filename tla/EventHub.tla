------------------------------ MODULE EventHub ------------------------------
(***************************************************************************)
(* How a connection learns that the controls moved (internal/mcp/events.go *)
(* on top of Room.WatchPresence and Room.broadcastPresence).               *)
(*                                                                         *)
(* The room says only "look again": a change is announced after Room.mu is *)
(* released, to the callbacks registered by then, and each callback leaves *)
(* a mark in a one-slot channel.  The goroutine behind the channel reads   *)
(* the room and describes the difference to what the hub told last.        *)
(* Subscribing replaces the goroutine in several steps, and tools/calls    *)
(* run concurrently, so two of them may be at it.                          *)
(*                                                                         *)
(* One connection's hub over the control token, which Room implements.     *)
(* The X topics have a source of the same shape and are left out; so are   *)
(* the room topic's contents, which are read afresh.                       *)
(***************************************************************************)
EXTENDS ControlToken

CONSTANTS
    Agent,        \* agentID, among the Ids; everybody else is a viewer
    Broadcasts,   \* goroutines that can be in broadcastPresence at the same time
    Requests,     \* subscribe_events and unsubscribe_events calls of the connection
    Overlapping   \* whether the client sends one before the last was answered

NoSource == "none"
Holders  == Ids \cup {Nobody}

ASSUME HubAssumption == Agent \in Ids /\ Nobody \notin Ids /\ Overlapping \in BOOLEAN
ASSUME NamesAssumption == {NoSource, "close"} \cap Requests = {}

VARIABLES
    cast,      \* a broadcastPresence after its room change
    hub,       \* eventHub: on (the control topic is wanted), closed, stop, lastCtl
    request,   \* a subscribe or an unsubscribe in progress, and the close
    watching,  \* Room.presenceSubs: the sources registered, by the request that built them
    source,    \* the goroutine of watchRoom
    quiet,     \* history: the last change of the controls was announced by nobody
    freed      \* history: the agent's last turn ended without anybody taking over

room    == <<present, holder>>
hubVars == <<cast, hub, request, watching, source, quiet, freed>>
hubAll  == <<room, hubVars>>

\* ping: the one-slot channel. done: closed by the source's stop. id: who drives,
\* as the source read it last; until it reads, who drove when it was registered,
\* because what happened before that is not its to tell. previous: what it found
\* in lastCtl.
NoRoutine == [pc |-> "none", ping |-> FALSE, done |-> FALSE, id |-> Nobody, previous |-> Nobody]

NoRequest == [pc |-> "new", wants |-> FALSE, seed |-> Nobody, old |-> NoSource]
Over == [NoRequest EXCEPT !.pc = "over"]

CastState    == [pc : {"idle", "due", "telling"}, to : SUBSET Requests]
HubState     == [on : BOOLEAN, closed : BOOLEAN, stop : Requests \cup {NoSource}, lastCtl : Holders]
RequestState == [pc : {"new", "seeded", "tearing", "building", "storing", "over"}, wants : BOOLEAN,
                 seed : Holders, old : Requests \cup {NoSource}]
SourceState  == [pc : {"none", "idle", "woken", "read", "telling"}, ping : BOOLEAN, done : BOOLEAN,
                 id : Holders, previous : Holders]

HubTypeOK ==
    /\ present \subseteq Ids /\ holder \in Holders
    /\ cast \in [Broadcasts -> CastState]
    /\ hub \in HubState
    /\ request \in [Requests \cup {"close"} -> RequestState]
    /\ watching \subseteq Requests
    /\ source \in [Requests -> SourceState]
    /\ quiet \in BOOLEAN /\ freed \in BOOLEAN

HubInit ==
    /\ Init
    /\ cast = [b \in Broadcasts |-> [pc |-> "idle", to |-> {}]]
    /\ hub = [on |-> FALSE, closed |-> FALSE, stop |-> NoSource, lastCtl |-> Nobody]
    /\ request = [t \in Requests \cup {"close"} |-> NoRequest]
    /\ watching = {}
    /\ source = [w \in Requests |-> NoRoutine]
    /\ quiet = FALSE /\ freed = FALSE

-----------------------------------------------------------------------------
(***************************************************************************)
(* The room, with the broadcast its operations end in.                     *)
(***************************************************************************)

\* Join, Leave, JoinAgent, LeaveAgent, TakeControl and ReleaseControl announce
\* what they changed.
Loud ==
    /\ ComeAndGo \/ Claim \/ PutDown
    /\ present' # present \/ holder' # holder

\* Nobody is told of the viewers a refused Join evicts, or of the departure of
\* the last one, after which Leave stops the capture and returns.
Quiet ==
    /\ ComeAndGo
    /\ present' \subseteq present /\ present' # present
    /\ Agent \in present => Agent \in present'

\* Slip: release_control tells nobody, since nobody has to act on it.
AnnounceUnlessFreed(b) ==
    /\ cast[b].pc = "idle"
    /\ cast' = IF holder' = Nobody THEN cast ELSE [cast EXCEPT ![b].pc = "due"]
    /\ quiet' = FALSE

\* broadcastPresence begins: the lock is free again, the watchers not yet read.
Announce(b) ==
    /\ cast[b].pc = "idle"
    /\ cast' = [cast EXCEPT ![b].pc = "due"]
    /\ quiet' = FALSE

RoomMoves ==
    /\ \/ Loud /\ \E b \in Broadcasts : Announce(b)
       \/ Quiet /\ quiet' = (quiet \/ holder' # holder) /\ UNCHANGED cast
    /\ freed' = IF holder = Agent /\ holder' # Agent THEN holder' = Nobody ELSE freed
    /\ UNCHANGED <<hub, request, watching, source>>

\* The callbacks registered by now, copied under the lock ...
Copy(b) ==
    /\ cast[b].pc = "due"
    /\ cast' = [cast EXCEPT ![b] = IF watching = {} THEN [pc |-> "idle", to |-> {}]
                                                    ELSE [pc |-> "telling", to |-> watching]]
    /\ UNCHANGED <<room, hub, request, watching, source, quiet, freed>>

\* ... and called outside it. The callback never blocks: a full slot stays full.
Tell(b, w) ==
    /\ w \in cast[b].to
    /\ cast' = [cast EXCEPT ![b] = [pc |-> IF @.to = {w} THEN "idle" ELSE "telling",
                                    to |-> @.to \ {w}]]
    /\ source' = IF source[w].pc = "none" THEN source ELSE [source EXCEPT ![w].ping = TRUE]
    /\ UNCHANGED <<room, hub, request, watching, quiet, freed>>

-----------------------------------------------------------------------------
(***************************************************************************)
(* subscribe, unsubscribe, close.                                          *)
(***************************************************************************)

\* The source's stop: unregistered, and its goroutine told to end.
Unhook(w) ==
    /\ watching' = watching \ {w}
    /\ source' = IF w = NoSource THEN source ELSE [source EXCEPT ![w].done = TRUE]

\* A call starts, possibly as late as after the connection has closed.
MaySend(t) ==
    /\ request[t].pc = "new"
    /\ Overlapping \/ \A u \in Requests : request[u].pc \in {"new", "over"}

\* The room is read before the hub's lock is taken.
SubscribeReads(t, wants) ==
    /\ MaySend(t)
    /\ request' = [request EXCEPT ![t] = [@ EXCEPT !.pc = "seeded", !.wants = wants,
                                                   !.seed = IF wants THEN holder ELSE Nobody]]
    /\ UNCHANGED <<room, cast, hub, watching, source, quiet, freed>>

\* First critical section: the old stop is taken out, lastCtl is seeded.
SubscribeSwaps(t) ==
    /\ request[t].pc = "seeded"
    /\ IF hub.closed
         THEN /\ request' = [request EXCEPT ![t] = Over]
              /\ UNCHANGED hub
         ELSE /\ request' = [request EXCEPT ![t] = [@ EXCEPT !.pc = "tearing", !.old = hub.stop,
                                                             !.seed = Nobody]]
              /\ hub' = [hub EXCEPT !.stop = NoSource, !.on = request[t].wants,
                                    !.lastCtl = request[t].seed]
    /\ UNCHANGED <<room, cast, watching, source, quiet, freed>>

\* unsubscribe, its critical section.
Unsubscribe(t) ==
    /\ MaySend(t)
    /\ hub' = [hub EXCEPT !.stop = NoSource, !.on = FALSE]
    /\ request' = [request EXCEPT ![t] = [@ EXCEPT !.pc = "tearing", !.wants = FALSE, !.old = hub.stop]]
    /\ UNCHANGED <<room, cast, watching, source, quiet, freed>>

\* close, its critical section.
Close ==
    /\ ~ hub.closed
    /\ hub' = [hub EXCEPT !.closed = TRUE, !.stop = NoSource, !.on = FALSE]
    /\ request' = [request EXCEPT !["close"] = [@ EXCEPT !.pc = "tearing", !.old = hub.stop]]
    /\ UNCHANGED <<room, cast, watching, source, quiet, freed>>

\* The old source stops, outside the hub's lock. A subscription that wants the
\* room goes on to build its own.
TearDown(t) ==
    /\ request[t].pc = "tearing"
    /\ Unhook(request[t].old)
    /\ request' = [request EXCEPT ![t] = IF @.wants
                                           THEN [@ EXCEPT !.pc = "building", !.old = NoSource]
                                           ELSE Over]
    /\ UNCHANGED <<room, cast, hub, quiet, freed>>

\* watchRoom: the callback is registered and the goroutine starts.
Build(t) ==
    /\ request[t].pc = "building"
    /\ watching' = watching \cup {t}
    /\ source' = [source EXCEPT ![t] = [@ EXCEPT !.pc = "idle", !.id = holder]]
    /\ request' = [request EXCEPT ![t].pc = "storing"]
    /\ UNCHANGED <<room, cast, hub, quiet, freed>>

\* Slip: no second look at closed.
StoreAnyway(t) ==
    /\ request[t].pc = "storing"
    /\ hub' = [hub EXCEPT !.stop = t]
    /\ request' = [request EXCEPT ![t] = Over]
    /\ UNCHANGED <<room, cast, watching, source, quiet, freed>>

\* Second critical section: the stop is stored, or, closed meanwhile, called.
Store(t) ==
    /\ request[t].pc = "storing"
    /\ IF hub.closed
         THEN /\ request' = [request EXCEPT ![t] = [@ EXCEPT !.pc = "tearing", !.wants = FALSE,
                                                             !.old = t]]
              /\ UNCHANGED hub
         ELSE /\ request' = [request EXCEPT ![t] = Over]
              /\ hub' = [hub EXCEPT !.stop = t]
    /\ UNCHANGED <<room, cast, watching, source, quiet, freed>>

-----------------------------------------------------------------------------
(***************************************************************************)
(* The goroutine of watchRoom.                                             *)
(***************************************************************************)

At(w, pc) == source[w].pc = pc

Wake(w) ==
    /\ At(w, "idle") /\ source[w].ping
    /\ source' = [source EXCEPT ![w] = [@ EXCEPT !.pc = "woken", !.ping = FALSE]]
    /\ UNCHANGED <<room, cast, hub, request, watching, quiet, freed>>

\* The select takes either of two ready channels.
End(w) ==
    /\ At(w, "idle") /\ source[w].done
    /\ source' = [source EXCEPT ![w] = [NoRoutine EXCEPT !.done = TRUE]]
    /\ UNCHANGED <<room, cast, hub, request, watching, quiet, freed>>

Look(w) ==
    /\ At(w, "woken")
    /\ source' = [source EXCEPT ![w] = [@ EXCEPT !.pc = "read", !.id = holder]]
    /\ UNCHANGED <<room, cast, hub, request, watching, quiet, freed>>

\* The hub's lastCtl is exchanged under its lock.
Compare(w) ==
    /\ At(w, "read")
    /\ hub' = [hub EXCEPT !.lastCtl = source[w].id]
    /\ source' = IF hub.lastCtl = source[w].id
                   THEN [source EXCEPT ![w].pc = "idle"]
                   ELSE [source EXCEPT ![w] = [@ EXCEPT !.pc = "telling", !.previous = hub.lastCtl]]
    /\ UNCHANGED <<room, cast, request, watching, quiet, freed>>

\* The transition, named: "released" comes before "taken from you".
Change(w) ==
    CASE source[w].id = Nobody -> "released"
      [] source[w].id = Agent -> "granted_to_you"
      [] source[w].id \in Ids \ {Agent} /\ source[w].previous = Agent -> "taken_from_you"
      [] OTHER -> "moved"

Told == hub.on /\ ~ hub.closed

\* publish: what is Told is written, anything else is dropped.
Publish(w) ==
    /\ At(w, "telling")
    /\ source' = [source EXCEPT ![w] = [@ EXCEPT !.pc = "idle", !.previous = Nobody]]
    /\ UNCHANGED <<room, cast, hub, request, watching, quiet, freed>>

-----------------------------------------------------------------------------
Routine(w) == Wake(w) \/ End(w) \/ Look(w) \/ Compare(w) \/ Publish(w)

Subscribing(t) ==
    \/ \E wants \in BOOLEAN : SubscribeReads(t, wants)
    \/ SubscribeSwaps(t) \/ Build(t) \/ Store(t) \/ Unsubscribe(t)

HubNext ==
    \/ RoomMoves
    \/ \E b \in Broadcasts : Copy(b) \/ \E w \in Requests : Tell(b, w)
    \/ \E t \in Requests : Subscribing(t) \/ Routine(t)
    \/ Close
    \/ \E t \in Requests \cup {"close"} : TearDown(t)

HubSpec == HubInit /\ [][HubNext]_hubAll

-----------------------------------------------------------------------------
(***************************************************************************)
(* Properties.                                                             *)
(***************************************************************************)

\* Coalescing loses nothing that was announced: a registered source that knows
\* less than the room has a mark in its slot, a look to take, or a broadcast on
\* its way that will reach it.
AnnouncedReachesSource ==
    \A w \in watching : source[w].id # holder /\ ~ quiet =>
        \/ source[w].ping \/ At(w, "woken")
        \/ \E b \in Broadcasts : cast[b].pc = "due" \/ w \in cast[b].to

\* Closing the connection leaves no callback in the room and no goroutine
\* waiting for one, whatever call was halfway through subscribing (events.go: "a
\* dead client cannot leak a watcher into the desktop"). A client that has two
\* calls at it at the same time (Overlapping) makes it false.
Settled == \A t \in Requests \cup {"close"} : request[t].pc \in {"new", "over"}

ClosedWatchesNothing ==
    hub.closed /\ Settled =>
        watching = {} /\ \A w \in Requests : source[w].pc # "none" => source[w].done

(***************************************************************************)
(* What the comments say and the code does not do.                         *)
(***************************************************************************)

\* events.go: "released" comes first so that a run that let go of the controls by
\* itself is not told "that somebody had snatched the desktop out of its hands".
\* As a property of the run hub, with freed in its view, it is violated.
OnlyATakingIsTheft ==
    [][ \A w \in Requests :
            (/\ At(w, "read") /\ At(w, "telling")'
             /\ Told /\ Change(w)' = "taken_from_you") => ~ freed ]_hubAll
=============================================================================
