--------------------------- MODULE EventHubProofs ---------------------------
(***************************************************************************)
(* What an MCP session is told and what the server remembers of its calls. *)
(* Coalescing is safe: whatever the client subscribes to and unsubscribes  *)
(* from, and however many calls it has at it, a registered source learns   *)
(* of every change of the controls that was announced.  And the action log *)
(* keeps the newest calls, whatever fails.                                 *)
(***************************************************************************)
EXTENDS EventHub, ActionLog, SequenceTheorems, TLAPS

\* A step of one request, or of one source.
LEMMA RequestStep ==
    ASSUME request \in [Requests \cup {"close"} -> RequestState],
           NEW t \in Requests \cup {"close"}, NEW r \in RequestState,
           request' = [request EXCEPT ![t] = r]
    PROVE  request' \in [Requests \cup {"close"} -> RequestState]
  OBVIOUS

LEMMA SourceStep ==
    ASSUME source \in [Requests -> SourceState], NEW w \in Requests, NEW r \in SourceState,
           source' = [source EXCEPT ![w] = r]
    PROVE  source' \in [Requests -> SourceState]
  OBVIOUS

LEMMA SourceTypes ==
    ASSUME NEW r \in SourceState
    PROVE  /\ [NoRoutine EXCEPT !.done = TRUE] \in SourceState
           /\ [r EXCEPT !.pc = "woken", !.ping = FALSE] \in SourceState
           /\ [r EXCEPT !.pc = "idle"] \in SourceState
           /\ \A h \in Holders : /\ [r EXCEPT !.pc = "idle", !.id = h] \in SourceState
                                 /\ [r EXCEPT !.pc = "read", !.id = h] \in SourceState
                                 /\ [r EXCEPT !.pc = "telling", !.previous = h] \in SourceState
                                 /\ [r EXCEPT !.pc = "idle", !.previous = h] \in SourceState
  BY DEF SourceState, NoRoutine, Holders

LEMMA Fields ==
    ASSUME HubTypeOK
    PROVE  /\ hub.stop \in Requests \cup {NoSource} /\ hub.lastCtl \in Holders
           /\ Over \in RequestState /\ Nobody \in Holders
           /\ \A t \in Requests \cup {"close"} :
                 /\ request[t] \in RequestState /\ request[t].wants \in BOOLEAN
                 /\ request[t].seed \in Holders /\ request[t].old \in Requests \cup {NoSource}
           /\ \A w \in Requests : source[w] \in SourceState /\ source[w].id \in Holders
  BY DEF HubTypeOK, HubState, RequestState, SourceState, Over, NoRequest, Holders

\* Every variable stays in its set.
THEOREM HubTyping == HubSpec => []HubTypeOK
  <1> USE HubAssumption DEF HubTypeOK
  <1>1. HubInit => HubTypeOK
    <2>1. NoRequest \in RequestState /\ NoRoutine \in SourceState
      BY DEF NoRequest, NoRoutine, RequestState, SourceState, Holders
    <2>2. [pc |-> "idle", to |-> {}] \in CastState
      BY DEF CastState
    <2>3. [on |-> FALSE, closed |-> FALSE, stop |-> NoSource, lastCtl |-> Nobody] \in HubState
      BY DEF HubState, Holders
    <2> QED
      BY <2>1, <2>2, <2>3 DEF HubInit, Init, Holders
  <1>2. HubTypeOK /\ [HubNext]_hubAll => HubTypeOK'
    <2> SUFFICES ASSUME HubTypeOK, [HubNext]_hubAll PROVE HubTypeOK'
      OBVIOUS
    <2> USE DEF room
    <2>1. CASE RoomMoves
      <3>1. present' \subseteq Ids /\ holder' \in Holders
        BY <2>1 DEF RoomMoves, Loud, Quiet, ComeAndGo, Claim, PutDown, Holders
      <3>2. cast' \in [Broadcasts -> CastState] /\ quiet' \in BOOLEAN /\ freed' \in BOOLEAN
        BY <2>1 DEF RoomMoves, Announce, CastState
      <3> QED
        BY <2>1, <3>1, <3>2 DEF RoomMoves
    <2>2. ASSUME NEW b \in Broadcasts, Copy(b) PROVE HubTypeOK'
      <3>1. [pc |-> "idle", to |-> {}] \in CastState /\ [pc |-> "telling", to |-> watching] \in CastState
        BY DEF CastState
      <3> QED
        BY <2>2, <3>1 DEF Copy
    <2>3. ASSUME NEW b \in Broadcasts, NEW w \in Requests, Tell(b, w) PROVE HubTypeOK'
      <3>1. cast' \in [Broadcasts -> CastState]
        BY <2>3 DEF Tell, CastState
      <3>2. source' \in [Requests -> SourceState]
        BY <2>3, Fields DEF Tell, SourceState
      <3> QED
        BY <2>3, <3>1, <3>2 DEF Tell
    <2>4. ASSUME NEW t \in Requests, NEW wants \in BOOLEAN, SubscribeReads(t, wants) PROVE HubTypeOK'
      <3> DEFINE seed == IF wants THEN holder ELSE Nobody
                 r    == [request[t] EXCEPT !.pc = "seeded", !.wants = wants, !.seed = seed]
      <3>1. r \in RequestState
        BY Fields DEF RequestState
      <3> QED
        BY <2>4, <3>1, RequestStep DEF SubscribeReads
    <2>5. ASSUME NEW t \in Requests, SubscribeSwaps(t) PROVE HubTypeOK'
      <3> DEFINE r == [request[t] EXCEPT !.pc = "tearing", !.old = hub.stop, !.seed = Nobody]
      <3>1. r \in RequestState /\ Over \in RequestState
        BY Fields DEF RequestState
      <3>2. request' \in [Requests \cup {"close"} -> RequestState]
        BY <2>5, <3>1, RequestStep DEF SubscribeSwaps
      <3>3. [hub EXCEPT !.stop = NoSource, !.on = request[t].wants,
                        !.lastCtl = request[t].seed] \in HubState
        BY Fields DEF HubState
      <3> QED
        BY <2>5, <3>2, <3>3 DEF SubscribeSwaps
    <2>6. ASSUME NEW t \in Requests, Build(t) PROVE HubTypeOK'
      <3>1. [request[t] EXCEPT !.pc = "storing"] \in RequestState
        BY Fields DEF RequestState
      <3>2. [source[t] EXCEPT !.pc = "idle", !.id = holder] \in SourceState
        <4>1. source[t] \in SourceState
          OBVIOUS
        <4> QED
          BY <4>1, SourceTypes
      <3>3. request' = [request EXCEPT ![t] = [request[t] EXCEPT !.pc = "storing"]]
        BY <2>6 DEF Build
      <3> QED
        BY <2>6, <3>1, <3>2, <3>3, RequestStep, SourceStep DEF Build
    <2>7. ASSUME NEW t \in Requests, Store(t) PROVE HubTypeOK'
      <3>1. [request[t] EXCEPT !.pc = "tearing", !.wants = FALSE, !.old = t] \in RequestState
        BY Fields DEF RequestState
      <3>2. request' \in [Requests \cup {"close"} -> RequestState]
        BY <2>7, <3>1, Fields, RequestStep DEF Store
      <3>3. [hub EXCEPT !.stop = t] \in HubState
        BY DEF HubState
      <3> QED
        BY <2>7, <3>2, <3>3 DEF Store
    <2>8. ASSUME NEW t \in Requests, Unsubscribe(t) PROVE HubTypeOK'
      <3>1. [request[t] EXCEPT !.pc = "tearing", !.wants = FALSE, !.old = hub.stop] \in RequestState
        BY Fields DEF RequestState
      <3>2. request' \in [Requests \cup {"close"} -> RequestState]
        BY <2>8, <3>1, RequestStep DEF Unsubscribe
      <3>3. [hub EXCEPT !.stop = NoSource, !.on = FALSE] \in HubState
        BY DEF HubState
      <3> QED
        BY <2>8, <3>2, <3>3 DEF Unsubscribe
    <2>9. CASE Close
      <3>1. [request["close"] EXCEPT !.pc = "tearing", !.old = hub.stop] \in RequestState
        BY Fields DEF RequestState
      <3>2. request' \in [Requests \cup {"close"} -> RequestState]
        BY <2>9, <3>1, RequestStep DEF Close
      <3>3. [hub EXCEPT !.closed = TRUE, !.stop = NoSource, !.on = FALSE] \in HubState
        BY DEF HubState
      <3> QED
        BY <2>9, <3>2, <3>3 DEF Close
    <2>10. ASSUME NEW t \in Requests \cup {"close"}, TearDown(t) PROVE HubTypeOK'
      <3>1. [request[t] EXCEPT !.pc = "building", !.old = NoSource] \in RequestState
        BY Fields DEF RequestState
      <3>2. request' \in [Requests \cup {"close"} -> RequestState]
        BY <2>10, <3>1, Fields, RequestStep DEF TearDown
      <3>3. source' \in [Requests -> SourceState] /\ watching' \subseteq Requests
        BY <2>10, Fields DEF TearDown, Unhook, SourceState
      <3> QED
        BY <2>10, <3>2, <3>3 DEF TearDown
    <2>11. ASSUME NEW w \in Requests, Routine(w) PROVE HubTypeOK'
      <3>1. source[w] \in SourceState
        OBVIOUS
      <3>2. CASE Wake(w) \/ End(w) \/ Look(w) \/ Publish(w)
        <4>1. source' \in [Requests -> SourceState]
          BY <3>1, <3>2, Fields, SourceTypes, SourceStep DEF Wake, End, Look, Publish
        <4> QED
          BY <3>2, <4>1 DEF Wake, End, Look, Publish
      <3>3. CASE Compare(w)
        <4>1. \E r \in SourceState : source' = [source EXCEPT ![w] = r]
          BY <3>1, <3>3, Fields, SourceTypes DEF Compare
        <4>2. hub' \in HubState
          BY <3>3, Fields DEF Compare, HubState
        <4> QED
          BY <3>3, <4>1, <4>2, SourceStep DEF Compare
      <3> QED
        BY <2>11, <3>2, <3>3 DEF Routine
    <2>12. CASE UNCHANGED hubAll
      BY <2>12 DEF hubAll, hubVars
    <2> QED
      BY <2>1, <2>2, <2>3, <2>4, <2>5, <2>6, <2>7, <2>8, <2>9, <2>10, <2>11, <2>12
         DEF HubNext, Subscribing
  <1> QED
    BY <1>1, <1>2, PTL DEF HubSpec

-----------------------------------------------------------------------------
(***************************************************************************)
(* A source is stopped only after it was unregistered and is registered    *)
(* once: that is what makes AnnouncedReachesSource inductive.              *)
(***************************************************************************)

\* A request that has not built its source yet.
Unbuilt(t) == \/ request[t].pc \in {"new", "seeded", "building"}
              \/ request[t].pc = "tearing" /\ request[t].wants

Unknown(t) == /\ t \notin watching /\ source[t].pc = "none" /\ ~ source[t].done
              /\ hub.stop # t
              /\ \A u \in Requests \cup {"close"} : request[u].old # t

Registry ==
    /\ \A t \in Requests : Unbuilt(t) => Unknown(t)
    /\ \A w \in watching : source[w].pc # "none" /\ ~ source[w].done
    /\ \A b \in Broadcasts : cast[b].pc # "telling" => cast[b].to = {}

HubInv == HubTypeOK /\ Registry /\ AnnouncedReachesSource

LEMMA RoomKeeps ==
    ASSUME HubInv,
           RoomMoves \/ \E b \in Broadcasts : Copy(b) \/ \E w \in Requests : Tell(b, w)
    PROVE  Registry' /\ AnnouncedReachesSource'
  <1> USE DEF HubInv, HubTypeOK, Registry, AnnouncedReachesSource, Unbuilt, Unknown, At
  <1>1. CASE RoomMoves
    <2>1. CASE Loud /\ \E b \in Broadcasts : Announce(b)
      BY <1>1, <2>1 DEF RoomMoves, Announce, CastState
    <2>2. CASE Quiet /\ quiet' = (quiet \/ holder' # holder) /\ UNCHANGED cast
      BY <1>1, <2>2 DEF RoomMoves
    <2> QED
      BY <1>1, <2>1, <2>2 DEF RoomMoves
  <1>2. ASSUME NEW b \in Broadcasts, Copy(b)
        PROVE  Registry' /\ AnnouncedReachesSource'
    BY <1>2 DEF Copy, room, CastState
  <1>3. ASSUME NEW b \in Broadcasts, NEW w \in Requests, Tell(b, w)
        PROVE  Registry' /\ AnnouncedReachesSource'
    <2>1. /\ \A v \in Requests : /\ source'[v].pc = source[v].pc
                                /\ source'[v].done = source[v].done
                                /\ source'[v].id = source[v].id
                                /\ v # w => source'[v] = source[v]
          /\ source[w].pc # "none" => source'[w].ping
      BY <1>3 DEF Tell, SourceState
    <2>2. /\ cast[b].to # {} /\ cast'[b].to = cast[b].to \ {w}
          /\ cast'[b].pc # "telling" => cast[b].to = {w}
          /\ \A d \in Broadcasts \ {b} : cast'[d] = cast[d]
      BY <1>3 DEF Tell, CastState
    <2>3. Registry'
      BY <1>3, <2>1, <2>2 DEF Tell
    <2>4. ASSUME NEW v \in Requests, v \in watching, source[v].id # holder, ~ quiet
          PROVE  \/ source'[v].ping \/ source'[v].pc = "woken"
                 \/ \E d \in Broadcasts : cast'[d].pc = "due" \/ v \in cast'[d].to
      <3>1. CASE v = w
        <4>1. source[v].pc # "none"
          BY <2>4
        <4> QED
          BY <2>1, <3>1, <4>1
      <3>2. CASE v # w
        <4>1. CASE source[v].ping \/ source[v].pc = "woken"
          <5>1. source'[v] = source[v]
            BY <1>3, <3>2 DEF Tell
          <5> QED
            BY <4>1, <5>1
        <4>2. ASSUME NEW d \in Broadcasts, cast[d].pc = "due" \/ v \in cast[d].to
              PROVE  cast'[d].pc = "due" \/ v \in cast'[d].to
          BY <2>2, <3>2, <4>2
        <4> QED
          BY <2>4, <4>1, <4>2
      <3> QED
        BY <3>1, <3>2
    <2>5. AnnouncedReachesSource'
      BY <1>3, <2>1, <2>4 DEF Tell, room
    <2> QED
      BY <2>3, <2>5
  <1> QED
    BY <1>1, <1>2, <1>3

LEMMA RequestsKeep ==
    ASSUME HubInv, NEW t \in Requests \cup {"close"},
           \/ t \in Requests /\ Subscribing(t)
           \/ t = "close" /\ Close
           \/ TearDown(t)
    PROVE  Registry' /\ AnnouncedReachesSource'
  <1> USE NamesAssumption DEF HubInv, HubTypeOK, Registry, Unbuilt, Unknown
  <1>1. CASE t \in Requests /\ \E wants \in BOOLEAN : SubscribeReads(t, wants)
    BY <1>1 DEF SubscribeReads, MaySend, RequestState, AnnouncedReachesSource, At, room
  <1>2. CASE t \in Requests /\ SubscribeSwaps(t)
    <2>1. /\ request[t].pc = "seeded" /\ watching' = watching /\ source' = source /\ cast' = cast
          /\ \A u \in (Requests \cup {"close"}) \ {t} : request'[u] = request[u]
          /\ request'[t].old \in {NoSource, hub.stop}
          /\ hub'.stop \in {NoSource, hub.stop}
      <3>1. CASE hub.closed
        BY <1>2, <3>1 DEF SubscribeSwaps, Over, NoRequest
      <3>2. CASE ~ hub.closed
        <4> DEFINE r == [request[t] EXCEPT !.pc = "tearing", !.old = hub.stop, !.seed = Nobody]
        <4>1. request' = [request EXCEPT ![t] = r] /\ r.old = hub.stop
          BY <1>2, <3>2 DEF SubscribeSwaps, RequestState
        <4>2. hub'.stop = NoSource
          <5>1. hub' = [hub EXCEPT !.stop = NoSource, !.on = request[t].wants,
                                   !.lastCtl = request[t].seed]
            BY <1>2, <3>2 DEF SubscribeSwaps
          <5>2. hub \in HubState
            OBVIOUS
          <5> QED
            BY <5>1, <5>2, Zenon DEF HubState
        <4> HIDE DEF r
        <4> QED
          BY <1>2, <3>2, <4>1, <4>2 DEF SubscribeSwaps
      <3> QED
        BY <3>1, <3>2
    <2>2. Registry'
      BY <1>2, <2>1
    <2> QED
      BY <1>2, <2>1, <2>2 DEF SubscribeSwaps, AnnouncedReachesSource, At, room
  <1>3. CASE t \in Requests /\ Unsubscribe(t)
    BY <1>3 DEF Unsubscribe, MaySend, RequestState, HubState, AnnouncedReachesSource, At, room
  <1>4. CASE t = "close" /\ Close
    BY <1>4 DEF Close, RequestState, HubState, AnnouncedReachesSource, At, room
  <1>5. CASE t \in Requests /\ Store(t)
    <2>1. /\ request[t].pc = "storing" /\ watching' = watching /\ source' = source /\ cast' = cast
          /\ \A u \in (Requests \cup {"close"}) \ {t} : request'[u] = request[u]
          /\ request'[t].old \in {NoSource, t} /\ ~ Unbuilt(t)'
          /\ hub'.stop \in {t, hub.stop}
      <3>1. CASE hub.closed
        <4> DEFINE r == [request[t] EXCEPT !.pc = "tearing", !.wants = FALSE, !.old = t]
        <4>1. request' = [request EXCEPT ![t] = r] /\ hub' = hub
          BY <1>5, <3>1 DEF Store
        <4>2. r.old = t /\ r.pc = "tearing" /\ ~ r.wants
          BY DEF RequestState
        <4> HIDE DEF r
        <4> QED
          BY <1>5, <3>1, <4>1, <4>2 DEF Store
      <3>2. CASE ~ hub.closed
        BY <1>5, <3>2 DEF Store, HubState, Over, NoRequest
      <3> QED
        BY <3>1, <3>2
    <2>2. Registry'
      BY <1>5, <2>1
    <2> QED
      BY <1>5, <2>1, <2>2 DEF Store, AnnouncedReachesSource, At, room
  <1>6. CASE t \in Requests /\ Build(t)
    <2>1. /\ \A v \in Requests \ {t} : source'[v] = source[v] /\ request'[v] = request[v]
          /\ source'[t].pc = "idle" /\ source'[t].done = source[t].done /\ source'[t].id = holder
          /\ request'[t].pc = "storing"
          /\ \A u \in Requests \cup {"close"} : request'[u].old = request[u].old
      BY <1>6 DEF Build, SourceState, RequestState
    <2>2. Registry'
      BY <1>6, <2>1 DEF Build
    <2>3. AnnouncedReachesSource'
      BY <1>6, <2>1 DEF Build, room, AnnouncedReachesSource, At
    <2> QED
      BY <2>2, <2>3
  <1>7. CASE TearDown(t)
    <2> DEFINE w == request[t].old
    <2>1. w \in Requests \cup {NoSource}
      BY Fields
    <2>2. /\ watching' = watching \ {w}
          /\ \A v \in Requests \ {w} : source'[v] = source[v]
      BY <1>7, <2>1 DEF TearDown, Unhook
    <2>3. /\ \A u \in (Requests \cup {"close"}) \ {t} : request'[u] = request[u]
          /\ request'[t].old = NoSource
          /\ request'[t].pc \in {"building", "over"}
          /\ request'[t].pc = "building" => request[t].wants
      BY <1>7 DEF TearDown, RequestState, Over, NoRequest
    <2>4. Registry'
      BY <1>7, <2>1, <2>2, <2>3 DEF TearDown
    <2>5. AnnouncedReachesSource'
      BY <1>7, <2>1, <2>2 DEF TearDown, room, AnnouncedReachesSource, At
    <2> QED
      BY <2>4, <2>5
  <1> QED
    BY <1>1, <1>2, <1>3, <1>4, <1>5, <1>6, <1>7 DEF Subscribing

LEMMA RoutineKeeps ==
    ASSUME HubInv, NEW w \in Requests, Routine(w)
    PROVE  Registry' /\ AnnouncedReachesSource'
  <1> USE DEF HubInv, HubTypeOK, Registry, Unbuilt, Unknown, AnnouncedReachesSource, At, room,
              SourceState
  <1>1. CASE Wake(w)
    BY <1>1 DEF Wake
  <1>2. CASE End(w)
    BY <1>2 DEF End, NoRoutine
  <1>3. CASE Look(w)
    BY <1>3 DEF Look
  <1>4. CASE Compare(w)
    BY <1>4 DEF Compare, HubState
  <1>5. CASE Publish(w)
    BY <1>5 DEF Publish
  <1> QED
    BY <1>1, <1>2, <1>3, <1>4, <1>5 DEF Routine

LEMMA HubIsSound == HubSpec => []HubInv
  <1>1. HubInit => Registry /\ AnnouncedReachesSource
    BY NamesAssumption DEF HubInit, Registry, AnnouncedReachesSource, Unbuilt, Unknown, NoRequest, NoRoutine
  <1>2. HubTypeOK /\ Registry /\ AnnouncedReachesSource /\ [HubNext]_hubAll
          => Registry' /\ AnnouncedReachesSource'
    <2> SUFFICES ASSUME HubInv, [HubNext]_hubAll PROVE Registry' /\ AnnouncedReachesSource'
      BY DEF HubInv
    <2>1. CASE UNCHANGED hubAll
      BY <2>1 DEF hubAll, hubVars, room, HubInv, Registry, AnnouncedReachesSource, Unbuilt, Unknown, At
    <2>2. CASE HubNext
      BY <2>2, RoomKeeps, RequestsKeep, RoutineKeeps DEF HubNext
    <2> QED
      BY <2>1, <2>2
  <1>3. HubTypeOK /\ Registry /\ AnnouncedReachesSource => HubInv
    BY DEF HubInv
  <1> QED
    BY <1>1, <1>2, <1>3, HubTyping, PTL DEF HubSpec

\* No change that was announced is lost in coalescing, for any number of people,
\* broadcasts in progress and overlapping subscriptions (events.go, watchRoom).
THEOREM Coalescing == HubSpec => []AnnouncedReachesSource
  <1>1. HubInv => AnnouncedReachesSource
    BY DEF HubInv
  <1> QED
    BY <1>1, HubIsSound, PTL

-----------------------------------------------------------------------------
(***************************************************************************)
(* A client that waits for each answer leaks no source.  At any moment a   *)
(* source that is registered, or runs and was not told to end, is in the   *)
(* hub, or in the hands of the one request or the close that will end it.  *)
(***************************************************************************)

Busy(t) == request[t].pc \notin {"new", "over"}

\* Only one request is under way, so none overwrites the stop another one stored;
\* and the hub of a closed connection holds none.
Serial ==
    /\ \A t, u \in Requests : Busy(t) /\ Busy(u) => t = u
    /\ \A t \in Requests :
          request[t].pc \in {"building", "storing"} \/ (request[t].pc = "tearing" /\ request[t].wants)
              => hub.stop = NoSource
    /\ IF hub.closed THEN hub.stop = NoSource ELSE request["close"].pc = "new"

InHand(w) ==
    \/ request[w].pc = "storing"
    \/ \E t \in Requests \cup {"close"} : request[t].pc = "tearing" /\ request[t].old = w

Owned ==
    \A w \in Requests :
        w \in watching \/ (source[w].pc # "none" /\ ~ source[w].done) => hub.stop = w \/ InHand(w)

\* Steps of the room and of the sources' own goroutines register nothing and
\* start nothing.
LEMMA NothingNew ==
    ASSUME HubTypeOK, Serial, Owned, watching' = watching, request' = request,
           hub'.stop = hub.stop, hub'.closed = hub.closed,
           \A w \in Requests : source'[w].pc # "none" /\ ~ source'[w].done
                                   => source[w].pc # "none" /\ ~ source[w].done
    PROVE  Serial' /\ Owned'
  <1>1. Serial'
    BY DEF Serial, Busy
  <1>2. Owned'
    BY DEF Owned, InHand
  <1> QED
    BY <1>1, <1>2

LEMMA OthersKeepSerial ==
    ASSUME HubInv, Serial, Owned,
           RoomMoves \/ (\E b \in Broadcasts : Copy(b) \/ \E w \in Requests : Tell(b, w))
               \/ \E w \in Requests : Routine(w)
    PROVE  Serial' /\ Owned'
  <1>0. HubTypeOK /\ source \in [Requests -> SourceState] /\ hub \in HubState
    BY DEF HubInv, HubTypeOK
  <1>1. CASE RoomMoves \/ \E b \in Broadcasts : Copy(b)
    BY <1>0, <1>1, NothingNew DEF RoomMoves, Copy
  <1>2. ASSUME NEW b \in Broadcasts, NEW w \in Requests, Tell(b, w) PROVE Serial' /\ Owned'
    <2>1. \A v \in Requests : source'[v].pc = source[v].pc /\ source'[v].done = source[v].done
      BY <1>0, <1>2 DEF Tell, SourceState
    <2> QED
      BY <1>0, <1>2, <2>1, NothingNew DEF Tell
  <1>3. ASSUME NEW w \in Requests, Routine(w) PROVE Serial' /\ Owned'
    <2>1. \A v \in Requests : source'[v].pc # "none" /\ ~ source'[v].done
                                  => source[v].pc # "none" /\ ~ source[v].done
      <3>1. CASE Wake(w) \/ Look(w) \/ Publish(w)
        BY <1>0, <3>1 DEF Wake, Look, Publish, At, SourceState
      <3>2. CASE End(w)
        BY <1>0, <3>2 DEF End, At, SourceState, NoRoutine
      <3>3. CASE Compare(w)
        BY <1>0, <3>3 DEF Compare, At, SourceState
      <3> QED
        BY <1>3, <3>1, <3>2, <3>3 DEF Routine
    <2>2. watching' = watching /\ request' = request
      BY <1>3 DEF Routine, Wake, End, Look, Compare, Publish
    <2>3. hub'.stop = hub.stop /\ hub'.closed = hub.closed
      BY <1>0, <1>3 DEF Routine, Wake, End, Look, Compare, Publish, HubState
    <2> QED
      BY <1>0, <2>1, <2>2, <2>3, NothingNew
  <1> QED
    BY <1>1, <1>2, <1>3

LEMMA RequestsKeepSerial ==
    ASSUME ~ Overlapping, HubInv, Serial, Owned, NEW t \in Requests \cup {"close"},
           \/ t \in Requests /\ Subscribing(t)
           \/ t = "close" /\ Close
           \/ TearDown(t)
    PROVE  Serial' /\ Owned'
  <1> DEFINE All == Requests \cup {"close"}
  <1>0. /\ request \in [All -> RequestState] /\ source \in [Requests -> SourceState] /\ hub \in HubState
        /\ NoSource \notin Requests /\ "close" \notin Requests
        /\ hub.stop \in Requests \cup {NoSource}
    BY NamesAssumption, Fields DEF HubInv, HubTypeOK
  <1>1. CASE t \in Requests /\ \E wants \in BOOLEAN : SubscribeReads(t, wants)
    <2>1. /\ request[t].pc = "new" /\ \A u \in Requests : ~ Busy(u)
          /\ watching' = watching /\ source' = source /\ hub' = hub
          /\ \A u \in All \ {t} : request'[u] = request[u]
          /\ request'[t].pc = "seeded"
      BY <1>0, <1>1 DEF SubscribeReads, MaySend, Busy, RequestState
    <2>2. Serial'
      BY <1>0, <1>1, <2>1 DEF Serial, Busy
    <2>3. Owned'
      BY <1>0, <1>1, <2>1 DEF Owned, InHand
    <2> QED
      BY <2>2, <2>3
  <1>2. CASE t \in Requests /\ SubscribeSwaps(t)
    <2>1. /\ request[t].pc = "seeded" /\ watching' = watching /\ source' = source
          /\ \A u \in All \ {t} : request'[u] = request[u]
          /\ hub.closed => hub' = hub /\ request'[t].pc = "over"
      BY <1>0, <1>2 DEF SubscribeSwaps, RequestState, Over, NoRequest
    <2>2. ~ hub.closed => /\ hub'.stop = NoSource /\ ~ hub'.closed
                          /\ request'[t].pc = "tearing" /\ request'[t].old = hub.stop
      <3> SUFFICES ASSUME ~ hub.closed
                   PROVE  /\ hub'.stop = NoSource /\ ~ hub'.closed
                          /\ request'[t].pc = "tearing" /\ request'[t].old = hub.stop
        OBVIOUS
      <3>1. request' = [request EXCEPT ![t] = [request[t] EXCEPT !.pc = "tearing", !.old = hub.stop,
                                                                 !.seed = Nobody]]
        BY <1>2 DEF SubscribeSwaps
      <3>2. hub' = [hub EXCEPT !.stop = NoSource, !.on = request[t].wants, !.lastCtl = request[t].seed]
        BY <1>2 DEF SubscribeSwaps
      <3>3. hub'.stop = NoSource /\ hub'.closed = hub.closed
        BY <1>0, <3>2, Zenon DEF HubState
      <3> QED
        BY <1>0, <3>1, <3>3 DEF RequestState
    <2>3. Serial'
      BY <1>0, <1>2, <2>1, <2>2 DEF Serial, Busy
    <2>4. Owned'
      BY <1>0, <1>2, <2>1, <2>2 DEF Owned, InHand
    <2> QED
      BY <2>3, <2>4
  <1>3. CASE t \in Requests /\ Unsubscribe(t)
    <2>1. /\ request[t].pc = "new" /\ \A u \in Requests : ~ Busy(u)
          /\ watching' = watching /\ source' = source
          /\ hub'.stop = NoSource /\ hub'.closed = hub.closed
          /\ \A u \in All \ {t} : request'[u] = request[u]
          /\ request'[t].pc = "tearing" /\ ~ request'[t].wants /\ request'[t].old = hub.stop
      BY <1>0, <1>3 DEF Unsubscribe, MaySend, Busy, RequestState, HubState
    <2>2. Serial'
      BY <1>0, <1>3, <2>1 DEF Serial, Busy
    <2>3. Owned'
      BY <1>0, <1>3, <2>1 DEF Owned, InHand
    <2> QED
      BY <2>2, <2>3
  <1>4. CASE t = "close" /\ Close
    <2>1. /\ request["close"].pc = "new" /\ watching' = watching /\ source' = source
          /\ hub'.stop = NoSource /\ hub'.closed
          /\ \A u \in Requests : request'[u] = request[u]
          /\ request'["close"].pc = "tearing" /\ request'["close"].old = hub.stop
      BY <1>0, <1>4 DEF Close, RequestState, HubState, Serial
    <2>2. Serial'
      BY <1>0, <2>1 DEF Serial, Busy
    <2>3. Owned'
      BY <1>0, <2>1 DEF Owned, InHand
    <2> QED
      BY <2>2, <2>3
  <1>5. CASE t \in Requests /\ Build(t)
    <2>1. /\ request[t].pc = "building" /\ watching' = watching \cup {t} /\ hub' = hub
          /\ \A w \in Requests \ {t} : source'[w] = source[w]
          /\ \A u \in All \ {t} : request'[u] = request[u]
          /\ request'[t].pc = "storing"
      BY <1>0, <1>5 DEF Build, RequestState, SourceState
    <2>2. Serial'
      BY <1>0, <1>5, <2>1 DEF Serial, Busy
    <2>3. ASSUME NEW v \in Requests, v \in watching' \/ (source'[v].pc # "none" /\ ~ source'[v].done)
          PROVE  hub'.stop = v \/ InHand(v)'
      <3>1. CASE v = t
        BY <2>1, <3>1 DEF InHand
      <3>2. CASE v # t
        <4>1. hub.stop = v \/ InHand(v)
          BY <2>1, <2>3, <3>2 DEF Owned
        <4>2. InHand(v) => InHand(v)'
          BY <2>1, <3>2 DEF InHand
        <4> QED
          BY <2>1, <4>1, <4>2
      <3> QED
        BY <3>1, <3>2
    <2>4. Owned'
      BY <2>3 DEF Owned
    <2> QED
      BY <2>2, <2>4
  <1>6. CASE t \in Requests /\ Store(t)
    <2>1. /\ request[t].pc = "storing" /\ watching' = watching /\ source' = source
          /\ \A u \in All \ {t} : request'[u] = request[u]
          /\ hub'.closed = hub.closed /\ hub.stop = NoSource
      <3>1. hub.stop = NoSource /\ request[t].pc = "storing"
        BY <1>6 DEF Store, Serial
      <3>2. hub' = hub \/ hub' = [hub EXCEPT !.stop = t]
        BY <1>6 DEF Store
      <3>3. hub'.closed = hub.closed
        BY <1>0, <3>2 DEF HubState
      <3>4. \A u \in All \ {t} : request'[u] = request[u]
        BY <1>0, <1>6 DEF Store
      <3> QED
        BY <1>6, <3>1, <3>3, <3>4 DEF Store
    <2>2. hub.closed => /\ hub' = hub /\ request'[t].pc = "tearing" /\ ~ request'[t].wants
                        /\ request'[t].old = t
      <3> SUFFICES ASSUME hub.closed
                   PROVE  /\ hub' = hub /\ request'[t].pc = "tearing" /\ ~ request'[t].wants
                          /\ request'[t].old = t
        OBVIOUS
      <3>1. request' = [request EXCEPT ![t] = [request[t] EXCEPT !.pc = "tearing", !.wants = FALSE,
                                                                 !.old = t]]
        BY <1>6 DEF Store
      <3> QED
        BY <1>0, <1>6, <3>1 DEF Store, RequestState
    <2>3. ~ hub.closed => hub'.stop = t /\ request'[t].pc = "over"
      BY <1>0, <1>6 DEF Store, HubState, Over, NoRequest
    <2>4. Serial'
      BY <1>0, <1>6, <2>1, <2>2, <2>3 DEF Serial, Busy
    <2>5. Owned'
      BY <1>0, <1>6, <2>1, <2>2, <2>3 DEF Owned, InHand
    <2> QED
      BY <2>4, <2>5
  <1>7. CASE TearDown(t)
    <2> DEFINE w == request[t].old
    <2>1. /\ request[t].pc = "tearing" /\ hub' = hub /\ watching' = watching \ {w}
          /\ \A v \in Requests \ {w} : source'[v] = source[v]
          /\ w \in Requests => source'[w].done
          /\ \A u \in All \ {t} : request'[u] = request[u]
      BY <1>0, <1>7 DEF TearDown, Unhook, SourceState
    <2>2. IF request[t].wants THEN request'[t].pc = "building" ELSE request'[t].pc = "over"
      BY <1>0, <1>7 DEF TearDown, RequestState, Over, NoRequest
    <2>3. Serial'
      BY <1>0, <1>7, <2>1, <2>2 DEF Serial, Busy
    <2>4. Owned'
      BY <1>0, <1>7, <2>1, <2>2 DEF Owned, InHand
    <2> QED
      BY <2>3, <2>4
  <1> QED
    BY <1>1, <1>2, <1>3, <1>4, <1>5, <1>6, <1>7 DEF Subscribing

\* A client that has one call at it at a time cannot leak a watcher into the
\* desktop, wherever the close falls among the steps of that call (events.go).
THEOREM NothingWatchesForTheDead == ~ Overlapping => (HubSpec => []ClosedWatchesNothing)
  <1> SUFFICES ASSUME ~ Overlapping PROVE HubSpec => []ClosedWatchesNothing
    OBVIOUS
  <1>1. HubInit => Serial /\ Owned
    BY DEF HubInit, Serial, Owned, Busy, NoRequest, NoRoutine
  <1>2. HubInv /\ Serial /\ Owned /\ [HubNext]_hubAll => Serial' /\ Owned'
    <2> SUFFICES ASSUME HubInv, Serial, Owned, [HubNext]_hubAll PROVE Serial' /\ Owned'
      OBVIOUS
    <2>1. CASE UNCHANGED hubAll
      BY <2>1 DEF hubAll, hubVars, Serial, Owned, Busy, InHand
    <2>2. CASE HubNext
      BY <2>2, OthersKeepSerial, RequestsKeepSerial DEF HubNext
    <2> QED
      BY <2>1, <2>2
  <1>3. HubInv /\ Serial /\ Owned => ClosedWatchesNothing
    <2> SUFFICES ASSUME HubInv, Serial, Owned, hub.closed, Settled, NEW w \in Requests
                 PROVE  w \notin watching /\ (source[w].pc # "none" => source[w].done)
      BY DEF ClosedWatchesNothing, HubInv, HubTypeOK
    <2>1. hub.stop = NoSource /\ ~ InHand(w)
      BY DEF Serial, InHand, Settled
    <2> QED
      BY <2>1, NamesAssumption DEF Owned
  <1> QED
    BY <1>1, <1>2, <1>3, HubIsSound, PTL DEF HubSpec

-----------------------------------------------------------------------------
(***************************************************************************)
(* The action log.                                                         *)
(***************************************************************************)

Climbs(s) == \A i, j \in 1 .. Len(s) : i < j => s[i] < s[j]
Under(s, n) == \A i \in 1 .. Len(s) : s[i] <= n
In(e, s) == \E i \in 1 .. Len(s) : s[i] = e

\* The ring, said without the bound on the entries.
RingHolds ==
    /\ Len(ring) = (IF added - since > RingMax THEN RingMax ELSE added - since)
    /\ \A i \in 1 .. Len(ring) : ring[i] = added - Len(ring) + i

\* Each generation climbs, the previous one stays under the current one, and
\* from the first entry of either on nothing that was written is missing.
DiskClimbs ==
    /\ Climbs(previous) /\ Climbs(current) /\ Under(previous, added) /\ Under(current, added)
    /\ \A i \in 1 .. Len(previous), j \in 1 .. Len(current) : previous[i] < current[j]

DiskIsWhole ==
    \A k, e \in Nat :
        (In(k, previous) \/ In(k, current)) /\ k <= e /\ e <= added =>
            e \in lost \/ In(e, previous) \/ In(e, current)

\* A generation outgrows the cap only by renames that failed.
DiskFits ==
    /\ handle => size = Len(current)
    /\ FileCap > 0 => /\ Len(current) <= FileCap - 1 + stuck
                     /\ Len(previous) <= FileCap + stuck
                     /\ Len(previous) + Len(current) <= 2 * FileCap - 1 + stuck

LogTypes ==
    /\ ring \in Seq(Nat) /\ current \in Seq(Nat) /\ previous \in Seq(Nat)
    /\ handle \in BOOLEAN /\ size \in Nat /\ added \in Nat /\ since \in 0 .. added
    /\ faults \in Nat /\ stuck \in Nat

LogInv == LogTypes /\ RingHolds /\ DiskClimbs /\ DiskIsWhole /\ DiskFits

LEMMA LogStart == LogInit => LogInv
  <1> SUFFICES ASSUME LogInit PROVE LogInv
    OBVIOUS
  <1>1. Len(<<>>) = 0 /\ <<>> \in Seq(Nat)
    BY EmptySeq
  <1>2. LogTypes
    BY <1>1 DEF LogInit, LogTypes
  <1>3. RingHolds
    BY <1>1, LogAssumption DEF LogInit, RingHolds
  <1>4. DiskClimbs
    BY <1>1 DEF LogInit, DiskClimbs, Climbs, Under
  <1>5. DiskIsWhole
    BY <1>1 DEF LogInit, DiskIsWhole, In
  <1>6. DiskFits
    BY <1>1, LogAssumption DEF LogInit, DiskFits
  <1> QED
    BY <1>2, <1>3, <1>4, <1>5, <1>6 DEF LogInv

\* One more entry at the end, and then only the newest.
LEMMA RememberKeeps ==
    ASSUME LogTypes, RingHolds, Remember
    PROVE  /\ RingHolds' /\ ring' \in Seq(Nat)
           /\ added' = added + 1 /\ since' = since
  <1> DEFINE s == Append(ring, added + 1)
             n == Len(ring)
  <1>1. added' = added + 1 /\ since' = since /\ ring' = Newest(s)
    BY DEF Remember
  <1>2. added \in Nat /\ since \in 0 .. added /\ ring \in Seq(Nat) /\ added + 1 \in Nat /\ n \in Nat
    BY DEF LogTypes
  <1>3. /\ s \in Seq(Nat) /\ Len(s) = n + 1
        /\ \A i \in 1 .. n : s[i] = ring[i]
        /\ s[n + 1] = added + 1
    BY <1>2, AppendProperties
  <1>4. /\ n = (IF added - since > RingMax THEN RingMax ELSE added - since)
        /\ \A i \in 1 .. n : ring[i] = added - n + i
    BY DEF RingHolds
  <1>5. RingMax \in Nat \ {0}
    BY LogAssumption
  <1> HIDE DEF s, n
  <1>6. \A i \in 1 .. n + 1 : s[i] = added - n + i
    <2> TAKE i \in 1 .. n + 1
    <2>1. CASE i = n + 1
      BY <1>2, <1>3, <2>1
    <2>2. CASE i # n + 1
      <3>1. i \in 1 .. n
        BY <1>2, <2>2
      <3> QED
        BY <1>3, <1>4, <3>1
    <2> QED
      BY <2>1, <2>2
  <1>7. CASE n + 1 <= RingMax
    <2>1. ring' = s
      BY <1>1, <1>2, <1>3, <1>5, <1>7 DEF Newest
    <2>2. Len(ring') = n + 1 /\ \A i \in 1 .. n + 1 : ring'[i] = added + 1 - (n + 1) + i
      BY <1>2, <1>3, <1>6, <2>1
    <2>3. n + 1 = (IF added + 1 - since > RingMax THEN RingMax ELSE added + 1 - since)
      BY <1>2, <1>4, <1>5, <1>7
    <2>4. Len(ring') = (IF added' - since' > RingMax THEN RingMax ELSE added' - since')
      BY <1>1, <1>2, <1>5, <2>2, <2>3
    <2>5. \A i \in 1 .. Len(ring') : ring'[i] = added' - Len(ring') + i
      BY <1>1, <1>2, <2>2
    <2> QED
      BY <1>1, <1>3, <2>1, <2>4, <2>5 DEF RingHolds
  <1>8. CASE n + 1 > RingMax
    <2>1. n = RingMax /\ ~ (added - since < RingMax)
      BY <1>2, <1>4, <1>5, <1>8
    <2>2. ring' = SubSeq(s, 2, n + 1)
      BY <1>1, <1>2, <1>3, <1>5, <1>8, <2>1 DEF Newest
    <2>3. \A i \in 2 .. n + 1 : s[i] \in Nat
      <3> TAKE i \in 2 .. n + 1
      <3>1. i \in 1 .. Len(s)
        BY <1>2, <1>3
      <3> QED
        BY <1>3, <3>1, ElementOfSeq
    <2>4. /\ SubSeq(s, 2, n + 1) \in Seq(Nat) /\ Len(SubSeq(s, 2, n + 1)) = n
          /\ \A i \in 1 .. n : SubSeq(s, 2, n + 1)[i] = s[i + 1]
      BY <1>2, <1>3, <1>5, <2>1, <2>3, SubSeqProperties
    <2>5. Len(ring') = n /\ ring' \in Seq(Nat)
      BY <2>2, <2>4
    <2>6. \A i \in 1 .. n : ring'[i] = added + 1 - n + i
      <3> TAKE i \in 1 .. n
      <3>1. i + 1 \in 1 .. n + 1
        BY <1>2
      <3>2. ring'[i] = s[i + 1] /\ s[i + 1] = added - n + (i + 1)
        BY <1>6, <2>2, <2>4, <3>1
      <3> QED
        BY <1>2, <3>2
    <2>7. n = (IF added + 1 - since > RingMax THEN RingMax ELSE added + 1 - since)
      BY <1>2, <1>5, <2>1
    <2>8. Len(ring') = (IF added' - since' > RingMax THEN RingMax ELSE added' - since')
      BY <1>1, <1>2, <1>5, <2>5, <2>7
    <2>9. \A i \in 1 .. Len(ring') : ring'[i] = added' - Len(ring') + i
      BY <1>1, <1>2, <2>5, <2>6
    <2> QED
      BY <1>1, <2>5, <2>8, <2>9 DEF RingHolds
  <1> QED
    BY <1>1, <1>2, <1>5, <1>7, <1>8

\* The entry that is written is the newest there is.
LEMMA Written ==
    ASSUME LogTypes, DiskClimbs
    PROVE  /\ Append(current, added + 1) \in Seq(Nat)
           /\ Len(Append(current, added + 1)) = Len(current) + 1
           /\ Climbs(Append(current, added + 1)) /\ Under(Append(current, added + 1), added + 1)
           /\ \A i \in 1 .. Len(previous), j \in 1 .. Len(current) + 1 :
                 previous[i] < Append(current, added + 1)[j]
           /\ \A e \in Nat : In(e, Append(current, added + 1)) <=> e = added + 1 \/ In(e, current)
  <1> DEFINE s == Append(current, added + 1)
             n == Len(current)
  <1>1. added \in Nat /\ current \in Seq(Nat) /\ previous \in Seq(Nat) /\ added + 1 \in Nat
        /\ n \in Nat /\ Len(previous) \in Nat
    BY DEF LogTypes
  <1>2. /\ s \in Seq(Nat) /\ Len(s) = n + 1
        /\ \A i \in 1 .. n : s[i] = current[i]
        /\ s[n + 1] = added + 1
    BY <1>1, AppendProperties
  <1>3. \A i \in 1 .. n : current[i] \in Nat /\ current[i] <= added
    BY <1>1, ElementOfSeq DEF DiskClimbs, Under
  <1>4. \A i \in 1 .. Len(previous) : previous[i] \in Nat /\ previous[i] <= added
    BY <1>1, ElementOfSeq DEF DiskClimbs, Under
  <1>5. /\ \A i, j \in 1 .. n : i < j => current[i] < current[j]
        /\ \A i \in 1 .. Len(previous), j \in 1 .. n : previous[i] < current[j]
    BY DEF DiskClimbs, Climbs
  <1> HIDE DEF s, n
  <1>6. \A i \in 1 .. n + 1 : i = n + 1 \/ i \in 1 .. n
    BY <1>1
  <1>7. Climbs(s)
    <2> SUFFICES ASSUME NEW i \in 1 .. n + 1, NEW j \in 1 .. n + 1, i < j PROVE s[i] < s[j]
      BY <1>2 DEF Climbs
    <2>1. i \in 1 .. n
      BY <1>1, <1>6
    <2>2. CASE j = n + 1
      BY <1>1, <1>2, <1>3, <2>1, <2>2
    <2>3. CASE j \in 1 .. n
      BY <1>2, <1>5, <2>1, <2>3
    <2> QED
      BY <1>6, <2>2, <2>3
  <1>8. Under(s, added + 1)
    <2> SUFFICES ASSUME NEW i \in 1 .. n + 1 PROVE s[i] <= added + 1
      BY <1>2 DEF Under
    <2> QED
      BY <1>1, <1>2, <1>3, <1>6
  <1>9. \A i \in 1 .. Len(previous), j \in 1 .. n + 1 : previous[i] < s[j]
    <2> SUFFICES ASSUME NEW i \in 1 .. Len(previous), NEW j \in 1 .. n + 1 PROVE previous[i] < s[j]
      OBVIOUS
    <2>1. CASE j = n + 1
      BY <1>1, <1>2, <1>4, <2>1
    <2>2. CASE j \in 1 .. n
      BY <1>2, <1>5, <2>2
    <2> QED
      BY <1>6, <2>1, <2>2
  <1>10. \A e \in Nat : In(e, s) <=> e = added + 1 \/ In(e, current)
    <2> TAKE e \in Nat
    <2>1. n + 1 \in 1 .. n + 1 /\ \A i \in 1 .. n : i \in 1 .. n + 1
      BY <1>1
    <2>2. In(e, current) <=> \E i \in 1 .. n : current[i] = e
      BY DEF In, n
    <2>3. In(e, s) <=> \E i \in 1 .. n + 1 : s[i] = e
      BY <1>2 DEF In
    <2> QED
      BY <1>2, <1>6, <2>1, <2>2, <2>3
  <1> QED
    BY <1>2, <1>7, <1>8, <1>9, <1>10 DEF s, n


\* What the file holds after the write of a new entry, which may have failed.
Taken(now) ==
    /\ now \in Seq(Nat) /\ Len(now) <= Len(current) + 1
    /\ Climbs(now) /\ Under(now, added + 1)
    /\ \A i \in 1 .. Len(previous), j \in 1 .. Len(now) : previous[i] < now[j]
    /\ \A e \in Nat : In(e, now) => e = added + 1 \/ In(e, current)
    /\ \A e \in Nat : In(e, current) => In(e, now)
    /\ lost \subseteq lost' /\ (added + 1 \in lost' \/ In(added + 1, now))

LEMMA WriteTakes ==
    ASSUME LogInv, AddToFile
    PROVE  \E now \in Seq(Nat), n \in Nat :
              Taken(now) /\ (Stays(now, Len(now), n) \/ Rotates(now, Len(now), n))
  <1> USE DEF LogInv
  <1>1. added' = added + 1 /\ size = Len(current) /\ added \in Nat /\ current \in Seq(Nat) /\ Len(current) \in Nat
    BY RememberKeeps DEF AddToFile, LogTypes, DiskFits
  <1>2. CASE /\ Stays(Append(current, added + 1), size + 1, 0) \/ Rotates(Append(current, added + 1), size + 1, 0)
             /\ UNCHANGED lost
    <2> DEFINE now == Append(current, added + 1)
    <2>1. now \in Seq(Nat) /\ Len(now) = size + 1
      BY <1>1, Written
    <2>2. Taken(now)
      <3>1. /\ Climbs(now) /\ Under(now, added + 1)
            /\ \A i \in 1 .. Len(previous), j \in 1 .. Len(current) + 1 : previous[i] < now[j]
            /\ \A e \in Nat : In(e, now) <=> e = added + 1 \/ In(e, current)
        BY Written
      <3>2. Len(now) = Len(current) + 1
        BY <1>1, <2>1
      <3> HIDE DEF now
      <3>3. Len(now) <= Len(current) + 1
        BY <1>1, <3>2
      <3>4. In(added + 1, now) /\ lost \subseteq lost'
        BY <1>1, <1>2, <3>1
      <3> QED
        BY <2>1, <3>1, <3>2, <3>3, <3>4 DEF Taken
    <2> HIDE DEF now
    <2>3. Stays(now, Len(now), 0) \/ Rotates(now, Len(now), 0)
      BY <1>2, <2>1 DEF now
    <2> QED
      BY <2>1, <2>2, <2>3
  <1>3. CASE /\ Stays(current, size, 1) \/ Rotates(current, size, 1)
             /\ lost' = lost \cup {added'}
    <2>1. \A i \in 1 .. Len(current) : current[i] \in Nat /\ current[i] <= added
      BY <1>1, ElementOfSeq DEF DiskClimbs, Under
    <2>2. Under(current, added + 1) /\ Len(current) <= Len(current) + 1
      BY <1>1, <2>1 DEF Under
    <2>3. Climbs(current) /\ \A i \in 1 .. Len(previous), j \in 1 .. Len(current) : previous[i] < current[j]
      BY DEF DiskClimbs
    <2>4. lost \subseteq lost' /\ added + 1 \in lost'
      BY <1>1, <1>3
    <2>5. Taken(current)
      BY <1>1, <2>2, <2>3, <2>4 DEF Taken
    <2>6. Stays(current, Len(current), 1) \/ Rotates(current, Len(current), 1)
      BY <1>1, <1>3
    <2>7. 1 \in Nat
      OBVIOUS
    <2> QED
      BY <1>1, <2>5, <2>6, <2>7
  <1> QED
    BY <1>1, <1>2, <1>3 DEF AddToFile

LEMMA AddToFileKeeps == ASSUME LogInv, AddToFile PROVE LogInv'
  <1> USE DEF LogInv
  <1>1. PICK now \in Seq(Nat), n \in Nat :
            Taken(now) /\ (Stays(now, Len(now), n) \/ Rotates(now, Len(now), n))
    BY WriteTakes
  <1>2. RingHolds' /\ ring' \in Seq(Nat) /\ added' = added + 1 /\ since' = since
    BY RememberKeeps DEF AddToFile
  <1>3. /\ added \in Nat /\ since \in 0 .. added /\ current \in Seq(Nat) /\ previous \in Seq(Nat)
        /\ Len(now) \in Nat /\ Len(current) \in Nat /\ Len(previous) \in Nat /\ stuck \in Nat
    BY DEF LogTypes
  <1>4. Len(<<>>) = 0 /\ <<>> \in Seq(Nat)
    BY EmptySeq
  <1>5. FileCap \in Nat
    BY LogAssumption
  <1>6. \/ /\ current' = now /\ previous' = previous
           /\ \/ stuck' = stuck /\ handle' = handle /\ size' = Len(now) /\ (FileCap = 0 \/ Len(now) < FileCap)
              \/ stuck' = stuck + 1 /\ handle' = FALSE /\ size' = 0 /\ FileCap > 0
        \/ /\ previous' = now /\ current' = <<>> /\ stuck' = stuck /\ size' = 0 /\ handle' \in BOOLEAN
           /\ FileCap > 0
    <2>1. CASE Stays(now, Len(now), n)
      BY <2>1 DEF Stays
    <2>2. CASE Rotates(now, Len(now), n)
      BY <2>2 DEF Rotates
    <2> QED
      BY <1>1, <2>1, <2>2
  <1>7. faults' \in Nat
    BY <1>1 DEF Stays, Rotates, Faulty, LogTypes
  <1>8. LogTypes'
    <2> DEFINE S == Seq(Nat)
    <2>4. now \in S /\ current \in S /\ previous \in S /\ <<>> \in S
      BY <1>3, <1>4
    <2> HIDE DEF S
    <2>5. current' \in S /\ previous' \in S
      BY <1>6, <2>4
    <2>6. size' \in Nat /\ stuck' \in Nat
      BY <1>3, <1>6
    <2>1. current' \in Seq(Nat) /\ previous' \in Seq(Nat) /\ size' \in Nat /\ stuck' \in Nat
      BY <2>5, <2>6 DEF S
    <2>2. handle' \in BOOLEAN
      BY <1>6 DEF LogTypes
    <2>3. added' \in Nat /\ since' \in 0 .. added'
      BY <1>2, <1>3
    <2> QED
      BY <1>2, <1>7, <2>1, <2>2, <2>3 DEF LogTypes
  <1>9. DiskClimbs'
    <2>1. \A i \in 1 .. Len(previous) : previous[i] \in Nat /\ previous[i] <= added
      BY <1>3, ElementOfSeq DEF DiskClimbs, Under
    <2>2. Under(previous, added + 1) /\ Climbs(previous)
      BY <1>3, <2>1 DEF Under, DiskClimbs
    <2>3. CASE current' = now /\ previous' = previous
      BY <1>1, <1>2, <2>2, <2>3 DEF Taken, DiskClimbs
    <2>4. CASE previous' = now /\ current' = <<>>
      BY <1>1, <1>2, <1>4, <2>4 DEF Taken, DiskClimbs, Climbs, Under
    <2> QED
      BY <1>6, <2>3, <2>4
  <1>10. DiskIsWhole'
    <2> SUFFICES ASSUME NEW k \in Nat, NEW e \in Nat, In(k, previous') \/ In(k, current'),
                        k <= e, e <= added + 1
                 PROVE  e \in lost' \/ In(e, previous') \/ In(e, current')
      BY <1>2 DEF DiskIsWhole, In
    <2>1. lost \subseteq lost' /\ (e = added + 1 => e \in lost' \/ In(e, now))
      BY <1>1 DEF Taken
    <2>2. CASE e = added + 1
      BY <1>6, <2>1, <2>2
    <2>3. CASE e # added + 1
      <3>1. e <= added /\ k # added + 1
        BY <1>3, <2>3
      <3>2. (In(k, now) => In(k, current)) /\ (In(e, current) => In(e, now))
        BY <1>1, <3>1 DEF Taken
      <3>3. In(k, previous) \/ In(k, current) => e \in lost \/ In(e, previous) \/ In(e, current)
        BY <3>1 DEF DiskIsWhole
      <3>4. CASE current' = now /\ previous' = previous
        BY <2>1, <3>2, <3>3, <3>4
      <3>5. CASE previous' = now /\ current' = <<>>
        <4>1. ~ In(k, <<>>)
          BY <1>4 DEF In
        <4>2. In(k, current)
          BY <3>2, <3>5, <4>1
        <4>3. ~ In(e, previous)
          <5> SUFFICES ASSUME NEW i \in 1 .. Len(previous), previous[i] = e PROVE FALSE
            BY DEF In
          <5>1. PICK j \in 1 .. Len(current) : current[j] = k
            BY <4>2 DEF In
          <5>2. previous[i] < current[j]
            BY DEF DiskClimbs
          <5> QED
            BY <5>1, <5>2
        <4> QED
          BY <2>1, <3>2, <3>3, <3>5, <4>2, <4>3
      <3> QED
        BY <1>6, <3>4, <3>5
    <2> QED
      BY <2>2, <2>3
  <1>11. DiskFits'
    <2>1. Len(now) <= Len(current) + 1
      BY <1>1 DEF Taken
    <2>2. FileCap > 0 => /\ Len(current) <= FileCap - 1 + stuck
                         /\ Len(previous) <= FileCap + stuck
                         /\ Len(previous) + Len(current) <= 2 * FileCap - 1 + stuck
      BY DEF DiskFits
    <2>3. CASE /\ current' = now /\ previous' = previous
               /\ stuck' = stuck /\ handle' = handle /\ size' = Len(now) /\ (FileCap = 0 \/ Len(now) < FileCap)
      BY <1>3, <1>5, <2>2, <2>3 DEF DiskFits
    <2>4. CASE /\ current' = now /\ previous' = previous
               /\ stuck' = stuck + 1 /\ handle' = FALSE /\ size' = 0 /\ FileCap > 0
      BY <1>3, <1>5, <2>1, <2>2, <2>4 DEF DiskFits
    <2>5. CASE previous' = now /\ current' = <<>> /\ stuck' = stuck /\ size' = 0 /\ FileCap > 0
      BY <1>3, <1>4, <1>5, <2>1, <2>2, <2>5 DEF DiskFits
    <2> QED
      BY <1>6, <2>3, <2>4, <2>5
  <1> QED
    BY <1>2, <1>8, <1>9, <1>10, <1>11

LEMMA AddUnwrittenKeeps == ASSUME LogInv, AddUnwritten PROVE LogInv'
  <1> USE DEF LogInv
  <1>1. RingHolds' /\ ring' \in Seq(Nat) /\ added' = added + 1 /\ since' = since
    BY RememberKeeps DEF AddUnwritten
  <1>2. UNCHANGED <<handle, size, current, previous, faults, stuck>> /\ lost' = lost \cup {added + 1}
    BY <1>1 DEF AddUnwritten
  <1>3. added \in Nat /\ since \in 0 .. added /\ current \in Seq(Nat) /\ previous \in Seq(Nat)
    BY DEF LogTypes
  <1>4. LogTypes'
    BY <1>1, <1>2, <1>3 DEF LogTypes
  <1>5. DiskClimbs'
    <2>1. \A i \in 1 .. Len(previous) : previous[i] \in Nat /\ previous[i] <= added
      BY <1>3, ElementOfSeq DEF DiskClimbs, Under
    <2>2. \A i \in 1 .. Len(current) : current[i] \in Nat /\ current[i] <= added
      BY <1>3, ElementOfSeq DEF DiskClimbs, Under
    <2>3. Under(previous, added + 1) /\ Under(current, added + 1)
      BY <1>3, <2>1, <2>2 DEF Under
    <2> QED
      BY <1>1, <1>2, <2>3 DEF DiskClimbs
  <1>6. DiskIsWhole'
    <2> SUFFICES ASSUME NEW k \in Nat, NEW e \in Nat, In(k, previous) \/ In(k, current),
                        k <= e, e <= added + 1, e # added + 1
                 PROVE  e \in lost \/ In(e, previous) \/ In(e, current)
      BY <1>1, <1>2 DEF DiskIsWhole, In
    <2>1. e <= added
      BY <1>3
    <2> QED
      BY <2>1 DEF DiskIsWhole
  <1>7. DiskFits'
    BY <1>2 DEF DiskFits
  <1> QED
    BY <1>1, <1>4, <1>5, <1>6, <1>7

\* Clear and a fresh start empty the ring, and leave the disk alone.
LEMMA EmptiedKeeps == ASSUME LogInv, Clear \/ Restart PROVE LogInv'
  <1> USE DEF LogInv
  <1>1. /\ ring' = <<>> /\ since' = added
        /\ UNCHANGED <<current, previous, added, lost, stuck>>
    BY DEF Clear, Restart
  <1>2. handle' \in BOOLEAN /\ size' \in Nat /\ faults' \in Nat /\ (handle' => size' = Len(current))
    <2>1. Len(current) \in Nat /\ size \in Nat /\ faults \in Nat /\ handle \in BOOLEAN
          /\ (handle => size = Len(current))
      BY DEF LogTypes, DiskFits
    <2>2. CASE Clear
      BY <2>1, <2>2 DEF Clear
    <2>3. CASE Restart
      <3>1. /\ \/ handle' = TRUE /\ size' = Len(current)
               \/ handle' = FALSE /\ size' = 0
            /\ faults' = faults + 1 \/ faults' = faults + 2
        BY <2>3 DEF Restart, Opens, Faulty
      <3>2. faults' \in Nat
        BY <2>1, <3>1
      <3>3. size' \in Nat
        BY <2>1, <3>1
      <3>4. handle' \in BOOLEAN /\ (handle' => size' = Len(current))
        BY <3>1, Zenon
      <3> QED
        BY <3>2, <3>3, <3>4
    <2> QED
      BY <2>2, <2>3
  <1>3. Len(<<>>) = 0 /\ <<>> \in Seq(Nat)
    BY EmptySeq
  <1>4. LogTypes'
    BY <1>1, <1>2, <1>3 DEF LogTypes
  <1>5. RingHolds'
    <2>1. added \in Nat /\ added - added = 0 /\ RingMax > 0
      BY LogAssumption DEF LogTypes
    <2> QED
      BY <1>1, <1>3, <2>1, LogAssumption DEF RingHolds
  <1>6. DiskClimbs'
    BY <1>1 DEF DiskClimbs
  <1>7. DiskIsWhole'
    BY <1>1 DEF DiskIsWhole
  <1>8. DiskFits'
    BY <1>1, <1>2 DEF DiskFits
  <1> QED
    BY <1>4, <1>5, <1>6, <1>7, <1>8

\* One sequence after another.
LEMMA Joined ==
    ASSUME NEW s \in Seq(Nat), NEW t \in Seq(Nat)
    PROVE  /\ s \o t \in Seq(Nat) /\ Len(s \o t) = Len(s) + Len(t)
           /\ \A i \in 1 .. Len(s) : i \in 1 .. Len(s) + Len(t) /\ (s \o t)[i] = s[i]
           /\ \A i \in 1 .. Len(t) : Len(s) + i \in 1 .. Len(s) + Len(t) /\ (s \o t)[Len(s) + i] = t[i]
           /\ \A i \in 1 .. Len(s) + Len(t) : i \in 1 .. Len(s) \/ \E j \in 1 .. Len(t) : i = Len(s) + j
  <1> DEFINE m == Len(s)
             n == Len(t)
             c == s \o t
  <1>1. m \in Nat /\ n \in Nat
    BY LenProperties
  <1>2. c \in Seq(Nat) /\ Len(c) = m + n /\ \A i \in 1 .. m + n : c[i] = IF i <= m THEN s[i] ELSE t[i - m]
    BY ConcatProperties
  <1> HIDE DEF m, n, c
  <1>3. \A i \in 1 .. m : i \in 1 .. m + n /\ c[i] = s[i]
    <2> TAKE i \in 1 .. m
    <2>1. i \in 1 .. m + n /\ i <= m
      BY <1>1
    <2> QED
      BY <1>2, <2>1
  <1>4. \A i \in 1 .. n : m + i \in 1 .. m + n /\ c[m + i] = t[i]
    <2> TAKE i \in 1 .. n
    <2>1. m + i \in 1 .. m + n /\ ~ (m + i <= m) /\ m + i - m = i
      BY <1>1
    <2> DEFINE k == m + i
    <2>2. k \in 1 .. m + n /\ ~ (k <= m) /\ k - m = i
      BY <1>1, <2>1
    <2> HIDE DEF k
    <2>3. c[k] = t[i]
      BY <1>2, <2>2
    <2> QED
      BY <2>2, <2>3 DEF k
  <1>5. \A i \in 1 .. m + n : i \in 1 .. m \/ \E j \in 1 .. n : i = m + j
    <2> TAKE i \in 1 .. m + n
    <2>1. CASE i <= m
      BY <1>1, <2>1
    <2>2. CASE ~ (i <= m)
      <3>1. i - m \in 1 .. n /\ i = m + (i - m)
        BY <1>1, <2>2
      <3> QED
        BY <3>1
    <2> QED
      BY <2>1, <2>2
  <1> QED
    BY <1>2, <1>3, <1>4, <1>5 DEF m, n, c

LEMMA LogStep == ASSUME LogInv, [LogNext]_logVars PROVE LogInv'
  <1>1. CASE UNCHANGED logVars
    <2>1. UNCHANGED <<ring, handle, size, current, previous, added, since, lost, faults, stuck>>
      BY <1>1 DEF logVars
    <2> QED
      BY <2>1 DEF LogInv, LogTypes, RingHolds, DiskClimbs, DiskIsWhole, DiskFits
  <1> QED
    BY <1>1, AddToFileKeeps, AddUnwrittenKeeps, EmptiedKeeps DEF LogNext

\* ActionLog.Add, rotateLocked, Clear and NewActionLog: the ring holds exactly
\* the newest entries and the disk an unbroken run of the newest written ones,
\* within its cap, whatever fails and however often the process starts again.
THEOREM TrailIsKept == LogSpec => []TrailKeepsTheNewest
  <1>1. LogInv => TrailKeepsTheNewest
    <2> SUFFICES ASSUME LogInv PROVE TrailKeepsTheNewest
      OBVIOUS
    <2> USE DEF LogInv
    <2> DEFINE m == Len(previous)
               n == Len(current)
    <2>1. previous \in Seq(Nat) /\ current \in Seq(Nat) /\ m \in Nat /\ n \in Nat /\ added \in Nat
          /\ stuck \in Nat /\ FileCap \in Nat
      BY LogAssumption DEF LogTypes
    <2>2. /\ OnDisk \in Seq(Nat) /\ Len(OnDisk) = m + n
          /\ \A i \in 1 .. m : i \in 1 .. m + n /\ OnDisk[i] = previous[i]
          /\ \A i \in 1 .. n : m + i \in 1 .. m + n /\ OnDisk[m + i] = current[i]
          /\ \A i \in 1 .. m + n : i \in 1 .. m \/ \E j \in 1 .. n : i = m + j
      BY <2>1, Joined DEF OnDisk
    <2>3. /\ \A i, j \in 1 .. m : i < j => previous[i] < previous[j]
          /\ \A i, j \in 1 .. n : i < j => current[i] < current[j]
          /\ \A i \in 1 .. m, j \in 1 .. n : previous[i] < current[j]
      BY DEF DiskClimbs, Climbs
    <2>4. \A e : In(e, previous) <=> \E i \in 1 .. m : previous[i] = e
      BY DEF In
    <2>5. \A e : In(e, current) <=> \E i \in 1 .. n : current[i] = e
      BY DEF In
    <2>6. (FileCap > 0) => (m + n <= 2 * FileCap + stuck)
      <3>1. (FileCap > 0) => (m + n <= 2 * FileCap - 1 + stuck)
        BY DEF DiskFits
      <3> HIDE DEF m, n
      <3> QED
        BY <2>1, <3>1
    <2> HIDE DEF m, n
    <2>7. \A i \in 1 .. m + n - 1 : OnDisk[i] < OnDisk[i + 1]
      <3> SUFFICES ASSUME NEW i \in 1 .. m + n - 1 PROVE OnDisk[i] < OnDisk[i + 1]
        OBVIOUS
      <3>1. i \in 1 .. m + n /\ i + 1 \in 1 .. m + n /\ i \in Nat
        BY <2>1
      <3>2. CASE i + 1 \in 1 .. m
        <4>1. i \in 1 .. m /\ i < i + 1
          BY <2>1, <3>1, <3>2
        <4> QED
          BY <2>2, <2>3, <3>2, <4>1
      <3>3. ASSUME NEW j \in 1 .. n, i + 1 = m + j PROVE OnDisk[i] < OnDisk[i + 1]
        <4>1. OnDisk[i + 1] = current[j]
          BY <2>2, <3>3
        <4>2. CASE i \in 1 .. m
          BY <2>2, <2>3, <4>1, <4>2
        <4>3. ASSUME NEW k \in 1 .. n, i = m + k PROVE OnDisk[i] < OnDisk[i + 1]
          <5>1. k < j
            BY <2>1, <3>3, <4>3
          <5>2. OnDisk[i] = current[k]
            BY <2>2, <4>3
          <5> QED
            BY <2>3, <4>1, <5>1, <5>2
        <4> QED
          BY <2>2, <3>1, <4>2, <4>3
      <3> QED
        BY <2>2, <3>1, <3>2, <3>3
    <2>8. ASSUME OnDisk # <<>>, NEW e \in OnDisk[1] .. added
          PROVE  e \in lost \/ \E i \in 1 .. m + n : OnDisk[i] = e
      <3>1. Len(OnDisk) # 0
        BY <2>2, <2>8, EmptySeq
      <3>2. 1 \in 1 .. m + n
        BY <2>1, <2>2, <3>1
      <3>3. OnDisk[1] \in Nat /\ e \in Nat /\ OnDisk[1] <= e /\ e <= added
        BY <2>1, <2>2, <2>8, <3>2, ElementOfSeq
      <3>4. In(OnDisk[1], previous) \/ In(OnDisk[1], current)
        <4>1. CASE 1 \in 1 .. m
          BY <2>2, <2>4, <4>1
        <4>2. ASSUME NEW j \in 1 .. n, 1 = m + j PROVE In(OnDisk[1], current)
          BY <2>2, <2>5, <4>2
        <4> QED
          BY <2>2, <3>2, <4>1, <4>2
      <3>5. e \in lost \/ In(e, previous) \/ In(e, current)
        BY <3>3, <3>4 DEF DiskIsWhole
      <3> QED
        BY <2>2, <2>4, <2>5, <3>5
    <2>9. OnDisk # <<>> => \A e \in OnDisk[1] .. added : e \in lost \/ \E i \in 1 .. m + n : OnDisk[i] = e
      BY <2>8
    <2>10. /\ Len(ring) = (IF added - since > RingMax THEN RingMax ELSE added - since)
           /\ \A i \in 1 .. Len(ring) : ring[i] = added - Len(ring) + i
      BY DEF RingHolds
    <2>11. Len(OnDisk) = m + n
      BY <2>2
    <2>12. \A i \in 1 .. Len(OnDisk) - 1 : OnDisk[i] < OnDisk[i + 1]
      BY <2>1, <2>7, <2>11
    <2>13. OnDisk # <<>> =>
             \A e \in OnDisk[1] .. added : e \in lost \/ \E i \in 1 .. Len(OnDisk) : OnDisk[i] = e
      BY <2>9, <2>11
    <2>14. (FileCap > 0) => (Len(OnDisk) <= 2 * FileCap + stuck)
      BY <2>6, <2>11
    <2> QED
      BY <2>10, <2>12, <2>13, <2>14 DEF TrailKeepsTheNewest
  <1> QED
    BY LogStart, LogStep, <1>1, PTL DEF LogSpec
=============================================================================
