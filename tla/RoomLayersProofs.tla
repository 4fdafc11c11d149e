-------------------------- MODULE RoomLayersProofs --------------------------
(***************************************************************************)
(* The two layers over the room, its capture and the MCP plane: they drive *)
(* it only through the room's own steps, so whatever is proved of Room holds *)
(* with them around it; and what each of them promises for itself.         *)
(***************************************************************************)
EXTENDS RoomCapture, McpServer, RoomProofs

-----------------------------------------------------------------------------
(***************************************************************************)
(* The pipelines and the bitrates.                                         *)
(***************************************************************************)

\* Each step of the layered specification is a step of the room or leaves the
\* room alone: of Join and Leave, whose pipeline work changes no membership.
LEMMA CaptureStepsAreRoomSteps == [CaptureNext]_allVars => [Next]_vars
  <1> SUFFICES ASSUME [CaptureNext]_allVars PROVE [Next]_vars
    OBVIOUS
  <1>1. CASE InRoom
    BY <1>1 DEF InRoom, Next, SessionStep, PeopleStep
  <1>2. ASSUME NEW s \in Sessions, AdmitViewer(s) PROVE Next
    BY <1>2 DEF AdmitViewer, Next, SessionStep, PeopleStep
  <1>3. ASSUME NEW s \in Sessions, RefuseViewer(s) PROVE Next
    BY <1>3 DEF RefuseViewer, Next, SessionStep, PeopleStep
  <1>4. ASSUME NEW s \in Sessions, LeaveViewer(s) \/ Undo(s) PROVE Next
    BY <1>4 DEF LeaveViewer, Undo, LeaveWith, Next, SessionStep, PeopleStep
  <1>5. ASSUME NEW s \in Sessions, PlayPanics(s) PROVE Next
    BY <1>5 DEF PlayPanics, Next, SessionStep, PeopleStep
  <1>6. ASSUME NEW s \in Sessions,
               \/ Build(s) \/ BuildFails(s) \/ Play(s) \/ PlayFails(s)
               \/ Stop(s) \/ Clear(s) \/ SetRate(s) \/ \E k \in Estimates : Report(s, k)
        PROVE  UNCHANGED vars
    BY <1>6 DEF Build, BuildFails, Play, PlayFails, Stop, Clear, SetRate, Report
  <1>7. CASE UNCHANGED allVars
    BY <1>7 DEF allVars
  <1> QED
    BY <1>1, <1>2, <1>3, <1>4, <1>5, <1>6, <1>7 DEF CaptureNext

THEOREM CaptureRefinesRoom == CaptureSpec => Spec
  <1>1. CaptureInit => Init
    BY DEF CaptureInit
  <1> QED
    BY <1>1, CaptureStepsAreRoomSteps, PTL DEF CaptureSpec, Spec

\* The room's promises, with the capture running: no more viewers than
\* cfg.MaxViewers, numbers that fit, and nothing taken by walking in.
THEOREM RoomHoldsUnderCapture ==
    CaptureSpec => []NotOverfull /\ []NumbersFitTheSeats /\ ArrivalTakesNothing
  BY CaptureRefinesRoom, Capacity, Numbering, Arrival, PTL

-----------------------------------------------------------------------------
(***************************************************************************)
(* The capture runs for as long as somebody watches.  As long as no start  *)
(* or stop ran into another, at most one goroutine is at it, and where it  *)
(* is tells what the field holds, what runs and who is there.  With one    *)
(* seat the room can refuse a viewer after evicting its only one, and the  *)
(* capture stays up for nobody: two seats are the least it takes.          *)
(***************************************************************************)

Watchers == members \cap Sessions
NonePlays == \A p \in Pipes : pipe[p] # "playing"

\* The goroutine of s is the only one between a decision and its last step.
Alone(s) ==
    /\ \A r \in Sessions \ {s} : job[r] = "idle"
    /\ \/ job[s] = "build" /\ Watchers = {s} /\ videoPipe = NoPipe /\ NonePlays
       \/ job[s] = "play" /\ Watchers = {s} /\ videoPipe # NoPipe /\ NonePlays
       \/ job[s] = "undo" /\ Watchers = {s} /\ NonePlays
       \/ job[s] = "stop" /\ Watchers = {} /\ \A p \in Pipes : pipe[p] = "playing" => p = videoPipe
       \/ job[s] = "clear" /\ Watchers = {} /\ NonePlays

Settles == (Quiet /\ CaptureMatches) \/ \E s \in Sessions : Alone(s)

\* Who has not joined has nothing to start or to stop.
NewcomersAreIdle == \A s \in Sessions : sess[s] = "new" => job[s] = "idle"

\* Until there is a pipeline nobody has reported, as whoever is in is joining.
BeforeTheFirst ==
    MaxPipes > 0 /\ pipe[1] = "none" =>
        /\ lastRate = VideoKbps /\ encoder[1] = VideoKbps
        /\ \A s \in Sessions : bitrates[s] = NoRate /\ (sess[s] = "in" => job[s] \in {"build", "undo"})

\* What is current, is being set or was set has been built, and the first was.
OnlyTheBuilt ==
    /\ videoPipe # NoPipe => pipe[videoPipe] # "none"
    /\ \A p \in Pipes : pipe[p] # "none" => pipe[1] # "none"
    /\ \A s \in Sessions : sending[s] # Unsent => pipe[sending[s].pipe] # "none"
    /\ \A p \in tuned : pipe[p] # "none"

\* The current encoder is the first, or was set by a report; or is about to be.
Tuned == videoPipe = 1 \/ videoPipe \in tuned
BeingTuned == \E s \in Sessions : sending[s] # Unsent /\ sending[s].pipe = videoPipe

\* One report at a time is applied, the one that decided the rate; and that rate
\* suits everybody.
OneRate ==
    /\ \A s \in Sessions : sending[s] # Unsent => sending[s].kbps = lastRate
    /\ \A s, r \in Sessions : sending[s] # Unsent /\ sending[r] # Unsent => s = r
    /\ videoPipe # NoPipe =>
        /\ \A s \in Sessions : sending[s] # Unsent => sending[s].pipe = videoPipe \/ ~ Tuned
        /\ Tuned /\ (\A s \in Sessions : sending[s] = Unsent) => encoder[videoPipe] = lastRate
        /\ Tuned \/ BeingTuned =>
              \A s \in Sessions : bitrates[s] # NoRate => lastRate * 9 <= Floored(bitrates[s]) * 10

PaceInv == BeforeTheFirst /\ OnlyTheBuilt /\ (~ crossed => OneRate)

\* The slowest of the reports, or the floor.
LEMMA SlowestIs ==
    ASSUME NEW entries \in [Sessions -> Estimates \cup {NoRate}], NEW s \in Sessions, entries[s] # NoRate
    PROVE  /\ Slowest(entries) \in Estimates \cup {MinVideoKbps}
           /\ \A r \in Sessions : entries[r] # NoRate => Slowest(entries) <= Floored(entries[r])
  <1> DEFINE known == {entries[r] : r \in Sessions} \ {NoRate}
             least == CHOOSE k \in known : \A j \in known : k <= j
  <1>1. known \subseteq Estimates /\ known # {} /\ known \subseteq Nat
    BY RatesAssumption DEF NoRate
  <1>2. \E k \in known : \A j \in known : k <= j
    <2> HIDE DEF known
    <2> QED
      BY <1>1, LeastNatural
  <1>3. least \in known /\ \A j \in known : least <= j
    BY <1>2
  <1>4. Slowest(entries) = IF least < MinVideoKbps THEN MinVideoKbps ELSE least
    BY DEF Slowest
  <1>5. ASSUME NEW r \in Sessions, entries[r] # NoRate PROVE Slowest(entries) <= Floored(entries[r])
    <2>1. entries[r] \in known
      BY <1>5
    <2> HIDE DEF known, least
    <2>2. least <= entries[r] /\ least \in Nat /\ entries[r] \in Nat
      BY <1>1, <1>3, <2>1
    <2>3. MinVideoKbps \in Nat
      BY RatesAssumption
    <2> QED
      BY <1>4, <2>2, <2>3 DEF Floored
  <1> HIDE DEF known, least
  <1> QED
    BY <1>1, <1>3, <1>4, <1>5

LEMMA CaptureStartsTyped == CaptureInit => CaptureTypeOK
  <1> SUFFICES ASSUME CaptureInit PROVE CaptureTypeOK
    OBVIOUS
  <1>1. /\ videoPipe = NoPipe /\ lastRate = VideoKbps /\ overlapped = FALSE /\ crossed = FALSE /\ tuned = {}
        /\ bitrates \in [Sessions -> Estimates \cup {NoRate}]
    BY DEF CaptureInit
  <1>2. /\ pipe \in [Pipes -> {"none", "built", "playing", "stopped"}]
        /\ encoder \in [Pipes -> Estimates \cup {VideoKbps, MinVideoKbps}]
        /\ job \in [Sessions -> Jobs]
    BY DEF CaptureInit, Jobs
  <1>3. sending \in [Sessions -> Sends \cup {Unsent}]
    BY DEF CaptureInit, NoSends
  <1> QED
    BY <1>1, <1>2, <1>3 DEF CaptureTypeOK

LEMMA CaptureTypeStep == CaptureTypeOK /\ [CaptureNext]_allVars => CaptureTypeOK'
  <1> SUFFICES ASSUME CaptureTypeOK, [CaptureNext]_allVars PROVE CaptureTypeOK'
    OBVIOUS
  <1>0. /\ videoPipe \in Pipes \cup {NoPipe} /\ pipe \in [Pipes -> {"none", "built", "playing", "stopped"}]
        /\ job \in [Sessions -> Jobs] /\ bitrates \in [Sessions -> Estimates \cup {NoRate}]
        /\ overlapped \in BOOLEAN /\ crossed \in BOOLEAN /\ tuned \subseteq Pipes
    BY DEF CaptureTypeOK
  <1>1. ASSUME UNCHANGED <<captureVars, rateVars>> PROVE CaptureTypeOK'
    BY <1>1 DEF CaptureTypeOK, captureVars, rateVars
  <1>2. ASSUME NEW gone, Forget(gone) PROVE bitrates' \in [Sessions -> Estimates \cup {NoRate}]
    BY <1>0, <1>2 DEF Forget
  <1>3. ASSUME NEW s \in Sessions, NEW j \in Jobs, Begin(s, j) \/ Then(s, j)
        PROVE  job' \in [Sessions -> Jobs] /\ overlapped' \in BOOLEAN
    BY <1>0, <1>3 DEF Begin, Then
  <1>4. ASSUME NEW s \in Sessions, AdmitViewer(s) \/ LeaveWith(s) PROVE CaptureTypeOK'
    <2>1. \E j \in Jobs : Begin(s, j)
      BY <1>4 DEF AdmitViewer, LeaveWith, Jobs
    <2>2. bitrates' \in [Sessions -> Estimates \cup {NoRate}]
      BY <1>2, <1>4 DEF AdmitViewer, LeaveWith
    <2>3. UNCHANGED <<videoPipe, pipe, encoder, lastRate, sending, crossed, tuned>>
      BY <1>4 DEF AdmitViewer, LeaveWith
    <2> QED
      BY <1>3, <2>1, <2>2, <2>3 DEF CaptureTypeOK
  <1>5. ASSUME NEW s \in Sessions, RefuseViewer(s) PROVE CaptureTypeOK'
    BY <1>2, <1>5 DEF RefuseViewer, captureVars, CaptureTypeOK
  <1>6. ASSUME NEW s \in Sessions,
               \/ Build(s) \/ BuildFails(s) \/ Play(s) \/ PlayFails(s) \/ PlayPanics(s) \/ Stop(s) \/ Clear(s)
        PROVE  CaptureTypeOK'
    <2>1. \E j \in Jobs : Then(s, j)
      BY <1>6 DEF Build, BuildFails, Play, PlayFails, PlayPanics, Stop, Clear, Jobs
    <2>2. /\ videoPipe' \in Pipes \cup {NoPipe}
          /\ pipe' \in [Pipes -> {"none", "built", "playing", "stopped"}]
      BY <1>0, <1>6 DEF Build, BuildFails, Play, PlayFails, PlayPanics, Stop, Clear
    <2>3. UNCHANGED <<encoder, bitrates, lastRate, sending, crossed, tuned>>
      BY <1>6 DEF Build, BuildFails, Play, PlayFails, PlayPanics, Stop, Clear, rateVars
    <2> QED
      BY <1>3, <2>1, <2>2, <2>3 DEF CaptureTypeOK
  <1>7. ASSUME NEW s \in Sessions, SetRate(s) PROVE CaptureTypeOK'
    <2>1. /\ sending \in [Sessions -> Sends \cup {Unsent}]
          /\ encoder \in [Pipes -> Estimates \cup {VideoKbps, MinVideoKbps}]
      BY DEF CaptureTypeOK
    <2>2. sending[s] \in Sends
      BY <1>7, <2>1 DEF SetRate
    <2>3. encoder' \in [Pipes -> Estimates \cup {VideoKbps, MinVideoKbps}]
      BY <1>7, <2>1, <2>2 DEF SetRate, Sends
    <2>4. sending' \in [Sessions -> Sends \cup {Unsent}]
      BY <1>7, <2>1 DEF SetRate
    <2>5. tuned' \subseteq Pipes
      BY <1>0, <1>7, <2>2 DEF SetRate, Sends
    <2> QED
      BY <1>7, <2>3, <2>4, <2>5 DEF CaptureTypeOK, SetRate
  <1>8. ASSUME NEW s \in Sessions, NEW k \in Estimates, Report(s, k) PROVE CaptureTypeOK'
    <2> DEFINE entries == [bitrates EXCEPT ![s] = k]
               rate == Slowest(entries)
    <2>1. entries \in [Sessions -> Estimates \cup {NoRate}] /\ entries[s] = k /\ k # NoRate
      BY <1>0, RatesAssumption DEF NoRate
    <2>2. rate \in Estimates \cup {MinVideoKbps}
      BY <2>1, SlowestIs
    <2>3. /\ bitrates' = entries /\ lastRate' \in {lastRate, rate}
          /\ \/ sending' = sending
             \/ /\ videoPipe # NoPipe
                /\ sending' = [sending EXCEPT ![s] = [pipe |-> videoPipe, kbps |-> rate]]
          /\ crossed' = (crossed \/ sending # NoSends)
          /\ UNCHANGED <<videoPipe, pipe, encoder, job, overlapped, tuned>>
      BY <1>8 DEF Report, captureVars
    <2> HIDE DEF entries, rate
    <2>4. crossed' \in BOOLEAN
      BY <2>3
    <2>5. videoPipe # NoPipe => [pipe |-> videoPipe, kbps |-> rate] \in Sends
      BY <1>0, <2>2 DEF Sends
    <2>6. sending' \in [Sessions -> Sends \cup {Unsent}]
      BY <2>3, <2>5 DEF CaptureTypeOK
    <2> QED
      BY <2>1, <2>2, <2>3, <2>4, <2>6 DEF CaptureTypeOK
  <1>9. CASE InRoom
    BY <1>1, <1>9 DEF InRoom
  <1>10. CASE UNCHANGED allVars
    BY <1>1, <1>10 DEF allVars
  <1> QED
    BY <1>4, <1>5, <1>6, <1>7, <1>8, <1>9, <1>10 DEF CaptureNext, LeaveViewer, Undo

\* Joins that are refused leave a viewer behind, with two seats or more.
LEMMA RefusedBySomebody ==
    ASSUME MaxViewers >= 2, TypeOK, NEW stay \in SUBSET members, Full(stay)
    PROVE  stay \cap Sessions # {}
  <1> SUFFICES ASSUME stay \cap Sessions = {} PROVE FALSE
    OBVIOUS
  <1>1. stay \subseteq {Agent}
    BY DEF TypeOK, Ids
  <1>2. stay = {} \/ stay = {Agent}
    BY <1>1
  <1>3. Cardinality(stay) \in {0, 1}
    BY <1>2, FS_EmptySet, FS_Singleton
  <1> QED
    BY <1>3, BoundsAssumption DEF Full

\* What the agent and its calls do moves no viewer; nor do the controls.
LEMMA ViewersStay ==
    ASSUME InRoom
    PROVE  Watchers' = Watchers /\ sess' = sess /\ UNCHANGED <<captureVars, rateVars>>
  <1>1. CASE AgentStep
    BY <1>1, IdsAssumption DEF InRoom, AgentStep, JoinAgent, LeaveAgent, AgentReleases, Watchers, connVars
  <1>2. ASSUME NEW c \in Calls, CallStep(c)
        PROVE  Watchers' = Watchers /\ sess' = sess
    BY <1>2, IdsAssumption DEF CallStep, RequestControl, LookForHumans, AskTurnedAway, AskFindsFree,
          AskPosts, AskHuman, Post, Receive, Timeout, TakeDown, Seize, Watchers, connVars, seatVars
  <1>3. ASSUME NEW s \in Sessions,
               \/ Disconnect(s) \/ Reconnect(s) \/ TakeControl(s) \/ ReleaseControl(s)
               \/ \E k \in Kinds, p \in Prompts, a \in Answers : PickUp(s, k, p, a)
               \/ Deliver(s)
        PROVE  Watchers' = Watchers /\ sess' = sess
    BY <1>3 DEF Disconnect, Reconnect, TakeControl, ReleaseControl, PickUp, Deliver, Watchers,
          connVars, seatVars
  <1> QED
    BY <1>1, <1>2, <1>3 DEF InRoom

LEMMA NewcomersStep ==
    ASSUME TypeOK, CaptureTypeOK, NewcomersAreIdle, [CaptureNext]_allVars
    PROVE  NewcomersAreIdle'
  <1>0. sess \in [Sessions -> {"new", "in", "gone"}] /\ job \in [Sessions -> Jobs]
    BY DEF TypeOK, CaptureTypeOK
  <1>1. ASSUME NEW s \in Sessions, AdmitViewer(s) \/ LeaveWith(s) PROVE NewcomersAreIdle'
    BY <1>0, <1>1 DEF AdmitViewer, Admit, LeaveWith, Leave, Begin, NewcomersAreIdle
  <1>2. ASSUME NEW s \in Sessions, RefuseViewer(s) PROVE NewcomersAreIdle'
    BY <1>0, <1>2 DEF RefuseViewer, Refuse, captureVars, NewcomersAreIdle
  <1>3. ASSUME NEW s \in Sessions,
               Build(s) \/ BuildFails(s) \/ Play(s) \/ PlayFails(s) \/ Stop(s) \/ Clear(s)
        PROVE  NewcomersAreIdle'
    <2>1. sess' = sess /\ job[s] # "idle" /\ \E j \in Jobs : job' = [job EXCEPT ![s] = j]
      BY <1>3 DEF Build, BuildFails, Play, PlayFails, Stop, Clear, Then, Jobs, vars, connVars
    <2> QED
      BY <1>0, <2>1 DEF NewcomersAreIdle
  <1>4. ASSUME NEW s \in Sessions, PlayPanics(s) PROVE NewcomersAreIdle'
    BY <1>0, <1>4 DEF PlayPanics, AbandonSeat, Then, NewcomersAreIdle
  <1>5. ASSUME NEW s \in Sessions, SetRate(s) \/ \E k \in Estimates : Report(s, k) PROVE NewcomersAreIdle'
    BY <1>5 DEF SetRate, Report, captureVars, vars, connVars, NewcomersAreIdle
  <1>6. CASE InRoom
    BY <1>6, ViewersStay DEF captureVars, NewcomersAreIdle
  <1>7. CASE UNCHANGED allVars
    BY <1>7 DEF allVars, captureVars, vars, connVars, NewcomersAreIdle
  <1> QED
    BY <1>1, <1>2, <1>3, <1>4, <1>5, <1>6, <1>7 DEF CaptureNext, LeaveViewer, Undo

LEMMA SettlesStep ==
    ASSUME MaxViewers >= 2, TypeOK, CaptureTypeOK, NewcomersAreIdle, ~ overlapped => Settles,
           [CaptureNext]_allVars, ~ overlapped'
    PROVE  Settles'
  <1>0. /\ videoPipe \in Pipes \cup {NoPipe} /\ pipe \in [Pipes -> {"none", "built", "playing", "stopped"}]
        /\ job \in [Sessions -> Jobs] /\ members \subseteq Ids /\ NoPipe \notin Pipes
    BY DEF TypeOK, CaptureTypeOK, NoPipe, Pipes
  <1>1. ASSUME ~ overlapped, Watchers' = Watchers, UNCHANGED <<videoPipe, pipe, job>> PROVE Settles'
    <2>1. CASE Quiet /\ CaptureMatches
      BY <1>1, <2>1 DEF Settles, Quiet, CaptureMatches, Watchers
    <2>2. ASSUME NEW s \in Sessions, Alone(s) PROVE Alone(s)'
      BY <1>1, <2>2 DEF Alone, NonePlays
    <2> QED
      BY <1>1, <2>1, <2>2 DEF Settles
  <1>2. ASSUME NEW s \in Sessions, AdmitViewer(s) PROVE Settles'
    <2>1. /\ ~ overlapped /\ (\A r \in Sessions \ {s} : job[r] = "idle") /\ job[s] = "idle"
          /\ UNCHANGED <<videoPipe, pipe>>
      BY <1>2 DEF AdmitViewer, Admit, Begin, NewcomersAreIdle
    <2>2. Quiet /\ CaptureMatches
      BY <2>1 DEF Quiet, Settles, Alone
    <2>3. Watchers' = (Watchers \ Dead) \cup {s}
      BY <1>2 DEF AdmitViewer, Admit, Watchers
    <2>4. CASE videoPipe = NoPipe
      <3>1. Watchers' = {s} /\ NonePlays
        BY <1>0, <2>2, <2>3, <2>4 DEF CaptureMatches, Watchers, NonePlays
      <3>2. job'[s] = "build" /\ \A r \in Sessions \ {s} : job'[r] = "idle"
        BY <1>0, <1>2, <2>1, <2>4 DEF AdmitViewer, Begin
      <3>3. Alone(s)'
        BY <2>1, <2>4, <3>1, <3>2 DEF Alone, NonePlays
      <3> QED
        BY <3>3 DEF Settles
    <2>5. CASE videoPipe # NoPipe
      <3>1. \A r \in Sessions : job'[r] = "idle"
        BY <1>0, <1>2, <2>1, <2>5 DEF AdmitViewer, Begin
      <3>2. Watchers' # {}
        BY <2>3
      <3> QED
        BY <2>1, <2>2, <2>5, <3>1, <3>2 DEF Settles, Quiet, CaptureMatches, Watchers
    <2> QED
      BY <2>4, <2>5
  <1>3. ASSUME NEW s \in Sessions, RefuseViewer(s) PROVE Settles'
    <2>1. /\ ~ overlapped /\ UNCHANGED <<videoPipe, pipe, job>> /\ members' = members \ Dead /\ Full(members \ Dead)
      BY <1>3 DEF RefuseViewer, Refuse, captureVars
    <2>2. Watchers' # {} /\ Watchers' \subseteq Watchers
      BY <2>1, RefusedBySomebody DEF Watchers
    <2>3. CASE Quiet /\ CaptureMatches
      BY <2>1, <2>2, <2>3 DEF Settles, Quiet, CaptureMatches, Watchers
    <2>4. ASSUME NEW r \in Sessions, Alone(r) PROVE Alone(r)'
      <3>1. Watchers' = Watchers
        BY <2>2, <2>4 DEF Alone
      <3> QED
        BY <2>1, <2>4, <3>1 DEF Alone, NonePlays
    <2> QED
      BY <2>1, <2>3, <2>4 DEF Settles
  <1>4. ASSUME NEW s \in Sessions, LeaveViewer(s) PROVE Settles'
    <2>1. /\ ~ overlapped /\ (\A r \in Sessions \ {s} : job[r] = "idle") /\ job[s] = "idle"
          /\ UNCHANGED <<videoPipe, pipe>> /\ members' = members \ {s}
      BY <1>4 DEF LeaveViewer, LeaveWith, Leave, Begin
    <2>2. Quiet /\ CaptureMatches
      BY <2>1 DEF Quiet, Settles, Alone
    <2>3. CASE s \in members /\ members' \cap Sessions = {}
      <3>1. job'[s] = "stop" /\ \A r \in Sessions \ {s} : job'[r] = "idle"
        BY <1>0, <1>4, <2>1, <2>3 DEF LeaveViewer, LeaveWith, Begin
      <3>2. \A p \in Pipes : pipe[p] = "playing" => p = videoPipe
        BY <2>2 DEF CaptureMatches
      <3>3. Alone(s)'
        BY <2>1, <2>3, <3>1, <3>2 DEF Alone, Watchers
      <3> QED
        BY <3>3 DEF Settles
    <2>4. CASE ~ (s \in members /\ members' \cap Sessions = {})
      <3>1. \A r \in Sessions : job'[r] = "idle"
        BY <1>0, <1>4, <2>1, <2>4 DEF LeaveViewer, LeaveWith, Begin
      <3>2. Watchers' = {} <=> Watchers = {}
        BY <2>1, <2>4 DEF Watchers
      <3> QED
        BY <2>1, <2>2, <3>1, <3>2 DEF Settles, Quiet, CaptureMatches, Watchers
    <2> QED
      BY <2>3, <2>4
  <1>5. ASSUME NEW s \in Sessions, ~ overlapped, job[s] # "idle" PROVE Alone(s)
    BY <1>5 DEF Settles, Quiet, Alone
  <1>6. ASSUME NEW s \in Sessions, Undo(s) PROVE Settles'
    <2>1. /\ ~ overlapped /\ job[s] = "undo" /\ UNCHANGED <<videoPipe, pipe>> /\ members' = members \ {s}
      BY <1>6 DEF Undo, LeaveWith, Leave, Begin
    <2>2. Alone(s)
      BY <1>5, <2>1
    <2>3. Watchers = {s} /\ NonePlays /\ \A r \in Sessions \ {s} : job[r] = "idle"
      BY <2>1, <2>2 DEF Alone
    <2>4. Watchers' = {} /\ s \in members
      BY <2>1, <2>3 DEF Watchers
    <2>5. job' = [job EXCEPT ![s] = "stop"]
      BY <1>6, <2>4 DEF Undo, LeaveWith, Begin, Watchers
    <2>6. Alone(s)'
      BY <1>0, <2>1, <2>3, <2>4, <2>5 DEF Alone, NonePlays
    <2> QED
      BY <2>6 DEF Settles
  <1>7. ASSUME NEW s \in Sessions,
               Build(s) \/ BuildFails(s) \/ Play(s) \/ PlayFails(s) \/ Stop(s) \/ Clear(s)
        PROVE  Settles'
    <2>1. /\ ~ overlapped /\ members' = members /\ job[s] # "idle"
      BY <1>7 DEF Build, BuildFails, Play, PlayFails, Stop, Clear, Then, vars, seatVars
    <2>2. Alone(s) /\ Watchers' = Watchers /\ \A r \in Sessions \ {s} : job[r] = "idle"
      BY <1>5, <2>1 DEF Alone, Watchers
    <2>3. CASE Build(s)
      <3>1. /\ job[s] = "build" /\ videoPipe' \in Pipes /\ pipe' = [pipe EXCEPT ![videoPipe'] = "built"]
            /\ job' = [job EXCEPT ![s] = "play"]
        BY <2>3 DEF Build, Then
      <3>2. Alone(s)'
        BY <1>0, <2>2, <3>1 DEF Alone, NonePlays
      <3> QED
        BY <3>2 DEF Settles
    <2>4. CASE BuildFails(s)
      <3>1. Alone(s)'
        BY <1>0, <2>2, <2>4 DEF BuildFails, Then, Alone, NonePlays
      <3> QED
        BY <3>1 DEF Settles
    <2>5. CASE Play(s)
      <3>1. /\ job[s] = "play" /\ videoPipe \in Pipes /\ pipe' = [pipe EXCEPT ![videoPipe] = "playing"]
            /\ videoPipe' = videoPipe /\ job' = [job EXCEPT ![s] = "idle"]
        BY <1>0, <2>5 DEF Play, Then
      <3>2. Watchers = {s} /\ NonePlays
        BY <2>2, <3>1 DEF Alone
      <3>3. Quiet'
        BY <1>0, <2>2, <3>1 DEF Quiet
      <3>4. CaptureMatches'
        BY <1>0, <2>2, <3>1, <3>2 DEF CaptureMatches, Watchers, NonePlays
      <3> QED
        BY <3>3, <3>4 DEF Settles
    <2>6. CASE PlayFails(s)
      <3>1. Alone(s)'
        BY <1>0, <2>2, <2>6 DEF PlayFails, Then, Alone, NonePlays
      <3> QED
        BY <3>1 DEF Settles
    <2>7. CASE Stop(s)
      <3>1. Watchers = {} /\ \A p \in Pipes : pipe[p] = "playing" => p = videoPipe
        BY <2>2, <2>7 DEF Stop, Alone
      <3>2. CASE videoPipe = NoPipe
        <4>1. pipe' = pipe /\ videoPipe' = videoPipe /\ job' = [job EXCEPT ![s] = "idle"]
          BY <2>7, <3>2 DEF Stop, Then
        <4> QED
          BY <1>0, <2>2, <3>1, <3>2, <4>1 DEF Settles, Quiet, CaptureMatches, Watchers
      <3>3. CASE videoPipe # NoPipe
        <4>1. /\ pipe' = [pipe EXCEPT ![videoPipe] = "stopped"] /\ videoPipe' = videoPipe
              /\ job' = [job EXCEPT ![s] = "clear"]
          BY <2>7, <3>3 DEF Stop, Then
        <4>2. Alone(s)'
          BY <1>0, <2>2, <3>1, <3>3, <4>1 DEF Alone, NonePlays
        <4> QED
          BY <4>2 DEF Settles
      <3> QED
        BY <3>2, <3>3
    <2>8. CASE Clear(s)
      <3>1. job[s] = "clear" /\ videoPipe' = NoPipe /\ pipe' = pipe /\ job' = [job EXCEPT ![s] = "idle"]
        BY <2>8 DEF Clear, Then
      <3>2. Watchers = {} /\ NonePlays
        BY <2>2, <3>1 DEF Alone
      <3>3. Quiet' /\ CaptureMatches'
        BY <1>0, <2>2, <3>1, <3>2 DEF Quiet, CaptureMatches, Watchers, NonePlays
      <3> QED
        BY <3>3 DEF Settles
    <2> QED
      BY <1>7, <2>3, <2>4, <2>5, <2>6, <2>7, <2>8
  <1>8. ASSUME NEW s \in Sessions, PlayPanics(s) PROVE Settles'
    <2>1. ~ overlapped /\ job[s] = "play" /\ videoPipe = NoPipe
      BY <1>8 DEF PlayPanics, Then
    <2> QED
      BY <1>5, <2>1 DEF Alone
  <1>9. ASSUME NEW s \in Sessions, SetRate(s) \/ \E k \in Estimates : Report(s, k) PROVE Settles'
    BY <1>1, <1>9 DEF SetRate, Report, captureVars, vars, seatVars, Watchers
  <1>10. CASE InRoom
    BY <1>1, <1>10, ViewersStay DEF captureVars
  <1>11. CASE UNCHANGED allVars
    BY <1>1, <1>11 DEF allVars, captureVars, vars, seatVars, Watchers
  <1> QED
    BY <1>2, <1>3, <1>4, <1>6, <1>7, <1>8, <1>9, <1>10, <1>11 DEF CaptureNext

\* What the session that moves and the pipelines keep of it all.
LEMMA PaceStays ==
    ASSUME CaptureTypeOK, PaceInv, UNCHANGED <<videoPipe, encoder, lastRate, sending, crossed, tuned>>,
           \A p \in Pipes : pipe'[p] = "none" <=> pipe[p] = "none",
           \A s \in Sessions : bitrates'[s] \in {bitrates[s], NoRate},
           MaxPipes > 0 /\ pipe[1] = "none" =>
               \A s \in Sessions : sess'[s] = "in" => job'[s] \in {"build", "undo"}
    PROVE  PaceInv'
  <1>0. /\ videoPipe \in Pipes \cup {NoPipe} /\ sending \in [Sessions -> Sends \cup {Unsent}] /\ tuned \subseteq Pipes
        /\ NoPipe = 0 /\ Pipes = 1..MaxPipes /\ MaxPipes \in Nat
    BY RatesAssumption DEF CaptureTypeOK, NoPipe, Pipes
  <1>1. BeforeTheFirst'
    BY <1>0 DEF PaceInv, BeforeTheFirst
  <1>2. OnlyTheBuilt'
    <2>1. \A p \in Pipes : pipe'[p] # "none" => pipe'[1] # "none"
      BY <1>0 DEF PaceInv, OnlyTheBuilt
    <2>2. \A s \in Sessions : sending[s] # Unsent => sending[s].pipe \in Pipes
      BY <1>0 DEF Sends
    <2> QED
      BY <1>0, <2>1, <2>2 DEF PaceInv, OnlyTheBuilt
  <1>3. ASSUME ~ crossed' PROVE OneRate'
    BY <1>3 DEF PaceInv, OneRate, Tuned, BeingTuned
  <1> QED
    BY <1>1, <1>2, <1>3 DEF PaceInv

LEMMA PaceBuild ==
    ASSUME CaptureTypeOK, PaceInv, NEW s \in Sessions, Build(s)
    PROVE  PaceInv'
  <1>0. /\ pipe \in [Pipes -> {"none", "built", "playing", "stopped"}] /\ job \in [Sessions -> Jobs]
        /\ sending \in [Sessions -> Sends \cup {Unsent}] /\ tuned \subseteq Pipes
        /\ NoPipe = 0 /\ Pipes = 1..MaxPipes /\ MaxPipes \in Nat
    BY RatesAssumption DEF CaptureTypeOK, NoPipe, Pipes
  <1>1. PICK p \in Pipes : /\ pipe[p] = "none" /\ (\A q \in Pipes : q < p => pipe[q] # "none")
                           /\ pipe' = [pipe EXCEPT ![p] = "built"] /\ videoPipe' = p
    BY DEF Build
  <1>2. UNCHANGED <<vars, encoder, bitrates, lastRate, sending, crossed, tuned>>
    BY DEF Build, rateVars
  <1>3. p \notin tuned /\ \A r \in Sessions : sending[r] # Unsent => sending[r].pipe # p /\ sending[r].pipe \in Pipes
    BY <1>0, <1>1 DEF PaceInv, OnlyTheBuilt, Sends
  <1>4. 1 \in Pipes /\ pipe'[1] # "none"
    BY <1>0, <1>1
  <1>5. BeforeTheFirst'
    BY <1>4 DEF BeforeTheFirst
  <1>6. OnlyTheBuilt'
    BY <1>0, <1>1, <1>2, <1>3, <1>4 DEF PaceInv, OnlyTheBuilt
  <1>7. ASSUME ~ crossed' PROVE OneRate'
    <2>1. OneRate
      BY <1>2, <1>7 DEF PaceInv
    <2>2. CASE p = 1
      <3>1. lastRate = VideoKbps /\ encoder[1] = VideoKbps /\ \A r \in Sessions : bitrates[r] = NoRate
        BY <1>0, <1>1, <2>2 DEF PaceInv, BeforeTheFirst
      <3>2. \A r \in Sessions : sending[r] = Unsent
        BY <1>0, <1>1, <1>3, <2>2 DEF PaceInv, OnlyTheBuilt
      <3> QED
        BY <1>1, <1>2, <2>1, <2>2, <3>1, <3>2 DEF OneRate
    <2>3. CASE p # 1
      <3>1. ~ Tuned' /\ ~ BeingTuned'
        BY <1>1, <1>2, <1>3, <2>3 DEF Tuned, BeingTuned
      <3> QED
        BY <1>2, <2>1, <3>1 DEF OneRate
    <2> QED
      BY <2>2, <2>3
  <1> QED
    BY <1>5, <1>6, <1>7 DEF PaceInv

LEMMA PaceSet ==
    ASSUME CaptureTypeOK, PaceInv, NEW s \in Sessions, SetRate(s)
    PROVE  PaceInv'
  <1>0. /\ encoder \in [Pipes -> Estimates \cup {VideoKbps, MinVideoKbps}] /\ tuned \subseteq Pipes
        /\ sending \in [Sessions -> Sends \cup {Unsent}] /\ videoPipe \in Pipes \cup {NoPipe}
        /\ NoPipe = 0 /\ Pipes = 1..MaxPipes /\ MaxPipes \in Nat
    BY RatesAssumption DEF CaptureTypeOK, NoPipe, Pipes
  <1> DEFINE q == sending[s].pipe
             k == sending[s].kbps
  <1>1. /\ UNCHANGED <<sess, videoPipe, pipe, job, bitrates, lastRate, crossed>> /\ sending[s] # Unsent
        /\ encoder' = [encoder EXCEPT ![q] = k]
        /\ sending' = [sending EXCEPT ![s] = Unsent]
        /\ tuned' = tuned \cup {q}
    BY DEF SetRate, vars, connVars
  <1>2. q \in Pipes /\ pipe[q] # "none" /\ pipe[1] # "none"
    BY <1>0, <1>1 DEF Sends, PaceInv, OnlyTheBuilt
  <1>3. ~ crossed => k = lastRate
    BY <1>1 DEF PaceInv, OneRate
  <1> HIDE DEF q, k
  <1>4. \A r \in Sessions : sending'[r] \in {Unsent, sending[r]} /\ sending'[s] = Unsent
    BY <1>0, <1>1
  <1>5. BeforeTheFirst'
    BY <1>1, <1>2 DEF BeforeTheFirst
  <1>6. OnlyTheBuilt'
    BY <1>1, <1>2, <1>4 DEF PaceInv, OnlyTheBuilt
  <1>7. ASSUME ~ crossed' PROVE OneRate'
    <2>1. OneRate /\ k = lastRate
      BY <1>1, <1>3, <1>7 DEF PaceInv
    <2>2. \A r \in Sessions : sending'[r] = Unsent
      BY <1>1, <1>4, <2>1 DEF OneRate
    <2>3. ASSUME videoPipe # NoPipe, Tuned'
          PROVE  /\ encoder'[videoPipe] = lastRate
                 /\ \A r \in Sessions : bitrates[r] # NoRate => lastRate * 9 <= Floored(bitrates[r]) * 10
      <3>1. CASE q = videoPipe
        <4>1. BeingTuned
          BY <1>1, <3>1 DEF BeingTuned, q
        <4> QED
          BY <1>0, <1>1, <1>2, <2>1, <2>3, <3>1, <4>1 DEF OneRate
      <3>2. CASE q # videoPipe
        <4>1. Tuned
          BY <1>1, <2>3, <3>2 DEF Tuned
        <4> QED
          BY <1>1, <2>1, <2>3, <3>2, <4>1 DEF OneRate, q
      <3> QED
        BY <3>1, <3>2
    <2>4. ~ BeingTuned'
      BY <2>2 DEF BeingTuned
    <2> QED
      BY <1>1, <2>2, <2>3, <2>4 DEF OneRate
  <1> QED
    BY <1>5, <1>6, <1>7 DEF PaceInv

\* A report that is not applied is within what the hysteresis forgives.
LEMMA Forgiven ==
    ASSUME NEW rate \in Nat, NEW last \in Nat, NEW k \in Nat, rate <= k,
           \/ last = rate
           \/ Apart(rate, last) * 10 < last
    PROVE  last * 9 <= k * 10
  <1>1. CASE last = rate
    BY <1>1
  <1>2. CASE Apart(rate, last) * 10 < last
    BY <1>2 DEF Apart
  <1> QED
    BY <1>1, <1>2

LEMMA PaceReport ==
    ASSUME CaptureTypeOK, PaceInv, NEW s \in Sessions, NEW k \in Estimates, Report(s, k)
    PROVE  PaceInv'
  <1> DEFINE entries == [bitrates EXCEPT ![s] = k]
             rate == Slowest(entries)
             order == [pipe |-> videoPipe, kbps |-> rate]
  <1>0. /\ bitrates \in [Sessions -> Estimates \cup {NoRate}] /\ lastRate \in Estimates \cup {VideoKbps, MinVideoKbps}
        /\ sending \in [Sessions -> Sends \cup {Unsent}] /\ videoPipe \in Pipes \cup {NoPipe}
        /\ NoPipe = 0 /\ Pipes = 1..MaxPipes /\ MaxPipes \in Nat
        /\ Estimates \subseteq Nat /\ VideoKbps \in Nat /\ MinVideoKbps \in Nat
    BY RatesAssumption DEF CaptureTypeOK, NoPipe, Pipes
  <1>1. /\ UNCHANGED <<sess, videoPipe, pipe, encoder, job, tuned>>
        /\ sess[s] = "in" /\ ~ Joining(s) /\ sending[s] = Unsent
        /\ bitrates' = entries /\ crossed' = (crossed \/ sending # NoSends)
        /\ \/ /\ videoPipe # NoPipe /\ WorthIt(rate)
              /\ lastRate' = rate /\ sending' = [sending EXCEPT ![s] = order]
           \/ /\ videoPipe = NoPipe \/ ~ WorthIt(rate)
              /\ lastRate' = lastRate /\ sending' = sending
    BY DEF Report, captureVars, vars, connVars
  <1>2. /\ entries \in [Sessions -> Estimates \cup {NoRate}] /\ entries[s] = k /\ k # NoRate
    BY <1>0, RatesAssumption DEF NoRate
  <1>3. /\ rate \in Nat
        /\ \A r \in Sessions : entries[r] # NoRate => rate <= Floored(entries[r]) /\ Floored(entries[r]) \in Nat
    <2>1. /\ rate \in Estimates \cup {MinVideoKbps}
          /\ \A r \in Sessions : entries[r] # NoRate => rate <= Floored(entries[r])
      BY <1>2, SlowestIs
    <2> HIDE DEF entries, rate
    <2>2. Estimates \cup {NoRate} \subseteq Nat
      BY <1>0 DEF NoRate
    <2>3. \A r \in Sessions : entries[r] \in Nat
      BY <1>2, <2>2
    <2>4. rate \in Nat
      BY <1>0, <2>1
    <2>5. \A r \in Sessions : Floored(entries[r]) \in Nat
      BY <1>0, <2>3 DEF Floored
    <2> QED
      BY <2>1, <2>4, <2>5
  <1> HIDE DEF entries, rate
  <1>4. ~ (MaxPipes > 0 /\ pipe[1] = "none")
    BY <1>1 DEF PaceInv, BeforeTheFirst, Joining
  <1>5. BeforeTheFirst'
    BY <1>1, <1>4 DEF BeforeTheFirst
  <1>6. videoPipe # NoPipe => order # Unsent /\ order.pipe = videoPipe /\ order.kbps = rate
    <2>1. order.pipe = videoPipe /\ Unsent.pipe = NoPipe
      BY DEF Unsent
    <2> QED
      BY <2>1
  <1> HIDE DEF order
  <1>7. OnlyTheBuilt'
    <2>1. CASE sending' = sending
      BY <1>1, <2>1 DEF PaceInv, OnlyTheBuilt
    <2>2. CASE videoPipe # NoPipe /\ sending' = [sending EXCEPT ![s] = order]
      <3>1. \A r \in Sessions : sending'[r] = IF r = s THEN order ELSE sending[r]
        BY <1>0, <2>2
      <3> QED
        BY <1>1, <1>6, <2>2, <3>1 DEF PaceInv, OnlyTheBuilt
    <2> QED
      BY <1>1, <2>1, <2>2
  <1>8. ASSUME ~ crossed' PROVE OneRate'
    <2>1. OneRate /\ \A r \in Sessions : sending[r] = Unsent
      BY <1>1, <1>8 DEF PaceInv, NoSends
    <2>2. CASE /\ videoPipe # NoPipe
               /\ lastRate' = rate /\ sending' = [sending EXCEPT ![s] = order]
      <3>1. \A r \in Sessions : sending'[r] = IF r = s THEN order ELSE Unsent
        BY <1>0, <2>1, <2>2
      <3>2. \A r \in Sessions : entries[r] # NoRate => rate * 9 <= Floored(entries[r]) * 10
        BY <1>3, Forgiven
      <3>3. /\ \A r \in Sessions : sending'[r] # Unsent => r = s /\ sending'[r].kbps = rate /\ sending'[r].pipe = videoPipe
            /\ ~ \A r \in Sessions : sending'[r] = Unsent
        BY <1>6, <2>2, <3>1
      <3>4. /\ \A r \in Sessions : sending'[r] # Unsent => sending'[r].kbps = lastRate'
            /\ \A r, q \in Sessions : sending'[r] # Unsent /\ sending'[q] # Unsent => r = q
        BY <2>2, <3>3
      <3>5. /\ \A r \in Sessions : sending'[r] # Unsent => sending'[r].pipe = videoPipe'
            /\ \A r \in Sessions : bitrates'[r] # NoRate => lastRate' * 9 <= Floored(bitrates'[r]) * 10
        BY <1>1, <2>2, <3>2, <3>3
      <3> QED
        BY <3>3, <3>4, <3>5 DEF OneRate
    <2>3. CASE /\ videoPipe = NoPipe \/ ~ WorthIt(rate)
               /\ lastRate' = lastRate /\ sending' = sending
      <3>1. ASSUME videoPipe # NoPipe, NEW r \in Sessions, entries[r] # NoRate
            PROVE  lastRate * 9 <= Floored(entries[r]) * 10
        <4>1. lastRate \in Nat
          BY <1>0
        <4>2. Apart(rate, lastRate) \in Nat
          BY <1>3, <4>1 DEF Apart
        <4>3. Apart(rate, lastRate) * 10 < lastRate
          BY <2>3, <3>1, <4>1, <4>2 DEF WorthIt
        <4> QED
          BY <1>3, <3>1, <4>1, <4>3, Forgiven
      <3>2. (Tuned' <=> Tuned)
        BY <1>1 DEF Tuned
      <3> QED
        BY <1>1, <2>1, <2>3, <3>1, <3>2 DEF OneRate
    <2> QED
      BY <1>1, <2>2, <2>3
  <1> QED
    BY <1>5, <1>7, <1>8 DEF PaceInv

LEMMA PaceStep ==
    ASSUME TypeOK, CaptureTypeOK, PaceInv, [CaptureNext]_allVars
    PROVE  PaceInv'
  <1>0. /\ videoPipe \in Pipes \cup {NoPipe} /\ pipe \in [Pipes -> {"none", "built", "playing", "stopped"}]
        /\ job \in [Sessions -> Jobs] /\ sess \in [Sessions -> {"new", "in", "gone"}]
        /\ bitrates \in [Sessions -> Estimates \cup {NoRate}]
        /\ NoPipe = 0 /\ Pipes = 1..MaxPipes /\ MaxPipes \in Nat
    BY RatesAssumption DEF TypeOK, CaptureTypeOK, NoPipe, Pipes
  <1>a. ASSUME MaxPipes > 0, pipe[1] = "none"
        PROVE  /\ videoPipe = NoPipe
               /\ \A s \in Sessions : sess[s] = "in" => job[s] \in {"build", "undo"}
    BY <1>0, <1>a DEF PaceInv, OnlyTheBuilt, BeforeTheFirst
  <1>1. ASSUME NEW s \in Sessions, AdmitViewer(s) PROVE PaceInv'
    <2>1. /\ UNCHANGED <<videoPipe, pipe, encoder, lastRate, sending, crossed, tuned>>
          /\ sess' = [sess EXCEPT ![s] = "in"] /\ Forget(Dead)
          /\ job' = [job EXCEPT ![s] = IF videoPipe = NoPipe THEN "build" ELSE "idle"]
      BY <1>1 DEF AdmitViewer, Admit, Begin
    <2>2. \A r \in Sessions : bitrates'[r] \in {bitrates[r], NoRate}
      BY <2>1 DEF Forget
    <2>3. MaxPipes > 0 /\ pipe[1] = "none" => \A r \in Sessions : sess'[r] = "in" => job'[r] \in {"build", "undo"}
      BY <1>0, <1>a, <2>1
    <2> QED
      BY <2>1, <2>2, <2>3, PaceStays
  <1>2. ASSUME NEW s \in Sessions, LeaveWith(s) PROVE PaceInv'
    <2>1. /\ UNCHANGED <<videoPipe, pipe, encoder, lastRate, sending, crossed, tuned>>
          /\ sess' = [sess EXCEPT ![s] = "gone"] /\ Forget(members \cap {s})
          /\ \E j \in Jobs : job' = [job EXCEPT ![s] = j]
      BY <1>2 DEF LeaveWith, Leave, Begin, Jobs
    <2>2. \A r \in Sessions : bitrates'[r] \in {bitrates[r], NoRate}
      BY <2>1 DEF Forget
    <2>3. MaxPipes > 0 /\ pipe[1] = "none" => \A r \in Sessions : sess'[r] = "in" => job'[r] \in {"build", "undo"}
      BY <1>0, <1>a, <2>1
    <2> QED
      BY <2>1, <2>2, <2>3, PaceStays
  <1>3. ASSUME NEW s \in Sessions, RefuseViewer(s) PROVE PaceInv'
    <2>1. /\ UNCHANGED <<videoPipe, pipe, encoder, job, lastRate, sending, crossed, tuned>>
          /\ sess' = [sess EXCEPT ![s] = "gone"] /\ Forget(Dead)
      BY <1>3 DEF RefuseViewer, Refuse, captureVars
    <2>2. \A r \in Sessions : bitrates'[r] \in {bitrates[r], NoRate}
      BY <2>1 DEF Forget
    <2>3. MaxPipes > 0 /\ pipe[1] = "none" => \A r \in Sessions : sess'[r] = "in" => job'[r] \in {"build", "undo"}
      BY <1>0, <1>a, <2>1
    <2> QED
      BY <2>1, <2>2, <2>3, PaceStays
  <1>4. ASSUME NEW s \in Sessions, Play(s) \/ PlayFails(s) \/ Stop(s) PROVE PaceInv'
    <2>1. /\ UNCHANGED <<sess, videoPipe, encoder, bitrates, lastRate, sending, crossed, tuned>>
          /\ \A p \in Pipes : pipe'[p] = "none" <=> pipe[p] = "none"
      BY <1>0, <1>4 DEF Play, PlayFails, Stop, rateVars, vars, connVars, PaceInv, OnlyTheBuilt
    <2>2. /\ \E j \in Jobs : job' = [job EXCEPT ![s] = j]
          /\ videoPipe # NoPipe \/ job[s] = "stop"
      BY <1>4 DEF Play, PlayFails, Stop, Then, Jobs
    <2>3. MaxPipes > 0 /\ pipe[1] = "none" => \A r \in Sessions : sess'[r] = "in" => job'[r] \in {"build", "undo"}
      BY <1>0, <1>a, <2>1, <2>2
    <2> QED
      BY <2>1, <2>3, PaceStays
  <1>5. ASSUME NEW s \in Sessions, PlayPanics(s) PROVE PaceInv'
    <2>1. /\ UNCHANGED <<videoPipe, pipe, encoder, bitrates, lastRate, sending, crossed, tuned>>
          /\ sess' = [sess EXCEPT ![s] = "gone"] /\ job' = [job EXCEPT ![s] = "idle"]
      BY <1>5 DEF PlayPanics, AbandonSeat, Then, rateVars
    <2>2. MaxPipes > 0 /\ pipe[1] = "none" => \A r \in Sessions : sess'[r] = "in" => job'[r] \in {"build", "undo"}
      BY <1>0, <1>a, <2>1
    <2> QED
      BY <2>1, <2>2, PaceStays
  <1>6. ASSUME NEW s \in Sessions, BuildFails(s) \/ Clear(s) PROVE PaceInv'
    <2>1. /\ UNCHANGED <<sess, pipe, encoder, bitrates, lastRate, sending, crossed, tuned>> /\ videoPipe' = NoPipe
          /\ \/ job' = [job EXCEPT ![s] = "undo"]
             \/ job[s] = "clear" /\ job' = [job EXCEPT ![s] = "idle"]
      BY <1>6 DEF BuildFails, Clear, Then, rateVars, vars, connVars
    <2>2. BeforeTheFirst'
      BY <1>0, <2>1 DEF PaceInv, BeforeTheFirst
    <2>3. OnlyTheBuilt' /\ (~ crossed' => OneRate')
      BY <2>1 DEF PaceInv, OnlyTheBuilt, OneRate
    <2> QED
      BY <2>2, <2>3 DEF PaceInv
  <1>7. CASE InRoom \/ UNCHANGED allVars
    <2>1. UNCHANGED <<sess, captureVars, rateVars>>
      BY <1>7, ViewersStay DEF InRoom, allVars, vars, connVars
    <2> QED
      BY <1>a, <2>1, PaceStays DEF captureVars, rateVars
  <1> QED
    BY <1>1, <1>2, <1>3, <1>4, <1>5, <1>6, <1>7, PaceBuild, PaceSet, PaceReport DEF CaptureNext, LeaveViewer, Undo

\* Every variable of the capture stays in its set: the encoder never runs at a
\* rate nobody reported and nothing was configured for (ReportBitrate).
THEOREM CaptureTyping == CaptureSpec => []CaptureTypeOK
  <1>1. CaptureInit => CaptureTypeOK
    BY CaptureStartsTyped
  <1> QED
    BY <1>1, CaptureTypeStep, PTL DEF CaptureSpec

\* No viewer is sent more than it reported, the floor and the hysteresis apart,
\* for any number of viewers and any estimates (ReportBitrate, SetBitrateKbps).
THEOREM Pace == CaptureSpec => []EncoderKeepsPace
  <1>1. CaptureInit => PaceInv
    <2> SUFFICES ASSUME CaptureInit PROVE PaceInv
      OBVIOUS
    <2>1. /\ \A p \in Pipes : pipe[p] = "none" /\ encoder[p] = VideoKbps
          /\ \A s \in Sessions : sending[s] = Unsent /\ bitrates[s] = NoRate /\ sess[s] = "new"
          /\ videoPipe = NoPipe /\ tuned = {} /\ lastRate = VideoKbps
      BY DEF CaptureInit, Init, NoSends
    <2>2. MaxPipes > 0 => 1 \in Pipes
      BY RatesAssumption DEF Pipes
    <2> QED
      BY <2>1, <2>2 DEF PaceInv, BeforeTheFirst, OnlyTheBuilt, OneRate
  <1>2. TypeOK /\ CaptureTypeOK /\ PaceInv /\ [CaptureNext]_allVars => PaceInv'
    BY PaceStep
  <1>3. PaceInv => EncoderKeepsPace
    BY DEF PaceInv, OneRate, Tuned, EncoderKeepsPace, NoSends
  <1> QED
    BY <1>1, <1>2, <1>3, CaptureTyping, CaptureRefinesRoom, Typing, PTL DEF CaptureSpec

\* In a room of two seats or more, whoever comes, is evicted, fails to start the
\* capture or goes: once the starts and stops that did not overlap are over, the
\* capture runs if and only if somebody watches (Join, Leave, startPipelines).
THEOREM CaptureIsSound == MaxViewers >= 2 => (CaptureSpec => []CaptureFits)
  <1> SUFFICES ASSUME MaxViewers >= 2 PROVE CaptureSpec => []CaptureFits
    OBVIOUS
  <1>1. CaptureInit => NewcomersAreIdle /\ (~ overlapped => Settles)
    BY DEF CaptureInit, Init, NewcomersAreIdle, Settles, Quiet, CaptureMatches, NoPipe, Pipes
  <1>2. /\ TypeOK /\ CaptureTypeOK /\ NewcomersAreIdle /\ (~ overlapped => Settles)
        /\ [CaptureNext]_allVars
        => NewcomersAreIdle' /\ (~ overlapped => Settles)'
    BY NewcomersStep, SettlesStep
  <1>3. (~ overlapped => Settles) => CaptureFits
    <2> SUFFICES ASSUME Settles, Quiet PROVE CaptureMatches
      BY DEF CaptureFits
    <2> QED
      BY DEF Settles, Quiet, Alone
  <1> QED
    BY <1>1, <1>2, <1>3, CaptureTyping, CaptureRefinesRoom, Typing, PTL DEF CaptureSpec

-----------------------------------------------------------------------------
(***************************************************************************)
(* Connections, requests and calls.                                        *)
(***************************************************************************)

\* Nothing the MCP plane does to the room is more than a step of the room.
LEMMA McpStepsAreRoomSteps == [McpNext]_mcpAll => [Next]_vars
  <1> SUFFICES ASSUME [McpNext]_mcpAll PROVE [Next]_vars
    OBVIOUS
  <1>1. CASE People
    BY <1>1 DEF People, Next, SessionStep
  <1>2. ASSUME NEW n \in Links, Serve(n) \/ \E c \in Calls : ReadCall(c, n)
        PROVE  [Next]_vars
    BY <1>2 DEF Serve, ReadCall, Accept, HangUp, LeaveRoom, CancelAll, Close, Next, AgentStep
  <1>3. ASSUME NEW c \in Calls, StopCall(c) PROVE UNCHANGED vars
    BY <1>3 DEF StopCall, ReadCancel, AnswerStopped, WriteStopped
  <1>4. ASSUME NEW c \in Calls, Handler(c) PROVE [Next]_vars
    <2>1. CASE \/ BadParams(c) \/ Elsewhere(c) \/ MayInject(c) \/ Return(c)
               \/ BackFromRoom(c) \/ Reply(c) \/ WriteReply(c) \/ Done(c)
      BY <2>1 DEF BadParams, Elsewhere, MayInject, Return, BackFromRoom, Reply, WriteReply, Done
    <2>2. CASE JoinToInject(c) \/ RoomState(c) \/ GiveBack(c)
      BY <2>2 DEF JoinToInject, RoomState, GiveBack, Next, AgentStep
    <2>3. CASE AskToDrive(c) \/ Question(c) \/ Asks(c) \/ AskingSteps(c)
      BY <2>3 DEF AskToDrive, Question, Asks, AskingSteps, Next, CallStep
    <2> QED
      BY <1>4, <2>1, <2>2, <2>3 DEF Handler
  <1>5. CASE UNCHANGED mcpAll
    BY <1>5 DEF mcpAll
  <1> QED
    BY <1>1, <1>2, <1>3, <1>4, <1>5 DEF McpNext

\* The MCP plane implements the room: every behaviour of it is one of Room.
THEOREM McpRefinesRoom == McpSpec => Spec
  <1>1. McpInit => Init
    BY DEF McpInit
  <1> QED
    BY <1>1, McpStepsAreRoomSteps, PTL DEF McpSpec, Spec

\* Whatever is cancelled, hung up or stopped halfway on the MCP side, the
\* controls are with a member, a dialog has its call, and a grant its yes.
THEOREM RoomHoldsUnderMcp ==
    McpSpec => []ControllerIsPresent /\ []DialogHasItsCall /\ []GrantNeedsFirstYes
  BY McpRefinesRoom, OnlyMembersDrive, Dialogs, Grants, PTL

-----------------------------------------------------------------------------
(***************************************************************************)
(* One answer to each request.  What makes the three properties inductive: *)
(* the atomic `answered` counts the replies of a well-formed request, but  *)
(* for the one that whoever won it has still to write; only a request that *)
(* is over can be malformed; a request leaves the map only together with   *)
(* its context, and into the hands of somebody who will try to answer it;  *)
(* and a connection that is leaving stops nothing, until it stops all.     *)
(***************************************************************************)

\* One of the two who can answer has won, and not written yet.
Due(r) == r.pc = "write" \/ r.stopper = "write"

Sound(r) ==
    /\ r.tool = "malformed" => r.pc = "done"
    /\ r.replies = (IF r.answered /\ ~ Due(r) THEN 1 ELSE 0) + (IF r.tool = "malformed" THEN 1 ELSE 0)
    /\ Due(r) => r.answered /\ ~ (r.pc = "write" /\ r.stopper = "write")
    /\ r.pc = "finish" \/ (r.pc = "done" /\ r.tool # "malformed") => r.answered
    /\ r.ctx = "done" => r.answered \/ r.stopper = "answer"
    /\ r.pc # "none" => r.link \in Links
    /\ r.pc = "none" => ~ r.listed /\ r.stopper = "none"

\* Where the connection of a request is, and what is done about it there.
Kept(c, r) ==
    /\ r.pc # "none" /\ c \notin Unnamed /\ ~ r.listed => r.ctx = "done"
    /\ r.listed => link[r.link] \notin {"answering", "gone"}
    /\ r.stopper # "none" => link[r.link] \in {"open", "answering"}

Books == \A c \in Calls : Sound(req[c]) /\ Kept(c, req[c])

McpInv == McpTypeOK /\ Books

\* A step on one request is checked on that request.
LEMMA OneRequest ==
    ASSUME McpInv, NEW c \in Calls, NEW r \in ReqState, Sound(r), Kept(c, r),
           req' = [req EXCEPT ![c] = r], UNCHANGED link
    PROVE  McpInv'
  BY DEF McpInv, McpTypeOK, Books, Kept

LEMMA DropTypes ==
    ASSUME NEW r \in ReqState, NEW stopper \in {"none", "answer"}
    PROVE  /\ Drop(r) \in ReqState
           /\ [Drop(r) EXCEPT !.stopper = stopper] =
                  [r EXCEPT !.listed = FALSE, !.ctx = "done", !.stopper = stopper]
           /\ [Drop(r) EXCEPT !.pc = "done"] = [r EXCEPT !.listed = FALSE, !.ctx = "done", !.pc = "done"]
  BY DEF Drop, ReqState

\* A request taken out of the map to be stopped is in good hands.
LEMMA StoppedIsSound ==
    ASSUME NEW r \in ReqState, Sound(r), r.pc # "none", r.stopper = "none"
    PROVE  LET q == [Drop(r) EXCEPT !.stopper = "answer"]
           IN  q \in ReqState /\ Sound(q) /\ ~ q.listed /\ q.ctx = "done" /\ q.link = r.link
  <1> DEFINE q == [r EXCEPT !.listed = FALSE, !.ctx = "done", !.stopper = "answer"]
  <1>1. [Drop(r) EXCEPT !.stopper = "answer"] = q
    BY DropTypes
  <1>2. q \in ReqState /\ ~ q.listed /\ q.ctx = "done" /\ q.link = r.link
    BY DEF ReqState
  <1>3. Sound(q)
    BY DEF Sound, Due, ReqState
  <1> QED
    BY <1>1, <1>2, <1>3

\* A handler that moves on without answering.
LEMMA GoesOn ==
    ASSUME McpInv, NEW c \in Calls, NEW pc \in ReqPcs \ {"none", "write", "finish", "done"},
           NEW tool \in AllTools \ {"malformed"}, NEW asking \in BOOLEAN,
           req[c].pc \notin {"none", "write", "done"},
           req' = [req EXCEPT ![c].pc = pc, ![c].tool = tool, ![c].asking = asking], UNCHANGED link
    PROVE  McpInv'
  <1> DEFINE r == [req[c] EXCEPT !.pc = pc, !.tool = tool, !.asking = asking]
  <1>1. req[c] \in ReqState /\ Sound(req[c]) /\ Kept(c, req[c])
    BY DEF McpInv, McpTypeOK, Books
  <1>2. r \in ReqState
    BY <1>1 DEF ReqState
  <1>3. Sound(r)
    BY <1>1 DEF Sound, Due, ReqState
  <1>4. Kept(c, r)
    BY <1>1 DEF Kept, ReqState
  <1>5. req' = [req EXCEPT ![c] = r]
    BY DEF McpInv, McpTypeOK
  <1> QED
    BY <1>2, <1>3, <1>4, <1>5, OneRequest

LEMMA GoesKeeps ==
    ASSUME McpInv, NEW c \in Calls, NEW pc \in ReqPcs \ {"none", "write", "finish", "done"},
           req[c].pc \notin {"none", "write", "done"}, Goes(c, pc), UNCHANGED link
    PROVE  McpInv'
  <1> DEFINE tool == IF pc = "result" THEN "other" ELSE req[c].tool
  <1>1. tool \in AllTools \ {"malformed"}
    BY DEF McpInv, McpTypeOK, ReqState, Books, Sound, AllTools
  <1>2. req[c].asking \in BOOLEAN /\ req' = [req EXCEPT ![c].pc = pc, ![c].tool = tool, ![c].asking = req[c].asking]
    BY DEF Goes, McpInv, McpTypeOK, ReqState
  <1> QED
    BY <1>1, <1>2, GoesOn

LEMMA StartsKeeps ==
    ASSUME McpInv, NEW c \in Calls, NEW t \in AllTools \ {"malformed"},
           NEW pc \in ReqPcs \ {"none", "write", "finish", "done"}, Starts(c, t, pc), UNCHANGED link
    PROVE  McpInv'
  <1> DEFINE tool == IF pc = "result" THEN "other" ELSE t
  <1>1. tool \in AllTools \ {"malformed"}
    BY DEF AllTools
  <1>2. req[c].asking \in BOOLEAN /\ req' = [req EXCEPT ![c].pc = pc, ![c].tool = tool, ![c].asking = req[c].asking]
        /\ req[c].pc \notin {"none", "write", "done"}
    BY DEF Starts, McpInv, McpTypeOK, ReqState
  <1> QED
    BY <1>1, <1>2, GoesOn

LEMMA HandlerKeeps ==
    ASSUME McpInv, NEW c \in Calls, Handler(c)
    PROVE  McpInv'
  <1>1. req[c] \in ReqState /\ Sound(req[c]) /\ Kept(c, req[c])
    BY DEF McpInv, McpTypeOK, Books
  <1>2. req = [req EXCEPT ![c] = req[c]]
    BY DEF McpInv, McpTypeOK
  <1>3. CASE BadParams(c)
    <2> DEFINE m == req[c].replies + 1
               r == [req[c] EXCEPT !.pc = "done", !.tool = "malformed", !.replies = m]
    <2>1. req[c].pc = "checks" /\ req' = [req EXCEPT ![c] = r] /\ UNCHANGED link
      BY <1>3 DEF BadParams, McpInv, McpTypeOK
    <2>2. m \in 1..2 /\ m = (IF req[c].answered /\ req[c].stopper # "write" THEN 1 ELSE 0) + 1
      BY <1>1, <2>1 DEF Sound, Due
    <2> HIDE DEF m
    <2>3. r \in ReqState
      <3>1. "done" \in ReqPcs /\ "malformed" \in AllTools /\ m \in 0..2
        BY <2>2 DEF ReqPcs, AllTools
      <3> QED
        BY <1>1, <3>1 DEF ReqState
    <2>4. Sound(r) /\ Kept(c, r)
      BY <1>1, <2>1, <2>2 DEF Sound, Due, Kept, ReqState
    <2> QED
      BY <2>1, <2>3, <2>4, OneRequest
  <1>4. CASE Elsewhere(c) \/ JoinToInject(c) \/ RoomState(c) \/ GiveBack(c) \/ AskToDrive(c)
    <2>1. PICK t \in AllTools \ {"malformed"}, pc \in {"result", "claim", "inside"} :
                 Starts(c, t, pc) /\ UNCHANGED link
      BY <1>4 DEF Elsewhere, JoinToInject, RoomState, GiveBack, AskToDrive, AllTools
    <2> QED
      BY <2>1, StartsKeeps DEF ReqPcs
  <1>5. CASE Question(c)
    <2>1. /\ req[c].pc = "checks" /\ UNCHANGED link
          /\ req' = [req EXCEPT ![c].pc = "inside", ![c].tool = "ask_human", ![c].asking = TRUE]
      BY <1>5 DEF Question
    <2> QED
      BY <2>1, GoesOn DEF ReqPcs, AllTools
  <1>6. CASE MayInject(c) \/ Return(c) \/ BackFromRoom(c)
    <2>1. PICK pc \in {"result", "dispatch"} :
                 Goes(c, pc) /\ req[c].pc \notin {"none", "write", "done"} /\ UNCHANGED link
      BY <1>6 DEF MayInject, Return, BackFromRoom
    <2> QED
      BY <2>1, GoesKeeps DEF ReqPcs
  <1>7. CASE AskingSteps(c)
    <2>1. UNCHANGED link /\ req' = [req EXCEPT ![c] = req[c]]
      BY <1>2, <1>7 DEF AskingSteps, mcpVars
    <2> QED
      BY <1>1, <2>1, OneRequest
  <1>8. CASE Asks(c)
    <2> DEFINE r == [req[c] EXCEPT !.asking = FALSE]
    <2>1. req' = [req EXCEPT ![c] = r] /\ UNCHANGED link
      BY <1>8 DEF Asks, McpInv, McpTypeOK
    <2>2. r \in ReqState /\ Sound(r) /\ Kept(c, r)
      BY <1>1 DEF Sound, Due, Kept, ReqState
    <2> QED
      BY <2>1, <2>2, OneRequest
  <1>9. CASE Reply(c)
    <2>1. PICK pc \in {"write", "finish"} :
               /\ req[c].pc = "result" /\ UNCHANGED link
               /\ pc = IF req[c].answered THEN "finish" ELSE "write"
               /\ req' = [req EXCEPT ![c] = [req[c] EXCEPT !.answered = TRUE, !.pc = pc]]
      BY <1>9 DEF Reply, Wins
    <2> DEFINE r == [req[c] EXCEPT !.answered = TRUE, !.pc = pc]
    <2>2. r \in ReqState
      BY <1>1 DEF ReqState, ReqPcs
    <2>3. Sound(r) /\ Kept(c, r)
      BY <1>1, <2>1 DEF Sound, Due, Kept, ReqState
    <2> QED
      BY <2>1, <2>2, <2>3, OneRequest
  <1>10. CASE WriteReply(c)
    <2> DEFINE m == req[c].replies + 1
               r == [req[c] EXCEPT !.replies = m, !.pc = "finish"]
    <2>1. req[c].pc = "write" /\ req' = [req EXCEPT ![c] = r] /\ UNCHANGED link
      BY <1>1, <1>10 DEF WriteReply, Written, ReqState
    <2>2. m = 1 /\ req[c].tool # "malformed" /\ req[c].answered /\ req[c].stopper # "write"
      BY <1>1, <2>1 DEF Sound, Due
    <2> HIDE DEF m
    <2>3. r \in ReqState
      <3>1. m \in 0..2 /\ "finish" \in ReqPcs
        BY <2>2 DEF ReqPcs
      <3> QED
        BY <1>1, <3>1 DEF ReqState
    <2>4. Sound(r) /\ Kept(c, r)
      BY <1>1, <2>1, <2>2 DEF Sound, Due, Kept, ReqState
    <2> QED
      BY <2>1, <2>3, <2>4, OneRequest
  <1>11. CASE Done(c)
    <2> DEFINE r == [req[c] EXCEPT !.listed = FALSE, !.ctx = "done", !.pc = "done"]
    <2>1. req[c].pc = "finish" /\ req' = [req EXCEPT ![c] = r] /\ UNCHANGED link
      BY <1>1, <1>11, DropTypes DEF Done
    <2>2. r \in ReqState
      BY <1>1 DEF ReqState, ReqPcs
    <2>3. Sound(r) /\ Kept(c, r)
      BY <1>1, <2>1 DEF Sound, Due, Kept, ReqState
    <2> QED
      BY <2>1, <2>2, <2>3, OneRequest
  <1> QED
    BY <1>3, <1>4, <1>5, <1>6, <1>7, <1>8, <1>9, <1>10, <1>11 DEF Handler

LEMMA StopKeeps ==
    ASSUME McpInv, NEW c \in Calls, StopCall(c)
    PROVE  McpInv'
  <1>1. req[c] \in ReqState /\ Sound(req[c]) /\ Kept(c, req[c])
    BY DEF McpInv, McpTypeOK, Books
  <1>2. CASE ReadCancel(c)
    <2> DEFINE r == [Drop(req[c]) EXCEPT !.stopper = "answer"]
    <2>1. /\ req[c].listed /\ link[req[c].link] = "open" /\ req[c].stopper = "none"
          /\ req' = [req EXCEPT ![c] = r] /\ UNCHANGED link
      BY <1>2 DEF ReadCancel, Stopping
    <2>2. r \in ReqState /\ Sound(r) /\ ~ r.listed /\ r.ctx = "done" /\ r.link = req[c].link
      BY <1>1, <2>1, StoppedIsSound DEF Sound
    <2>3. Kept(c, r)
      BY <2>1, <2>2 DEF Kept
    <2> QED
      BY <2>1, <2>2, <2>3, OneRequest
  <1>3. CASE AnswerStopped(c)
    <2>1. PICK stopper \in {"write", "none"} :
               /\ req[c].stopper = "answer" /\ UNCHANGED link
               /\ stopper = IF req[c].answered THEN "none" ELSE "write"
               /\ req' = [req EXCEPT ![c] = [req[c] EXCEPT !.answered = TRUE, !.stopper = stopper]]
      BY <1>3 DEF AnswerStopped, Wins
    <2> DEFINE r == [req[c] EXCEPT !.answered = TRUE, !.stopper = stopper]
    <2>2. r \in ReqState
      BY <1>1 DEF ReqState
    <2>3. Sound(r) /\ Kept(c, r)
      BY <1>1, <2>1 DEF Sound, Due, Kept, ReqState
    <2> QED
      BY <2>1, <2>2, <2>3, OneRequest
  <1>4. CASE WriteStopped(c)
    <2> DEFINE m == req[c].replies + 1
               r == [req[c] EXCEPT !.replies = m, !.stopper = "none"]
    <2>1. req[c].stopper = "write" /\ req' = [req EXCEPT ![c] = r] /\ UNCHANGED link
      BY <1>1, <1>4 DEF WriteStopped, Written, ReqState
    <2>2. /\ m = 1 + (IF req[c].tool = "malformed" THEN 1 ELSE 0) /\ m \in 1..2
          /\ req[c].answered /\ req[c].pc # "write"
      BY <1>1, <2>1 DEF Sound, Due
    <2> HIDE DEF m
    <2>3. r \in ReqState
      <3>1. m \in 0..2
        BY <2>2
      <3> QED
        BY <1>1, <3>1 DEF ReqState
    <2>4. Sound(r) /\ Kept(c, r)
      BY <1>1, <2>1, <2>2 DEF Sound, Due, Kept, ReqState
    <2> QED
      BY <2>1, <2>3, <2>4, OneRequest
  <1> QED
    BY <1>2, <1>3, <1>4 DEF StopCall

LEMMA ReaderKeeps ==
    ASSUME McpInv, NEW n \in Links, Serve(n) \/ \E c \in Calls : ReadCall(c, n)
    PROVE  McpInv'
  <1> USE DEF McpInv, McpTypeOK
  <1>1. \A c \in Calls : req[c] \in ReqState /\ Sound(req[c]) /\ Kept(c, req[c])
    BY DEF Books
  <1>2. CASE Accept(n) \/ HangUp(n) \/ LeaveRoom(n)
    <2>1. req' = req
      BY <1>2 DEF Accept, HangUp, LeaveRoom
    <2>2. PICK v \in {"open", "leaving", "cancelling"} :
               /\ link' = [link EXCEPT ![n] = v] /\ link[n] \in {"new", "open", "leaving"}
               /\ (v # "open" => ~ Stopping(n))
      <3>1. LeaveRoom(n) => ~ Stopping(n)
        BY <1>1 DEF LeaveRoom, Stopping, Kept
      <3> QED
        BY <1>2, <3>1 DEF Accept, HangUp, LeaveRoom
    <2>3. Books'
      BY <1>1, <2>1, <2>2 DEF Books, Kept, Stopping
    <2> QED
      BY <2>1, <2>2, <2>3
  <1>3. ASSUME NEW c \in Calls, ReadCall(c, n) PROVE McpInv'
    <2> DEFINE r(b) == [NoReq EXCEPT !.pc = "checks", !.link = n, !.listed = b]
    <2>1. link[n] = "open" /\ UNCHANGED link
      BY <1>3 DEF ReadCall
    <2>2. PICK b \in BOOLEAN : (b <=> c \notin Unnamed) /\ req' = [req EXCEPT ![c] = r(b)]
      <3> WITNESS (c \notin Unnamed) \in BOOLEAN
      <3> QED
        BY <1>3, Zenon DEF ReadCall
    <2>3. r(b) \in ReqState
      <3>1. "checks" \in ReqPcs /\ "other" \in AllTools /\ 0 \in 0..2
        BY DEF ReqPcs, AllTools
      <3> QED
        BY <3>1 DEF NoReq, ReqState
    <2>4. Sound(r(b)) /\ Kept(c, r(b))
      BY <2>1, <2>2 DEF Sound, Due, Kept, NoReq
    <2> QED
      BY <2>1, <2>2, <2>3, <2>4, OneRequest
  <1>4. CASE CancelAll(n)
    <2> DEFINE stopped(d) == [Drop(req[d]) EXCEPT !.stopper = "answer"]
    <2>1. /\ link[n] = "cancelling" /\ link' = [link EXCEPT ![n] = "answering"]
          /\ \A d \in Calls : req'[d] = IF req[d].link = n /\ req[d].listed THEN stopped(d) ELSE req[d]
      BY <1>4 DEF CancelAll
    <2>2. ASSUME NEW d \in Calls, req[d].link = n, req[d].listed
          PROVE  /\ stopped(d) \in ReqState /\ Sound(stopped(d))
                 /\ ~ stopped(d).listed /\ stopped(d).ctx = "done" /\ stopped(d).link = n
      <3>1. req[d].pc # "none" /\ req[d].stopper = "none"
        BY <1>1, <2>1, <2>2 DEF Sound, Kept, ReqState
      <3> QED
        BY <1>1, <2>2, <3>1, StoppedIsSound
    <2>3. req' \in [Calls -> ReqState]
      BY <1>1, <1>4, <2>2 DEF CancelAll
    <2>4. ASSUME NEW d \in Calls PROVE Sound(req'[d]) /\ Kept(d, req[d])'
      <3>1. CASE req[d].link = n /\ req[d].listed
        <4> HIDE DEF stopped
        <4> QED BY <2>1, <2>2, <3>1 DEF Kept
      <3>2. CASE ~ (req[d].link = n /\ req[d].listed)
        <4>1. req'[d] = req[d] /\ req[d] \in ReqState /\ Sound(req[d]) /\ Kept(d, req[d])
          BY <1>1, <2>1, <3>2
        <4>2. Kept(d, req[d])'
          BY <2>1, <3>2, <4>1 DEF Kept
        <4> QED
          BY <4>1, <4>2
      <3> QED
        BY <3>1, <3>2
    <2> QED
      BY <2>1, <2>3, <2>4 DEF Books
  <1>5. CASE Close(n)
    <2>1. req' = req /\ link[n] = "answering" /\ ~ Stopping(n) /\ link' = [link EXCEPT ![n] = "gone"]
      BY <1>5 DEF Close
    <2>2. Books'
      BY <1>1, <2>1 DEF Books, Kept, Stopping
    <2> QED
      BY <2>1, <2>2
  <1> QED
    BY <1>2, <1>3, <1>4, <1>5 DEF Serve

LEMMA McpInductive == McpSpec => []McpInv
  <1>1. McpInit => McpInv
    BY NamesAssumption
       DEF McpInit, McpInv, McpTypeOK, Books, Sound, Due, Kept, NoReq, ReqState, ReqPcs, AllTools
  <1>2. McpInv /\ [McpNext]_mcpAll => McpInv'
    <2> SUFFICES ASSUME McpInv, [McpNext]_mcpAll PROVE McpInv'
      OBVIOUS
    <2>1. CASE People \/ UNCHANGED mcpAll
      BY <2>1 DEF People, mcpAll, mcpVars, McpInv, McpTypeOK, Books, Kept
    <2>2. ASSUME NEW n \in Links, Serve(n) \/ \E c \in Calls : ReadCall(c, n) PROVE McpInv'
      BY <2>2, ReaderKeeps
    <2>3. ASSUME NEW c \in Calls, StopCall(c) PROVE McpInv'
      BY <2>3, StopKeeps
    <2>4. ASSUME NEW c \in Calls, Handler(c) PROVE McpInv'
      BY <2>4, HandlerKeeps
    <2> QED
      BY <2>1, <2>2, <2>3, <2>4 DEF McpNext
  <1> QED
    BY <1>1, <1>2, PTL DEF McpSpec

\* Exactly one response per request whose params decode, at every moment a
\* cancellation, a hang-up or the tool's result can fall (mcp.go, newPendingCall).
THEOREM OneAnswer == McpSpec => []OneAnswerEach
  <1>1. McpInv => OneAnswerEach
    BY DEF McpInv, McpTypeOK, Books, Sound, Due, OneAnswerEach, WellFormed, ReqState
  <1> QED
    BY <1>1, McpInductive, PTL

\* A call that has been stopped has been answered, whatever its tool still does.
THEOREM StoppedAnswered == McpSpec => []StoppedIsAnswered
  <1>1. McpInv => StoppedIsAnswered
    BY DEF McpInv, McpTypeOK, Books, Sound, Due, StoppedIsAnswered, Running, ReqState
  <1> QED
    BY <1>1, McpInductive, PTL

\* A connection that is gone has stopped and answered every call it could name.
THEOREM NothingLeft == McpSpec => []GoneLeavesNothing
  <1>1. McpInv => GoneLeavesNothing
    BY DEF McpInv, McpTypeOK, Books, Sound, Due, Kept, GoneLeavesNothing, ReqState
  <1> QED
    BY <1>1, McpInductive, PTL
=============================================================================
