------------------------------ MODULE Restream ------------------------------
(***************************************************************************)
(* The external destinations of one video pipeline (internal/media/        *)
(* restream.go): branches hung on the tee of a pipeline that keeps         *)
(* playing, the goroutine that forces keyframes for the most demanding of  *)
(* them, and the watchers that read the pipeline's bus for eight seconds   *)
(* each.                                                                   *)
(*                                                                         *)
(* Every StartRestream that gets as far as the tee makes a branch of its   *)
(* own, numbered in the order of their making.  Building one is done with  *)
(* rsMu held, a step for each call into GStreamer that can fail; taking    *)
(* one down is done without it.  What a destination is sent is left out.   *)
(***************************************************************************)
EXTENDS Naturals, Sequences, FiniteSets

CONSTANTS
    Ids,          \* RestreamTarget.ID
    Tags,         \* what may be in the names of elements
    Tag,          \* elementTag: two ids may well come to the same one
    Cadences,     \* the KeyframeSec that callers ask for, 0 for none
    Askers,       \* goroutines that ask the room for a destination
    MaxBranches,  \* bound: branches made
    MaxErrors     \* bound: errors waiting on the bus

ASSUME RestreamConstants ==
    /\ Tag \in [Ids -> Tags]
    /\ Cadences \subseteq Nat /\ 0 \in Cadences
    /\ MaxBranches \in Nat /\ MaxErrors \in Nat

VARIABLES
    stage,      \* of the pipeline: playing, closing, null, and nil once the room let go of it
    restreams,  \* MediaPipeline.restreams: the branch of each id, or None
    made,       \* branches made so far
    target,     \* what each branch was made for
    added,      \* branches whose bin is in the pipeline
    padded,     \* branches that hold a pad of the tee
    linked,     \* branches that the tee pushes into
    building,   \* the branch StartRestream is at work on, with rsMu held
    asked,      \* what each asker is about to start
    undoing,    \* branches a detach is under way for, and how many of them
    closing,    \* the branches StopAllRestreams took
    kfEvery,    \* MediaPipeline.kfEvery
    kfStop,     \* the interval of the goroutine that kfStop would end, 0 for none
    tickers,    \* how many goroutines force keyframes at each interval
    bus,        \* errors on the pipeline's bus: the branch they come from
    watch       \* watchBranch of each branch, and the error it acts on

mapVars == <<restreams, kfEvery, kfStop, tickers>>
treeVars == <<added, padded, linked>>
restreamVars == <<stage, mapVars, made, target, treeVars, building, asked, undoing, closing, bus, watch>>

Branches == 1..MaxBranches
None == 0
Elsewhere == 0  \* an error of the capture itself
Targets == [id : Ids, every : Cadences]
NoTarget == [id |-> "none", every |-> 0]

Free == building = None
Live == {restreams[id] : id \in Ids} \ {None}

-----------------------------------------------------------------------------

\* The intervals the destinations of map f demand.
Demands(f) == {target[f[id]].every : id \in {i \in Ids : f[i] # None}} \ {0}

Least(T) == IF T = {} THEN 0 ELSE CHOOSE k \in T : \A j \in T : k <= j

\* The most demanding destination of map f, 0 when none demands anything.
Wanted(f) == Least(Demands(f))

\* retuneKeyframes, for what the map becomes.
\* Slip: the goroutine that ticks is not told to end.
RetuneAddsOne(f) ==
    LET want == Wanted(f) IN
    /\ restreams' = f
    /\ kfEvery' = want
    /\ kfStop' = want
    /\ tickers' = [k \in Cadences |-> tickers[k] + (IF k = want /\ k # 0 /\ want # kfEvery THEN 1 ELSE 0)]

Retune(f) ==
    LET want == Wanted(f) IN
    /\ restreams' = f
    /\ IF want = kfEvery THEN UNCHANGED <<kfEvery, kfStop, tickers>>
       ELSE /\ kfEvery' = want
            /\ kfStop' = want
            /\ tickers' = [k \in Cadences |-> tickers[k] - (IF k = kfStop /\ k # 0 THEN 1 ELSE 0)
                                                        + (IF k = want /\ k # 0 THEN 1 ELSE 0)]

-----------------------------------------------------------------------------
(***************************************************************************)
(* StartRestream.                                                          *)
(***************************************************************************)

\* Room.StartRestream: the pipeline is read with the room locked, and used after.
Ask(a, t) ==
    /\ asked[a] = NoTarget /\ stage # "nil"
    /\ asked' = [asked EXCEPT ![a] = t]
    /\ UNCHANGED <<stage, mapVars, made, target, treeVars, building, undoing, closing, bus, watch>>

\* No branch comes of it: the encoder's picture is no H.264, there is no id, the
\* address is of no known kind, the id is taken, or the branch has no sink or input.
Refuse(a) ==
    /\ asked[a] # NoTarget /\ Free
    /\ asked' = [asked EXCEPT ![a] = NoTarget]
    /\ UNCHANGED <<stage, mapVars, made, target, treeVars, building, undoing, closing, bus, watch>>

\* rsMu is taken, the branch built, and put into the pipeline.
Add(a) ==
    /\ asked[a] # NoTarget /\ Free /\ made < MaxBranches
    /\ restreams[asked[a].id] = None
    /\ made' = made + 1
    /\ target' = [target EXCEPT ![made'] = asked[a]]
    /\ asked' = [asked EXCEPT ![a] = NoTarget]
    /\ added' = added \cup {made'}
    /\ building' = made'
    /\ UNCHANGED <<stage, mapVars, padded, linked, undoing, closing, bus, watch>>

\* The tee gives out a pad, or it does not and the bin goes again.
RequestPad ==
    /\ building \in added \ padded
    /\ \/ padded' = padded \cup {building} /\ UNCHANGED <<added, building>>
       \/ added' = added \ {building} /\ building' = None /\ UNCHANGED padded
    /\ UNCHANGED <<stage, mapVars, made, target, linked, asked, undoing, closing, bus, watch>>

\* Slip: a link that fails leaves the pad with the tee.
LinkForgetsThePad ==
    /\ building \in padded \ linked /\ undoing[building] = 0
    /\ \/ linked' = linked \cup {building} /\ UNCHANGED <<added, padded, building>>
       \/ /\ added' = added \ {building}
          /\ building' = None /\ UNCHANGED <<linked, padded>>
    /\ UNCHANGED <<stage, mapVars, made, target, asked, undoing, closing, bus, watch>>

Link ==
    /\ building \in padded \ linked /\ undoing[building] = 0
    /\ \/ linked' = linked \cup {building} /\ UNCHANGED <<added, padded, building>>
       \/ /\ added' = added \ {building} /\ padded' = padded \ {building}
          /\ building' = None /\ UNCHANGED linked
    /\ UNCHANGED <<stage, mapVars, made, target, asked, undoing, closing, bus, watch>>

\* The branch starts, is entered and watched; or it does not and is taken down,
\* with rsMu held all the while.
Sync ==
    /\ building \in linked /\ undoing[building] = 0
    /\ LET b == building IN
       \/ /\ Retune([restreams EXCEPT ![target[b].id] = b])
          /\ watch' = [watch EXCEPT ![b].pc = "on"]
          /\ building' = None /\ UNCHANGED undoing
       \/ /\ undoing' = [undoing EXCEPT ![b] = 1]
          /\ UNCHANGED <<mapVars, watch, building>>
    /\ UNCHANGED <<stage, made, target, treeVars, asked, closing, bus>>

-----------------------------------------------------------------------------
(***************************************************************************)
(* StopRestream and detach.                                                *)
(***************************************************************************)

\* StopRestream finds the branch, and nobody else will.
Take(id) ==
    /\ Free /\ restreams[id] # None
    /\ Retune([restreams EXCEPT ![id] = None])
    /\ undoing' = [undoing EXCEPT ![restreams[id]] = @ + 1]

\* Somebody in the room, or an agent, while the room has the pipeline.
StopRestream(id) ==
    /\ stage # "nil"
    /\ Take(id)
    /\ UNCHANGED <<stage, made, target, treeVars, building, asked, closing, bus, watch>>

\* detach: unlinked, then ended, then out of the pipeline, then rid of its pad.
Unlink(b) ==
    /\ undoing[b] > 0 /\ b \in linked
    /\ linked' = linked \ {b}
    /\ UNCHANGED <<stage, mapVars, made, target, added, padded, building, asked, undoing, closing, bus, watch>>

Remove(b) ==
    /\ undoing[b] > 0 /\ b \in added \ linked
    /\ added' = added \ {b}
    /\ UNCHANGED <<stage, mapVars, made, target, padded, linked, building, asked, undoing, closing, bus, watch>>

Release(b) ==
    /\ undoing[b] > 0 /\ b \notin added \cup linked
    /\ padded' = padded \ {b}
    /\ undoing' = [undoing EXCEPT ![b] = @ - 1]
    /\ building' = IF building = b THEN None ELSE building
    /\ closing' = closing \ {b}
    /\ UNCHANGED <<stage, mapVars, made, target, added, linked, asked, bus, watch>>

-----------------------------------------------------------------------------
(***************************************************************************)
(* MediaPipeline.Stop, and the room letting go of the pipeline.            *)
(***************************************************************************)

\* StopAllRestreams
CloseAll ==
    /\ stage = "playing" /\ Free
    /\ stage' = "closing"
    /\ closing' = Live
    /\ Retune([id \in Ids |-> None])
    /\ undoing' = [b \in Branches |-> undoing[b] + (IF b \in Live THEN 1 ELSE 0)]
    /\ UNCHANGED <<made, target, treeVars, building, asked, bus, watch>>

\* The pipeline's state is set to NULL, which empties its bus.
Null ==
    /\ stage = "closing" /\ closing = {}
    /\ stage' = "null"
    /\ bus' = <<>>
    /\ UNCHANGED <<mapVars, made, target, treeVars, building, asked, undoing, closing, watch>>

\* Room.stopPipelines
LetGo ==
    /\ stage = "null"
    /\ stage' = "nil"
    /\ UNCHANGED <<mapVars, made, target, treeVars, building, asked, undoing, closing, bus, watch>>

-----------------------------------------------------------------------------
(***************************************************************************)
(* The bus and its watchers.                                               *)
(***************************************************************************)

\* An element of a branch that is in the pipeline fails, or one of the capture.
Fail(b) ==
    /\ b \in added \cup {Elsewhere} /\ stage \in {"playing", "closing"}
    /\ Len(bus) < MaxErrors
    /\ bus' = Append(bus, b)
    /\ UNCHANGED <<stage, mapVars, made, target, treeVars, building, asked, undoing, closing, watch>>

Says(e, b) == e # Elsewhere /\ Tag[target[e].id] = Tag[target[b].id]

\* watchBranch pops an error: one that bears another name is dropped.
Pop(b) ==
    /\ watch[b].pc = "on" /\ bus # <<>>
    /\ bus' = Tail(bus)
    /\ watch' = IF Says(Head(bus), b) THEN [watch EXCEPT ![b] = [pc |-> "stop", on |-> Head(bus)]]
                ELSE watch
    /\ UNCHANGED <<stage, mapVars, made, target, treeVars, building, asked, undoing, closing>>

\* It stops its id, whichever branch that has by now, and tells the room.
Act(b) ==
    /\ watch[b].pc = "stop" /\ Free
    /\ watch' = [watch EXCEPT ![b].pc = "told"]
    /\ \/ Take(target[b].id)
       \/ restreams[target[b].id] = None /\ UNCHANGED <<mapVars, undoing>>
    /\ UNCHANGED <<stage, made, target, treeVars, building, asked, closing, bus>>

\* The eight seconds are over.
GiveUp(b) ==
    /\ watch[b].pc = "on"
    /\ watch' = [watch EXCEPT ![b].pc = "over"]
    /\ UNCHANGED <<stage, mapVars, made, target, treeVars, building, asked, undoing, closing, bus>>

-----------------------------------------------------------------------------

RestreamInit ==
    /\ stage = "playing"
    /\ restreams = [id \in Ids |-> None] /\ made = 0 /\ target = [b \in Branches |-> NoTarget]
    /\ added = {} /\ padded = {} /\ linked = {}
    /\ building = None /\ asked = [a \in Askers |-> NoTarget]
    /\ undoing = [b \in Branches |-> 0] /\ closing = {}
    /\ kfEvery = 0 /\ kfStop = 0 /\ tickers = [k \in Cadences |-> 0]
    /\ bus = <<>> /\ watch = [b \in Branches |-> [pc |-> "off", on |-> Elsewhere]]

RestreamNext ==
    \/ \E a \in Askers : Refuse(a) \/ Add(a) \/ \E t \in Targets : Ask(a, t)
    \/ RequestPad \/ Link \/ Sync
    \/ \E id \in Ids : StopRestream(id)
    \/ \E b \in Branches : Unlink(b) \/ Remove(b) \/ Release(b)
    \/ CloseAll \/ Null \/ LetGo
    \/ Fail(Elsewhere)
    \/ \E b \in Branches : Fail(b) \/ Pop(b) \/ Act(b) \/ GiveUp(b)

RestreamSpec == RestreamInit /\ [][RestreamNext]_restreamVars

-----------------------------------------------------------------------------
(***************************************************************************)
(* Properties.                                                             *)
(***************************************************************************)

Watches == [pc : {"off", "on", "stop", "told", "over"}, on : Branches \cup {Elsewhere}]

RestreamTypeOK ==
    /\ stage \in {"playing", "closing", "null", "nil"}
    /\ restreams \in [Ids -> Branches \cup {None}]
    /\ made \in 0..MaxBranches /\ target \in [Branches -> Targets \cup {NoTarget}]
    /\ added \subseteq 1..made /\ padded \subseteq 1..made /\ linked \subseteq padded
    /\ building \in 0..made /\ asked \in [Askers -> Targets \cup {NoTarget}]
    /\ undoing \in [Branches -> Nat] /\ closing \subseteq 1..made
    /\ kfEvery \in Cadences /\ kfStop \in Cadences /\ tickers \in [Cadences -> Nat]
    /\ bus \in Seq(Branches \cup {Elsewhere}) /\ watch \in [Branches -> Watches]

\* At whatever point a start fails and whoever stops what: a branch that is
\* listed is connected, and is listed once; one that is neither listed nor
\* being built or taken down has left nothing in the pipeline; and no branch is
\* taken down twice.
NothingLeftBehind ==
    \A b \in Branches :
        /\ b \in Live => b \in added \cap padded \cap linked /\ undoing[b] = 0
        /\ b \notin Live /\ b # building /\ undoing[b] = 0 => b \notin added \cup padded \cup linked
        /\ undoing[b] <= 1
        /\ Cardinality({id \in Ids : restreams[id] = b}) <= 1

\* Keyframes are forced exactly as often as the most demanding destination of
\* the moment needs, by one goroutine, and by none when nothing needs them.
OneCadence ==
    LET asks == {target[b].every : b \in Live} \ {0} IN
    /\ IF asks = {} THEN kfEvery = 0 ELSE kfEvery \in asks /\ \A k \in asks : kfEvery <= k
    /\ tickers = [k \in Cadences |-> IF k = kfEvery /\ k # 0 THEN 1 ELSE 0]

\* "Stopping the wrong stream on somebody else's error would be worse than
\* missing the report" (watchBranch): a watcher stops the branch that failed.
StopsWhatFailed ==
    [][\A b \in Branches :
        watch[b].pc = "stop" /\ watch'[b].pc = "told" =>
            \A v \in Branches : undoing'[v] > undoing[v] => v = watch[b].on]_restreamVars
=============================================================================
