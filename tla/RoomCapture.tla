---------------------------- MODULE RoomCapture ----------------------------
(***************************************************************************)
(* The room with the capture it owns (room.go: startPipelines,             *)
(* stopPipelines, ReportBitrate; media/pipeline.go).  It adds to Room what *)
(* Join and Leave do after they release the lock: decide under it, start   *)
(* or stop the pipelines without it.  The field Room.videoPipe is read and *)
(* written there with no lock at all, one step per access that another     *)
(* goroutine can get in front of.                                          *)
(*                                                                         *)
(* The audio pipeline is started and stopped next to the video one in the  *)
(* same functions and is not kept apart; keyframe requests leave no state. *)
(***************************************************************************)
EXTENDS Room

CONSTANTS
    MaxPipes,      \* bound: how many pipelines are ever built
    Estimates,     \* network estimates a session may report, in kbps
    VideoKbps,     \* cfg.VideoKbps: what a fresh encoder runs at
    MinVideoKbps   \* cfg.MinVideoKbps: the floor, 0 for none

ASSUME RatesAssumption ==
    /\ MaxPipes \in Nat
    /\ Estimates \subseteq Nat \ {0}
    /\ VideoKbps \in Nat \ {0}
    /\ MinVideoKbps \in 0..VideoKbps

Pipes   == 1..MaxPipes
NoPipe  == 0
NoRate  == 0
Unsent  == [pipe |-> NoPipe, kbps |-> NoRate]
Sends   == [pipe : Pipes, kbps : Estimates \cup {MinVideoKbps}]
NoSends == [s \in Sessions |-> Unsent]

VARIABLES
    videoPipe,   \* Room.videoPipe
    pipe,        \* what each MediaPipeline is doing
    encoder,     \* the bitrate each one's encoder runs at
    job,         \* where the goroutine of each session's Join or Leave is
    bitrates,    \* Room.bitrates, NoRate for no entry
    lastRate,    \* Room.lastRate
    sending,     \* a ReportBitrate between its lock and SetBitrateKbps
    overlapped,  \* history: some start or stop ran into another one
    crossed,     \* history: a report was decided while another was being applied
    tuned        \* history: the pipelines whose encoder was set by a report

captureVars == <<videoPipe, pipe, encoder, job, overlapped>>
rateVars    == <<bitrates, lastRate, sending, crossed, tuned>>
allVars     == <<vars, captureVars, rateVars>>

Jobs == {"idle", "build", "play", "undo", "stop", "clear"}

CaptureTypeOK ==
    /\ videoPipe \in Pipes \cup {NoPipe}
    /\ pipe \in [Pipes -> {"none", "built", "playing", "stopped"}]
    /\ encoder \in [Pipes -> Estimates \cup {VideoKbps, MinVideoKbps}]
    /\ job \in [Sessions -> Jobs]
    /\ bitrates \in [Sessions -> Estimates \cup {NoRate}]
    /\ lastRate \in Estimates \cup {VideoKbps, MinVideoKbps}
    /\ sending \in [Sessions -> Sends \cup {Unsent}]
    /\ overlapped \in BOOLEAN /\ crossed \in BOOLEAN /\ tuned \subseteq Pipes

CaptureInit ==
    /\ Init
    /\ videoPipe = NoPipe
    /\ pipe = [p \in Pipes |-> "none"]
    /\ encoder = [p \in Pipes |-> VideoKbps]
    /\ job = [s \in Sessions |-> "idle"]
    /\ bitrates = [s \in Sessions |-> NoRate]
    /\ lastRate = VideoKbps
    /\ sending = NoSends
    /\ overlapped = FALSE /\ crossed = FALSE /\ tuned = {}

-----------------------------------------------------------------------------
Quiet == \A s \in Sessions : job[s] = "idle"

\* Inside Join: the session has no data channel yet, and Close knows no member.
Joining(s) == job[s] \in {"build", "play", "undo"}

Begin(s, j) ==
    /\ job' = [job EXCEPT ![s] = j]
    /\ overlapped' = (overlapped \/ \E r \in Sessions \ {s} : job[r] # "idle")

Then(s, j) == job' = [job EXCEPT ![s] = j] /\ UNCHANGED overlapped

Forget(gone) == bitrates' = [s \in Sessions |-> IF s \in gone THEN NoRate ELSE bitrates[s]]

\* Join: whether capture has to start is read off the field, under the lock; a
\* later arrival only forces a keyframe.
AdmitViewer(s) ==
    /\ Admit(s)
    /\ Forget(Dead)
    /\ Begin(s, IF videoPipe = NoPipe THEN "build" ELSE "idle")
    /\ UNCHANGED <<videoPipe, pipe, encoder, lastRate, sending, crossed, tuned>>

RefuseViewer(s) ==
    /\ Refuse(s)
    /\ Forget(Dead)
    /\ UNCHANGED <<captureVars, lastRate, sending, crossed, tuned>>

\* Slip: counting heads instead of viewers, so the agent keeps the capture up.
LeaveWithHeadCount(s) ==
    /\ Leave(s)
    /\ Forget(members \cap {s})
    /\ Begin(s, IF s \in members /\ members' = {} THEN "stop" ELSE "idle")
    /\ UNCHANGED <<videoPipe, pipe, encoder, lastRate, sending, crossed, tuned>>

\* Leave: who is last is decided under the lock, the capture stops after it.
LeaveWith(s) ==
    /\ Leave(s)
    /\ Forget(members \cap {s})
    /\ Begin(s, IF s \in members /\ members' \cap Sessions = {} THEN "stop" ELSE "idle")
    /\ UNCHANGED <<videoPipe, pipe, encoder, lastRate, sending, crossed, tuned>>

LeaveViewer(s) == job[s] = "idle" /\ LeaveWith(s)

\* startPipelines: NewMediaPipeline is assigned straight to the field ...
Build(s) ==
    /\ job[s] = "build"
    /\ \E p \in Pipes :
          /\ pipe[p] = "none" /\ \A q \in Pipes : q < p => pipe[q] # "none"
          /\ pipe' = [pipe EXCEPT ![p] = "built"]
          /\ videoPipe' = p
    /\ Then(s, "play")
    /\ UNCHANGED <<vars, encoder, rateVars>>

\* ... nil included, when it cannot be built.
BuildFails(s) ==
    /\ job[s] = "build"
    /\ videoPipe' = NoPipe
    /\ Then(s, "undo")
    /\ UNCHANGED <<vars, pipe, encoder, rateVars>>

\* Start goes to whatever the field holds by now.
Play(s) ==
    /\ job[s] = "play" /\ videoPipe # NoPipe
    /\ pipe' = [pipe EXCEPT ![videoPipe] = "playing"]
    /\ Then(s, "idle")
    /\ UNCHANGED <<vars, videoPipe, encoder, rateVars>>

\* A Start that is refused leaves the field pointing at the dead pipeline.
PlayFails(s) ==
    /\ job[s] = "play" /\ videoPipe # NoPipe
    /\ Then(s, "undo")
    /\ UNCHANGED <<vars, videoPipe, pipe, encoder, rateVars>>

\* The field was cleared in between: a nil dereference in the HTTP handler.
PlayPanics(s) ==
    /\ job[s] = "play" /\ videoPipe = NoPipe
    /\ AbandonSeat(s)
    /\ Then(s, "idle")
    /\ UNCHANGED <<videoPipe, pipe, encoder, rateVars>>

\* Join gives up on a capture that would not start and takes its member out.
Undo(s) == job[s] = "undo" /\ LeaveWith(s)

\* stopPipelines: stop what the field holds ...
Stop(s) ==
    /\ job[s] = "stop"
    /\ pipe' = IF videoPipe = NoPipe THEN pipe ELSE [pipe EXCEPT ![videoPipe] = "stopped"]
    /\ Then(s, IF videoPipe = NoPipe THEN "idle" ELSE "clear")
    /\ UNCHANGED <<vars, videoPipe, encoder, rateVars>>

\* ... which takes its time (each destination gets an EOS and 300 ms), and then
\* clear the field, whatever it holds by then.
Clear(s) ==
    /\ job[s] = "clear"
    /\ videoPipe' = NoPipe
    /\ Then(s, "idle")
    /\ UNCHANGED <<vars, pipe, encoder, rateVars>>

-----------------------------------------------------------------------------
\* Slip: the pace of whoever has room for most.
Fastest(entries) ==
    LET known == {entries[s] : s \in Sessions} \ {NoRate}
        most == CHOOSE k \in known : \A j \in known : k >= j
    IN  IF most < MinVideoKbps THEN MinVideoKbps ELSE most

\* The minimum over every entry of the map, entries of the departed included,
\* raised to the floor.
Slowest(entries) ==
    LET known == {entries[s] : s \in Sessions} \ {NoRate}
        least == CHOOSE k \in known : \A j \in known : k <= j
    IN  IF least < MinVideoKbps THEN MinVideoKbps ELSE least

Apart(a, b) == IF a < b THEN b - a ELSE a - b

\* Hysteresis: under 10% of the last rate is not worth disturbing the encoder.
WorthIt(rate) == Apart(rate, lastRate) * 10 >= lastRate

\* ReportBitrate, under the lock. adaptBitrate calls it only when the estimate
\* moved; it starts at VideoKbps and runs for as long as the session does,
\* whether or not the session is still a member.
Report(s, k) ==
    LET entries == [bitrates EXCEPT ![s] = k]
        rate    == Slowest(entries)
        applies == videoPipe # NoPipe /\ WorthIt(rate)
    IN  /\ sess[s] = "in" /\ ~ Joining(s)
        /\ sending[s] = Unsent
        /\ k # (IF bitrates[s] = NoRate THEN VideoKbps ELSE bitrates[s])
        /\ bitrates' = entries
        /\ lastRate' = IF applies THEN rate ELSE lastRate
        /\ sending' = IF applies
                        THEN [sending EXCEPT ![s] = [pipe |-> videoPipe, kbps |-> rate]]
                        ELSE sending
        /\ crossed' = (crossed \/ sending # NoSends)
        /\ UNCHANGED <<vars, captureVars, tuned>>

\* SetBitrateKbps, on the pipeline that was current at the report.
SetRate(s) ==
    /\ sending[s] # Unsent
    /\ encoder' = [encoder EXCEPT ![sending[s].pipe] = sending[s].kbps]
    /\ sending' = [sending EXCEPT ![s] = Unsent]
    /\ tuned' = tuned \cup {sending[s].pipe}
    /\ UNCHANGED <<vars, videoPipe, pipe, job, overlapped, bitrates, lastRate, crossed>>

-----------------------------------------------------------------------------
\* Everything of Room that touches neither membership nor the capture.
InRoom ==
    /\ \/ AgentStep
       \/ \E c \in Calls : CallStep(c)
       \/ \E s \in Sessions :
             /\ ~ Joining(s)
             /\ \/ Disconnect(s) \/ Reconnect(s)
                \/ TakeControl(s) \/ ReleaseControl(s)
                \/ \E k \in Kinds, p \in Prompts, a \in Answers : PickUp(s, k, p, a)
                \/ Deliver(s)
    /\ UNCHANGED <<captureVars, rateVars>>

CaptureNext ==
    \/ InRoom
    \/ \E s \in Sessions :
          \/ AdmitViewer(s) \/ RefuseViewer(s) \/ LeaveViewer(s)
          \/ Build(s) \/ BuildFails(s) \/ Play(s) \/ PlayFails(s) \/ PlayPanics(s)
          \/ Undo(s) \/ Stop(s) \/ Clear(s)
          \/ SetRate(s)
          \/ \E k \in Estimates : Report(s, k)

CaptureSpec == CaptureInit /\ [][CaptureNext]_allVars

-----------------------------------------------------------------------------
(***************************************************************************)
(* Properties.                                                             *)
(***************************************************************************)

\* Exactly the capture the room needs: somebody watches if and only if the
\* pipeline in the field is running, and no other pipeline is.
CaptureMatches ==
    /\ members \cap Sessions # {} <=> videoPipe # NoPipe
    /\ \A p \in Pipes : pipe[p] = "playing" <=> p = videoPipe

\* The capture runs for exactly as long as somebody watches (room.go:21: "they
\* start when the first person arrives, stop when the last one leaves"), through
\* failed starts, evictions and departures, as long as no arrival or departure
\* lands while an earlier start or stop is still under way.
CaptureFits == Quiet /\ ~ overlapped => CaptureMatches

\* What the encoder may run at for a session that reports so much.
Floored(kbps) == IF kbps < MinVideoKbps THEN MinVideoKbps ELSE kbps

\* No viewer is sent more than it has said it can take, the floor and what the
\* hysteresis forgives apart: the encoder of the running capture is where the
\* room believes it is, and that is not a ninth above the least that is reported.
\* So it is in the room's first capture, and in a later one from the first report
\* that reaches its encoder; as long as no report is decided while another is
\* being applied.
EncoderKeepsPace ==
    /\ videoPipe # NoPipe /\ (videoPipe = 1 \/ videoPipe \in tuned)
    /\ sending = NoSends /\ ~ crossed
    => /\ encoder[videoPipe] = lastRate
       /\ \A s \in Sessions : bitrates[s] # NoRate => encoder[videoPipe] * 9 <= Floored(bitrates[s]) * 10

(***************************************************************************)
(* What the comments say and the code does not do.                         *)
(***************************************************************************)

\* room.go: "they start when the first person arrives, stop when the last one
\* leaves". No matter how arrivals and departures interleave: as an invariant of
\* the run capture it is violated.
CaptureAlwaysMatches == Quiet => CaptureMatches
=============================================================================
