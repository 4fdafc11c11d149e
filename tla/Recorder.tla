------------------------------ MODULE Recorder ------------------------------
(***************************************************************************)
(* The recorder (internal/media/recording.go) with those who use it: the   *)
(* toolbar of each browser session (internal/stream/session.go) and the    *)
(* recording tools of each agent (internal/mcp/tools.go).  An encoder is a *)
(* process of its own; they are numbered in the order of their starting.   *)
(* The file one writes is named by the second it was started in, so two    *)
(* may have one name. A file is as good as what is still writing it: what  *)
(* has been written is not kept.                                           *)
(***************************************************************************)
EXTENDS Naturals

CONSTANTS
    Toolbars,      \* sessions, at the controls when they use the recorder
    Agents,        \* connections that call the tools
    Paths,         \* names of files
    MaxEncoders    \* bound: encoders started

ASSUME RecorderConstants == MaxEncoders \in Nat /\ Toolbars \cap Agents = {}

VARIABLES
    cmd,       \* Recorder.cmd and path, or NoEncoder
    started,   \* encoders started so far
    encoder,   \* the process of each
    reaped,    \* those whose done channel is closed
    path,      \* the name of the file each writes
    user,      \* where each user is, and with which encoder
    recDestination, \* Server.recDestination
    chosen,    \* history: the destination chosen at the start of each recording
    crossed    \* history: two of Stop were at work on one encoder

procVars == <<started, encoder, path>>
recorderVars == <<cmd, procVars, reaped, user, recDestination, chosen, crossed>>

Users == Toolbars \cup Agents
Encoders == 1..MaxEncoders
NoEncoder == 0
NoPath == "unnamed"
NoDestination == ""
Idle == [pc |-> "idle", enc |-> NoEncoder, to |-> NoDestination]
Destinations == {NoDestination, "download"}

AtWork(e) == encoder[e] \in {"running", "asked", "killed"}

Goes(u, pc) == user' = [user EXCEPT ![u].pc = pc]

\* Slip: a recording that is under way is no obstacle.
StartOver(u, to) ==
    /\ user[u] = Idle /\ started < MaxEncoders
    /\ u \in Toolbars => to = NoDestination
    /\ started' = started + 1 /\ cmd' = started'
    /\ encoder' = [encoder EXCEPT ![started'] = "running"]
    /\ \E name \in Paths : path' = [path EXCEPT ![started'] = name]
    /\ chosen' = [chosen EXCEPT ![started'] = to]
    /\ user' = IF u \in Agents THEN [user EXCEPT ![u] = [pc |-> "note", enc |-> started', to |-> to]]
               ELSE user
    /\ UNCHANGED <<reaped, recDestination, crossed>>

\* Start. Everybody leaves the name to it: the second, and the container. The
\* toolbar knows no destination; the tool notes its own afterwards, without a lock.
Start(u, to) ==
    /\ user[u] = Idle /\ started < MaxEncoders
    /\ cmd = NoEncoder
    /\ u \in Toolbars => to = NoDestination
    /\ started' = started + 1 /\ cmd' = started'
    /\ encoder' = [encoder EXCEPT ![started'] = "running"]
    /\ \E name \in Paths : path' = [path EXCEPT ![started'] = name]
    /\ chosen' = [chosen EXCEPT ![started'] = to]
    /\ user' = IF u \in Agents THEN [user EXCEPT ![u] = [pc |-> "note", enc |-> started', to |-> to]]
               ELSE user
    /\ UNCHANGED <<reaped, recDestination, crossed>>

\* toolStartRecording, once Start has returned.
NoteDestination(u) ==
    /\ user[u].pc = "note"
    /\ recDestination' = user[u].to
    /\ user' = [user EXCEPT ![u] = Idle]
    /\ UNCHANGED <<cmd, procVars, reaped, chosen, crossed>>

\* Stop reads who is encoding, and lets go of the lock.
StopReads(u, to) ==
    /\ user[u] = Idle /\ cmd # NoEncoder
    /\ u \in Toolbars => to = NoDestination
    /\ crossed' = (crossed \/ \E v \in Users : user[v].enc = cmd /\ user[v].pc # "note")
    /\ user' = [user EXCEPT ![u] = [pc |-> "signal", enc |-> cmd, to |-> to]]
    /\ UNCHANGED <<cmd, procVars, reaped, recDestination, chosen>>

\* SIGINT: the encoder is to finish its file.
Signal(u) ==
    /\ user[u].pc = "signal"
    /\ encoder' = [encoder EXCEPT ![user[u].enc] = IF @ = "running" THEN "asked" ELSE @]
    /\ Goes(u, "wait")
    /\ UNCHANGED <<cmd, started, path, reaped, recDestination, chosen, crossed>>

\* The encoder ends: as it was asked to, as it was made to, or because it cannot go on.
End(e) ==
    /\ AtWork(e)
    /\ encoder' = [encoder EXCEPT ![e] = "ended"]
    /\ UNCHANGED <<cmd, started, path, reaped, user, recDestination, chosen, crossed>>

\* The goroutine of Start that waits for it.
Reap(e) ==
    /\ encoder[e] = "ended"
    /\ reaped' = reaped \cup {e}
    /\ UNCHANGED <<cmd, procVars, user, recDestination, chosen, crossed>>

\* Ten seconds are over: it is killed, and waited for all the same.
\* Slip: a process that was killed is taken to be gone.
KillAndGo(u) ==
    /\ user[u].pc = "wait" /\ user[u].enc \notin reaped
    /\ encoder' = [encoder EXCEPT ![user[u].enc] = IF @ = "ended" THEN @ ELSE "killed"]
    /\ Goes(u, "clear")
    /\ UNCHANGED <<cmd, started, path, reaped, recDestination, chosen, crossed>>

Kill(u) ==
    /\ user[u].pc = "wait" /\ user[u].enc \notin reaped
    /\ encoder' = [encoder EXCEPT ![user[u].enc] = IF @ = "ended" THEN @ ELSE "killed"]
    /\ Goes(u, "done")
    /\ UNCHANGED <<cmd, started, path, reaped, recDestination, chosen, crossed>>

Done(u) ==
    /\ user[u].pc \in {"wait", "done"} /\ user[u].enc \in reaped
    /\ Goes(u, "clear")
    /\ UNCHANGED <<cmd, procVars, reaped, recDestination, chosen, crossed>>

\* The lock again: nobody is encoding, whoever that was by now.
Clear(u) ==
    /\ user[u].pc = "clear"
    /\ cmd' = NoEncoder
    /\ Goes(u, "report")
    /\ UNCHANGED <<procVars, reaped, recDestination, chosen, crossed>>

\* The path is returned and the file handed over: by handleCapture to those in the
\* room, by toolStopRecording if that was asked for now or at the start.
Report(u) ==
    /\ user[u].pc = "report"
    /\ user' = [user EXCEPT ![u] = Idle]
    /\ recDestination' = IF u \in Agents THEN NoDestination ELSE recDestination
    /\ UNCHANGED <<cmd, procVars, reaped, chosen, crossed>>

RecorderInit ==
    /\ cmd = NoEncoder /\ started = 0
    /\ encoder = [e \in Encoders |-> "none"] /\ path = [e \in Encoders |-> NoPath]
    /\ reaped = {} /\ user = [u \in Users |-> Idle]
    /\ recDestination = NoDestination /\ chosen = [e \in Encoders |-> NoDestination]
    /\ crossed = FALSE

RecorderNext ==
    \/ \E u \in Users :
        \/ \E to \in Destinations : Start(u, to) \/ StopReads(u, to)
        \/ NoteDestination(u) \/ Signal(u) \/ Kill(u) \/ Done(u) \/ Clear(u) \/ Report(u)
    \/ \E e \in Encoders : End(e) \/ Reap(e)

RecorderSpec == RecorderInit /\ [][RecorderNext]_recorderVars

-----------------------------------------------------------------------------
(***************************************************************************)
(* Properties.                                                             *)
(***************************************************************************)

RecorderTypeOK ==
    /\ cmd \in 0..started /\ started \in 0..MaxEncoders
    /\ encoder \in [Encoders -> {"none", "running", "asked", "killed", "ended"}]
    /\ path \in [Encoders -> Paths \cup {NoPath}]
    /\ reaped \subseteq {e \in Encoders : encoder[e] = "ended"}
    /\ user \in [Users -> [pc : {"idle", "note", "signal", "wait", "done", "clear", "report"},
                           enc : 0..MaxEncoders, to : Destinations]]
    /\ recDestination \in Destinations /\ chosen \in [Encoders -> Destinations]
    /\ crossed \in BOOLEAN

\* "One recording at a time" (Session.recorder), as long as no two stop the same
\* one: an encoder that is at work is the one the recorder has, so the next stop
\* finds it and a start is refused.
OneRecording ==
    ~ crossed => \A e \in Encoders : AtWork(e) => e = cmd

\* What a stop hands over is not being written any more by the encoder that was
\* stopped, nor, as long as no two stop the same one, by any earlier one; and
\* while the recorder is not free again, by nobody.  Afterwards a recording that
\* is started in the second the handed over one was has its name, and writes it
\* again from the start.
HandsOverClosedFiles ==
    \A u \in Users, e \in Encoders :
        user[u].pc \in {"clear", "report"} /\ AtWork(e) /\ path[e] = path[user[u].enc] =>
            /\ e # user[u].enc
            /\ ~ crossed => e > user[u].enc /\ user[u].pc = "report"

(***************************************************************************)
(* What the comments say and the code does not do.                         *)
(***************************************************************************)

\* recording.go: a Stop that did not wait "reports a file that gst was still
\* writing the index into". Two recordings of one second and one container have
\* one name, so waiting is not enough: as an invariant of the run media it is
\* violated by a start between the second lock and the delivery.
NeverReportsAnOpenFile ==
    \A u \in Users, e \in Encoders :
        user[u].pc = "report" /\ AtWork(e) => path[e] # path[user[u].enc]
=============================================================================
