----------------------------- MODULE Microphone -----------------------------
(***************************************************************************)
(* The microphone of a browser, poured into the desktop (internal/media/   *)
(* upstream.go, Session.handleRemoteTrack): one pipeline at a time, with a *)
(* reader goroutine that feeds it until its track ends.                    *)
(*                                                                         *)
(* A track belongs to a session; a session may send several, one after the *)
(* other or, while it renegotiates, side by side.                          *)
(***************************************************************************)
EXTENDS Naturals, FiniteSets

CONSTANTS Sessions, Tracks

Nobody == "nobody"
NoTrack == "none"

ASSUME MicConstants == Nobody \notin Sessions /\ NoTrack \notin Tracks

VARIABLES
    driver,   \* Room.controller
    open,     \* sessions that are not closed
    of,       \* the session a track came from, or Nobody while it has not come
    track,    \* live or ended
    handler,  \* where handleRemoteTrack is with it: none, seen, over
    reader,   \* the goroutine that reads it: off, on, stopping, off again
    audio,    \* Upstream.audio: the track it plays, or NoTrack
    owner,    \* Upstream.owner
    moved     \* history: the controls moved while somebody published

micVars == <<driver, open, of, track, handler, reader, audio, owner, moved>>

\* The controls move in the room.
Move(s) ==
    /\ s \in open \cup {Nobody} /\ driver' = s
    /\ moved' = (moved \/ owner \notin {Nobody, s})
    /\ UNCHANGED <<open, of, track, handler, reader, audio, owner>>

\* OnTrack, and whether the session is at the controls.
SeeTrack(s, t) ==
    /\ s \in open /\ of[t] = Nobody
    /\ of' = [of EXCEPT ![t] = s]
    /\ track' = [track EXCEPT ![t] = "live"]
    /\ handler' = [handler EXCEPT ![t] = IF driver = s THEN "seen" ELSE "over"]
    /\ UNCHANGED <<driver, open, reader, audio, owner, moved>>

\* StartAudio: refused when there is a microphone already; the pipeline may fail
\* to come up. A track that nobody reads stays that way.
StartAudio(t) ==
    /\ handler[t] = "seen"
    /\ handler' = [handler EXCEPT ![t] = "over"]
    /\ \/ /\ audio = NoTrack
          /\ audio' = t /\ owner' = of[t]
          /\ reader' = [reader EXCEPT ![t] = "on"]
       \/ UNCHANGED <<audio, owner, reader>>
    /\ UNCHANGED <<driver, open, of, track, moved>>

\* Upstream.Stop, for whoever publishes.
StopAudio(s) ==
    IF owner # s THEN UNCHANGED <<audio, owner>>
    ELSE audio' = NoTrack /\ owner' = Nobody

\* The track ends, by the browser or with its connection.
EndTrack(t) ==
    /\ track[t] = "live"
    /\ track' = [track EXCEPT ![t] = "ended"]
    /\ UNCHANGED <<driver, open, of, handler, reader, audio, owner, moved>>

\* Slip: a track that ends as the controls have moved on is nobody's to stop.
ReaderStopsDriving(t) ==
    /\ reader[t] = "on" /\ track[t] = "ended"
    /\ reader' = [reader EXCEPT ![t] = "off"]
    /\ IF driver = of[t] THEN StopAudio(of[t]) ELSE UNCHANGED <<audio, owner>>
    /\ UNCHANGED <<driver, open, of, track, handler, moved>>

\* The reader finds out, and stops what its session publishes.
ReaderStops(t) ==
    /\ reader[t] = "on" /\ track[t] = "ended"
    /\ reader' = [reader EXCEPT ![t] = "off"]
    /\ StopAudio(of[t])
    /\ UNCHANGED <<driver, open, of, track, handler, moved>>

\* Session.Close
Close(s) ==
    /\ s \in open
    /\ open' = open \ {s}
    /\ StopAudio(s)
    /\ track' = [t \in Tracks |-> IF of[t] = s THEN "ended" ELSE track[t]]
    /\ driver' = IF driver = s THEN Nobody ELSE driver
    /\ UNCHANGED <<of, handler, reader, moved>>

MicInit ==
    /\ driver = Nobody /\ open = Sessions
    /\ of = [t \in Tracks |-> Nobody]
    /\ track = [t \in Tracks |-> "none"]
    /\ handler = [t \in Tracks |-> "none"]
    /\ reader = [t \in Tracks |-> "off"]
    /\ audio = NoTrack /\ owner = Nobody /\ moved = FALSE

MicNext ==
    \/ \E s \in Sessions \cup {Nobody} : Move(s)
    \/ \E s \in Sessions : Close(s) \/ \E t \in Tracks : SeeTrack(s, t)
    \/ \E t \in Tracks : StartAudio(t) \/ EndTrack(t) \/ ReaderStops(t)

MicSpec == MicInit /\ [][MicNext]_micVars

-----------------------------------------------------------------------------
(***************************************************************************)
(* Properties.                                                             *)
(***************************************************************************)

MicTypeOK ==
    /\ driver \in Sessions \cup {Nobody} /\ open \subseteq Sessions
    /\ of \in [Tracks -> Sessions \cup {Nobody}]
    /\ track \in [Tracks -> {"none", "live", "ended"}]
    /\ handler \in [Tracks -> {"none", "seen", "over"}]
    /\ reader \in [Tracks -> {"off", "on"}]
    /\ audio \in Tracks \cup {NoTrack} /\ owner \in Sessions \cup {Nobody}
    /\ moved \in BOOLEAN

\* As long as a session is there and its track lives, nothing that others do, and
\* no reader of an earlier track of its own, takes the microphone away from it;
\* and what plays has a reader that will give it back, whatever became of its
\* session, so that it is never taken for good.
MicrophoneStays ==
    /\ (audio = NoTrack) = (owner = Nobody)
    /\ \A t \in Tracks : reader[t] = "on" /\ of[t] \in open => audio = t /\ owner = of[t]
    /\ audio # NoTrack => reader[audio] = "on"
=============================================================================
