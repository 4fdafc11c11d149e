---------------------------- MODULE MediaProofs ----------------------------
(***************************************************************************)
(* Proofs about the microphone, the recorder and the external              *)
(* destinations, for any number of sessions, tracks, users, encoders and   *)
(* branches.                                                               *)
(***************************************************************************)
EXTENDS Microphone, Recorder, Restream, FiniteSetTheorems, SequenceTheorems,
        WellFoundedInduction, TLAPS

-----------------------------------------------------------------------------
(***************************************************************************)
(* The microphone.                                                         *)
(***************************************************************************)

\* What plays is what its owner sent, and who has a reader has come.
MicBooks ==
    /\ audio # NoTrack => owner = of[audio]
    /\ \A t \in Tracks : handler[t] = "seen" \/ reader[t] = "on" => of[t] # Nobody

MicInv == MicTypeOK /\ MicBooks /\ MicrophoneStays

LEMMA MicStart == MicInit => MicInv
  BY MicConstants DEF MicInit, MicInv, MicTypeOK, MicBooks, MicrophoneStays

LEMMA MicStep == MicInv /\ [MicNext]_micVars => MicInv'
  <1> SUFFICES ASSUME MicInv, [MicNext]_micVars PROVE MicInv'
    OBVIOUS
  <1> USE MicConstants DEF MicInv, MicTypeOK, MicBooks, MicrophoneStays
  <1>1. ASSUME NEW s \in Sessions \cup {Nobody}, Move(s) PROVE MicInv'
    BY <1>1 DEF Move
  <1>2. ASSUME NEW s \in Sessions, Close(s) PROVE MicInv'
    BY <1>2 DEF Close, StopAudio
  <1>3. ASSUME NEW s \in Sessions, NEW t \in Tracks, SeeTrack(s, t) PROVE MicInv'
    BY <1>3 DEF SeeTrack
  <1>4. ASSUME NEW t \in Tracks, StartAudio(t) PROVE MicInv'
    BY <1>4 DEF StartAudio
  <1>5. ASSUME NEW t \in Tracks, EndTrack(t) PROVE MicInv'
    BY <1>5 DEF EndTrack
  <1>6. ASSUME NEW t \in Tracks, ReaderStops(t) PROVE MicInv'
    BY <1>6 DEF ReaderStops, StopAudio
  <1>7. CASE UNCHANGED micVars
    BY <1>7 DEF micVars
  <1> QED
    BY <1>1, <1>2, <1>3, <1>4, <1>5, <1>6, <1>7 DEF MicNext

\* handleRemoteTrack, Upstream, Session.Close: a session that is there keeps its
\* microphone for as long as its track lives, and what plays has a reader that
\* gives it back.
THEOREM MicrophoneIsSafe == MicSpec => []MicTypeOK /\ []MicrophoneStays
  <1>1. MicInv => MicTypeOK /\ MicrophoneStays
    BY DEF MicInv
  <1> QED
    BY MicStart, MicStep, <1>1, PTL DEF MicSpec
-----------------------------------------------------------------------------
(***************************************************************************)
(* The recorder.                                                           *)
(***************************************************************************)

\* Between reading who encodes and clearing the field.
Stopping(u) == user[u].pc \in {"signal", "wait", "done", "clear"}

\* Encoders are numbered.
EncodersNumbered == \A e \in Encoders : encoder[e] = "none" <=> e > started

\* What is being stopped was started, and whoever goes on from waiting has
\* waited for the end.
StopsKnowTheirs ==
    \A u \in Users :
        /\ Stopping(u) \/ user[u].pc = "report" => user[u].enc \in 1..started
        /\ user[u].pc \in {"clear", "report"} => user[u].enc \in reaped

\* Unless two have crossed, at most one is stopping, and what the recorder has.
OneStops ==
    ~ crossed => \A u \in Users : Stopping(u) =>
        user[u].enc = cmd /\ \A v \in Users : Stopping(v) => v = u

\* Whoever has stopped is handing over something older than what is recorded now.
ReportsAreOld ==
    ~ crossed => \A u \in Users : user[u].pc = "report" => cmd = NoEncoder \/ cmd > user[u].enc

RecorderBooks == EncodersNumbered /\ StopsKnowTheirs /\ OneStops /\ ReportsAreOld

RecorderInv == RecorderTypeOK /\ RecorderBooks /\ OneRecording

UserState == [pc : {"idle", "note", "signal", "wait", "done", "clear", "report"},
              enc : 0..MaxEncoders, to : Destinations]

LEMMA RecorderStarts == RecorderInit => RecorderInv
  <1> SUFFICES ASSUME RecorderInit PROVE RecorderInv
    OBVIOUS
  <1> USE RecorderConstants DEF RecorderInit, Idle, NoEncoder, Encoders, Destinations
  <1>1. RecorderTypeOK
    <2>1. Idle \in UserState
      BY DEF UserState
    <2>2. user \in [Users -> UserState]
      BY <2>1
    <2>3. cmd \in 0..started /\ started \in 0..MaxEncoders
      OBVIOUS
    <2>4. /\ encoder \in [Encoders -> {"none", "running", "asked", "killed", "ended"}]
          /\ path \in [Encoders -> Paths \cup {NoPath}]
          /\ reaped \subseteq {e \in Encoders : encoder[e] = "ended"}
      OBVIOUS
    <2>5. recDestination \in Destinations /\ chosen \in [Encoders -> Destinations] /\ crossed \in BOOLEAN
      OBVIOUS
    <2> QED
      BY <2>2, <2>3, <2>4, <2>5 DEF RecorderTypeOK, UserState
  <1>2. RecorderBooks
    BY DEF RecorderBooks, EncodersNumbered, StopsKnowTheirs, OneStops, ReportsAreOld, Stopping
  <1>3. OneRecording
    BY DEF OneRecording, AtWork
  <1> QED
    BY <1>1, <1>2, <1>3 DEF RecorderInv

\* A user that goes on keeps its encoder, and nobody else is touched.
LEMMA UserGoes ==
    ASSUME RecorderTypeOK, NEW u \in Users,
           NEW pc \in {"idle", "note", "signal", "wait", "done", "clear", "report"}, Goes(u, pc)
    PROVE  /\ user' \in [Users -> UserState]
           /\ user'[u].pc = pc /\ user'[u].enc = user[u].enc
           /\ \A v \in Users : v # u => user'[v] = user[v]
  BY DEF RecorderTypeOK, Goes, UserState

\* A user is given a new state, and nobody else is touched.
LEMMA UserSet ==
    ASSUME RecorderTypeOK, NEW u \in Users, NEW k \in UserState, user' = [user EXCEPT ![u] = k]
    PROVE  /\ user' \in [Users -> UserState] /\ user'[u] = k
           /\ \A v \in Users : v # u => user'[v] = user[v]
  BY DEF RecorderTypeOK, UserState

LEMMA RecorderStep == RecorderInv /\ [RecorderNext]_recorderVars => RecorderInv'
  <1> SUFFICES ASSUME RecorderInv, [RecorderNext]_recorderVars PROVE RecorderInv'
    OBVIOUS
  <1> USE RecorderConstants DEF RecorderInv, Encoders, NoEncoder, RecorderBooks
  <1>0. Idle \in UserState /\ Idle.pc = "idle" /\ user \in [Users -> UserState]
    BY DEF Idle, UserState, Destinations, RecorderTypeOK
  <1>1. ASSUME NEW u \in Users, NEW to \in Destinations, Start(u, to) PROVE RecorderInv'
    <2> DEFINE k == [pc |-> "note", enc |-> started', to |-> to]
    <2>1. started' \in 1..MaxEncoders /\ cmd' = started' /\ started' = started + 1
      BY <1>1 DEF Start, RecorderTypeOK
    <2>2. k \in UserState
      BY <2>1 DEF UserState
    <2>3. /\ user' \in [Users -> UserState]
          /\ \A v \in Users : user'[v] = user[v] \/ user'[v].pc = "note"
      BY <1>1, <1>0, <2>2, UserSet DEF Start
    <2>4. RecorderTypeOK'
      BY <1>1, <2>1, <2>3 DEF Start, RecorderTypeOK, EncodersNumbered, UserState
    <2>5. RecorderBooks'
      <3>1. EncodersNumbered'
        BY <1>1, <2>1, <2>3 DEF Start, RecorderTypeOK, EncodersNumbered
      <3>2. StopsKnowTheirs'
        BY <1>1, <2>1, <2>3 DEF Start, RecorderTypeOK, StopsKnowTheirs, Stopping
      <3>3. OneStops'
        BY <1>1, <2>1, <2>3 DEF Start, OneStops, StopsKnowTheirs, Stopping
      <3>4. ReportsAreOld'
        BY <1>1, <2>1, <2>3 DEF Start, ReportsAreOld, StopsKnowTheirs, Stopping, RecorderTypeOK
      <3> QED
        BY <3>1, <3>2, <3>3, <3>4
    <2>6. OneRecording'
      BY <1>1, <2>1 DEF Start, OneRecording, RecorderTypeOK, AtWork
    <2> QED
      BY <2>4, <2>5, <2>6
  <1>2. ASSUME NEW u \in Users, NEW to \in Destinations, StopReads(u, to) PROVE RecorderInv'
    <2> DEFINE k == [pc |-> "signal", enc |-> cmd, to |-> to]
    <2>1. k \in UserState
      BY <1>2 DEF UserState, RecorderTypeOK
    <2>2. /\ user' \in [Users -> UserState] /\ user'[u] = k
          /\ \A v \in Users : v # u => user'[v] = user[v]
      BY <1>2, <2>1, UserSet DEF StopReads
    <2>3. RecorderTypeOK'
      BY <1>2, <2>2 DEF StopReads, procVars, RecorderTypeOK, UserState
    <2>4. RecorderBooks'
      <3>1. EncodersNumbered'
        BY <1>2, <1>0, <2>2 DEF StopReads, procVars, RecorderTypeOK, EncodersNumbered
      <3>2. StopsKnowTheirs'
        BY <1>2, <1>0, <2>2 DEF StopReads, procVars, RecorderTypeOK, StopsKnowTheirs, Stopping
      <3>3. OneStops'
        BY <1>2, <1>0, <2>2 DEF StopReads, procVars, OneStops, Stopping
      <3>4. ReportsAreOld'
        BY <1>2, <1>0, <2>2 DEF StopReads, procVars, ReportsAreOld, StopsKnowTheirs, Stopping, RecorderTypeOK
      <3> QED
        BY <3>1, <3>2, <3>3, <3>4
    <2>5. OneRecording'
      BY <1>2 DEF StopReads, procVars, OneRecording, AtWork
    <2> QED
      BY <2>3, <2>4, <2>5
  <1>3. ASSUME NEW u \in Users, NoteDestination(u) \/ Report(u) PROVE RecorderInv'
    <2>1. /\ user' \in [Users -> UserState] /\ user'[u] = Idle
          /\ \A v \in Users : v # u => user'[v] = user[v]
      BY <1>3, <1>0, UserSet DEF NoteDestination, Report
    <2>2. RecorderTypeOK'
      BY <1>3, <1>0, <2>1 DEF NoteDestination, Report, procVars, RecorderTypeOK, UserState, Destinations
    <2>3. RecorderBooks'
      <3>1. EncodersNumbered'
        BY <1>3, <1>0, <2>1 DEF NoteDestination, Report, procVars, RecorderTypeOK, EncodersNumbered
      <3>2. StopsKnowTheirs'
        BY <1>3, <1>0, <2>1 DEF NoteDestination, Report, procVars, RecorderTypeOK, StopsKnowTheirs, Stopping
      <3>3. OneStops'
        BY <1>3, <1>0, <2>1 DEF NoteDestination, Report, procVars, OneStops, Stopping
      <3>4. ReportsAreOld'
        BY <1>3, <1>0, <2>1 DEF NoteDestination, Report, procVars, ReportsAreOld, StopsKnowTheirs, Stopping, RecorderTypeOK
      <3> QED
        BY <3>1, <3>2, <3>3, <3>4
    <2>4. OneRecording'
      BY <1>3 DEF NoteDestination, Report, procVars, OneRecording, AtWork
    <2> QED
      BY <2>2, <2>3, <2>4
  <1>4. ASSUME NEW u \in Users, Signal(u) PROVE RecorderInv'
    <2>1. /\ user' \in [Users -> UserState] /\ user'[u].pc = "wait" /\ user'[u].enc = user[u].enc
          /\ \A v \in Users : v # u => user'[v] = user[v]
      BY <1>4, UserGoes DEF Signal
    <2>2. RecorderTypeOK'
      BY <1>4, <2>1 DEF Signal, RecorderTypeOK, UserState
    <2>3. RecorderBooks'
      <3>1. EncodersNumbered'
        BY <1>4, <2>1 DEF Signal, RecorderTypeOK, EncodersNumbered
      <3>2. StopsKnowTheirs'
        BY <1>4, <2>1 DEF Signal, RecorderTypeOK, StopsKnowTheirs, Stopping
      <3>3. OneStops'
        BY <1>4, <2>1 DEF Signal, OneStops, Stopping
      <3>4. ReportsAreOld'
        BY <1>4, <2>1 DEF Signal, ReportsAreOld, StopsKnowTheirs, Stopping, RecorderTypeOK
      <3> QED
        BY <3>1, <3>2, <3>3, <3>4
    <2>4. OneRecording'
      BY <1>4 DEF Signal, OneRecording, RecorderTypeOK, AtWork
    <2> QED
      BY <2>2, <2>3, <2>4
  <1>5. ASSUME NEW u \in Users, Kill(u) PROVE RecorderInv'
    <2>1. /\ user' \in [Users -> UserState] /\ user'[u].pc = "done" /\ user'[u].enc = user[u].enc
          /\ \A v \in Users : v # u => user'[v] = user[v]
      BY <1>5, UserGoes DEF Kill
    <2>2. user[u].enc \in Encoders /\ encoder[user[u].enc] # "none"
      <3>1. user[u].enc \in 1..started
        BY <1>5 DEF Kill, StopsKnowTheirs, Stopping
      <3> QED
        BY <3>1 DEF EncodersNumbered, RecorderTypeOK
    <2>3. RecorderTypeOK'
      BY <1>5, <2>1, <2>2 DEF Kill, RecorderTypeOK, UserState
    <2>4. RecorderBooks'
      <3>1. EncodersNumbered'
        BY <1>5, <2>1, <2>2 DEF Kill, RecorderTypeOK, EncodersNumbered
      <3>2. StopsKnowTheirs'
        BY <1>5, <2>1, <2>2 DEF Kill, RecorderTypeOK, StopsKnowTheirs, Stopping
      <3>3. OneStops'
        BY <1>5, <2>1, <2>2 DEF Kill, OneStops, Stopping
      <3>4. ReportsAreOld'
        BY <1>5, <2>1, <2>2 DEF Kill, ReportsAreOld, StopsKnowTheirs, Stopping, RecorderTypeOK
      <3> QED
        BY <3>1, <3>2, <3>3, <3>4
    <2>5. OneRecording'
      BY <1>5, <2>2 DEF Kill, OneRecording, RecorderTypeOK, AtWork
    <2> QED
      BY <2>3, <2>4, <2>5
  <1>6. ASSUME NEW u \in Users, Done(u) PROVE RecorderInv'
    <2>1. /\ user' \in [Users -> UserState] /\ user'[u].pc = "clear" /\ user'[u].enc = user[u].enc
          /\ \A v \in Users : v # u => user'[v] = user[v]
      BY <1>6, UserGoes DEF Done
    <2>2. RecorderTypeOK'
      BY <1>6, <2>1 DEF Done, procVars, RecorderTypeOK, UserState
    <2>3. RecorderBooks'
      <3>1. EncodersNumbered'
        BY <1>6, <2>1 DEF Done, procVars, RecorderTypeOK, EncodersNumbered
      <3>2. StopsKnowTheirs'
        BY <1>6, <2>1 DEF Done, procVars, RecorderTypeOK, StopsKnowTheirs, Stopping
      <3>3. OneStops'
        BY <1>6, <2>1 DEF Done, procVars, OneStops, Stopping
      <3>4. ReportsAreOld'
        BY <1>6, <2>1 DEF Done, procVars, ReportsAreOld, StopsKnowTheirs, Stopping, RecorderTypeOK
      <3> QED
        BY <3>1, <3>2, <3>3, <3>4
    <2>4. OneRecording'
      BY <1>6 DEF Done, procVars, OneRecording, AtWork
    <2> QED
      BY <2>2, <2>3, <2>4
  <1>7. ASSUME NEW u \in Users, Clear(u) PROVE RecorderInv'
    <2>1. /\ user' \in [Users -> UserState] /\ user'[u].pc = "report" /\ user'[u].enc = user[u].enc
          /\ \A v \in Users : v # u => user'[v] = user[v]
      BY <1>7, UserGoes DEF Clear
    <2>2. RecorderTypeOK'
      BY <1>7, <2>1 DEF Clear, procVars, RecorderTypeOK, UserState
    <2>3. RecorderBooks'
      <3>1. EncodersNumbered'
        BY <1>7, <2>1 DEF Clear, procVars, RecorderTypeOK, EncodersNumbered
      <3>2. StopsKnowTheirs'
        BY <1>7, <2>1 DEF Clear, procVars, RecorderTypeOK, StopsKnowTheirs, Stopping
      <3>3. OneStops'
        BY <1>7, <2>1 DEF Clear, procVars, OneStops, Stopping
      <3>4. ReportsAreOld'
        BY <1>7, <2>1 DEF Clear, procVars, ReportsAreOld, StopsKnowTheirs, Stopping, RecorderTypeOK
      <3> QED
        BY <3>1, <3>2, <3>3, <3>4
    <2>4. ~ crossed => encoder[cmd] = "ended"
      BY <1>7 DEF Clear, OneStops, StopsKnowTheirs, RecorderTypeOK, Stopping
    <2>5. OneRecording'
      BY <1>7, <2>4 DEF Clear, procVars, OneRecording, AtWork
    <2> QED
      BY <2>2, <2>3, <2>5
  <1>8. ASSUME NEW e \in Encoders, End(e) PROVE RecorderInv'
    <2>1. RecorderTypeOK'
      BY <1>8 DEF End, AtWork, RecorderTypeOK
    <2>2. RecorderBooks'
      <3>1. EncodersNumbered'
        BY <1>8 DEF End, AtWork, RecorderTypeOK, EncodersNumbered
      <3>2. StopsKnowTheirs'
        BY <1>8 DEF End, RecorderTypeOK, StopsKnowTheirs, Stopping
      <3>3. OneStops'
        BY <1>8 DEF End, OneStops, Stopping
      <3>4. ReportsAreOld'
        BY <1>8 DEF End, ReportsAreOld, StopsKnowTheirs, Stopping, RecorderTypeOK
      <3> QED
        BY <3>1, <3>2, <3>3, <3>4
    <2>3. OneRecording'
      BY <1>8 DEF End, OneRecording, RecorderTypeOK, AtWork
    <2> QED
      BY <2>1, <2>2, <2>3
  <1>9. ASSUME NEW e \in Encoders, Reap(e) PROVE RecorderInv'
    BY <1>9 DEF Reap, procVars, RecorderTypeOK, EncodersNumbered, StopsKnowTheirs, OneStops,
       ReportsAreOld, OneRecording, Stopping, AtWork
  <1>10. CASE UNCHANGED recorderVars
    BY <1>10 DEF recorderVars, procVars, RecorderTypeOK, EncodersNumbered, StopsKnowTheirs, OneStops,
       ReportsAreOld, OneRecording, Stopping, AtWork
  <1> QED
    BY <1>1, <1>2, <1>3, <1>4, <1>5, <1>6, <1>7, <1>8, <1>9, <1>10 DEF RecorderNext

\* Recorder.Start, Recorder.Stop: one recording at a time, unless two stop the
\* same one, and nobody is handed a file that is still being written, but by a
\* later recording of the same name.
THEOREM RecordingIsSafe ==
    RecorderSpec => []RecorderTypeOK /\ []OneRecording /\ []HandsOverClosedFiles
  <1>1. ASSUME RecorderInv, NEW u \in Users, user[u].pc \in {"clear", "report"}, NEW e \in Encoders, AtWork(e)
        PROVE  e # user[u].enc /\ (~ crossed => e > user[u].enc /\ user[u].pc = "report")
    <2>1. user[u].enc \in Encoders /\ encoder[user[u].enc] = "ended"
      BY <1>1 DEF RecorderInv, RecorderBooks, StopsKnowTheirs, RecorderTypeOK
    <2>2. e # user[u].enc
      BY <1>1, <2>1 DEF AtWork
    <2>3. ASSUME ~ crossed PROVE e > user[u].enc /\ user[u].pc = "report"
      <3>1. e = cmd /\ e # NoEncoder
        BY <1>1, <2>3 DEF RecorderInv, OneRecording, Encoders, NoEncoder
      <3>2. user[u].pc # "clear"
        BY <1>1, <2>2, <2>3, <3>1 DEF RecorderInv, RecorderBooks, OneStops, Stopping
      <3> QED
        BY <1>1, <2>3, <3>1, <3>2 DEF RecorderInv, RecorderBooks, ReportsAreOld
    <2> QED
      BY <2>2, <2>3
  <1>2. RecorderInv => RecorderTypeOK /\ OneRecording /\ HandsOverClosedFiles
    BY <1>1 DEF RecorderInv, HandsOverClosedFiles
  <1> QED
    BY RecorderStarts, RecorderStep, <1>2, PTL DEF RecorderSpec

\* stop_recording: what is handed over is written by nobody, but by a recording
\* started since under the same name.
THEOREM FilesAreClosed == RecorderSpec => []HandsOverClosedFiles
  BY RecordingIsSafe, PTL

-----------------------------------------------------------------------------
(***************************************************************************)
(* The external destinations.                                              *)
(***************************************************************************)

\* Where a branch can be: listed and connected, being built, being taken down
\* once, or gone without a trace; and one that was not made yet is nowhere.
BranchesStand ==
    \A b \in Branches :
        /\ b \in Live => b \in added \cap padded \cap linked /\ undoing[b] = 0 /\ b # building
        /\ b = building /\ undoing[b] = 0 => b \in added
        /\ b \notin Live /\ b # building /\ undoing[b] = 0 => b \notin added \cup padded \cup linked
        /\ undoing[b] <= 1
        /\ b \notin 1..made => b \notin Live /\ b # building /\ undoing[b] = 0

\* A listed branch was made for the id it is listed under, a branch is only
\* built for an id that is free, and whoever watches was made.
MapFits ==
    /\ \A id \in Ids : restreams[id] # None => restreams[id] \in 1..made /\ target[restreams[id]].id = id
    /\ building # None => restreams[target[building].id] = None
    /\ \A b \in 1..made : target[b] \in Targets
    /\ \A b \in Branches : watch[b].pc # "off" => b \in 1..made

\* The goroutine that ticks is the one kfStop would end, at the interval wanted.
TickerFits ==
    /\ kfStop = kfEvery /\ kfEvery = Wanted(restreams)
    /\ tickers = [k \in Cadences |-> IF k = kfEvery /\ k # 0 THEN 1 ELSE 0]

RestreamInv == RestreamTypeOK /\ BranchesStand /\ MapFits /\ TickerFits

\* Every set of intervals has a least one.
LEMMA LeastInterval ==
    ASSUME NEW T \in SUBSET Nat, T # {}
    PROVE  \E n \in T : \A m \in T : n <= m
  <1> DEFINE R == {ss \in Nat \X Nat : ss[1] < ss[2]}
  <1>1. IsWellFoundedOn(R, Nat)
    BY NatLessThanWellFounded DEF OpToRel
  <1>2. PICK n \in T : \A m \in T : ~ (<<m, n>> \in R)
    BY <1>1, WFMin
  <1>3. \A m \in T : ~ (m < n)
    BY <1>2
  <1> QED
    BY <1>2, <1>3

\* What retuneKeyframes wants is the least of what is asked for, or nothing.
LEMMA WantedIsLeast ==
    ASSUME NEW f \in [Ids -> Branches \cup {None}],
           \A id \in Ids : f[id] # None => target[f[id]] \in Targets
    PROVE  /\ Demands(f) = {} => Wanted(f) = 0
           /\ Demands(f) # {} => Wanted(f) \in Demands(f) /\ \A k \in Demands(f) : Wanted(f) <= k
           /\ Wanted(f) \in Cadences
  <1>1. Demands(f) \subseteq Cadences /\ Cadences \subseteq Nat /\ 0 \in Cadences
    BY RestreamConstants DEF Targets, Demands
  <1>2. CASE Demands(f) = {}
    BY <1>1, <1>2 DEF Wanted, Least
  <1>3. CASE Demands(f) # {}
    <2>1. \E k \in Demands(f) : \A j \in Demands(f) : k <= j
      BY <1>1, <1>3, LeastInterval
    <2> QED
      BY <1>1, <1>3, <2>1 DEF Wanted, Least
  <1> QED
    BY <1>2, <1>3

\* Whatever the map becomes, the ticker follows.
LEMMA RetuneFits ==
    ASSUME RestreamInv, NEW f \in [Ids -> Branches \cup {None}], Retune(f), UNCHANGED target,
           \A id \in Ids : f[id] # None => target[f[id]] \in Targets
    PROVE  /\ restreams' = f /\ TickerFits'
           /\ kfEvery' \in Cadences /\ kfStop' \in Cadences /\ tickers' \in [Cadences -> Nat]
  <1>1. Wanted(f) \in Cadences
    BY WantedIsLeast
  <1>2. restreams' = f /\ kfEvery' = Wanted(f) /\ kfStop' = Wanted(f)
    BY DEF Retune, RestreamInv, TickerFits
  <1>3. Wanted(restreams)' = Wanted(f)
    BY <1>2 DEF Wanted, Demands
  <1>4. tickers' = [k \in Cadences |-> IF k = Wanted(f) /\ k # 0 THEN 1 ELSE 0]
    <2>1. CASE Wanted(f) = kfEvery
      BY <2>1 DEF Retune, RestreamInv, TickerFits
    <2>2. CASE Wanted(f) # kfEvery
      <3>1. tickers' = [k \in Cadences |-> tickers[k] - (IF k = kfStop /\ k # 0 THEN 1 ELSE 0)
                                                     + (IF k = Wanted(f) /\ k # 0 THEN 1 ELSE 0)]
        BY <2>2 DEF Retune
      <3>2. \A k \in Cadences : tickers[k] = IF k = kfEvery /\ k # 0 THEN 1 ELSE 0
        BY DEF RestreamInv, TickerFits
      <3>3. kfStop = kfEvery
        BY DEF RestreamInv, TickerFits
      <3>4. \A k \in Cadences : (tickers[k] - (IF k = kfStop /\ k # 0 THEN 1 ELSE 0)
                                    + (IF k = Wanted(f) /\ k # 0 THEN 1 ELSE 0))
                                  = IF k = Wanted(f) /\ k # 0 THEN 1 ELSE 0
        BY <2>2, <3>2, <3>3
      <3> QED
        BY <3>1, <3>4
    <2> QED
      BY <2>1, <2>2
  <1> QED
    BY <1>1, <1>2, <1>3, <1>4 DEF TickerFits

LEMMA RestreamStart == RestreamInit => RestreamInv
  <1> SUFFICES ASSUME RestreamInit PROVE RestreamInv
    OBVIOUS
  <1> USE RestreamConstants DEF RestreamInit, None, Branches
  <1>1. RestreamTypeOK
    BY DEF RestreamTypeOK, Watches, Elsewhere
  <1>2. BranchesStand
    BY DEF BranchesStand, Live
  <1>3. MapFits
    BY DEF MapFits
  <1>4. TickerFits
    <2>1. Wanted(restreams) = 0
      BY DEF Wanted, Demands, Least
    <2> QED
      BY <2>1 DEF TickerFits
  <1> QED
    BY <1>1, <1>2, <1>3, <1>4 DEF RestreamInv

\* What leaves the map and its branches alone leaves the ticker right.
LEMMA TickerStays ==
    ASSUME RestreamInv, UNCHANGED mapVars,
           \A b \in 1..made : target'[b] = target[b]
    PROVE  TickerFits'
  <1>1. Demands(restreams)' = Demands(restreams)
    <2>1. restreams' = restreams
      BY DEF mapVars
    <2>2. \A i \in Ids : restreams[i] # None => target'[restreams[i]].every = target[restreams[i]].every
      BY DEF RestreamInv, MapFits
    <2> QED
      BY <2>1, <2>2 DEF Demands
  <1>2. Wanted(restreams)' = Wanted(restreams)
    BY <1>1 DEF Wanted
  <1> QED
    BY <1>2 DEF RestreamInv, TickerFits, mapVars

\* What is listed once a branch is entered under a free id.
LEMMA Entered ==
    ASSUME RestreamInv, NEW b \in Branches, NEW id \in Ids, restreams[id] = None,
           restreams' = [restreams EXCEPT ![id] = b]
    PROVE  Live' = Live \cup {b}
  BY DEF RestreamInv, RestreamTypeOK, Live, None, Branches

\* What is listed once an id is given up.
LEMMA GivenUp ==
    ASSUME RestreamInv, NEW id \in Ids, restreams[id] # None,
           restreams' = [restreams EXCEPT ![id] = None]
    PROVE  Live' = Live \ {restreams[id]}
  <1>1. \A i \in Ids : restreams[i] = restreams[id] => i = id
    BY DEF RestreamInv, MapFits
  <1> QED
    BY <1>1 DEF RestreamInv, RestreamTypeOK, Live, None

\* StopRestream: the map and the ticker follow, and the branch is to be taken down.
LEMMA TakeKeeps ==
    ASSUME RestreamInv, NEW id \in Ids, Take(id),
           UNCHANGED <<stage, made, target, treeVars, building, asked, closing, bus>>,
           watch' \in [Branches -> Watches],
           \A b \in Branches : watch'[b].pc # "off" => watch[b].pc # "off"
    PROVE  RestreamInv'
  <1> DEFINE f == [restreams EXCEPT ![id] = None]
  <1>1. f \in [Ids -> Branches \cup {None}] /\ Retune(f) /\ restreams[id] \in Branches
    BY DEF Take, RestreamInv, RestreamTypeOK
  <1>2. \A i \in Ids : f[i] # None => target[f[i]] \in Targets /\ f[i] \in 1..made
    BY DEF RestreamInv, RestreamTypeOK, MapFits
  <1>3. restreams' = f /\ TickerFits' /\ kfEvery' \in Cadences /\ kfStop' \in Cadences
        /\ tickers' \in [Cadences -> Nat]
    BY <1>1, <1>2, RetuneFits
  <1>4. Live' = Live \ {restreams[id]} /\ restreams[id] \in Live
    BY <1>3, GivenUp DEF Take, Live
  <1>5. undoing' = [undoing EXCEPT ![restreams[id]] = @ + 1] /\ building = None /\ undoing[restreams[id]] = 0
    BY <1>4, <1>1 DEF Take, Free, RestreamInv, BranchesStand
  <1>6. RestreamTypeOK'
    BY <1>1, <1>3, <1>5 DEF RestreamInv, RestreamTypeOK, treeVars
  <1>7. BranchesStand'
    BY <1>1, <1>4, <1>5 DEF RestreamInv, RestreamTypeOK, BranchesStand, treeVars, None
  <1>8. MapFits'
    BY <1>2, <1>3, <1>5 DEF RestreamInv, RestreamTypeOK, MapFits, None
  <1> QED
    BY <1>3, <1>6, <1>7, <1>8 DEF RestreamInv

\* Asking, refusing, the bus and its watchers: no branch is touched.
LEMMA TalkKeeps ==
    ASSUME RestreamInv,
           \/ \E a \in Askers : Refuse(a) \/ \E t \in Targets : Ask(a, t)
           \/ Null \/ LetGo
           \/ \E b \in Branches \cup {Elsewhere} : Fail(b)
           \/ \E b \in Branches : Pop(b) \/ GiveUp(b)
    PROVE  RestreamInv'
  <1>1. UNCHANGED <<mapVars, made, target, treeVars, building, undoing>>
    BY DEF Refuse, Ask, Null, LetGo, Fail, Pop, GiveUp
  <1>2. UNCHANGED <<restreams, kfEvery, kfStop, tickers, added, padded, linked>>
    BY <1>1 DEF mapVars, treeVars
  <1>3. stage' \in {"playing", "closing", "null", "nil"} /\ UNCHANGED closing
        /\ asked' \in [Askers -> Targets \cup {NoTarget}]
    BY DEF RestreamInv, RestreamTypeOK, Refuse, Ask, Null, LetGo, Fail, Pop, GiveUp
  <1>4. bus' \in Seq(Branches \cup {Elsewhere})
    <2> DEFINE Froms == Branches \cup {Elsewhere}
    <2>1. bus \in Seq(Froms)
      BY DEF RestreamInv, RestreamTypeOK
    <2>2. \/ UNCHANGED bus \/ bus' = <<>>
          \/ \E b \in Froms : bus' = Append(bus, b)
          \/ bus # <<>> /\ bus' = Tail(bus)
      BY DEF Refuse, Ask, Null, LetGo, Fail, Pop, GiveUp
    <2> HIDE DEF Froms
    <2>3. ASSUME NEW b \in Froms, bus' = Append(bus, b) PROVE bus' \in Seq(Froms)
      BY <2>1, <2>3
    <2>4. ASSUME bus # <<>>, bus' = Tail(bus) PROVE bus' \in Seq(Froms)
      BY <2>1, <2>4, HeadTailProperties
    <2>5. <<>> \in Seq(Froms)
      BY EmptySeq
    <2>6. bus' \in Seq(Froms)
      BY <2>1, <2>2, <2>3, <2>4, <2>5
    <2> QED
      BY <2>6 DEF Froms
  <1>5. watch' \in [Branches -> Watches] /\ \A b \in Branches : watch'[b].pc # "off" => watch[b].pc # "off"
    <2>1. CASE UNCHANGED watch
      BY <2>1 DEF RestreamInv, RestreamTypeOK
    <2>2. ASSUME NEW b \in Branches, GiveUp(b)
          PROVE  watch' \in [Branches -> Watches] /\ \A c \in Branches : watch'[c].pc # "off" => watch[c].pc # "off"
      BY <2>2 DEF GiveUp, RestreamInv, RestreamTypeOK, Watches
    <2>3. ASSUME NEW b \in Branches, Pop(b)
          PROVE  watch' \in [Branches -> Watches] /\ \A c \in Branches : watch'[c].pc # "off" => watch[c].pc # "off"
      <3>1. Head(bus) \in Branches \cup {Elsewhere}
        BY <2>3 DEF Pop, RestreamInv, RestreamTypeOK
      <3>2. [pc |-> "stop", on |-> Head(bus)] \in Watches
        BY <3>1 DEF Watches
      <3> QED
        BY <2>3, <3>2 DEF Pop, RestreamInv, RestreamTypeOK
    <2> QED
      BY <2>1, <2>2, <2>3 DEF Refuse, Ask, Null, LetGo, Fail
  <1>6. RestreamTypeOK'
    BY <1>1, <1>2, <1>3, <1>4, <1>5 DEF RestreamInv, RestreamTypeOK
  <1>7. BranchesStand'
    BY <1>1, <1>2 DEF RestreamInv, BranchesStand, Live
  <1>8. MapFits'
    BY <1>1, <1>2, <1>5 DEF RestreamInv, MapFits
  <1>9. TickerFits'
    BY <1>1, TickerStays
  <1> QED
    BY <1>6, <1>7, <1>8, <1>9 DEF RestreamInv

\* Building a branch and taking one down: the map is not touched.
LEMMA BranchKeeps ==
    ASSUME RestreamInv,
           \/ RequestPad \/ Link
           \/ \E b \in Branches : Unlink(b) \/ Remove(b) \/ Release(b)
    PROVE  RestreamInv'
  <1>1. UNCHANGED <<mapVars, made, target, watch, stage, asked, bus>>
    BY DEF RequestPad, Link, Unlink, Remove, Release
  <1>2. UNCHANGED <<restreams, kfEvery, kfStop, tickers>>
    BY <1>1 DEF mapVars
  <1>3. RestreamTypeOK'
    <2>1. added' \subseteq added /\ linked' \subseteq padded' /\ padded' \subseteq 1..made
          /\ building' \in {building, None} /\ closing' \subseteq closing
      <3> USE DEF RestreamInv, RestreamTypeOK
      <3>1. CASE RequestPad
        BY <3>1 DEF RequestPad
      <3>2. CASE Link
        BY <3>2 DEF Link
      <3>3. ASSUME NEW b \in Branches, Unlink(b) \/ Remove(b) \/ Release(b)
            PROVE  added' \subseteq added /\ linked' \subseteq padded' /\ padded' \subseteq 1..made
                   /\ building' \in {building, None} /\ closing' \subseteq closing
        BY <3>3 DEF Unlink, Remove, Release
      <3> QED
        BY <3>1, <3>2, <3>3
    <2>2. undoing' \in [Branches -> Nat]
      <3>1. undoing \in [Branches -> Nat]
        BY DEF RestreamInv, RestreamTypeOK
      <3>2. \/ UNCHANGED undoing
            \/ \E b \in Branches : undoing[b] > 0 /\ undoing' = [undoing EXCEPT ![b] = @ - 1]
        BY DEF RequestPad, Link, Unlink, Remove, Release
      <3> QED
        BY <3>1, <3>2
    <2> QED
      BY <1>1, <1>2, <2>1, <2>2 DEF RestreamInv, RestreamTypeOK, None
  <1>4. BranchesStand'
    <2> USE <1>1, <1>2 DEF RestreamInv, RestreamTypeOK, BranchesStand, Live, None, Branches
    <2>1. CASE RequestPad
      BY <2>1 DEF RequestPad
    <2>2. CASE Link
      BY <2>2 DEF Link
    <2>3. ASSUME NEW b \in Branches, Unlink(b) PROVE BranchesStand'
      BY <2>3 DEF Unlink
    <2>4. ASSUME NEW b \in Branches, Remove(b) PROVE BranchesStand'
      BY <2>4 DEF Remove
    <2>5. ASSUME NEW b \in Branches, Release(b) PROVE BranchesStand'
      BY <2>5 DEF Release
    <2> QED
      BY <2>1, <2>2, <2>3, <2>4, <2>5
  <1>5. MapFits'
    <2>1. building' \in {building, None}
      BY DEF RequestPad, Link, Unlink, Remove, Release
    <2> QED
      BY <1>1, <1>2, <2>1 DEF RestreamInv, MapFits
  <1>6. TickerFits'
    BY <1>1, TickerStays
  <1> QED
    BY <1>3, <1>4, <1>5, <1>6 DEF RestreamInv

\* StartRestream puts a new branch into the pipeline.
LEMMA AddKeeps ==
    ASSUME RestreamInv, NEW a \in Askers, Add(a)
    PROVE  RestreamInv'
  <1>1. asked[a] \in Targets /\ made' = made + 1 /\ made' \in Branches /\ asked[a].id \in Ids
    BY RestreamConstants DEF Add, RestreamInv, RestreamTypeOK, Branches, Targets
  <1>2. target' = [target EXCEPT ![made'] = asked[a]] /\ \A b \in 1..made : target'[b] = target[b]
    BY <1>1 DEF Add, RestreamInv, RestreamTypeOK, Branches
  <1>3. UNCHANGED <<restreams, kfEvery, kfStop, tickers, padded, linked, undoing, closing, bus, watch, stage>>
    BY DEF Add, mapVars
  <1>4. asked' \in [Askers -> Targets \cup {NoTarget}]
    BY DEF Add, RestreamInv, RestreamTypeOK
  <1>5. RestreamTypeOK'
    <2>1. target' \in [Branches -> Targets \cup {NoTarget}] /\ made' \in 0..MaxBranches
      BY <1>1, <1>2 DEF RestreamInv, RestreamTypeOK, Branches
    <2>2. added' = added \cup {made'} /\ building' = made'
      BY DEF Add
    <2>3. added' \subseteq 1..made' /\ padded' \subseteq 1..made' /\ building' \in 0..made' /\ closing' \subseteq 1..made'
      BY <1>1, <1>3, <2>2 DEF RestreamInv, RestreamTypeOK
    <2> QED
      BY <1>3, <1>4, <2>1, <2>3 DEF RestreamInv, RestreamTypeOK
  <1>6. BranchesStand'
    BY <1>1, <1>3 DEF Add, Free, RestreamInv, RestreamTypeOK, BranchesStand, Live, Branches, None
  <1>7. MapFits'
    <2>1. building' = made' /\ restreams[asked[a].id] = None
      BY DEF Add
    <2>2. target'[made'] = asked[a]
      BY <1>1, <1>2 DEF RestreamInv, RestreamTypeOK
    <2> QED
      BY <1>1, <1>2, <1>3, <2>1, <2>2 DEF RestreamInv, RestreamTypeOK, MapFits
  <1>8. TickerFits'
    <2>1. UNCHANGED mapVars
      BY DEF Add
    <2> QED
      BY <1>2, <2>1, TickerStays
  <1> QED
    BY <1>5, <1>6, <1>7, <1>8 DEF RestreamInv

\* StartRestream ends: the branch is listed and watched, or is to be taken down.
LEMMA SyncKeeps ==
    ASSUME RestreamInv, Sync
    PROVE  RestreamInv'
  <1> DEFINE b == building
             id == target[building].id
             f == [restreams EXCEPT ![id] = b]
  <1>1. b \in 1..made /\ b \in Branches /\ b # None /\ b \in linked \cap added \cap padded /\ undoing[b] = 0
    BY RestreamConstants DEF Sync, RestreamInv, RestreamTypeOK, BranchesStand, Branches, None
  <1>2. target[b] \in Targets /\ id \in Ids /\ restreams[id] = None
    BY <1>1 DEF RestreamInv, MapFits, Targets
  <1>3. UNCHANGED <<stage, made, target, added, padded, linked, asked, closing, bus>>
    BY DEF Sync, treeVars
  <1>4. CASE /\ Retune(f)
             /\ watch' = [watch EXCEPT ![b].pc = "on"]
             /\ building' = None /\ UNCHANGED undoing
    <2>1. f \in [Ids -> Branches \cup {None}]
      BY <1>1, <1>2 DEF RestreamInv, RestreamTypeOK
    <2>2. \A i \in Ids : f[i] # None => f[i] \in 1..made /\ target[f[i]] \in Targets /\ target[f[i]].id = i
      BY <1>1, <1>2 DEF RestreamInv, RestreamTypeOK, MapFits
    <2>3. restreams' = f /\ TickerFits' /\ kfEvery' \in Cadences /\ kfStop' \in Cadences
          /\ tickers' \in [Cadences -> Nat]
      BY <1>3, <1>4, <2>1, <2>2, RetuneFits
    <2>4. Live' = Live \cup {b}
      BY <1>1, <1>2, <2>3, Entered
    <2>5. watch' \in [Branches -> Watches]
          /\ \A c \in Branches : watch'[c].pc # "off" => c = b \/ watch[c].pc # "off"
      BY <1>1, <1>4 DEF RestreamInv, RestreamTypeOK, Watches
    <2>6. RestreamTypeOK'
      BY <1>3, <1>4, <2>1, <2>3, <2>5 DEF RestreamInv, RestreamTypeOK, None
    <2>7. BranchesStand'
      BY <1>1, <1>3, <1>4, <2>4 DEF RestreamInv, RestreamTypeOK, BranchesStand, None, Branches
    <2>8. MapFits'
      BY <1>1, <1>3, <1>4, <2>2, <2>3, <2>5 DEF RestreamInv, MapFits
    <2> QED
      BY <2>3, <2>6, <2>7, <2>8 DEF RestreamInv
  <1>5. CASE /\ undoing' = [undoing EXCEPT ![b] = 1]
             /\ UNCHANGED <<mapVars, watch, building>>
    <2>1. UNCHANGED <<restreams, kfEvery, kfStop, tickers>>
      BY <1>5 DEF mapVars
    <2>2. RestreamTypeOK'
      BY <1>1, <1>3, <1>5, <2>1 DEF RestreamInv, RestreamTypeOK
    <2>3. BranchesStand'
      BY <1>1, <1>3, <1>5, <2>1 DEF RestreamInv, RestreamTypeOK, BranchesStand, Live
    <2>4. MapFits'
      BY <1>3, <1>5, <2>1 DEF RestreamInv, MapFits
    <2>5. TickerFits'
      BY <1>3, <1>5, TickerStays
    <2> QED
      BY <2>2, <2>3, <2>4, <2>5 DEF RestreamInv
  <1> QED
    BY <1>4, <1>5 DEF Sync

\* StopAllRestreams
LEMMA CloseAllKeeps ==
    ASSUME RestreamInv, CloseAll
    PROVE  RestreamInv'
  <1> DEFINE f == [id \in Ids |-> None]
  <1>1. f \in [Ids -> Branches \cup {None}] /\ Retune(f) /\ \A id \in Ids : f[id] = None
    BY DEF CloseAll
  <1>2. UNCHANGED <<made, target, added, padded, linked, building, asked, bus, watch>> /\ building = None
    BY DEF CloseAll, treeVars, Free
  <1>3. restreams' = f /\ TickerFits' /\ kfEvery' \in Cadences /\ kfStop' \in Cadences
        /\ tickers' \in [Cadences -> Nat]
    BY <1>1, <1>2, RetuneFits
  <1>4. Live' = {}
    BY <1>1, <1>3 DEF Live
  <1>5. Live \subseteq 1..made /\ Live \subseteq Branches
    BY DEF Live, RestreamInv, RestreamTypeOK, MapFits, None
  <1>6. undoing' = [b \in Branches |-> undoing[b] + (IF b \in Live THEN 1 ELSE 0)] /\ closing' = Live
        /\ stage' = "closing"
    BY DEF CloseAll
  <1>7. RestreamTypeOK'
    <2>1. undoing' \in [Branches -> Nat]
      BY <1>6 DEF RestreamInv, RestreamTypeOK
    <2> QED
      BY <1>1, <1>2, <1>3, <1>5, <1>6, <2>1 DEF RestreamInv, RestreamTypeOK
  <1>8. BranchesStand'
    BY <1>2, <1>4, <1>5, <1>6 DEF RestreamInv, RestreamTypeOK, BranchesStand, None
  <1>9. MapFits'
    BY <1>1, <1>2, <1>3 DEF RestreamInv, MapFits
  <1> QED
    BY <1>3, <1>7, <1>8, <1>9 DEF RestreamInv

LEMMA RestreamStep == RestreamInv /\ [RestreamNext]_restreamVars => RestreamInv'
  <1> SUFFICES ASSUME RestreamInv, [RestreamNext]_restreamVars PROVE RestreamInv'
    OBVIOUS
  <1>1. ASSUME NEW a \in Askers, Add(a) PROVE RestreamInv'
    BY <1>1, AddKeeps
  <1>2. CASE RequestPad \/ Link \/ \E b \in Branches : Unlink(b) \/ Remove(b) \/ Release(b)
    BY <1>2, BranchKeeps
  <1>3. CASE \/ \E a \in Askers : Refuse(a) \/ \E t \in Targets : Ask(a, t)
             \/ Null \/ LetGo
             \/ \E b \in Branches \cup {Elsewhere} : Fail(b)
             \/ \E b \in Branches : Pop(b) \/ GiveUp(b)
    BY <1>3, TalkKeeps
  <1>4. CASE Sync
    BY <1>4, SyncKeeps
  <1>5. CASE CloseAll
    BY <1>5, CloseAllKeeps
  <1>6. ASSUME NEW id \in Ids, StopRestream(id) PROVE RestreamInv'
    <2>1. UNCHANGED watch /\ Take(id) /\ UNCHANGED <<stage, made, target, treeVars, building, asked, closing, bus>>
      BY <1>6 DEF StopRestream
    <2>2. watch' \in [Branches -> Watches]
      BY <2>1 DEF RestreamInv, RestreamTypeOK
    <2> QED
      BY <2>1, <2>2, TakeKeeps
  <1>7. ASSUME NEW b \in Branches, Act(b) PROVE RestreamInv'
    <2>1. watch' \in [Branches -> Watches] /\ \A c \in Branches : watch'[c].pc # "off" => watch[c].pc # "off"
      BY <1>7 DEF Act, RestreamInv, RestreamTypeOK, Watches
    <2>2. UNCHANGED <<stage, made, target, treeVars, building, asked, closing, bus>> /\ target[b].id \in Ids
      BY <1>7 DEF Act, RestreamInv, MapFits, Targets
    <2>3. CASE Take(target[b].id)
      BY <2>1, <2>2, <2>3, TakeKeeps
    <2>4. CASE UNCHANGED <<mapVars, undoing>>
      <3>1. UNCHANGED <<restreams, kfEvery, kfStop, tickers, added, padded, linked>>
        BY <2>2, <2>4 DEF mapVars, treeVars
      <3>2. RestreamTypeOK'
        BY <2>1, <2>2, <2>4, <3>1 DEF RestreamInv, RestreamTypeOK
      <3>3. BranchesStand'
        BY <2>2, <2>4, <3>1 DEF RestreamInv, BranchesStand, Live
      <3>4. MapFits'
        BY <2>1, <2>2, <3>1 DEF RestreamInv, MapFits
      <3>5. TickerFits'
        BY <2>2, <2>4, TickerStays
      <3> QED
        BY <3>2, <3>3, <3>4, <3>5 DEF RestreamInv
    <2> QED
      BY <1>7, <2>3, <2>4 DEF Act
  <1>8. CASE UNCHANGED restreamVars
    <2>1. UNCHANGED <<stage, made, target, building, asked, undoing, closing, bus, watch, mapVars>>
          /\ UNCHANGED <<restreams, kfEvery, kfStop, tickers, added, padded, linked>>
      BY <1>8 DEF restreamVars, mapVars, treeVars
    <2>2. RestreamTypeOK' /\ BranchesStand' /\ MapFits'
      BY <2>1 DEF RestreamInv, RestreamTypeOK, BranchesStand, MapFits, Live
    <2>3. TickerFits'
      BY <2>1, TickerStays
    <2> QED
      BY <2>2, <2>3 DEF RestreamInv
  <1> QED
    BY <1>1, <1>2, <1>3, <1>4, <1>5, <1>6, <1>7, <1>8 DEF RestreamNext

\* No branch is listed twice, for it was made for one id.
LEMMA ListedOnce ==
    ASSUME RestreamInv, NEW b \in Branches
    PROVE  Cardinality({id \in Ids : restreams[id] = b}) <= 1
  <1> DEFINE L == {id \in Ids : restreams[id] = b}
  <1>1. \A i, j \in L : i = j
    BY DEF RestreamInv, MapFits, Branches, None
  <1>2. CASE L = {}
    BY <1>2, FS_EmptySet
  <1>3. CASE L # {}
    <2>1. PICK i \in L : TRUE
      BY <1>3
    <2>2. L = {i}
      BY <1>1, <2>1
    <2>3. Cardinality({i}) = 1
      BY FS_Singleton
    <2> QED
      BY <2>2, <2>3
  <1> QED
    BY <1>2, <1>3

\* StartRestream, StopRestream, StopAllRestreams, watchBranch: however they
\* cross, nothing of a branch stays behind in the pipeline, and keyframes are
\* forced at the one interval that is wanted.
THEOREM RestreamingIsSafe ==
    RestreamSpec => []RestreamTypeOK /\ []NothingLeftBehind /\ []OneCadence
  <1>1. RestreamInv => RestreamTypeOK
    BY DEF RestreamInv
  <1>2. RestreamInv => NothingLeftBehind
    BY ListedOnce DEF RestreamInv, BranchesStand, NothingLeftBehind
  <1>3. RestreamInv => OneCadence
    <2> SUFFICES ASSUME RestreamInv PROVE OneCadence
      OBVIOUS
    <2>1. Demands(restreams) = {target[b].every : b \in Live} \ {0}
      BY DEF Demands, Live
    <2>2. /\ Demands(restreams) = {} => kfEvery = 0
          /\ Demands(restreams) # {} => kfEvery \in Demands(restreams) /\ \A k \in Demands(restreams) : kfEvery <= k
      BY WantedIsLeast DEF RestreamInv, RestreamTypeOK, MapFits, TickerFits
    <2>3. tickers = [k \in Cadences |-> IF k = kfEvery /\ k # 0 THEN 1 ELSE 0]
      BY DEF RestreamInv, TickerFits
    <2> QED
      BY <2>1, <2>2, <2>3 DEF OneCadence
  <1> QED
    BY RestreamStart, RestreamStep, <1>1, <1>2, <1>3, PTL DEF RestreamSpec

\* retuneKeyframes: the one goroutine that forces keyframes has the interval the
\* destinations ask for, however attaching, stopping and failing are ordered.
THEOREM KeyframesKeepTime == RestreamSpec => []OneCadence
  BY RestreamingIsSafe, PTL
=============================================================================
