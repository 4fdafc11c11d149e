----------------------------- MODULE AgentLoop -----------------------------
(***************************************************************************)
(* A run of the agent: the loop that asks the model and makes the tool     *)
(* calls it asks for over AgentClient's connection, the control event that *)
(* ends it, the cancelled context, the record of it in the database, and   *)
(* the run that resumes another from that record.                          *)
(*                                                                         *)
(* Tool calls are numbered through the life of the database.  A            *)
(* conversation is the calls its assistant messages ask for and those its  *)
(* user messages carry results of.  The model is external.                 *)
(***************************************************************************)
EXTENDS AgentClient

CONSTANTS Runner,    \* the goroutine in Runner.Run, the client's only caller
          Taken,     \* the note that the controls were taken from the agent
          MaxTurns,  \* Options.MaxTurns
          MaxBatch,  \* bound: tool calls in one reply of the model
          MaxCalls,  \* bound: tool calls in the life of the database
          MaxRuns    \* bound: runs in the database

ASSUME LoopAssumption ==
    /\ Callers = {Runner} /\ Taken \in Notes
    /\ MaxTurns \in Nat \ {0} /\ MaxBatch \in Nat \ {0} /\ MaxRuns \in Nat \ {0}
    /\ MaxCalls \in Nat /\ MaxId >= MaxCalls

VARIABLES run,          \* where Run is: its turn, and the calls first..last of the reply it works on
          history,      \* messages: the calls asked for, and those with a result
          interrupted,  \* Runner.interrupted
          late,         \* history: calls begun after the interruption was noted
          store,        \* the runs of the database, oldest first
          recorded,     \* whether the run has a Recorder, the latest of the database
          lost          \* history: calls whose record could not be written

recordVars == <<store, recorded, lost>>
loopVars == <<run, history, interrupted, late, recordVars>>
allVars == <<vars, loopVars>>

Numbers == 1..MaxCalls

RunState == [st : {"asking", "deciding", "calling", "over"}, turn : 1..MaxTurns,
             first : Nat, next : Nat, last : Nat]

Conversation == [asked : SUBSET Numbers, answered : SUBSET Numbers]
NoMessages == [asked |-> {}, answered |-> {}]

\* The last recorded turn with what it sent, and the rows of the table of calls.
\* What Finish notes of a run when it is over is read by nobody here.
StoredRun == [turns : 0..MaxTurns, request : Conversation, calls : SUBSET Numbers]

NewRun == [turns |-> 0, request |-> NoMessages, calls |-> {}]

Latest == store[Len(store)]

\* A row is written; what the database returns when it cannot is dropped, and
\* without a Recorder there is nothing to write to.
Writes(r) == recorded /\ store' = [store EXCEPT ![Len(store)] = r]
Tries(r) == Writes(r) \/ UNCHANGED store

\* The database may not open for a run, nor take its row: it goes unrecorded.
Opens ==
    \/ Len(store) < MaxRuns /\ recorded' = TRUE /\ store' = Append(store, NewRun)
    \/ recorded' = FALSE /\ UNCHANGED store

\* Run begins with the conversation msgs.
Starts(msgs, lastNumber) ==
    /\ run' = [st |-> "asking", turn |-> 1, first |-> lastNumber + 1,
               next |-> lastNumber + 1, last |-> lastNumber]
    /\ history' = msgs
    /\ interrupted' = FALSE /\ late' = 0
    /\ Opens /\ UNCHANGED lost

LoopInit ==
    /\ ClientInit
    /\ run = [st |-> "asking", turn |-> 1, first |-> 1, next |-> 1, last |-> 0]
    /\ history = NoMessages
    /\ interrupted = FALSE /\ late = 0
    /\ recorded \in BOOLEAN /\ store = (IF recorded THEN <<NewRun>> ELSE <<>>) /\ lost = {}

-----------------------------------------------------------------------------
(* The loop. *)

\* A reply of the model, recorded before anything is done with it: a final
\* text, or n calls.
Replies(n) ==
    /\ run.st = "asking" /\ Runner \notin ctx /\ run.last + n <= MaxCalls
    /\ IF n = 0
       THEN run' = [run EXCEPT !.st = "over"] /\ UNCHANGED history
       ELSE /\ run' = [run EXCEPT !.st = "deciding", !.first = run.last + 1,
                                  !.next = run.last + 1, !.last = run.last + n]
            /\ history' = [history EXCEPT !.asked = @ \cup (run.last + 1)..(run.last + n)]
    /\ Tries([Latest EXCEPT !.turns = run.turn, !.request = history])
    /\ UNCHANGED <<interrupted, late, recorded, lost>>

\* Model.Complete returns an error, as it does once the context is cancelled.
ModelFails ==
    /\ run.st = "asking"
    /\ run' = [run EXCEPT !.st = "over"]
    /\ UNCHANGED <<history, interrupted, late, recordVars>>

StartTool ==
    /\ run.st = "deciding"
    /\ run' = [run EXCEPT !.st = "calling"]
    /\ late' = late + IF interrupted THEN 1 ELSE 0
    /\ UNCHANGED <<history, interrupted, recordVars>>

\* The call that has returned, whatever with, goes into the ledger.
RecordsCall ==
    \/ Writes([Latest EXCEPT !.calls = @ \cup {run.next}]) /\ UNCHANGED lost
    \/ UNCHANGED store /\ lost' = lost \cup {run.next}

\* After a call: recorded, and then the check for an interruption, the next
\* call, the next turn, or the end of the turns.
GoesOn(st, turn) == run' = [run EXCEPT !.st = st, !.next = @ + 1, !.turn = turn]
Finished == GoesOn("over", run.turn)

Results == run.first..run.next

\* Slip: the check only between turns.
AfterCallAtTheEnd ==
    \/ run.next < run.last /\ GoesOn("deciding", run.turn) /\ UNCHANGED history
    \/ /\ run.next = run.last
       /\ history' = [history EXCEPT !.answered = @ \cup Results]
       /\ \/ interrupted /\ Finished
          \/ ~interrupted /\ run.turn < MaxTurns /\ GoesOn("asking", run.turn + 1)
          \/ ~interrupted /\ run.turn = MaxTurns /\ Finished

\* Slip: the batch is cut short, and the loop goes round again.
AfterCallBreaks ==
    \/ ~interrupted /\ run.next < run.last /\ GoesOn("deciding", run.turn) /\ UNCHANGED history
    \/ /\ interrupted \/ run.next = run.last
       /\ history' = [history EXCEPT !.answered = @ \cup Results]
       /\ \/ run.turn < MaxTurns /\ GoesOn("asking", run.turn + 1)
          \/ run.turn = MaxTurns /\ Finished

\* Slip: the turns are not counted.
AfterCallForever ==
    \/ ~interrupted /\ run.next < run.last /\ GoesOn("deciding", run.turn) /\ UNCHANGED history
    \/ /\ interrupted \/ run.next = run.last
       /\ history' = [history EXCEPT !.answered = @ \cup Results]
       /\ \/ interrupted /\ Finished
          \/ /\ ~interrupted
             /\ run' = [run EXCEPT !.st = "asking", !.next = run.first, !.last = run.first - 1]

AfterCall ==
    \/ ~interrupted /\ run.next < run.last /\ GoesOn("deciding", run.turn) /\ UNCHANGED history
    \/ /\ interrupted \/ run.next = run.last
       /\ history' = [history EXCEPT !.answered = @ \cup Results]
       /\ \/ interrupted /\ Finished
          \/ ~interrupted /\ run.turn < MaxTurns /\ GoesOn("asking", run.turn + 1)
          \/ ~interrupted /\ run.turn = MaxTurns /\ Finished

\* Call returned, with a result or with an error: either is a result.
EndTool ==
    /\ run.st = "calling" /\ call[Runner].st = "idle"
    /\ RecordsCall /\ AfterCall
    /\ UNCHANGED <<interrupted, late, recorded>>

\* skill_read is answered here and never reaches the desktop.
ReadSkill ==
    /\ run.st = "deciding"
    /\ RecordsCall /\ AfterCall
    /\ UNCHANGED <<interrupted, late, recorded>>

\* OnEvent, on the reader's goroutine.  The runner outlives its run.
NoteEvent ==
    /\ interrupted' = (interrupted \/ Head(fromServer).what = Taken)
    /\ UNCHANGED <<run, history, late, recordVars>>

-----------------------------------------------------------------------------
(* The process. *)

Fresh ==
    /\ nextID' = 0 /\ waiting' = {} /\ reader' = "reading" /\ give' = {}
    /\ slot' = [id \in Ids |-> "empty"] /\ call' = [c \in Callers |-> Idle("none")]
    /\ ctx' = {} /\ up' = TRUE /\ toServer' = <<>> /\ fromServer' = <<>>
    /\ serving' = [id \in Ids |-> "no"]

\* The process is killed: what the database has is all that is left.
Kill ==
    /\ run.st # "over"
    /\ run' = [run EXCEPT !.st = "over"]
    /\ UNCHANGED <<vars, history, interrupted, late, recordVars>>

\* DB.Resume and runGoal: another process continues a run of the database that
\* got as far as asking the model.  The conversation is the request of its last
\* turn; the response goes in as text, whatever calls it asked for.
ResumeRun ==
    /\ run.st = "over"
    /\ \E id \in 1..Len(store) :
          store[id].turns > 0 /\ Starts(store[id].request, run.next - 1)
    /\ Fresh

\* The run's own steps.  Once it is over its process exits, and the client
\* under it with it.
LoopStep ==
    \/ (\E n \in 0..MaxBatch : Replies(n)) /\ UNCHANGED vars
    \/ ModelFails /\ UNCHANGED vars
    \/ StartTool /\ Begin(Runner)
    \/ EndTool /\ UNCHANGED vars
    \/ ReadSkill /\ UNCHANGED vars

LoopNext ==
    \/ LoopStep
    \/ HandleNotification /\ run.st # "over" /\ NoteEvent
    \/ Kill \/ ResumeRun
    \/ /\ CallerStep(Runner) \/ CancelContext(Runner) \/ ReaderStep \/ Server
          \/ \E what \in Notes : ServerSays(what)
       /\ run.st # "over"
       /\ UNCHANGED loopVars

\* The model answers or fails, and the run's goroutine runs.
LoopFairness ==
    /\ WF_allVars(LoopStep)
    /\ WF_allVars(CallerStep(Runner) /\ run.st # "over" /\ UNCHANGED loopVars)
    /\ WF_allVars(ReaderStep /\ run.st # "over" /\ UNCHANGED loopVars)
    /\ WF_allVars(HandleNotification /\ run.st # "over" /\ NoteEvent)

LoopSpec == LoopInit /\ [][LoopNext]_allVars /\ LoopFairness

-----------------------------------------------------------------------------
(* Properties. *)

LoopTypeOK ==
    /\ ClientTypeOK
    /\ run \in RunState
    /\ history \in Conversation
    /\ interrupted \in BOOLEAN /\ late \in Nat
    /\ store \in Seq(StoredRun) /\ recorded \in BOOLEAN /\ lost \subseteq Numbers

\* Once a person has taken the controls and the client has heard of it, the
\* run makes one call more at most, the one it had already decided on or the
\* first of the reply it was waiting for, and never a second.  (The check
\* after each call of a batch, against an event on another goroutine.)
OneCallAfterTheNotice == late <= 1

\* The model is never asked with a call in the conversation that has no
\* result: not after a batch was cut short, nor in a run resumed from one
\* that was interrupted, killed or failed in the middle of a batch.
HistoryIsPaired == run.st = "asking" => history.asked = history.answered

\* The ledger has every call the runs made, the one in flight apart, whichever
\* way the call or the run ended; but for those whose record could not be
\* written.  It has none that was not made, and none twice or in two runs.
CallsOnRecord ==
    /\ \A n \in 1..(run.next - 1) : n \in lost \/ \E i \in 1..Len(store) : n \in store[i].calls
    /\ \A i \in 1..Len(store) : store[i].calls \subseteq 1..(run.next - 1) \ lost
    /\ \A i, j \in 1..Len(store) : i # j => store[i].calls \cap store[j].calls = {}

\* Ctrl-C, and the end of the connection, end the run, though the server may
\* never answer and the model may want more calls.
RunEnds == (run.st # "over" /\ (Runner \in ctx \/ ~up)) ~> (run.st = "over")
=============================================================================
