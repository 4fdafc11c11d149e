---------------------------- MODULE AgentProofs -----------------------------
(***************************************************************************)
(* What holds of the agent's MCP client for any number of goroutines and   *)
(* of requests, of the loop above it for any bound on its turns, on the    *)
(* calls of a reply and on the runs of the database, and of the tools it   *)
(* shows its model, for any catalogue.                                     *)
(***************************************************************************)
EXTENDS AgentLoop, ToolSearch, FiniteSetTheorems, TLAPS

-----------------------------------------------------------------------------
(***************************************************************************)
(* The client.                                                             *)
(*                                                                         *)
(* The argument follows one request: its number is fresh when it is taken, *)
(* so no other caller and no waiter has it, and from then on until its     *)
(* caller is let go it is in exactly one place: among the waiters, in the  *)
(* reader's hands, or in its channel.                                      *)
(***************************************************************************)

\* No two requests under way have one number, and none has a number that is
\* still to be given out.
NumbersAreTheirOwn ==
    /\ \A c \in Callers : call[c].st \in {"idle", "named"} <=> call[c].id = 0
    /\ \A c \in Callers : call[c].id <= nextID
    /\ \A c, d \in Callers : call[c].id = call[d].id /\ call[c].id # 0 => c = d

\* A number nobody has asked with yet is in none of the three places.
Untouched(id) == id \notin waiting /\ id \notin give /\ slot[id] = "empty"

FreshIsUntouched ==
    /\ \A id \in Ids : id > nextID => Untouched(id)
    /\ \A c \in Callers : call[c].st = "numbered" => Untouched(call[c].id)

\* A request in flight is in one of the three places, and nothing is in two.
SomewhereOnce ==
    /\ \A c \in Callers : InFlight(c) =>
          call[c].id \in waiting \/ call[c].id \in give \/ slot[call[c].id] # "empty"
    /\ \A id \in waiting : id \notin give /\ slot[id] = "empty"

ReaderLeavesNothing ==
    /\ Closed => waiting = {}
    /\ reader = "over" => give = {}

ClientInv ==
    /\ ClientTypeOK /\ NumbersAreTheirOwn /\ FreshIsUntouched /\ SomewhereOnce
    /\ ReaderLeavesNothing /\ NoWaiterLeaks /\ ReaderNeverBlocks

-----------------------------------------------------------------------------
(* Types. *)

LEMMA CallStates ==
    ASSUME NEW r \in CallState
    PROVE  /\ \A s \in Steps : [r EXCEPT !.st = s] \in CallState
           /\ \A n \in 0..MaxId : [r EXCEPT !.st = "numbered", !.id = n] \in CallState
           /\ \A e \in Ends : Idle(e) \in CallState
  <1>1. \A s \in Steps : [r EXCEPT !.st = s] \in CallState
    BY DEF CallState
  <1>2. ASSUME NEW n \in 0..MaxId
        PROVE  [r EXCEPT !.st = "numbered", !.id = n] \in CallState
    BY DEF CallState, Steps
  <1>3. 0 \in 0..MaxId
    BY BoundsAssumption
  <1>4. \A e \in Ends : Idle(e) \in CallState
    BY <1>3 DEF CallState, Idle, Steps
  <1> QED
    BY <1>1, <1>2, <1>4

\* One caller moves, and nobody else does.
LEMMA CallMoves ==
    ASSUME call \in [Callers -> CallState], NEW c \in Callers, NEW r \in CallState,
           call' = [call EXCEPT ![c] = r]
    PROVE  /\ call' \in [Callers -> CallState]
           /\ call'[c] = r /\ \A d \in Callers \ {c} : call'[d] = call[d]
  OBVIOUS

LEMMA AppendTypes ==
    ASSUME NEW S, NEW s \in Seq(S), NEW e \in S
    PROVE  Append(s, e) \in Seq(S)
  OBVIOUS

LEMMA TailTypes ==
    ASSUME NEW S, NEW s \in Seq(S), s # <<>>
    PROVE  Tail(s) \in Seq(S) /\ Head(s) \in S
  OBVIOUS

\* What a caller's step does to the callers: only it moves, to a state of the type.
LEMMA CallerTypes ==
    ASSUME ClientTypeOK, NumbersAreTheirOwn, NEW c \in Callers, Begin(c) \/ CallerStep(c)
    PROVE  /\ call' \in [Callers -> CallState]
           /\ \A d \in Callers \ {c} : call'[d] = call[d]
  <1> USE DEF ClientTypeOK
  <1>0. call[c] \in CallState /\ MaxId \in Nat
    BY BoundsAssumption
  <1>1. CASE Begin(c)
    BY <1>0, <1>1, CallStates, CallMoves DEF Begin, Steps
  <1>2. CASE Number(c)
    <2>1. nextID + 1 \in 0..MaxId
      BY <1>0, <1>2 DEF Number
    <2> QED
      BY <1>0, <1>2, <2>1, CallStates, CallMoves DEF Number
  <1>3. CASE Register(c)
    BY <1>0, <1>3, CallStates, CallMoves DEF Register, Steps, Ends
  <1>4. CASE Send(c)
    BY <1>0, <1>4, CallStates, CallMoves DEF Send, Steps
  <1>5. CASE SendFails(c)
    BY <1>0, <1>5, CallStates, CallMoves DEF SendFails, Steps, Ends
  <1>6. CASE Take(c)
    <2>0. call[c].id \in 0..MaxId /\ call[c].st = "waiting"
      BY <1>0, <1>6 DEF CallState, Take
    <2>a. call[c].id # 0
      BY <2>0 DEF NumbersAreTheirOwn
    <2>1. call[c].id \in Ids
      BY <1>0, <2>0, <2>a DEF Ids
    <2>2. slot[call[c].id] \in Ends
      BY <1>6, <2>1 DEF Take, Ends
    <2> QED
      BY <1>0, <1>6, <2>2, CallStates, CallMoves DEF Take
  <1>7. CASE Abandon(c)
    BY <1>0, <1>7, CallStates, CallMoves DEF Abandon, Steps
  <1>8. CASE EndGrace(c)
    BY <1>0, <1>8, CallStates, CallMoves DEF EndGrace, Ends
  <1> QED
    BY <1>1, <1>2, <1>3, <1>4, <1>5, <1>6, <1>7, <1>8 DEF CallerStep

LEMMA WireTypes ==
    ASSUME NEW id \in Ids
    PROVE  /\ Request(id) \in Lines("server") /\ Cancelled(id) \in Lines("server")
           /\ Answer(id) \in Lines("client")
           /\ \A what \in Notes : Note(what) \in Lines("client")
  BY DEF Lines, Request, Cancelled, Answer, Note

\* Every variable stays in its set.
LEMMA ClientTyping == ClientTypeOK /\ NumbersAreTheirOwn /\ [ClientNext]_vars => ClientTypeOK'
  <1> SUFFICES ASSUME ClientTypeOK, NumbersAreTheirOwn, [ClientNext]_vars PROVE ClientTypeOK'
    OBVIOUS
  <1> USE DEF ClientTypeOK, clientVars, serverVars
  <1>0. \A c \in Callers : call[c] \in CallState
                           /\ (call[c].st \notin {"idle", "named"} => call[c].id \in Ids)
    BY BoundsAssumption DEF NumbersAreTheirOwn, CallState, Ids
  <1>1. ASSUME NEW c \in Callers, Begin(c) PROVE ClientTypeOK'
    BY <1>1, CallerTypes DEF Begin
  <1>2. ASSUME NEW c \in Callers, CallerStep(c) PROVE ClientTypeOK'
    <2>1. call' \in [Callers -> CallState]
      BY <1>2, CallerTypes
    <2>2. nextID' \in 0..MaxId
      BY <1>2, BoundsAssumption DEF CallerStep, Number, Register, Send, SendFails, Take, Abandon, EndGrace
    <2>3. waiting' \subseteq Ids
      BY <1>0, <1>2 DEF CallerStep, Number, Register, Send, SendFails, Take, Abandon, EndGrace
    <2>4. toServer' \in Seq(Lines("server"))
      <3>1. CASE Send(c)
        BY <1>0, <3>1, WireTypes, AppendTypes DEF Send
      <3>2. CASE Abandon(c)
        BY <1>0, <3>2, WireTypes, AppendTypes DEF Abandon
      <3> QED
        BY <1>2, <3>1, <3>2 DEF CallerStep, Number, Register, SendFails, Take, EndGrace
    <2>5. UNCHANGED <<reader, give, slot, ctx, up, fromServer, serving>>
      BY <1>2 DEF CallerStep, Number, Register, Send, SendFails, Take, Abandon, EndGrace
    <2> QED
      BY <2>1, <2>2, <2>3, <2>4, <2>5
  <1>3. ASSUME NEW c \in Callers, CancelContext(c) PROVE ClientTypeOK'
    BY <1>3 DEF CancelContext
  <1>4. CASE Deliver
    BY <1>4, TailTypes DEF Deliver, Arrived
  <1>5. ASSUME NEW id \in Ids, HandOver(id) PROVE ClientTypeOK'
    BY <1>5 DEF HandOver
  <1>6. CASE FailWaiters
    BY <1>6 DEF FailWaiters
  <1>7. CASE CloseDone
    BY <1>7 DEF CloseDone
  <1>8. CASE HandleNotification
    BY <1>8, TailTypes DEF HandleNotification, Arrived
  <1>9. CASE ServerReads
    <2>0. Head(toServer) \in Lines("server") /\ Tail(toServer) \in Seq(Lines("server"))
      BY <1>9, TailTypes DEF ServerReads
    <2>1. Head(toServer).id \in Ids /\ Tail(toServer) \in Seq(Lines("server"))
      BY <2>0 DEF Lines
    <2>2. serving' \in [Ids -> {"no", "working", "told"}]
      BY <1>9, <2>1 DEF ServerReads
    <2> QED
      BY <1>9, <2>1, <2>2 DEF ServerReads
  <1>10. ASSUME NEW id \in Ids, ServerAnswers(id) PROVE ClientTypeOK'
    <2>1. fromServer' \in Seq(Lines("client"))
      BY <1>10, WireTypes, AppendTypes DEF ServerAnswers
    <2>2. serving' \in [Ids -> {"no", "working", "told"}]
      BY <1>10 DEF ServerAnswers
    <2>3. UNCHANGED <<nextID, waiting, reader, give, slot, call, ctx, up, toServer>>
      BY <1>10 DEF ServerAnswers
    <2> QED
      BY <2>1, <2>2, <2>3
  <1>11. CASE Break
    <2>1. <<>> \in Seq(Lines("server")) /\ [id \in Ids |-> "no"] \in [Ids -> {"no", "working", "told"}]
      OBVIOUS
    <2>2. UNCHANGED <<nextID, waiting, reader, give, slot, call, ctx, fromServer>>
      BY <1>11 DEF Break
    <2> QED
      BY <1>11, <2>1, <2>2 DEF Break
  <1>12. ASSUME NEW what \in Notes, ServerSays(what) PROVE ClientTypeOK'
    <2>1. Note(what) \in Lines("client")
      BY DEF Lines, Note
    <2> QED
      BY <1>12, <2>1, AppendTypes DEF ServerSays
  <1>13. CASE UNCHANGED vars
    BY <1>13 DEF vars
  <1> QED
    BY <1>1, <1>2, <1>3, <1>4, <1>5, <1>6, <1>7, <1>8, <1>9, <1>10, <1>11, <1>12, <1>13
       DEF ClientNext, ReaderStep, Server

-----------------------------------------------------------------------------
(* Where a request is. *)

LEMMA ClientStarts == ClientInit => ClientInv
  <1> SUFFICES ASSUME ClientInit PROVE ClientInv
    OBVIOUS
  <1>1. 0 \in 0..MaxId /\ 0 \notin Ids
    BY BoundsAssumption DEF Ids
  <1>2. ClientTypeOK
    <2>1. Idle("none") \in CallState
      BY <1>1 DEF CallState, Idle, Steps, Ends
    <2> QED
      BY <1>1, <2>1 DEF ClientInit, ClientTypeOK
  <1>3. NumbersAreTheirOwn
    BY <1>1 DEF ClientInit, NumbersAreTheirOwn, Idle
  <1> QED
    BY <1>2, <1>3 DEF ClientInit, ClientInv, FreshIsUntouched, Untouched, SomewhereOnce, InFlight, Idle,
       ReaderLeavesNothing, Closed, NoWaiterLeaks, ReaderNeverBlocks

LEMMA ClientStep == ClientInv /\ [ClientNext]_vars => ClientInv'
  <1> SUFFICES ASSUME ClientInv, [ClientNext]_vars PROVE ClientInv'
    OBVIOUS
  <1>t. ClientTypeOK'
    BY ClientTyping DEF ClientInv
  <1> USE BoundsAssumption DEF clientVars, serverVars
  <1> DEFINE Placed == /\ NumbersAreTheirOwn /\ FreshIsUntouched /\ SomewhereOnce
                       /\ ReaderLeavesNothing /\ NoWaiterLeaks /\ ReaderNeverBlocks
  <1>q. SUFFICES Placed'
    BY <1>t DEF ClientInv
  <1>0. /\ \A c \in Callers : /\ call[c] \in CallState /\ call[c].id \in 0..MaxId
                              /\ (call[c].id # 0 => call[c].id \in Ids)
                              /\ (call[c].id = 0 <=> call[c].st \in {"idle", "named"})
        /\ nextID \in 0..MaxId /\ Ids \subseteq Nat \ {0}
    BY DEF ClientInv, ClientTypeOK, NumbersAreTheirOwn, CallState, Ids
  <1>1. ASSUME NEW c \in Callers, Begin(c) PROVE Placed'
    <2>1. /\ call'[c].st = "named" /\ call'[c].id = 0 /\ call[c].st = "idle"
          /\ \A d \in Callers \ {c} : call'[d] = call[d]
          /\ UNCHANGED <<nextID, waiting, reader, give, slot>>
      BY <1>0, <1>1 DEF Begin, ClientInv, ClientTypeOK, CallState
    <2>2. NumbersAreTheirOwn'
      BY <1>0, <2>1 DEF ClientInv, NumbersAreTheirOwn
    <2>3. \A d \in Callers : (InFlight(d) \/ InFlight(d)' \/ call'[d].st = "numbered") => d # c
      BY <2>1 DEF InFlight
    <2> QED
      BY <2>1, <2>2, <2>3 DEF ClientInv, FreshIsUntouched, Untouched, SomewhereOnce, ReaderLeavesNothing,
         NoWaiterLeaks, ReaderNeverBlocks, InFlight, Closed
  <1>2. ASSUME NEW c \in Callers, Number(c) PROVE Placed'
    <2>1. /\ call'[c].st = "numbered" /\ call'[c].id = nextID + 1 /\ nextID' = nextID + 1
          /\ call[c].st = "named" /\ nextID + 1 \in Ids
          /\ \A d \in Callers \ {c} : call'[d] = call[d]
          /\ UNCHANGED <<waiting, reader, give, slot>>
      BY <1>0, <1>2 DEF Number, ClientInv, ClientTypeOK, CallState, Ids
    <2>2. NumbersAreTheirOwn'
      BY <1>0, <2>1 DEF ClientInv, NumbersAreTheirOwn
    <2>3. FreshIsUntouched'
      <3>1. Untouched(nextID + 1) /\ \A id \in Ids : id > nextID + 1 => Untouched(id)
        BY <1>0, <2>1 DEF ClientInv, FreshIsUntouched
      <3>2. \A id \in Ids : Untouched(id) => Untouched(id)'
        BY <2>1 DEF Untouched
      <3>3. \A d \in Callers : call'[d].st = "numbered" => Untouched(call'[d].id)
        BY <2>1, <3>1 DEF ClientInv, FreshIsUntouched
      <3>4. \A d \in Callers : call'[d].st = "numbered" => call'[d].id \in Ids
        BY <1>0, <2>1
      <3> QED
        BY <2>1, <3>1, <3>2, <3>3, <3>4 DEF FreshIsUntouched
    <2>4. \A d \in Callers : InFlight(d) \/ InFlight(d)' => d # c
      BY <2>1 DEF InFlight
    <2> QED
      BY <2>1, <2>2, <2>3, <2>4 DEF ClientInv, SomewhereOnce, ReaderLeavesNothing,
         NoWaiterLeaks, ReaderNeverBlocks, InFlight, Closed
  <1>3. ASSUME NEW c \in Callers, Register(c) PROVE Placed'
    <2>0. /\ call[c].st = "numbered" /\ call[c].id \in Ids /\ Untouched(call[c].id)
          /\ \A d \in Callers \ {c} : call'[d] = call[d] /\ call[d].id # call[c].id
          /\ UNCHANGED <<nextID, reader, give, slot>>
      BY <1>0, <1>3 DEF Register, ClientInv, ClientTypeOK, FreshIsUntouched, NumbersAreTheirOwn
    <2>1. CASE Closed
      <3>1. call'[c].st = "idle" /\ call'[c].id = 0 /\ UNCHANGED waiting
        BY <1>0, <1>3, <2>1 DEF Register, ClientInv, ClientTypeOK, Idle
      <3>2. NumbersAreTheirOwn'
        BY <1>0, <2>0, <3>1 DEF ClientInv, NumbersAreTheirOwn
      <3>3. \A d \in Callers : (InFlight(d) \/ InFlight(d)' \/ call'[d].st = "numbered") => d # c
        BY <2>0, <3>1 DEF InFlight
      <3> QED
        BY <2>0, <3>1, <3>2, <3>3 DEF ClientInv, FreshIsUntouched, Untouched, SomewhereOnce,
           ReaderLeavesNothing, NoWaiterLeaks, ReaderNeverBlocks, InFlight, Closed
    <2>2. CASE ~Closed
      <3>1. /\ call'[c].st = "registered" /\ call'[c].id = call[c].id
            /\ waiting' = waiting \cup {call[c].id}
        BY <1>0, <1>3, <2>2 DEF Register, ClientInv, ClientTypeOK, CallState
      <3>2. NumbersAreTheirOwn'
        BY <1>0, <2>0, <3>1 DEF ClientInv, NumbersAreTheirOwn
      <3>3. FreshIsUntouched'
        BY <1>0, <2>0, <3>1 DEF ClientInv, FreshIsUntouched, Untouched, NumbersAreTheirOwn
      <3>4. SomewhereOnce'
        BY <2>0, <3>1 DEF ClientInv, SomewhereOnce, InFlight, Untouched
      <3>5. NoWaiterLeaks'
        BY <2>0, <3>1 DEF ClientInv, NoWaiterLeaks, InFlight
      <3> QED
        BY <2>0, <2>2, <3>1, <3>2, <3>3, <3>4, <3>5 DEF ClientInv, ReaderLeavesNothing, ReaderNeverBlocks, Closed
    <2> QED
      BY <2>1, <2>2
  \* A step that leaves its caller in flight, and nothing moved.
  <1>4. ASSUME NEW c \in Callers, InFlight(c), InFlight(c)', call'[c].id = call[c].id,
               \A d \in Callers \ {c} : call'[d] = call[d],
               UNCHANGED <<nextID, waiting, reader, give, slot>>
        PROVE Placed'
    <2>1. NumbersAreTheirOwn'
      BY <1>0, <1>4 DEF ClientInv, NumbersAreTheirOwn, InFlight
    <2>2. FreshIsUntouched'
      BY <1>4 DEF ClientInv, FreshIsUntouched, Untouched, InFlight
    <2>3. \A d \in Callers : InFlight(d)' <=> InFlight(d)
      BY <1>4 DEF InFlight
    <2>4. \A d \in Callers : call'[d].id = call[d].id
      BY <1>4
    <2> QED
      BY <1>4, <2>1, <2>2, <2>3, <2>4 DEF ClientInv, SomewhereOnce, ReaderLeavesNothing, NoWaiterLeaks,
         ReaderNeverBlocks, Closed
  \* A step that lets its caller go, having taken it out of the waiters.
  <1>5. ASSUME NEW c \in Callers, InFlight(c), call'[c].st = "idle", call'[c].id = 0,
               \A d \in Callers \ {c} : call'[d] = call[d],
               \/ waiting' = waiting \ {call[c].id}
               \/ waiting' = waiting /\ slot[call[c].id] # "empty",
               UNCHANGED <<nextID, reader, give, slot>>
        PROVE Placed'
    <2>1. call[c].id \in Ids /\ \A d \in Callers \ {c} : call[d].id # call[c].id
      BY <1>0, <1>5 DEF ClientInv, NumbersAreTheirOwn, InFlight
    <2>2. waiting' = waiting \ {call[c].id}
      BY <1>5 DEF ClientInv, SomewhereOnce
    <2>3. NumbersAreTheirOwn'
      BY <1>0, <1>5, <2>1 DEF ClientInv, NumbersAreTheirOwn
    <2>4. FreshIsUntouched'
      BY <1>5, <2>2 DEF ClientInv, FreshIsUntouched, Untouched
    <2>5. \A d \in Callers \ {c} : InFlight(d)' <=> InFlight(d)
      BY <1>5 DEF InFlight
    <2>6. ~InFlight(c)'
      BY <1>5 DEF InFlight
    <2>7. SomewhereOnce'
      BY <1>5, <2>1, <2>2, <2>5, <2>6 DEF ClientInv, SomewhereOnce
    <2>8. NoWaiterLeaks'
      BY <1>5, <2>1, <2>2, <2>5 DEF ClientInv, NoWaiterLeaks
    <2> QED
      BY <1>5, <2>2, <2>3, <2>4, <2>7, <2>8 DEF ClientInv, ReaderLeavesNothing, ReaderNeverBlocks, Closed
  <1>6. ASSUME NEW c \in Callers, Send(c) \/ SendFails(c) \/ Take(c) \/ Abandon(c) \/ EndGrace(c)
        PROVE Placed'
    <2>0. InFlight(c) /\ \A d \in Callers \ {c} : call'[d] = call[d]
      BY <1>6, CallerTypes DEF CallerStep, Send, SendFails, Take, Abandon, EndGrace, InFlight, ClientInv
    <2>1. CASE Send(c)
      <3>1. call'[c].st = "waiting" /\ call'[c].id = call[c].id
        BY <1>0, <2>1 DEF Send, ClientInv, ClientTypeOK, CallState
      <3>2. InFlight(c)'
        BY <3>1 DEF InFlight
      <3>3. UNCHANGED <<nextID, waiting, reader, give, slot>>
        BY <2>1 DEF Send
      <3> QED
        BY <1>4, <2>0, <3>1, <3>2, <3>3
    <2>2. CASE SendFails(c)
      <3>1. CASE call' = [call EXCEPT ![c] = Idle("unsent")] /\ waiting' = waiting \ {call[c].id}
        <4>1. call'[c].st = "idle" /\ call'[c].id = 0
          BY <3>1 DEF ClientInv, ClientTypeOK, Idle
        <4>2. UNCHANGED <<nextID, reader, give, slot>>
          BY <2>2 DEF SendFails
        <4> QED
          BY <1>5, <2>0, <3>1, <4>1, <4>2
      <3>2. CASE call' = [call EXCEPT ![c] = [@ EXCEPT !.st = "waiting"]] /\ UNCHANGED waiting
        <4>1. call'[c].st = "waiting" /\ call'[c].id = call[c].id
          BY <1>0, <3>2 DEF ClientInv, ClientTypeOK, CallState
        <4>2. InFlight(c)'
          BY <4>1 DEF InFlight
        <4>3. UNCHANGED <<nextID, waiting, reader, give, slot>>
          BY <2>2, <3>2 DEF SendFails
        <4> QED
          BY <1>4, <2>0, <4>1, <4>2, <4>3
      <3> QED
        BY <2>2, <3>1, <3>2 DEF SendFails
    <2>3. CASE Take(c)
      <3>1. call'[c].st = "idle" /\ call'[c].id = 0
        BY <2>3 DEF Take, ClientInv, ClientTypeOK, Idle
      <3>2. UNCHANGED <<nextID, waiting, reader, give, slot>> /\ slot[call[c].id] # "empty"
        BY <2>3 DEF Take
      <3> QED
        BY <1>5, <2>0, <3>1, <3>2
    <2>4. CASE Abandon(c)
      <3>1. call'[c].st = "grace" /\ call'[c].id = call[c].id
        BY <1>0, <2>4 DEF Abandon, ClientInv, ClientTypeOK, CallState
      <3>2. InFlight(c)'
        BY <3>1 DEF InFlight
      <3>3. UNCHANGED <<nextID, waiting, reader, give, slot>>
        BY <2>4 DEF Abandon
      <3> QED
        BY <1>4, <2>0, <3>1, <3>2, <3>3
    <2>5. CASE EndGrace(c)
      <3>1. call'[c].st = "idle" /\ call'[c].id = 0
        BY <2>5 DEF EndGrace, ClientInv, ClientTypeOK, Idle
      <3>2. /\ UNCHANGED <<nextID, reader, give, slot>>
            /\ \/ waiting' = waiting \ {call[c].id}
               \/ waiting' = waiting /\ slot[call[c].id] # "empty"
        BY <2>5 DEF EndGrace
      <3> QED
        BY <1>5, <2>0, <3>1, <3>2
    <2> QED
      BY <1>6, <2>1, <2>2, <2>3, <2>4, <2>5
  <1>7. CASE Deliver
    <2>1. /\ UNCHANGED <<nextID, call, reader, slot>> /\ give' \subseteq waiting
          /\ waiting' = waiting \ give' /\ give = {} /\ reader = "reading"
      BY <1>7 DEF Deliver, Arrived
    <2>2. NumbersAreTheirOwn' /\ \A c \in Callers : InFlight(c)' <=> InFlight(c)
      BY <2>1 DEF ClientInv, NumbersAreTheirOwn, InFlight
    <2>3. FreshIsUntouched'
      BY <2>1 DEF ClientInv, FreshIsUntouched, Untouched
    <2>4. SomewhereOnce' /\ ReaderNeverBlocks'
      BY <2>1, <2>2 DEF ClientInv, SomewhereOnce, ReaderNeverBlocks
    <2>5. NoWaiterLeaks'
      BY <2>1, <2>2 DEF ClientInv, NoWaiterLeaks
    <2> QED
      BY <2>1, <2>2, <2>3, <2>4, <2>5 DEF ClientInv, ReaderLeavesNothing, Closed
  <1>8. ASSUME NEW id \in Ids, HandOver(id) PROVE Placed'
    <2>1. /\ UNCHANGED <<nextID, call, reader, waiting>> /\ id \in give /\ give' = give \ {id}
          /\ slot'[id] # "empty" /\ \A i \in Ids \ {id} : slot'[i] = slot[i]
      BY <1>8 DEF HandOver, ClientInv, ClientTypeOK
    <2>2. NumbersAreTheirOwn' /\ \A c \in Callers : InFlight(c)' <=> InFlight(c)
      BY <2>1 DEF ClientInv, NumbersAreTheirOwn, InFlight
    <2>3. FreshIsUntouched'
      BY <1>0, <2>1 DEF ClientInv, FreshIsUntouched, Untouched
    <2>4. \A i \in waiting \cup give : i \in Ids
      BY DEF ClientInv, ClientTypeOK
    <2>5. SomewhereOnce' /\ ReaderNeverBlocks'
      <3>1. \A c \in Callers : InFlight(c) => call[c].id \in Ids
        BY <1>0 DEF InFlight
      <3> QED
        BY <2>1, <2>2, <2>4, <3>1 DEF ClientInv, SomewhereOnce, ReaderNeverBlocks
    <2>6. NoWaiterLeaks'
      BY <2>1, <2>2 DEF ClientInv, NoWaiterLeaks
    <2> QED
      BY <2>1, <2>2, <2>3, <2>5, <2>6 DEF ClientInv, ReaderLeavesNothing, Closed
  <1>9. CASE FailWaiters
    <2>1. /\ UNCHANGED <<nextID, call, slot>> /\ give' = waiting /\ waiting' = {} /\ give = {}
          /\ reader' = "failing"
      BY <1>9 DEF FailWaiters
    <2>2. NumbersAreTheirOwn' /\ \A c \in Callers : InFlight(c)' <=> InFlight(c)
      BY <2>1 DEF ClientInv, NumbersAreTheirOwn, InFlight
    <2> QED
      BY <2>1, <2>2 DEF ClientInv, FreshIsUntouched, Untouched, SomewhereOnce, ReaderLeavesNothing,
         NoWaiterLeaks, ReaderNeverBlocks, Closed
  <1>10. CASE CloseDone
    BY <1>10 DEF CloseDone, ClientInv, NumbersAreTheirOwn, FreshIsUntouched, Untouched, SomewhereOnce,
       ReaderLeavesNothing, NoWaiterLeaks, ReaderNeverBlocks, InFlight, Closed
  <1>11. CASE UNCHANGED <<nextID, call, waiting, reader, give, slot>>
    BY <1>11 DEF ClientInv, NumbersAreTheirOwn, FreshIsUntouched, Untouched, SomewhereOnce,
       ReaderLeavesNothing, NoWaiterLeaks, ReaderNeverBlocks, InFlight, Closed
  <1>12. ASSUME NEW c \in Callers, CancelContext(c) PROVE Placed'
    BY <1>11, <1>12 DEF CancelContext
  <1>13. CASE HandleNotification
    BY <1>11, <1>13 DEF HandleNotification
  <1>14. CASE Server \/ \E what \in Notes : ServerSays(what)
    BY <1>11, <1>14 DEF Server, ServerReads, ServerAnswers, Break, ServerSays
  <1>15. CASE UNCHANGED vars
    BY <1>11, <1>15 DEF vars
  <1> QED
    BY <1>1, <1>2, <1>3, <1>6, <1>7, <1>8, <1>9, <1>10, <1>12, <1>13, <1>14, <1>15
       DEF ClientNext, CallerStep, ReaderStep

THEOREM ClientInvariant == ClientSpec => []ClientInv
  BY ClientStarts, ClientStep, PTL DEF ClientSpec

\* Every variable stays in its set.
THEOREM ClientTypes == ClientSpec => []ClientTypeOK
  <1>1. ClientInv => ClientTypeOK
    BY DEF ClientInv
  <1> QED
    BY <1>1, ClientInvariant, PTL

\* The reader never blocks sending an answer, however many requests race.
THEOREM ReaderIsFree == ClientSpec => []ReaderNeverBlocks
  <1>1. ClientInv => ReaderNeverBlocks
    BY DEF ClientInv
  <1> QED
    BY <1>1, ClientInvariant, PTL

\* Nobody is parked behind a closed connection.
THEOREM NobodyIsParked == ClientSpec => []NobodyParked
  <1>1. ClientInv => NobodyParked
    BY DEF ClientInv, NobodyParked, SomewhereOnce, ReaderLeavesNothing, Closed
  <1> QED
    BY <1>1, ClientInvariant, PTL

\* No waiter outlives its request.
THEOREM WaitersAreOwned == ClientSpec => []NoWaiterLeaks
  <1>1. ClientInv => NoWaiterLeaks
    BY DEF ClientInv
  <1> QED
    BY <1>1, ClientInvariant, PTL

-----------------------------------------------------------------------------
(* What the server works for.                                              *)
(*                                                                         *)
(* The wire keeps the order of one request's lines, so a cancellation is   *)
(* never read before its request; and an answer comes after the work, so   *)
(* a caller that took one leaves none behind.                              *)

Said(s) == {s[i] : i \in 1..Len(s)}

\* Nothing about a request comes before it.
RequestsFirst(s) == \A i, j \in 1..Len(s) : i < j /\ s[j].kind = "request" => s[i].id # s[j].id

\* Nothing of a request with this number has reached the wire.
Unsent(id) ==
    /\ \A m \in Said(toServer) : m.id # id
    /\ serving[id] = "no" /\ Answer(id) \notin Said(fromServer)
    /\ up => id \notin give /\ slot[id] = "empty"

Answered(id) == Answer(id) \in Said(fromServer) \/ id \in give \/ slot[id] # "empty"

Due(id) == serving[id] = "working" \/ Request(id) \in Said(toServer)

Attended(id) ==
    \/ \E c \in Callers : call[c].st = "waiting" /\ call[c].id = id
    \/ Cancelled(id) \in Said(toServer)

ReadOnce == \A id \in Ids : serving[id] # "no" => Request(id) \notin Said(toServer)

FreshIsUnsent ==
    /\ \A id \in Ids : id > nextID => Unsent(id)
    /\ \A c \in Callers : call[c].st \in {"numbered", "registered"} => Unsent(call[c].id)

AnsweredIsDone == \A id \in Ids : Answered(id) => ~Due(id)

BrokenIsEmpty ==
    /\ Closed => ~up
    /\ ~up => toServer = <<>> /\ \A id \in Ids : serving[id] = "no"

DueIsAttended == \A id \in Ids : Due(id) => Attended(id)

WireInv ==
    /\ RequestsFirst(toServer) /\ ReadOnce /\ FreshIsUnsent
    /\ AnsweredIsDone /\ BrokenIsEmpty /\ DueIsAttended

LEMMA SaidAppend ==
    ASSUME NEW S, NEW s \in Seq(S), NEW e \in S
    PROVE  Said(Append(s, e)) = Said(s) \cup {e}
  <1>1. Len(Append(s, e)) = Len(s) + 1 /\ Append(s, e)[Len(s) + 1] = e /\ Len(s) \in Nat
    OBVIOUS
  <1>2. \A i \in 1..Len(s) : Append(s, e)[i] = s[i]
    OBVIOUS
  <1> QED
    BY <1>1, <1>2 DEF Said

LEMMA SaidTail ==
    ASSUME NEW S, NEW s \in Seq(S), s # <<>>
    PROVE  Said(s) = {Head(s)} \cup Said(Tail(s))
  <1>1. Len(s) \in Nat /\ Len(s) >= 1 /\ Len(Tail(s)) = Len(s) - 1 /\ Head(s) = s[1]
    OBVIOUS
  <1>2. \A i \in 1..(Len(s) - 1) : Tail(s)[i] = s[i + 1]
    OBVIOUS
  <1>3. ASSUME NEW m \in Said(s) PROVE m \in {Head(s)} \cup Said(Tail(s))
    <2>1. PICK i \in 1..Len(s) : m = s[i]
      BY DEF Said
    <2>2. CASE i # 1
      <3>1. i - 1 \in 1..Len(Tail(s)) /\ Tail(s)[i - 1] = m
        BY <1>1, <1>2, <2>1, <2>2
      <3> QED
        BY <3>1 DEF Said
    <2> QED
      BY <1>1, <2>1, <2>2
  <1>4. ASSUME NEW m \in {Head(s)} \cup Said(Tail(s)) PROVE m \in Said(s)
    BY <1>1, <1>2 DEF Said
  <1> QED
    BY <1>3, <1>4

LEMMA FirstAppend ==
    ASSUME NEW S, NEW s \in Seq(S), NEW e \in S, RequestsFirst(s),
           e.kind = "request" => \A m \in Said(s) : m.id # e.id
    PROVE  RequestsFirst(Append(s, e))
  <1>1. Len(Append(s, e)) = Len(s) + 1 /\ Append(s, e)[Len(s) + 1] = e /\ Len(s) \in Nat
    OBVIOUS
  <1>2. \A i \in 1..Len(s) : Append(s, e)[i] = s[i]
    OBVIOUS
  <1>3. \A i \in 1..Len(s) : s[i] \in Said(s)
    BY DEF Said
  <1> SUFFICES ASSUME NEW i \in 1..(Len(s) + 1), NEW j \in 1..(Len(s) + 1), i < j,
                      Append(s, e)[j].kind = "request"
               PROVE  Append(s, e)[i].id # Append(s, e)[j].id
    BY <1>1 DEF RequestsFirst
  <1>4. CASE j = Len(s) + 1
    BY <1>1, <1>2, <1>3, <1>4
  <1>5. CASE j \in 1..Len(s)
    BY <1>1, <1>2, <1>5 DEF RequestsFirst
  <1> QED
    BY <1>1, <1>4, <1>5

LEMMA FirstTail ==
    ASSUME NEW S, NEW s \in Seq(S), s # <<>>, RequestsFirst(s)
    PROVE  /\ RequestsFirst(Tail(s))
           /\ \A m \in Said(Tail(s)) : m.kind = "request" => m.id # Head(s).id
  <1>1. Len(s) \in Nat /\ Len(s) >= 1 /\ Len(Tail(s)) = Len(s) - 1 /\ Head(s) = s[1]
    OBVIOUS
  <1>2. \A i \in 1..(Len(s) - 1) : Tail(s)[i] = s[i + 1] /\ i + 1 \in 1..Len(s) /\ 1 < i + 1
    BY <1>1
  <1>3. ASSUME NEW i \in 1..(Len(s) - 1), NEW j \in 1..(Len(s) - 1), i < j,
               Tail(s)[j].kind = "request"
        PROVE  Tail(s)[i].id # Tail(s)[j].id
    BY <1>1, <1>2, <1>3 DEF RequestsFirst
  <1>4. ASSUME NEW m \in Said(Tail(s)), m.kind = "request" PROVE m.id # Head(s).id
    <2>1. PICK i \in 1..(Len(s) - 1) : m = Tail(s)[i]
      BY <1>1 DEF Said
    <2> QED
      BY <1>1, <1>2, <1>4, <2>1 DEF RequestsFirst
  <1> QED
    BY <1>1, <1>3, <1>4 DEF RequestsFirst

\* The lines of one request differ, and name it.
LEMMA Kinds ==
    ASSUME NEW id, NEW jd
    PROVE  /\ Request(id) # Cancelled(jd) /\ Request(id).kind = "request" /\ Cancelled(id).kind = "cancelled"
           /\ Request(id).id = id /\ Cancelled(id).id = id
           /\ (Request(id) = Request(jd) => id = jd) /\ (Cancelled(id) = Cancelled(jd) => id = jd)
           /\ (Answer(id) = Answer(jd) => id = jd) /\ Answer(id).id = id
           /\ \A what \in Notes : Answer(id) # Note(what)
  BY DEF Request, Cancelled, Answer, Note

LEMMA WireStarts == ClientInit => WireInv
  <1> SUFFICES ASSUME ClientInit PROVE WireInv
    OBVIOUS
  <1>1. Said(<<>>) = {}
    BY DEF Said
  <1>2. RequestsFirst(<<>>)
    BY DEF RequestsFirst
  <1>3. \A c \in Callers : call[c].st = "idle"
    BY DEF ClientInit, Idle
  <1> QED
    BY <1>1, <1>2, <1>3 DEF ClientInit, WireInv, ReadOnce, FreshIsUnsent, Unsent, AnsweredIsDone,
       Answered, Due, BrokenIsEmpty, Closed, DueIsAttended

\* What a step of a caller, a wire left alone, has to keep: that callers with
\* work under way are there, and that new numbers are unsent.
LEMMA QuietStep ==
    ASSUME WireInv, UNCHANGED <<reader, give, slot, up, toServer, fromServer, serving>>,
           FreshIsUnsent',
           \A id \in Ids : Due(id) /\ Attended(id) => Attended(id)'
    PROVE  WireInv'
  <1>1. \A id \in Ids : (Due(id)' <=> Due(id)) /\ (Answered(id)' <=> Answered(id))
    BY DEF Due, Answered
  <1> QED
    BY <1>1 DEF WireInv, ReadOnce, AnsweredIsDone, BrokenIsEmpty, Closed, DueIsAttended

LEMMA CallerWire ==
    ASSUME ClientInv, WireInv, NEW c \in Callers, Begin(c) \/ CallerStep(c)
    PROVE  WireInv'
  <1> USE DEF clientVars, serverVars
  <1>0. /\ call \in [Callers -> CallState] /\ nextID \in Nat
        /\ \A d \in Callers \ {c} : call'[d] = call[d]
        /\ \A d \in Callers : call[d].id # 0 => call[d].id \in Ids /\ call[d].id <= nextID
        /\ \A d \in Callers \ {c} : call[c].id # 0 => call[d].id # call[c].id
        /\ call[c] \in CallState
    BY CallerTypes, BoundsAssumption DEF ClientInv, ClientTypeOK, NumbersAreTheirOwn, CallState, Ids
  <1>1. CASE Begin(c)
    <2>1. call'[c].st = "named" /\ call[c].st = "idle"
      BY <1>0, <1>1 DEF Begin, CallState
    <2>2. FreshIsUnsent'
      BY <1>0, <1>1, <2>1 DEF Begin, WireInv, FreshIsUnsent, Unsent
    <2>3. \A id \in Ids : Attended(id) => Attended(id)'
      BY <1>0, <1>1, <2>1 DEF Begin, Attended
    <2> QED
      BY <1>1, <2>2, <2>3, QuietStep DEF Begin
  <1>2. CASE Number(c)
    <2>1. /\ call'[c].st = "numbered" /\ call[c].st = "named" /\ nextID' = nextID + 1
          /\ call'[c].id = nextID + 1 /\ nextID + 1 \in Ids
      BY <1>0, <1>2, BoundsAssumption DEF Number, CallState, Ids
    <2>2. FreshIsUnsent'
      <3>1. Unsent(nextID + 1) /\ \A id \in Ids : id > nextID + 1 => Unsent(id)
        BY <1>0, <2>1 DEF WireInv, FreshIsUnsent, Ids
      <3>2. \A id : Unsent(id)' <=> Unsent(id)
        BY <1>2 DEF Number, Unsent
      <3> QED
        BY <1>0, <2>1, <3>1, <3>2 DEF WireInv, FreshIsUnsent
    <2>3. \A id \in Ids : Attended(id) => Attended(id)'
      BY <1>0, <1>2, <2>1 DEF Number, Attended
    <2> QED
      BY <1>2, <2>2, <2>3, QuietStep DEF Number
  <1>3. CASE Register(c)
    <2>1. /\ call[c].st = "numbered"
          /\ \/ call'[c].st = "idle"
             \/ call'[c].st = "registered" /\ call'[c].id = call[c].id
      BY <1>0, <1>3 DEF Register, Idle, CallState
    <2>2. FreshIsUnsent'
      BY <1>0, <1>3, <2>1 DEF Register, WireInv, FreshIsUnsent, Unsent
    <2>3. \A id \in Ids : Attended(id) => Attended(id)'
      BY <1>0, <1>3, <2>1 DEF Register, Attended
    <2> QED
      BY <1>3, <2>2, <2>3, QuietStep DEF Register
  <1>4. CASE SendFails(c)
    <2>1. call[c].st = "registered" /\ call'[c].st \in {"idle", "waiting"} /\ ~up
      BY <1>0, <1>4 DEF SendFails, Idle, CallState
    <2>2. FreshIsUnsent'
      BY <1>0, <1>4, <2>1 DEF SendFails, WireInv, FreshIsUnsent, Unsent
    <2>3. \A id \in Ids : Attended(id) => Attended(id)'
      BY <1>0, <1>4, <2>1 DEF SendFails, Attended
    <2> QED
      BY <1>4, <2>2, <2>3, QuietStep DEF SendFails
  <1>5. CASE Take(c)
    <2>1. call[c].st = "waiting" /\ call'[c].st = "idle" /\ slot[call[c].id] # "empty" /\ call[c].id # 0
      BY <1>0, <1>5 DEF Take, Idle, ClientInv, NumbersAreTheirOwn
    <2>2. FreshIsUnsent'
      BY <1>0, <1>5, <2>1 DEF Take, WireInv, FreshIsUnsent, Unsent
    <2>3. ~Due(call[c].id)
      BY <1>0, <2>1 DEF WireInv, AnsweredIsDone, Answered
    <2>4. \A id \in Ids : Due(id) /\ Attended(id) => Attended(id)'
      BY <1>0, <1>5, <2>1, <2>3 DEF Take, Attended
    <2> QED
      BY <1>5, <2>2, <2>4, QuietStep DEF Take
  <1>6. CASE EndGrace(c)
    <2>1. call[c].st = "grace" /\ call'[c].st = "idle"
      BY <1>0, <1>6 DEF EndGrace, Idle
    <2>2. FreshIsUnsent'
      BY <1>0, <1>6, <2>1 DEF EndGrace, WireInv, FreshIsUnsent, Unsent
    <2>3. \A id \in Ids : Attended(id) => Attended(id)'
      BY <1>0, <1>6, <2>1 DEF EndGrace, Attended
    <2> QED
      BY <1>6, <2>2, <2>3, QuietStep DEF EndGrace
  <1>7. CASE Send(c)
    <2> DEFINE n == call[c].id
    <2>1. /\ call[c].st = "registered" /\ call'[c].st = "waiting" /\ call'[c].id = n /\ up
          /\ n \in Ids /\ n <= nextID /\ Unsent(n) /\ Request(n) \in Lines("server")
          /\ toServer' = Append(toServer, Request(n)) /\ toServer \in Seq(Lines("server"))
          /\ UNCHANGED <<nextID, reader, give, slot, up, fromServer, serving>>
      <3>1. call[c].st = "registered" /\ n # 0
        BY <1>7 DEF Send, ClientInv, NumbersAreTheirOwn
      <3>2. n \in Ids /\ n <= nextID /\ Unsent(n)
        BY <1>0, <3>1 DEF WireInv, FreshIsUnsent
      <3>3. call'[c].st = "waiting" /\ call'[c].id = n
        BY <1>0, <1>7 DEF Send, CallState
      <3> QED
        BY <1>7, <3>1, <3>2, <3>3, WireTypes DEF Send, ClientInv, ClientTypeOK
    <2>2. Said(toServer)' = Said(toServer) \cup {Request(n)}
      BY <2>1, SaidAppend
    <2>3. RequestsFirst(toServer)'
      BY <2>1, FirstAppend, Kinds DEF WireInv, Unsent
    <2>4. ReadOnce'
      BY <2>1, <2>2, Kinds DEF WireInv, ReadOnce, Unsent
    <2>5. \A id \in Ids : id # n => (Unsent(id) => Unsent(id)') /\ (Due(id)' <=> Due(id))
      BY <2>1, <2>2, Kinds DEF Unsent, Due
    <2>6. FreshIsUnsent'
      <3>1. ASSUME NEW id \in Ids, id > nextID PROVE Unsent(id)'
        BY <1>0, <2>1, <2>5, <3>1 DEF WireInv, FreshIsUnsent, Ids
      <3>2. ASSUME NEW d \in Callers, call'[d].st \in {"numbered", "registered"} PROVE Unsent(call[d].id)'
        <4>1. d # c /\ call'[d] = call[d] /\ call[d].id # n /\ call[d].id \in Ids
          BY <1>0, <2>1, <3>2 DEF ClientInv, NumbersAreTheirOwn, Ids
        <4>2. Unsent(call[d].id)
          BY <3>2, <4>1 DEF WireInv, FreshIsUnsent
        <4>3. \A id \in Ids : id # n /\ Unsent(id) /\ id = call'[d].id => Unsent(call[d].id)'
          BY <2>1, <2>2, Kinds DEF Unsent
        <4> QED
          BY <4>1, <4>2, <4>3
      <3> QED
        BY <2>1, <3>1, <3>2 DEF FreshIsUnsent
    <2>7. AnsweredIsDone'
      <3>1. \A id \in Ids : Answered(id)' <=> Answered(id)
        BY <2>1 DEF Answered
      <3>2. ~Answered(n)
        BY <2>1 DEF Answered, Unsent
      <3> QED
        BY <2>5, <3>1, <3>2 DEF WireInv, AnsweredIsDone
    <2>8. DueIsAttended'
      <3>1. \A id \in Ids : id = n => Attended(id)'
        BY <2>1 DEF Attended
      <3>2. ASSUME NEW id \in Ids, Attended(id) PROVE Attended(id)'
        BY <1>0, <2>1, <2>2, <3>2 DEF Attended
      <3> QED
        BY <2>5, <3>1, <3>2 DEF WireInv, DueIsAttended
    <2> QED
      BY <2>1, <2>3, <2>4, <2>6, <2>7, <2>8 DEF WireInv, BrokenIsEmpty, Closed
  <1>8. CASE Abandon(c)
    <2> DEFINE n == call[c].id
    <2>1. /\ call[c].st = "waiting" /\ call'[c].st = "grace" /\ n \in Ids
          /\ toServer \in Seq(Lines("server")) /\ Cancelled(n) \in Lines("server")
          /\ UNCHANGED <<nextID, reader, give, slot, up, fromServer, serving>>
      <3>1. call[c].st = "waiting" /\ n # 0 /\ call'[c].st = "grace"
        BY <1>0, <1>8 DEF Abandon, ClientInv, NumbersAreTheirOwn, CallState
      <3> QED
        BY <1>0, <1>8, <3>1, WireTypes DEF Abandon, ClientInv, ClientTypeOK
    <2>2. CASE ~up
      <3>1. toServer' = toServer
        BY <1>8, <2>2 DEF Abandon
      <3>2. \A id \in Ids : ~Due(id)
        BY <2>2 DEF WireInv, BrokenIsEmpty, Due, Said
      <3>3. FreshIsUnsent'
        BY <1>0, <2>1, <3>1 DEF WireInv, FreshIsUnsent, Unsent
      <3> QED
        BY <2>1, <3>1, <3>2, <3>3, QuietStep
    <2>3. CASE up
      <3>1. toServer' = Append(toServer, Cancelled(n))
        BY <1>8, <2>3 DEF Abandon
      <3>2. Said(toServer)' = Said(toServer) \cup {Cancelled(n)}
        BY <2>1, <3>1, SaidAppend
      <3>3. RequestsFirst(toServer)'
        BY <2>1, <3>1, FirstAppend, Kinds DEF WireInv
      <3>4. \A id \in Ids : /\ (Due(id)' <=> Due(id)) /\ (Answered(id)' <=> Answered(id))
                            /\ (Request(id) \in Said(toServer)' <=> Request(id) \in Said(toServer))
        BY <2>1, <3>2, Kinds DEF Due, Answered
      <3>5. \A id \in Ids : id # n /\ Unsent(id) => Unsent(id)'
        BY <2>1, <3>2, Kinds DEF Unsent
      <3>6. FreshIsUnsent'
        <4>1. n <= nextID
          BY <1>0, <2>1 DEF ClientInv, NumbersAreTheirOwn
        <4>2. ASSUME NEW id \in Ids, id > nextID PROVE Unsent(id)'
          BY <1>0, <3>5, <4>1, <4>2 DEF WireInv, FreshIsUnsent, Ids
        <4>3. ASSUME NEW d \in Callers, call'[d].st \in {"numbered", "registered"} PROVE Unsent(call[d].id)'
          <5>1. d # c
            BY <2>1, <4>3
          <5>2. call'[d] = call[d] /\ call[d].id # 0
            BY <1>0, <4>3, <5>1 DEF ClientInv, NumbersAreTheirOwn
          <5>3. call[d].id # n /\ call[d].id \in Ids
            BY <1>0, <2>1, <5>1, <5>2 DEF ClientInv, NumbersAreTheirOwn
          <5>4. Unsent(call[d].id)
            BY <4>3, <5>2 DEF WireInv, FreshIsUnsent
          <5>5. \A id \in Ids : id # n /\ Unsent(id) /\ id = call'[d].id => Unsent(call[d].id)'
            BY <2>1, <3>2, Kinds DEF Unsent
          <5> QED
            BY <5>2, <5>3, <5>4, <5>5
        <4> QED
          BY <2>1, <4>2, <4>3 DEF FreshIsUnsent
      <3>7. ASSUME NEW id \in Ids, Attended(id) PROVE Attended(id)'
        BY <1>0, <2>1, <3>2, <3>7 DEF Attended
      <3> QED
        BY <2>1, <2>3, <3>3, <3>4, <3>6, <3>7
           DEF WireInv, ReadOnce, AnsweredIsDone, BrokenIsEmpty, Closed, DueIsAttended
    <2> QED
      BY <2>2, <2>3
  <1> QED
    BY <1>1, <1>2, <1>3, <1>4, <1>5, <1>6, <1>7, <1>8 DEF CallerStep

LEMMA WireStep == ClientInv /\ WireInv /\ [ClientNext]_vars => WireInv'
  <1> SUFFICES ASSUME ClientInv, WireInv, [ClientNext]_vars PROVE WireInv'
    OBVIOUS
  <1> USE DEF clientVars, serverVars
  <1>1. ASSUME NEW c \in Callers, Begin(c) \/ CallerStep(c) PROVE WireInv'
    BY <1>1, CallerWire
  <1>s. /\ toServer \in Seq(Lines("server")) /\ fromServer \in Seq(Lines("client"))
        /\ \A c \in Callers : call[c].st \in {"numbered", "registered"} => call[c].id \in Ids
        /\ nextID \in Nat /\ Ids \subseteq Nat
        /\ waiting \subseteq Ids /\ give \subseteq Ids
    BY BoundsAssumption DEF ClientInv, ClientTypeOK, NumbersAreTheirOwn, CallState, Ids
  \* A step that leaves the callers alone, and makes no unsent number sent.
  <1>2. ASSUME UNCHANGED <<nextID, call>>, \A id \in Ids : Unsent(id) => Unsent(id)' PROVE FreshIsUnsent'
    <2>1. \A c \in Callers : call[c].st \in {"numbered", "registered"} => Unsent(call[c].id)'
      <3>1. ASSUME NEW c \in Callers, call[c].st \in {"numbered", "registered"} PROVE Unsent(call[c].id)'
        <4>1. Unsent(call[c].id) /\ call[c].id \in Ids
          BY <1>s, <3>1 DEF WireInv, FreshIsUnsent
        <4>2. \A id \in Ids : id = call[c].id => Unsent(call[c].id)'
          <5>1. ASSUME NEW id \in Ids, id = call[c].id PROVE Unsent(call[c].id)'
            <6>1. Unsent(id)' /\ call' = call
              BY <1>2, <4>1, <5>1
            <6> QED
              BY <5>1, <6>1 DEF Unsent
          <5> QED
            BY <5>1
        <4> QED
          BY <4>1, <4>2
      <3> QED
        BY <3>1
    <2> QED
      BY <1>2, <2>1 DEF WireInv, FreshIsUnsent
  \* Answers move on, and the wire to the server stays.
  <1>3. ASSUME UNCHANGED <<nextID, call, reader, up, toServer, serving>>,
               \A id \in Ids : Unsent(id) => Unsent(id)',
               \A id \in Ids : Answered(id)' => Answered(id)
        PROVE  WireInv'
    <2>1. \A id \in Ids : (Due(id)' <=> Due(id)) /\ (Attended(id)' <=> Attended(id))
      BY <1>3 DEF Due, Attended
    <2> QED
      BY <1>2, <1>3, <2>1 DEF WireInv, ReadOnce, AnsweredIsDone, BrokenIsEmpty, Closed, DueIsAttended
  \* A step after which nothing is due.
  <1>4. ASSUME UNCHANGED <<nextID, call>>, ~up', toServer' = <<>>, \A id \in Ids : serving'[id] = "no",
               Said(fromServer)' \subseteq Said(fromServer)
        PROVE  WireInv'
    <2>0. Said(toServer)' = {}
      BY <1>4 DEF Said
    <2>1. \A id \in Ids : ~Due(id)' /\ (Unsent(id) => Unsent(id)')
      BY <1>4, <2>0 DEF Due, Unsent
    <2>2. RequestsFirst(toServer)' /\ ReadOnce'
      BY <1>4 DEF RequestsFirst, ReadOnce
    <2> QED
      BY <1>2, <1>4, <2>1, <2>2 DEF WireInv, AnsweredIsDone, BrokenIsEmpty, DueIsAttended
  <1>5. ASSUME NEW c \in Callers, CancelContext(c) PROVE WireInv'
    BY <1>3, <1>5 DEF CancelContext, Unsent, Answered
  <1>6. CASE Deliver
    <2>1. /\ UNCHANGED <<nextID, call, reader, slot, up, toServer, serving>>
          /\ fromServer # <<>> /\ fromServer' = Tail(fromServer) /\ give = {}
          /\ Head(fromServer).kind = "answer" /\ Head(fromServer) \in Lines("client")
          /\ give' \subseteq {Head(fromServer).id}
      BY <1>6, <1>s, TailTypes DEF Deliver, Arrived
    <2>2. Said(fromServer) = {Head(fromServer)} \cup Said(fromServer')
      BY <1>s, <2>1, SaidTail
    <2>3. \A id \in give' : Answer(id) \in Said(fromServer)
      <3>1. Head(fromServer) \in [kind : {"answer"}, id : Ids]
        BY <2>1 DEF Lines
      <3>2. Head(fromServer) = Answer(Head(fromServer).id)
        BY <3>1 DEF Answer
      <3> QED
        BY <2>1, <2>2, <3>2
    <2>4. \A id \in Ids : (Unsent(id) => Unsent(id)') /\ (Answered(id)' => Answered(id))
      BY <2>1, <2>2, <2>3 DEF Unsent, Answered
    <2> QED
      BY <1>3, <2>1, <2>4
  <1>7. ASSUME NEW id \in Ids, HandOver(id) PROVE WireInv'
    <2>1. /\ UNCHANGED <<nextID, call, reader, up, toServer, fromServer, serving>>
          /\ id \in give /\ give' = give \ {id} /\ \A i \in Ids \ {id} : slot'[i] = slot[i]
      BY <1>7 DEF HandOver, ClientInv, ClientTypeOK
    <2>2. \A i \in Ids : (Unsent(i) => Unsent(i)') /\ (Answered(i)' => Answered(i))
      BY <2>1 DEF Unsent, Answered
    <2> QED
      BY <1>3, <2>1, <2>2
  <1>8. CASE FailWaiters
    BY <1>4, <1>8 DEF FailWaiters, WireInv, BrokenIsEmpty
  <1>9. CASE CloseDone
    <2>1. ~up
      BY <1>9 DEF CloseDone, WireInv, BrokenIsEmpty, Closed
    <2> QED
      BY <1>4, <1>9, <2>1 DEF CloseDone, WireInv, BrokenIsEmpty
  <1>10. CASE HandleNotification
    <2>1. Said(fromServer)' \subseteq Said(fromServer)
      BY <1>10, <1>s, SaidTail DEF HandleNotification, Arrived
    <2> QED
      BY <1>3, <1>10, <2>1 DEF HandleNotification, Unsent, Answered
  <1>11. CASE ServerReads
    <2> DEFINE m == Head(toServer)
    <2>1. /\ UNCHANGED <<nextID, call, reader, give, slot, up, fromServer>>
          /\ up /\ toServer # <<>> /\ toServer' = Tail(toServer) /\ m \in Lines("server")
      BY <1>11, <1>s, TailTypes DEF ServerReads
    <2>2. /\ m.id \in Ids
          /\ \/ m = Request(m.id) /\ m.kind = "request"
             \/ m = Cancelled(m.id) /\ m.kind = "cancelled"
      BY <2>1 DEF Lines, Request, Cancelled
    <2>3. Said(toServer) = {m} \cup Said(toServer')
      BY <1>s, <2>1, SaidTail
    <2>4. RequestsFirst(toServer') /\ Request(m.id) \notin Said(toServer')
      BY <1>s, <2>1, FirstTail, Kinds DEF WireInv
    <2>5. /\ \A i \in Ids \ {m.id} : serving'[i] = serving[i]
          /\ m.kind = "request" => serving'[m.id] = "working"
          /\ m.kind = "cancelled" => serving'[m.id] # "working" /\ (serving[m.id] = "no" => serving'[m.id] = "no")
      BY <1>11, <2>2 DEF ServerReads, ClientInv, ClientTypeOK
    <2>6. ReadOnce'
      BY <2>3, <2>4, <2>5 DEF WireInv, ReadOnce
    <2>7. \A i \in Ids : Unsent(i) => Unsent(i)'
      BY <2>1, <2>2, <2>3, <2>5 DEF Unsent
    <2>8. \A i \in Ids : (Due(i)' => Due(i)) /\ (Answered(i)' <=> Answered(i))
      BY <2>1, <2>2, <2>3, <2>4, <2>5 DEF Due, Answered
    <2>9. ASSUME NEW i \in Ids, Due(i)' PROVE Attended(i)'
      <3>1. Attended(i)
        BY <2>8, <2>9 DEF WireInv, DueIsAttended
      <3>2. CASE Cancelled(i) = m
        <4>1. m.kind = "cancelled" /\ m.id = i
          BY <3>2, Kinds
        <4>2. ~Due(i)'
          BY <2>4, <2>5, <4>1 DEF Due
        <4> QED
          BY <2>9, <4>2
      <3>3. CASE Cancelled(i) # m
        BY <2>1, <2>3, <3>1, <3>3 DEF Attended
      <3> QED
        BY <3>2, <3>3
    <2> QED
      BY <1>2, <2>1, <2>4, <2>6, <2>7, <2>8, <2>9 DEF WireInv, AnsweredIsDone, BrokenIsEmpty, Closed, DueIsAttended
  <1>12. ASSUME NEW id \in Ids, ServerAnswers(id) PROVE WireInv'
    <2>1. /\ UNCHANGED <<nextID, call, reader, give, slot, up, toServer>> /\ up
          /\ serving[id] # "no" /\ serving'[id] = "no" /\ \A i \in Ids \ {id} : serving'[i] = serving[i]
      BY <1>12 DEF ServerAnswers, ClientInv, ClientTypeOK
    <2>2. Said(fromServer)' = Said(fromServer) \cup {Answer(id)}
      <3>1. fromServer' = Append(fromServer, Answer(id)) /\ Answer(id) \in Lines("client")
        BY <1>12, WireTypes DEF ServerAnswers
      <3> QED
        BY <1>s, <3>1, SaidAppend
    <2>3. ASSUME NEW i \in Ids, Unsent(i) PROVE Unsent(i)'
      <3>1. i # id
        BY <2>1, <2>3 DEF Unsent
      <3>2. serving'[i] = "no" /\ Answer(i) \notin Said(fromServer)'
        BY <2>1, <2>2, <2>3, <3>1, Kinds DEF Unsent
      <3>3. Said(toServer)' = Said(toServer)
        BY <2>1 DEF Said
      <3> QED
        BY <2>1, <2>3, <3>2, <3>3 DEF Unsent
    <2>4. \A i \in Ids : (Due(i)' => Due(i)) /\ (i # id => (Answered(i)' <=> Answered(i)))
      BY <2>1, <2>2, Kinds DEF Due, Answered
    <2>5. ~Due(id)'
      BY <2>1 DEF Due, WireInv, ReadOnce
    <2>6. \A i \in Ids : Attended(i)' <=> Attended(i)
      BY <2>1 DEF Attended
    <2>7. RequestsFirst(toServer)' /\ ReadOnce'
      BY <2>1 DEF WireInv, ReadOnce
    <2>8. AnsweredIsDone' /\ DueIsAttended'
      BY <2>4, <2>5, <2>6 DEF WireInv, AnsweredIsDone, DueIsAttended
    <2> QED
      BY <1>2, <2>1, <2>3, <2>7, <2>8 DEF WireInv, BrokenIsEmpty, Closed
  <1>13. CASE Break
    BY <1>4, <1>13 DEF Break
  <1>14. ASSUME NEW what \in Notes, ServerSays(what) PROVE WireInv'
    <2>1. Said(fromServer)' = Said(fromServer) \cup {Note(what)}
      <3>1. fromServer' = Append(fromServer, Note(what)) /\ Note(what) \in Lines("client")
        BY <1>14 DEF ServerSays, Lines, Note
      <3> QED
        BY <1>s, <3>1, SaidAppend
    <2>2. \A id \in Ids : Answer(id) \in Said(fromServer)' <=> Answer(id) \in Said(fromServer)
      BY <2>1, Kinds
    <2> QED
      BY <1>3, <1>14, <2>2 DEF ServerSays, Unsent, Answered
  <1>15. CASE UNCHANGED vars
    BY <1>3, <1>15 DEF vars, Unsent, Answered
  <1> QED
    BY <1>1, <1>5, <1>6, <1>7, <1>8, <1>9, <1>10, <1>11, <1>12, <1>13, <1>14, <1>15
       DEF ClientNext, ReaderStep, Server

\* While the server has a request, or is about to, its caller is there or the
\* cancellation is on its way.
THEOREM NobodysWorkIsStopped == ClientSpec => []NoWorkForNobody
  <1>1. WireInv => NoWorkForNobody
    BY DEF WireInv, DueIsAttended, Due, Attended, NoWorkForNobody, Ordered, Said
  <1>2. ClientSpec => []WireInv
    BY WireStarts, WireStep, ClientInvariant, PTL DEF ClientSpec
  <1> QED
    BY <1>1, <1>2, PTL

-----------------------------------------------------------------------------
(***************************************************************************)
(* The loop.                                                               *)
(***************************************************************************)

LoopOwnTypes ==
    /\ run \in RunState
    /\ history \in Conversation
    /\ interrupted \in BOOLEAN /\ late \in Nat

\* The calls of a reply come after every earlier one, and are made in turn.
CallsAreInOrder ==
    /\ 1 <= run.first /\ run.first <= run.next /\ run.next <= run.last + 1 /\ run.last <= MaxCalls
    /\ run.st = "asking" => run.next = run.last + 1
    /\ run.st \in {"deciding", "calling"} => run.next <= run.last

\* A call begun after the notice is the last: the run is in it, or over.
NoticedRunIsEnding ==
    /\ late > 0 => interrupted /\ run.st \in {"calling", "over"}
    /\ late <= 1

\* In a batch, the calls without a result are those of the batch.
BatchIsOpen ==
    /\ run.st = "asking" => history.asked = history.answered
    /\ run.st \in {"deciding", "calling"} => history.asked = history.answered \cup run.first..run.last

\* A run that records has a row, every conversation in the database is closed,
\* and the calls that are on no record were made.
RecordFits ==
    /\ store \in Seq(StoredRun) /\ recorded \in BOOLEAN /\ (recorded => Len(store) >= 1)
    /\ \A i \in 1..Len(store) : store[i].request.asked = store[i].request.answered
    /\ lost \subseteq 1..(run.next - 1)
    /\ CallsOnRecord

LoopInv == LoopOwnTypes /\ CallsAreInOrder /\ NoticedRunIsEnding /\ BatchIsOpen /\ RecordFits

LEMMA RowWritten ==
    ASSUME store \in Seq(StoredRun), Len(store) >= 1, NEW r \in StoredRun,
           store' = [store EXCEPT ![Len(store)] = r]
    PROVE  /\ store' \in Seq(StoredRun) /\ Len(store') = Len(store) /\ store'[Len(store)] = r
           /\ Latest \in StoredRun
           /\ \A i \in 1..Len(store) : i # Len(store) => store'[i] = store[i]
  BY DEF Latest

LEMMA LoopStarts == LoopInit => LoopInv
  <1> SUFFICES ASSUME LoopInit PROVE LoopInv
    OBVIOUS
  <1>1. NoMessages \in Conversation /\ NoMessages.asked = NoMessages.answered
    BY DEF NoMessages, Conversation
  <1>2. NewRun \in StoredRun /\ NewRun.calls = {} /\ NewRun.request = NoMessages /\ run \in RunState
    BY <1>1, LoopAssumption DEF LoopInit, NewRun, StoredRun, RunState
  <1>3. LoopOwnTypes
    BY <1>1, <1>2 DEF LoopInit, LoopOwnTypes
  <1>4. CallsAreInOrder
    BY LoopAssumption DEF LoopInit, CallsAreInOrder
  <1>5. RecordFits
    <2>1. run.next - 1 = 0 /\ lost = {} /\ recorded \in BOOLEAN
      BY DEF LoopInit
    <2>2. CASE recorded
      <3>1. store \in Seq(StoredRun) /\ Len(store) = 1 /\ store[1] = NewRun
        BY <1>2, <2>2 DEF LoopInit
      <3> QED
        BY <1>1, <1>2, <2>1, <3>1 DEF RecordFits, CallsOnRecord
    <2>3. CASE ~recorded
      <3>1. store \in Seq(StoredRun) /\ Len(store) = 0
        BY <2>3 DEF LoopInit
      <3> QED
        BY <2>1, <2>3, <3>1 DEF RecordFits, CallsOnRecord
    <2> QED
      BY <2>1, <2>2, <2>3
  <1> QED
    BY <1>1, <1>3, <1>4, <1>5 DEF LoopInit, LoopInv, NoticedRunIsEnding, BatchIsOpen

\* The next call is recorded or lost, with whatever becomes of the run.
LEMMA Recorded ==
    ASSUME LoopInv, run.st \in {"deciding", "calling"}, RecordsCall, UNCHANGED recorded,
           run'.next = run.next + 1
    PROVE  RecordFits'
  <1> DEFINE k == run.next
             r == [Latest EXCEPT !.calls = @ \cup {k}]
  <1>0. /\ k \in Nat /\ k >= 1 /\ run'.next - 1 = k /\ k - 1 \in Nat
        /\ store \in Seq(StoredRun) /\ recorded \in BOOLEAN /\ (recorded => Len(store) >= 1)
        /\ \A i \in 1..Len(store) : store[i].request.asked = store[i].request.answered
        /\ lost \subseteq 1..(k - 1)
    BY DEF LoopInv, LoopOwnTypes, CallsAreInOrder, RunState, RecordFits
  <1>1. /\ \A n \in 1..(k - 1) : n \in lost \/ \E i \in 1..Len(store) : n \in store[i].calls
        /\ \A i \in 1..Len(store) : store[i].calls \subseteq 1..(k - 1) \ lost
        /\ \A i, j \in 1..Len(store) : i # j => store[i].calls \cap store[j].calls = {}
    BY DEF LoopInv, RecordFits, CallsOnRecord
  <1>2. CASE recorded /\ store' = [store EXCEPT ![Len(store)] = r] /\ UNCHANGED lost
    <2>1. Latest \in StoredRun /\ Latest = store[Len(store)] /\ Len(store) \in 1..Len(store)
      BY <1>0, <1>2 DEF Latest
    <2>2. k \in Numbers
      BY <1>0, LoopAssumption DEF LoopInv, CallsAreInOrder, LoopOwnTypes, RunState, Numbers
    <2>3. r \in StoredRun /\ r.calls = Latest.calls \cup {k} /\ r.request = Latest.request
      BY <2>1, <2>2 DEF StoredRun
    <2> HIDE DEF r, k
    <2>4. /\ store' \in Seq(StoredRun) /\ Len(store') = Len(store) /\ store'[Len(store)] = r
          /\ \A i \in 1..Len(store) : i # Len(store) => store'[i] = store[i]
      BY <1>0, <1>2, <2>3, RowWritten
    <2>5. \A i \in 1..Len(store) : /\ store'[i].request = store[i].request
                                   /\ store'[i].calls = IF i = Len(store) THEN store[i].calls \cup {k} ELSE store[i].calls
      BY <2>1, <2>3, <2>4
    <2>6. \A n \in 1..k : n \in 1..(k - 1) \/ n = k
      BY <1>0
    <2>7. \A i \in 1..Len(store) : k \notin store[i].calls
      <3>1. k \notin 1..(k - 1)
        BY <1>0
      <3> QED
        BY <1>1, <3>1
    <2>8. \A n \in 1..k : n \in lost \/ \E i \in 1..Len(store) : n \in store'[i].calls
      BY <1>1, <2>1, <2>5, <2>6
    <2>9. \A i \in 1..Len(store) : store'[i].calls \subseteq 1..k \ lost
      <3>1. 1..(k - 1) \subseteq 1..k /\ k \notin 1..(k - 1) /\ k \in 1..k
        BY <1>0
      <3>2. k \notin lost
        BY <1>0, <3>1
      <3> SUFFICES ASSUME NEW i \in 1..Len(store), NEW n \in store'[i].calls PROVE n \in 1..k /\ n \notin lost
        OBVIOUS
      <3>3. n \in store[i].calls \/ n = k
        BY <2>5
      <3> QED
        BY <1>1, <3>1, <3>2, <3>3
    <2>10. \A i, j \in 1..Len(store) : i # j => store'[i].calls \cap store'[j].calls = {}
      <3> SUFFICES ASSUME NEW i \in 1..Len(store), NEW j \in 1..Len(store), i # j,
                          NEW n \in store'[i].calls, n \in store'[j].calls
                   PROVE  FALSE
        OBVIOUS
      <3>1. \/ n \in store[i].calls /\ n \in store[j].calls
            \/ n = k /\ (k \in store[i].calls \/ k \in store[j].calls)
        BY <2>5
      <3> QED
        BY <1>1, <2>7, <3>1
    <2>11. lost' \subseteq 1..k
      <3>1. 1..(k - 1) \subseteq 1..k
        BY <1>0
      <3> QED
        BY <1>0, <1>2, <3>1
    <2> QED
      BY <1>0, <1>2, <2>4, <2>5, <2>8, <2>9, <2>10, <2>11 DEF RecordFits, CallsOnRecord
  <1>3. CASE UNCHANGED store /\ lost' = lost \cup {k}
    <2> HIDE DEF k
    <2>1. \A n \in 1..k : n \in 1..(k - 1) \/ n = k
      BY <1>0
    <2>5. 1..(k - 1) \subseteq 1..k /\ k \notin 1..(k - 1) /\ k \in 1..k
      BY <1>0
    <2>2. lost' \subseteq 1..k
      BY <1>0, <1>3, <2>5
    <2>3. \A n \in 1..k : n \in lost' \/ \E i \in 1..Len(store) : n \in store[i].calls
      BY <1>1, <1>3, <2>1
    <2>4. \A i \in 1..Len(store) : store[i].calls \subseteq 1..k \ lost'
      BY <1>1, <1>3, <2>5
    <2> QED
      BY <1>0, <1>1, <1>3, <2>2, <2>3, <2>4 DEF RecordFits, CallsOnRecord
  <1> QED
    BY <1>2, <1>3 DEF RecordsCall, Writes

\* After a call, whichever way the run goes on or ends.
LEMMA AfterCallInv ==
    ASSUME LoopInv, run.st \in {"deciding", "calling"}, RecordsCall, AfterCall,
           UNCHANGED <<interrupted, late, recorded>>
    PROVE  LoopInv'
  <1>1. /\ run \in RunState /\ run.next \in Nat /\ run.first \in Nat /\ run.last \in Nat
        /\ run.turn \in 1..MaxTurns /\ MaxCalls \in Nat /\ MaxTurns \in Nat
        /\ history \in Conversation
        /\ interrupted' \in BOOLEAN /\ late' \in Nat
    BY LoopAssumption DEF LoopInv, LoopOwnTypes, RunState
  <1>2. /\ 1 <= run.first /\ run.first <= run.next /\ run.next <= run.last /\ run.last <= MaxCalls
        /\ history.asked = history.answered \cup run.first..run.last
    BY DEF LoopInv, CallsAreInOrder, BatchIsOpen
  <1>3. late <= 1 /\ (~interrupted => late = 0)
    BY DEF LoopInv, NoticedRunIsEnding, LoopOwnTypes
  <1>4. history.answered \cup Results \in SUBSET Numbers
    BY <1>1, <1>2 DEF Results, Numbers, Conversation
  <1>5. ASSUME NEW st \in {"asking", "deciding", "over"}, NEW turn \in 1..MaxTurns, GoesOn(st, turn)
        PROVE  /\ run' \in RunState /\ run'.st = st /\ run'.turn = turn /\ run'.first = run.first
               /\ run'.next = run.next + 1 /\ run'.last = run.last
               /\ RecordFits'
    <2>1. run' = [run EXCEPT !.st = st, !.next = @ + 1, !.turn = turn] /\ run.next + 1 \in Nat
      BY <1>1, <1>5 DEF GoesOn
    <2>2. /\ run' \in RunState /\ run'.st = st /\ run'.turn = turn /\ run'.first = run.first
          /\ run'.next = run.next + 1 /\ run'.last = run.last
      BY <1>1, <2>1 DEF RunState
    <2> QED
      BY <2>2, Recorded
  <1>6. CASE ~interrupted /\ run.next < run.last /\ GoesOn("deciding", run.turn) /\ UNCHANGED history
    <2>1. /\ run' \in RunState /\ run'.st = "deciding" /\ run'.first = run.first
          /\ run'.next = run.next + 1 /\ run'.last = run.last /\ RecordFits'
      BY <1>1, <1>5, <1>6
    <2>2. LoopOwnTypes'
      BY <1>1, <1>6, <2>1 DEF LoopOwnTypes
    <2>3. CallsAreInOrder'
      BY <1>1, <1>2, <1>6, <2>1 DEF CallsAreInOrder
    <2>4. NoticedRunIsEnding' /\ BatchIsOpen'
      BY <1>2, <1>3, <1>6, <2>1 DEF NoticedRunIsEnding, BatchIsOpen
    <2> QED
      BY <2>1, <2>2, <2>3, <2>4 DEF LoopInv
  <1>7. CASE /\ ~interrupted /\ run.next = run.last /\ run.turn < MaxTurns
             /\ history' = [history EXCEPT !.answered = @ \cup Results]
             /\ GoesOn("asking", run.turn + 1)
    <2>1. run.turn + 1 \in 1..MaxTurns
      BY <1>1, <1>7
    <2>2. /\ run' \in RunState /\ run'.st = "asking" /\ run'.first = run.first
          /\ run'.next = run.next + 1 /\ run'.last = run.last /\ RecordFits'
      BY <1>5, <1>7, <2>1
    <2>3. /\ history' \in Conversation
          /\ history'.asked = history.asked /\ history'.answered = history.answered \cup Results
      BY <1>1, <1>4, <1>7 DEF Conversation
    <2>4. LoopOwnTypes'
      BY <1>1, <2>2, <2>3 DEF LoopOwnTypes
    <2>5. CallsAreInOrder'
      BY <1>1, <1>2, <1>7, <2>2 DEF CallsAreInOrder
    <2>6. NoticedRunIsEnding' /\ BatchIsOpen'
      <3>1. history'.asked = history'.answered
        BY <1>2, <1>7, <2>3 DEF Results
      <3> QED
        BY <1>3, <1>7, <2>2, <3>1 DEF NoticedRunIsEnding, BatchIsOpen
    <2> QED
      BY <2>2, <2>4, <2>5, <2>6 DEF LoopInv
  <1>8. CASE Finished /\ history' = [history EXCEPT !.answered = @ \cup Results]
    <2>1. /\ run' \in RunState /\ run'.st = "over" /\ run'.first = run.first
          /\ run'.next = run.next + 1 /\ run'.last = run.last /\ RecordFits'
      BY <1>1, <1>5, <1>8 DEF Finished
    <2>2. history' \in Conversation
      BY <1>1, <1>4, <1>8 DEF Conversation
    <2>3. LoopOwnTypes'
      BY <1>1, <2>1, <2>2 DEF LoopOwnTypes
    <2>4. CallsAreInOrder'
      BY <1>1, <1>2, <2>1 DEF CallsAreInOrder
    <2>5. NoticedRunIsEnding' /\ BatchIsOpen'
      BY <1>3, <2>1 DEF NoticedRunIsEnding, BatchIsOpen, LoopInv
    <2> QED
      BY <2>1, <2>3, <2>4, <2>5 DEF LoopInv
  <1> QED
    BY <1>6, <1>7, <1>8 DEF AfterCall

\* A turn is recorded or not; the calls, and the run's place in them, stay.
LEMMA SameCalls ==
    ASSUME LoopInv, NEW r, Tries(r), UNCHANGED <<recorded, lost>>, run'.next = run.next,
           recorded => r \in StoredRun /\ r.calls = Latest.calls /\ r.request.asked = r.request.answered
    PROVE  RecordFits'
  <1>1. /\ store \in Seq(StoredRun) /\ recorded \in BOOLEAN /\ (recorded => Len(store) >= 1)
        /\ \A i \in 1..Len(store) : store[i].request.asked = store[i].request.answered
    BY DEF LoopInv, RecordFits
  <1>2. CASE UNCHANGED store
    BY <1>2 DEF LoopInv, RecordFits, CallsOnRecord
  <1>3. CASE recorded /\ store' = [store EXCEPT ![Len(store)] = r]
    <2>1. /\ store' \in Seq(StoredRun) /\ Len(store') = Len(store) /\ store'[Len(store)] = r
          /\ \A i \in 1..Len(store) : i # Len(store) => store'[i] = store[i]
      BY <1>1, <1>3, RowWritten
    <2>2. \A i \in 1..Len(store) : /\ store'[i].calls = store[i].calls
                                   /\ store'[i].request.asked = store'[i].request.answered
      BY <1>1, <1>3, <2>1 DEF Latest
    <2>3. CallsOnRecord'
      BY <2>1, <2>2 DEF LoopInv, RecordFits, CallsOnRecord
    <2> QED
      BY <1>1, <1>3, <2>1, <2>2, <2>3 DEF LoopInv, RecordFits
  <1> QED
    BY <1>2, <1>3 DEF Tries, Writes

LEMMA ReplyInv == ASSUME LoopInv, NEW n \in 0..MaxBatch, Replies(n) PROVE LoopInv'
  <1>1. /\ run \in RunState /\ run.next \in Nat /\ run.first \in Nat /\ run.last \in Nat
        /\ run.turn \in 1..MaxTurns /\ MaxCalls \in Nat /\ MaxTurns \in Nat /\ n \in Nat
        /\ history \in Conversation
        /\ interrupted' \in BOOLEAN /\ late' \in Nat
    BY LoopAssumption DEF LoopInv, LoopOwnTypes, RunState, Replies
  <1>2. /\ 1 <= run.first /\ run.first <= run.next /\ run.next = run.last + 1 /\ run.last <= MaxCalls
        /\ history.asked = history.answered /\ run.last + n <= MaxCalls
    BY DEF LoopInv, CallsAreInOrder, BatchIsOpen, Replies
  <1>3. late = 0 /\ late' = late
    BY DEF LoopInv, NoticedRunIsEnding, LoopOwnTypes, Replies
  <1> DEFINE r == [Latest EXCEPT !.turns = run.turn, !.request = history]
  <1>4. recorded => r \in StoredRun /\ r.calls = Latest.calls /\ r.request = history
    <2> SUFFICES ASSUME recorded PROVE r \in StoredRun /\ r.calls = Latest.calls /\ r.request = history
      OBVIOUS
    <2>1. Latest \in StoredRun /\ run.turn \in 0..MaxTurns
      BY <1>1 DEF LoopInv, RecordFits, Latest
    <2> QED
      BY <1>1, <2>1 DEF StoredRun
  <1>5. Tries(r) /\ UNCHANGED <<recorded, lost>>
    BY DEF Replies
  <1> HIDE DEF r
  <1>6. CASE n = 0
    <2>1. run' = [run EXCEPT !.st = "over"] /\ history' = history
      BY <1>6 DEF Replies
    <2>2. /\ run'.st = "over" /\ run'.first = run.first /\ run'.next = run.next
          /\ run'.last = run.last /\ run' \in RunState
      BY <1>1, <2>1 DEF RunState
    <2>3. RecordFits'
      BY <1>2, <1>4, <1>5, <2>2, SameCalls
    <2>4. LoopOwnTypes'
      BY <1>1, <2>1, <2>2 DEF LoopOwnTypes
    <2>5. CallsAreInOrder' /\ NoticedRunIsEnding' /\ BatchIsOpen'
      BY <1>1, <1>2, <1>3, <2>2 DEF CallsAreInOrder, NoticedRunIsEnding, BatchIsOpen
    <2> QED
      BY <2>3, <2>4, <2>5 DEF LoopInv
  <1>7. CASE n # 0
    <2>1. /\ run' = [run EXCEPT !.st = "deciding", !.first = run.last + 1,
                                !.next = run.last + 1, !.last = run.last + n]
          /\ history' = [history EXCEPT !.asked = @ \cup (run.last + 1)..(run.last + n)]
      BY <1>7 DEF Replies
    <2>2. run.last + 1 \in Nat /\ run.last + n \in Nat
      BY <1>1
    <2>3. /\ run'.st = "deciding" /\ run'.first = run.last + 1 /\ run'.next = run.last + 1
          /\ run'.last = run.last + n /\ run' \in RunState
      BY <1>1, <2>1, <2>2 DEF RunState
    <2>4. RecordFits'
      BY <1>2, <1>4, <1>5, <2>3, SameCalls
    <2>5. /\ history' \in Conversation
          /\ history'.answered = history.answered
          /\ history'.asked = history.asked \cup (run.last + 1)..(run.last + n)
      <3>1. history.asked \cup (run.last + 1)..(run.last + n) \in SUBSET Numbers
        BY <1>1, <1>2 DEF Numbers, Conversation
      <3> QED
        BY <1>1, <2>1, <3>1 DEF Conversation
    <2>6. LoopOwnTypes'
      BY <1>1, <2>3, <2>5 DEF LoopOwnTypes
    <2>7. CallsAreInOrder'
      BY <1>1, <1>2, <1>7, <2>3 DEF CallsAreInOrder
    <2>8. NoticedRunIsEnding' /\ BatchIsOpen'
      BY <1>2, <1>3, <2>3, <2>5 DEF NoticedRunIsEnding, BatchIsOpen
    <2> QED
      BY <2>4, <2>6, <2>7, <2>8 DEF LoopInv
  <1> QED
    BY <1>6, <1>7

LEMMA ModelFailsInv == ASSUME LoopInv, ModelFails PROVE LoopInv'
  <1>1. /\ run' = [run EXCEPT !.st = "over"] /\ run \in RunState
        /\ UNCHANGED <<history, interrupted, late, store, recorded, lost>>
    BY DEF ModelFails, recordVars, LoopInv, LoopOwnTypes
  <1>2. /\ run'.st = "over" /\ run'.first = run.first /\ run'.next = run.next
        /\ run'.last = run.last /\ run' \in RunState
    BY <1>1 DEF RunState
  <1>3. LoopOwnTypes' /\ RecordFits'
    BY <1>1, <1>2 DEF LoopInv, LoopOwnTypes, RecordFits, CallsOnRecord
  <1>4. CallsAreInOrder'
    BY <1>2 DEF LoopInv, CallsAreInOrder
  <1>5. NoticedRunIsEnding' /\ BatchIsOpen'
    BY <1>1, <1>2 DEF LoopInv, NoticedRunIsEnding, BatchIsOpen, ModelFails
  <1> QED
    BY <1>3, <1>4, <1>5 DEF LoopInv

\* A call begins after the notice once: the run was not yet in one, and it
\* will not come back to decide on another.
LEMMA StartToolInv == ASSUME LoopInv, StartTool PROVE LoopInv'
  <1>1. /\ run' = [run EXCEPT !.st = "calling"] /\ run \in RunState /\ run.st = "deciding"
        /\ UNCHANGED <<history, interrupted, store, recorded, lost>>
        /\ late = 0 /\ late' = late + IF interrupted THEN 1 ELSE 0
    BY DEF StartTool, recordVars, LoopInv, LoopOwnTypes, NoticedRunIsEnding
  <1>2. /\ run'.st = "calling" /\ run'.first = run.first /\ run'.next = run.next
        /\ run'.last = run.last /\ run' \in RunState
    BY <1>1 DEF RunState
  <1>3. late' \in Nat /\ late' <= 1 /\ (late' > 0 => interrupted')
    BY <1>1
  <1>4. LoopOwnTypes'
    BY <1>1, <1>2, <1>3 DEF LoopInv, LoopOwnTypes
  <1>5. CallsAreInOrder' /\ RecordFits'
    BY <1>1, <1>2 DEF LoopInv, CallsAreInOrder, RecordFits, CallsOnRecord
  <1>6. NoticedRunIsEnding' /\ BatchIsOpen'
    BY <1>1, <1>2, <1>3 DEF LoopInv, NoticedRunIsEnding, BatchIsOpen
  <1> QED
    BY <1>4, <1>5, <1>6 DEF LoopInv

LEMMA NoteEventInv == ASSUME LoopInv, NoteEvent PROVE LoopInv'
  <1>1. interrupted \in BOOLEAN /\ interrupted' \in BOOLEAN /\ (interrupted => interrupted')
    BY DEF NoteEvent, LoopInv, LoopOwnTypes
  <1>2. UNCHANGED <<run, history, late, store, recorded, lost>>
    BY DEF NoteEvent, recordVars
  <1> QED
    BY <1>1, <1>2 DEF LoopInv, LoopOwnTypes, CallsAreInOrder, NoticedRunIsEnding, BatchIsOpen,
                      RecordFits, CallsOnRecord

LEMMA KillInv == ASSUME LoopInv, Kill PROVE LoopInv'
  <1>1. /\ run' = [run EXCEPT !.st = "over"] /\ run \in RunState
        /\ UNCHANGED <<history, interrupted, late, store, recorded, lost>>
    BY DEF Kill, recordVars, LoopInv, LoopOwnTypes
  <1>2. /\ run'.st = "over" /\ run'.first = run.first /\ run'.next = run.next
        /\ run'.last = run.last /\ run' \in RunState
    BY <1>1 DEF RunState
  <1> QED
    BY <1>1, <1>2 DEF LoopInv, LoopOwnTypes, CallsAreInOrder, NoticedRunIsEnding, BatchIsOpen,
                      RecordFits, CallsOnRecord

\* The conversation taken up was sent when every call in it had a result.
LEMMA ResumeInv == ASSUME LoopInv, ResumeRun PROVE LoopInv'
  <1>0. PICK id \in 1..Len(store) : Starts(store[id].request, run.next - 1)
    BY DEF ResumeRun
  <1>1. /\ store \in Seq(StoredRun) /\ store[id] \in StoredRun
        /\ run \in RunState /\ run.next \in Nat /\ run.last \in Nat /\ run.first \in Nat
        /\ 1 <= run.next /\ run.next - 1 <= MaxCalls
        /\ \A i \in 1..Len(store) : store[i].request.asked = store[i].request.answered
        /\ lost \subseteq 1..(run.next - 1) /\ CallsOnRecord
    BY LoopAssumption DEF LoopInv, LoopOwnTypes, CallsAreInOrder, RunState, RecordFits
  <1>2. /\ run' = [st |-> "asking", turn |-> 1, first |-> run.next - 1 + 1,
                   next |-> run.next - 1 + 1, last |-> run.next - 1]
        /\ history' = store[id].request
        /\ interrupted' = FALSE /\ late' = 0
        /\ Opens /\ lost' = lost
    BY <1>0 DEF Starts
  <1>3. run' \in RunState /\ run'.next = run.next
    <2>1. 1 \in 1..MaxTurns /\ run.next - 1 + 1 \in Nat /\ run.next - 1 \in Nat /\ run.next - 1 + 1 = run.next
      BY <1>1, LoopAssumption
    <2> QED
      BY <1>2, <2>1 DEF RunState
  <1>4. history' \in Conversation /\ history'.asked = history'.answered
    BY <1>1, <1>2 DEF StoredRun
  <1>5. LoopOwnTypes'
    BY <1>2, <1>3, <1>4 DEF LoopOwnTypes
  <1>6. CallsAreInOrder'
    BY <1>1, <1>2 DEF CallsAreInOrder
  <1>7. NoticedRunIsEnding' /\ BatchIsOpen'
    BY <1>2, <1>4 DEF NoticedRunIsEnding, BatchIsOpen
  <1>8. RecordFits'
    <2>1. CASE recorded' = FALSE /\ UNCHANGED store
      BY <1>1, <1>2, <1>3, <2>1 DEF RecordFits, CallsOnRecord
    <2>2. CASE recorded' = TRUE /\ store' = Append(store, NewRun)
      <3>1. NewRun \in StoredRun /\ NewRun.calls = {} /\ NewRun.request.asked = NewRun.request.answered
        BY LoopAssumption DEF NewRun, StoredRun, NoMessages, Conversation
      <3>2. /\ store' \in Seq(StoredRun) /\ Len(store') = Len(store) + 1 /\ Len(store) \in Nat
            /\ store'[Len(store) + 1] = NewRun
            /\ \A i \in 1..Len(store) : store'[i] = store[i]
        BY <1>1, <2>2, <3>1
      <3> HIDE DEF NewRun
      <3>3. \A i \in 1..Len(store') : \/ i \in 1..Len(store) /\ store'[i] = store[i]
                                      \/ i \notin 1..Len(store) /\ i = Len(store') /\ store'[i] = NewRun
        BY <3>2
      <3>4. 1..Len(store) \subseteq 1..Len(store') /\ Len(store') >= 1
        BY <3>2
      <3>5. \A i \in 1..Len(store') : store'[i].request.asked = store'[i].request.answered
        BY <1>1, <3>1, <3>3
      <3>6. CallsOnRecord'
        <4>1. \A n \in 1..(run.next - 1) : n \in lost \/ \E i \in 1..Len(store') : n \in store'[i].calls
          BY <1>1, <3>2, <3>4 DEF CallsOnRecord
        <4>2. \A i \in 1..Len(store') : store'[i].calls \subseteq 1..(run.next - 1) \ lost
          BY <1>1, <3>1, <3>3 DEF CallsOnRecord
        <4>3. \A i, j \in 1..Len(store') : i # j => store'[i].calls \cap store'[j].calls = {}
          BY <1>1, <3>1, <3>3 DEF CallsOnRecord
        <4> QED
          BY <1>2, <1>3, <4>1, <4>2, <4>3 DEF CallsOnRecord
      <3> QED
        BY <1>1, <1>2, <1>3, <2>2, <3>2, <3>4, <3>5, <3>6 DEF RecordFits
    <2> QED
      BY <1>2, <2>1, <2>2 DEF Opens
  <1> QED
    BY <1>5, <1>6, <1>7, <1>8 DEF LoopInv

LEMMA LoopKeeps == LoopInv /\ [LoopNext]_allVars => LoopInv'
  <1> SUFFICES ASSUME LoopInv, [LoopNext]_allVars PROVE LoopInv'
    OBVIOUS
  <1>1. ASSUME UNCHANGED loopVars PROVE LoopInv'
    BY <1>1 DEF loopVars, recordVars, LoopInv, LoopOwnTypes, CallsAreInOrder, NoticedRunIsEnding,
                BatchIsOpen, RecordFits, CallsOnRecord
  <1>2. CASE \E n \in 0..MaxBatch : Replies(n)
    BY <1>2, ReplyInv
  <1>3. CASE ModelFails
    BY <1>3, ModelFailsInv
  <1>4. CASE StartTool
    BY <1>4, StartToolInv
  <1>5. CASE EndTool \/ ReadSkill
    BY <1>5, AfterCallInv DEF EndTool, ReadSkill
  <1>6. CASE NoteEvent
    BY <1>6, NoteEventInv
  <1>7. CASE Kill \/ ResumeRun
    BY <1>7, KillInv, ResumeInv
  <1>8. CASE UNCHANGED allVars
    BY <1>1, <1>8 DEF allVars
  <1> QED
    BY <1>1, <1>2, <1>3, <1>4, <1>5, <1>6, <1>7, <1>8 DEF LoopNext, LoopStep

-----------------------------------------------------------------------------
(* The loop makes steps of its client, or of a new one. *)

LEMMA LoopIsAClient == [LoopNext]_allVars => [ClientNext]_vars \/ ClientInit'
  <1> SUFFICES ASSUME [LoopNext]_allVars PROVE [ClientNext]_vars \/ ClientInit'
    OBVIOUS
  <1>1. Runner \in Callers
    BY LoopAssumption
  <1>2. ResumeRun => ClientInit'
    BY DEF ResumeRun, Fresh, ClientInit, Idle
  <1>3. LoopStep => [ClientNext]_vars
    BY <1>1 DEF LoopStep, ClientNext
  <1>4. Kill => UNCHANGED vars
    BY DEF Kill, vars
  <1>5. UNCHANGED allVars => UNCHANGED vars
    BY DEF allVars
  <1> QED
    BY <1>1, <1>2, <1>3, <1>4, <1>5 DEF LoopNext, ClientNext

\* What is invariant of the client is invariant of every client of the loop.
LEMMA LoopsClient == LoopSpec => [](ClientInv /\ WireInv)
  <1>1. ClientInit => ClientInv /\ WireInv
    BY ClientStarts, WireStarts
  <1>2. LoopInit => ClientInit
    BY DEF LoopInit
  <1>3. ClientInv /\ WireInv /\ [ClientNext]_vars => (ClientInv /\ WireInv)'
    BY ClientStep, WireStep
  <1> QED
    BY <1>1, <1>2, <1>3, LoopIsAClient, PTL DEF LoopSpec

\* The inductive invariant of the loop.
THEOREM LoopInvariant == LoopSpec => []LoopInv
  BY LoopStarts, LoopKeeps, PTL DEF LoopSpec

\* Every variable of the loop and of its client stays in its set, for any
\* number of turns, of calls in a reply and of runs.
THEOREM LoopTypes == LoopSpec => []LoopTypeOK
  <1>1. LoopInv => lost \subseteq Numbers
    BY LoopAssumption DEF LoopInv, RecordFits, CallsAreInOrder, LoopOwnTypes, RunState, Numbers
  <1>2. LoopInv /\ ClientInv => LoopTypeOK
    BY <1>1 DEF LoopInv, LoopOwnTypes, RecordFits, ClientInv, LoopTypeOK
  <1> QED
    BY <1>2, LoopInvariant, LoopsClient, PTL

\* After the notice that a person has the controls, one call at most.
THEOREM NoticeIsHeeded == LoopSpec => []OneCallAfterTheNotice
  <1>1. LoopInv => OneCallAfterTheNotice
    BY DEF LoopInv, NoticedRunIsEnding, OneCallAfterTheNotice
  <1> QED
    BY <1>1, LoopInvariant, PTL

\* The model is asked with no call left open, in a resumed run too.
THEOREM ModelSeesPairs == LoopSpec => []HistoryIsPaired
  <1>1. LoopInv => HistoryIsPaired
    BY DEF LoopInv, BatchIsOpen, HistoryIsPaired
  <1> QED
    BY <1>1, LoopInvariant, PTL

\* However a call or its run ended (an error, Ctrl-C, the controls taken), the
\* call is in the ledger once, unless its record could not be written.
THEOREM LedgerIsComplete == LoopSpec => []CallsOnRecord
  <1>1. LoopInv => CallsOnRecord
    BY DEF LoopInv, RecordFits
  <1> QED
    BY <1>1, LoopInvariant, PTL

\* Under the loop too, the server works for nobody without being told.
THEOREM LoopStopsTheWork == LoopSpec => []NoWorkForNobody
  <1>1. WireInv => NoWorkForNobody
    BY DEF WireInv, DueIsAttended, Due, Attended, NoWorkForNobody, Ordered, Said
  <1> QED
    BY <1>1, LoopsClient, PTL

-----------------------------------------------------------------------------
(***************************************************************************)
(* The tools in reach.                                                     *)
(*                                                                         *)
(* How many tools a ranking lets through: the place of a tool among others *)
(* is how many come before it.  A tool that comes before another has a     *)
(* smaller place, so places are distinct and fill 0 .. n-1, and as many    *)
(* tools have a place below the limit as there are such places.            *)
(***************************************************************************)

LEMMA ScoresAreNumbers ==
    ASSUME NEW ev \in Evidence
    PROVE  Score(ev) \in Nat
  <1>1. ev.phrases \in Nat /\ IsFiniteSet(DOMAIN ev.terms)
    BY FS_Interval DEF Evidence
  <1>2. \A S : S \subseteq DOMAIN ev.terms => Cardinality(S) \in Nat
    BY <1>1, FS_Subset, FS_CardinalityType
  <1>3. Cardinality(Evident(ev)) \in Nat
    BY <1>2 DEF Evident
  <1>4. Weak(ev) \in Nat
    BY <1>2 DEF Weak
  <1>5. \A way : ByName(ev, way) \in Nat
    BY <1>2 DEF ByName
  <1>6. /\ Cardinality({i \in DOMAIN ev.terms : ev.terms[i].category}) \in Nat
        /\ Cardinality({i \in DOMAIN ev.terms : ev.terms[i].described}) \in Nat
    BY <1>2
  <1>7. Strong(ev) \in Nat
    BY <1>1, <1>3 DEF Strong
  <1>8. \A n \in Nat : /\ 10 * n \in Nat /\ 3 * n \in Nat /\ 12 * n \in Nat /\ 9 * n \in Nat
                       /\ 8 * n \in Nat /\ 6 * n \in Nat /\ 4 * n \in Nat
    OBVIOUS
  <1>9. /\ 10 * ev.phrases \in Nat /\ 3 * Strong(ev) \in Nat
        /\ 12 * ByName(ev, "whole") \in Nat /\ 9 * ByName(ev, "keyword") \in Nat
        /\ 8 * ByName(ev, "word") \in Nat /\ 6 * ByName(ev, "inside") \in Nat
        /\ 4 * Cardinality({i \in DOMAIN ev.terms : ev.terms[i].category}) \in Nat
    BY <1>1, <1>5, <1>6, <1>7, <1>8
  <1>10. \A a, b, c, d, e, f, g, h \in Nat : a + b + c + d + e + f + g + h \in Nat
    OBVIOUS
  <1> QED BY <1>4, <1>6, <1>9, <1>10 DEF Score

\* The order of tools in the answer to a goal: no two share a place in it.
LEMMA GoalsRank ==
    ASSUME NEW q \in Goals, NEW t \in Offerable, NEW u \in Offerable
    PROVE  /\ ~Before(q, t, t)
           /\ t # u => Before(q, t, u) \/ Before(q, u, t)
           /\ ~(Before(q, t, u) /\ Before(q, u, t))
           /\ \A v \in Offerable : Before(q, t, u) /\ Before(q, u, v) => Before(q, t, v)
  <1> DEFINE score(v) == Score(q[v].shows)
  <1>1. \A v \in Offerable : score(v) \in Nat /\ q[v].place \in Nat
    BY ScoresAreNumbers, OfferAssumption
  <1>2. t # u => q[t].place # q[u].place
    BY OfferAssumption
  <1> HIDE DEF score
  <1>3. \A v, w : Before(q, v, w) <=> score(v) > score(w) \/ (score(v) = score(w) /\ q[v].place < q[w].place)
    BY DEF Before, score
  <1> QED BY <1>1, <1>2, <1>3

LEMMA RankingsFill ==
    ASSUME NEW q \in Goals, NEW tools \in SUBSET Offerable, NEW n \in Nat
    PROVE  /\ IsFiniteSet(tools) /\ Cardinality(tools) \in Nat
           /\ FirstOf(q, tools, n) \subseteq tools
           /\ Cardinality(FirstOf(q, tools, n))
                = (IF Cardinality(tools) < n THEN Cardinality(tools) ELSE n)
  <1> DEFINE ahead(t) == {u \in tools : Before(q, u, t)}
             size == Cardinality(tools)
             place == [t \in tools |-> Cardinality(ahead(t))]
             first == FirstOf(q, tools, n)
             least == IF size < n THEN size ELSE n
  <1>1. IsFiniteSet(tools) /\ size \in Nat
    BY FS_Subset, FS_CardinalityType, OfferAssumption
  <1>2. \A t \in tools : IsFiniteSet(ahead(t)) /\ place[t] \in 0 .. size - 1
    <2>1. TAKE t \in tools
    <2>2. ahead(t) \in SUBSET (tools \ {t})
      BY GoalsRank, <2>1
    <2>3. IsFiniteSet(tools \ {t}) /\ Cardinality(tools \ {t}) = size - 1
      BY <1>1, FS_RemoveElement
    <2>4. IsFiniteSet(ahead(t)) /\ Cardinality(ahead(t)) <= size - 1
      BY <2>2, <2>3, FS_Subset
    <2>5. Cardinality(ahead(t)) \in Nat
      BY <2>4, FS_CardinalityType
    <2> HIDE DEF ahead, size
    <2> QED BY <1>1, <2>4, <2>5
  <1>3. \A t, u \in tools : t # u => place[t] # place[u]
    <2>1. \A t, u \in tools : Before(q, t, u) => place[t] < place[u]
      <3>1. SUFFICES ASSUME NEW t \in tools, NEW u \in tools, Before(q, t, u) PROVE place[t] < place[u]
        OBVIOUS
      <3>2. t # u /\ ~Before(q, t, t)
        BY <3>1, GoalsRank
      <3>3. ahead(t) \in SUBSET ahead(u) /\ t \in ahead(u) /\ t \notin ahead(t)
        BY <3>1, <3>2, GoalsRank
      <3>4. Cardinality(ahead(t)) <= Cardinality(ahead(u)) /\ Cardinality(ahead(t)) # Cardinality(ahead(u))
        BY <1>2, <3>3, FS_Subset
      <3> HIDE DEF ahead, size
      <3> QED BY <1>1, <1>2, <3>4
    <2> HIDE DEF ahead, place, size
    <2>2. \A t \in tools : place[t] \in Int
      BY <1>1, <1>2
    <2> QED BY <2>1, <2>2, GoalsRank
  <1>4. place \in Bijection(tools, 0 .. size - 1)
    <2>1. IsFiniteSet(0 .. size - 1) /\ Cardinality(0 .. size - 1) = size
      BY <1>1, FS_Interval
    <2>2. place \in [tools -> 0 .. size - 1]
      BY <1>2
    <2> HIDE DEF place
    <2>3. place \in Injection(tools, 0 .. size - 1)
      BY <1>3, <2>2 DEF Injection, IsInjective
    <2>4. place \in Surjection(tools, 0 .. size - 1)
      BY <2>1, <2>3, FS_Injection
    <2> QED BY <2>3, <2>4 DEF Bijection
  <1>5. first \subseteq tools /\ first = {t \in tools : place[t] < n}
    BY DEF FirstOf
  <1> HIDE DEF place, first, size
  <1>6. least \in Nat /\ \A i \in 0 .. size - 1 : i < n <=> i \in 0 .. least - 1
    BY <1>1
  <1> HIDE DEF least
  <1>7. Cardinality(first) = least
    <2> DEFINE among == [t \in first |-> place[t]]
    <2>1. among \in [first -> 0 .. least - 1]
      BY <1>4, <1>5, <1>6 DEF Bijection, Injection
    <2>2. \A i \in 0 .. least - 1 : \E t \in first : among[t] = i
      <3>1. TAKE i \in 0 .. least - 1
      <3>2. i \in 0 .. size - 1
        BY <1>1, <1>6 DEF least
      <3> QED BY <1>4, <1>5, <1>6, <3>1, <3>2 DEF Bijection, Surjection
    <2>3. \A t, u \in first : among[t] = among[u] => t = u
      BY <1>3, <1>5
    <2> HIDE DEF among
    <2>4. among \in Bijection(first, 0 .. least - 1)
      BY <2>1, <2>2, <2>3 DEF Bijection, Injection, Surjection, IsInjective
    <2>5. IsFiniteSet(0 .. least - 1) /\ Cardinality(0 .. least - 1) = least
      BY <1>6, FS_Interval
    <2>6. IsFiniteSet(first)
      BY <1>1, <1>5, FS_Subset
    <2> QED BY <2>4, <2>5, <2>6, FS_Bijection DEF ExistsBijection
  <1> QED BY <1>1, <1>5, <1>7 DEF least, first, size

\* Tools that are offered anyway take nobody's place: ranking as many more as
\* there are core tools leaves the limit to the others.
LEMMA CoreTakesNobodysPlace ==
    ASSUME NEW q \in Goals, NEW limit \in Nat \ {0}
    PROVE  LET fitting == Cardinality(Answering(q, Offerable) \ CoreOffered)
           IN  Cardinality(Ranked(q, limit)) = (IF fitting < limit THEN fitting ELSE limit)
  <1> DEFINE A == Answering(q, Offerable)
             n == limit + Cardinality(Steady)
             T == RankTools(q, Offerable, n)
             rest == T \ CoreOffered
             fitting == Cardinality(A \ CoreOffered)
  <1>1. A \in SUBSET Offerable
    BY DEF Answering
  <1>2. Cardinality(Steady) \in Nat /\ n \in Nat /\ n > 0
    BY FS_CardinalityType, OfferAssumption
  <1>3. T = FirstOf(q, A, n)
    BY <1>2 DEF RankTools
  <1>4. /\ IsFiniteSet(A) /\ Cardinality(A) \in Nat /\ T \subseteq A
        /\ Cardinality(T) = (IF Cardinality(A) < n THEN Cardinality(A) ELSE n)
    BY <1>1, <1>2, <1>3, RankingsFill
  <1>5. rest \in SUBSET Offerable /\ rest \subseteq A \ CoreOffered
    BY <1>1, <1>4
  <1> HIDE DEF A, T
  <1>6. /\ IsFiniteSet(rest) /\ Cardinality(rest) \in Nat
        /\ Cardinality(Ranked(q, limit)) = (IF Cardinality(rest) < limit THEN Cardinality(rest) ELSE limit)
    <2>1. Ranked(q, limit) = FirstOf(q, rest, limit)
      BY DEF Ranked, T
    <2> HIDE DEF rest
    <2> QED BY <1>5, <2>1, RankingsFill
  <1>7. IsFiniteSet(A \ CoreOffered) /\ fitting \in Nat /\ Cardinality(rest) <= fitting
    BY <1>4, <1>5, FS_Subset, FS_Difference, FS_CardinalityType
  <1>8. CASE T = A
    BY <1>6, <1>8 DEF A
  <1>9. CASE T # A
    <2>1. Cardinality(T) = n
      BY <1>2, <1>4, <1>9, FS_Subset
    <2>2. IsFiniteSet(T)
      BY <1>4, FS_Subset
    <2>3. Cardinality(rest) = n - Cardinality(T \cap CoreOffered)
      BY <2>1, <2>2, FS_Difference
    <2>4. Cardinality(T \cap CoreOffered) <= Cardinality(Steady)
      BY FS_Subset, OfferAssumption DEF CoreOffered
    <2>5. Cardinality(T \cap CoreOffered) \in Nat
      BY <2>2, FS_Subset, FS_CardinalityType
    <2>6. Cardinality(rest) >= limit
      <3> HIDE DEF rest
      <3> QED BY <1>2, <1>6, <2>3, <2>4, <2>5
    <2> HIDE DEF rest, fitting
    <2>7. fitting >= limit
      BY <1>6, <1>7, <2>6
    <2>8. Cardinality(Ranked(q, limit)) = limit
      BY <1>6, <2>6
    <2> QED BY <1>7, <2>7, <2>8 DEF fitting, A
  <1> QED BY <1>8, <1>9

LEMMA StartIsInReach ==
    ASSUME SearchInit
    PROVE  ToolsStayInReach
  <1>1. PICK q \in Goals, limit \in Limits, capped \in BOOLEAN :
            /\ offered = Select(q, limit, capped) /\ skillRead = Skills
            /\ started = [tools |-> offered, limit |-> limit, failed |-> RankingFailed(q, limit),
                          fitting |-> Cardinality(Answering(q, Offerable) \ CoreOffered)]
            /\ found = {}
    BY DEF SearchInit
  <1>2. limit \in Nat
    BY SearchAssumption
  <1>3. CoreOffered \subseteq offered
    BY <1>1, <1>2 DEF Select, CoreOffered
  <1>4. ASSUME started.limit > 0, ~started.failed
        PROVE  Cardinality(started.tools \ CoreOffered)
                 = (IF started.fitting < started.limit THEN started.fitting ELSE started.limit)
    <2>0. started.limit = limit /\ started.failed = RankingFailed(q, limit)
      BY <1>1
    <2>1. limit \in Nat \ {0} /\ Ranked(q, limit) # {}
      <3>1. limit > 0 /\ ~RankingFailed(q, limit)
        BY <1>4, <2>0, Zenon
      <3> QED BY <1>2, <3>1 DEF RankingFailed
    <2>2. offered = CoreOffered \cup Ranked(q, limit)
      BY <1>1, <2>1 DEF Select
    <2>3. Ranked(q, limit) \cap CoreOffered = {}
      BY DEF Ranked, FirstOf
    <2>4. started.tools \ CoreOffered = Ranked(q, limit)
      BY <1>1, <2>2, <2>3
    <2> QED BY <1>1, <2>1, <2>4, CoreTakesNobodysPlace
  <1> QED BY <1>1, <1>3, <1>4 DEF ToolsStayInReach

\* The tools a run offers its model stay in the model's reach, for any
\* catalogue, any goals and any searches.
THEOREM ToolsInReach == SearchSpec => []ToolsStayInReach
  <1>1. ASSUME ToolsStayInReach, NEW q \in Queries, NEW limit \in Limits, Widen(q, limit)
        PROVE  ToolsStayInReach'
    BY <1>1 DEF ToolsStayInReach, Widen
  <1>2. ToolsStayInReach /\ [SearchNext]_searchVars => ToolsStayInReach'
    BY <1>1 DEF SearchNext, searchVars, ToolsStayInReach
  <1> QED BY StartIsInReach, <1>2, PTL DEF SearchSpec
=============================================================================
