---------------------------- MODULE AgentClient ----------------------------
(***************************************************************************)
(* The agent's MCP client: requests of several goroutines over one         *)
(* connection, one reader goroutine that owns the stream, cancelled        *)
(* requests that wait a little longer, and the end of the connection.      *)
(*                                                                         *)
(* A caller is a goroutine with a context.  A request is the steps of      *)
(* Client.request: a number, a place in the waiters, the line on the wire, *)
(* the select.  The server at the far end is McpServer seen from the wire: *)
(* it reads in order, answers a request once, in any order, and a request  *)
(* it was told to drop at once; it need not ever answer another.           *)
(***************************************************************************)
EXTENDS Naturals, Sequences, FiniteSets

CONSTANTS Callers,   \* goroutines that make requests
          Notes,     \* what a notification of the server may say
          MaxId,     \* bound: requests made on the connection
          MaxWire    \* bound: the server notifies only when fewer lines await the reader

ASSUME BoundsAssumption == MaxId \in Nat \ {0} /\ MaxWire \in Nat \ {0}

VARIABLES nextID,      \* Client.nextID
          waiting,     \* the keys of Client.waiting
          reader,      \* the read goroutine: "reading", "failing" (closed is set), "over" (done is closed)
          give,        \* requests whose channel the reader holds and has yet to send on
          slot,        \* what each request's channel holds, once it was sent on
          call,        \* what each caller is at
          ctx,         \* the callers whose context is cancelled
          up,          \* the transport is open
          toServer,    \* lines written, not read by the server
          fromServer,  \* lines the server wrote, not read
          serving      \* what the server is doing with each request

clientVars == <<nextID, waiting, reader, give, slot, call, ctx>>
serverVars == <<up, toServer, fromServer, serving>>
vars == <<nextID, waiting, reader, give, slot, call, ctx,
          up, toServer, fromServer, serving>>

Ids == 1..MaxId

\* Where a call of request is.
Steps == {"idle", "named", "numbered", "registered", "waiting", "grace"}

\* How a caller's last request ended: never made one, answered, the
\* connection was or became closed, not sent, its context was cancelled.
Ends == {"none", "answer", "closed", "unsent", "cancelled"}

CallState == [st : Steps, id : 0..MaxId, end : Ends]

Idle(end) == [st |-> "idle", id |-> 0, end |-> end]

Request(id) == [kind |-> "request", id |-> id]
Cancelled(id) == [kind |-> "cancelled", id |-> id]
Answer(id) == [kind |-> "answer", id |-> id]
Note(what) == [kind |-> "note", what |-> what]

Lines(to) == IF to = "server" THEN [kind : {"request", "cancelled"}, id : Ids]
             ELSE [kind : {"answer"}, id : Ids] \cup [kind : {"note"}, what : Notes]

\* closed is set in failWaiters, under the lock, and never reset.
Closed == reader # "reading"

\* A caller whose request is among the waiters, or was.
InFlight(c) == call[c].st \in {"registered", "waiting", "grace"}

ClientInit ==
    /\ nextID = 0 /\ waiting = {} /\ reader = "reading" /\ give = {}
    /\ slot = [id \in Ids |-> "empty"]
    /\ call = [c \in Callers |-> Idle("none")]
    /\ ctx = {}
    /\ up = TRUE /\ toServer = <<>> /\ fromServer = <<>>
    /\ serving = [id \in Ids |-> "no"]

-----------------------------------------------------------------------------
(* The callers. *)

\* Call builds its parameters, before the request has its number.  Bounded by
\* MaxId.
Begin(c) ==
    /\ call[c].st = "idle" /\ nextID < MaxId
    /\ nextID + Cardinality({d \in Callers : call[d].st = "named"}) < MaxId
    /\ call' = [call EXCEPT ![c] = [@ EXCEPT !.st = "named"]]
    /\ UNCHANGED <<nextID, waiting, reader, give, slot, ctx, serverVars>>

Number(c) ==
    /\ call[c].st = "named" /\ nextID < MaxId
    /\ nextID' = nextID + 1
    /\ call' = [call EXCEPT ![c] = [@ EXCEPT !.st = "numbered", !.id = nextID + 1]]
    /\ UNCHANGED <<waiting, reader, give, slot, ctx, serverVars>>

\* Slip: a waiter is filed without asking whether the connection closed.
RegisterAnyway(c) ==
    /\ call[c].st = "numbered"
    /\ call' = [call EXCEPT ![c] = [@ EXCEPT !.st = "registered"]]
    /\ waiting' = waiting \cup {call[c].id}
    /\ UNCHANGED <<nextID, reader, give, slot, ctx, serverVars>>

\* Whether the connection is closed is asked and the waiter filed under one
\* lock, the one failWaiters closes it under.
Register(c) ==
    /\ call[c].st = "numbered"
    /\ IF Closed
       THEN call' = [call EXCEPT ![c] = Idle("closed")] /\ UNCHANGED waiting
       ELSE /\ call' = [call EXCEPT ![c] = [@ EXCEPT !.st = "registered"]]
            /\ waiting' = waiting \cup {call[c].id}
    /\ UNCHANGED <<nextID, reader, give, slot, ctx, serverVars>>

Send(c) ==
    /\ call[c].st = "registered" /\ up
    /\ toServer' = Append(toServer, Request(call[c].id))
    /\ call' = [call EXCEPT ![c] = [@ EXCEPT !.st = "waiting"]]
    /\ UNCHANGED <<nextID, waiting, reader, give, slot, ctx, up, fromServer, serving>>

\* A write to a transport that is gone fails, or is taken and lost.
SendFails(c) ==
    /\ call[c].st = "registered" /\ ~up
    /\ \/ waiting' = waiting \ {call[c].id} /\ call' = [call EXCEPT ![c] = Idle("unsent")]
       \/ UNCHANGED waiting /\ call' = [call EXCEPT ![c] = [@ EXCEPT !.st = "waiting"]]
    /\ UNCHANGED <<nextID, reader, give, slot, ctx, serverVars>>

\* select, the channel has the answer.
Take(c) ==
    /\ call[c].st = "waiting" /\ slot[call[c].id] # "empty"
    /\ call' = [call EXCEPT ![c] = Idle(slot[@.id])]
    /\ UNCHANGED <<nextID, waiting, reader, give, slot, ctx, serverVars>>

\* Slip: a cancelled request only stops waiting.
AbandonQuietly(c) ==
    /\ call[c].st = "waiting" /\ c \in ctx
    /\ call' = [call EXCEPT ![c] = [@ EXCEPT !.st = "grace"]]
    /\ UNCHANGED <<nextID, waiting, reader, give, slot, ctx, serverVars>>

\* select, the context is cancelled: the server is told, and the answer it
\* owes is waited for a little longer.
Abandon(c) ==
    /\ call[c].st = "waiting" /\ c \in ctx
    /\ toServer' = IF up THEN Append(toServer, Cancelled(call[c].id)) ELSE toServer
    /\ call' = [call EXCEPT ![c] = [@ EXCEPT !.st = "grace"]]
    /\ UNCHANGED <<nextID, waiting, reader, give, slot, ctx, up, fromServer, serving>>

\* The answer came within the five seconds, or they passed.
EndGrace(c) ==
    /\ call[c].st = "grace"
    /\ \/ slot[call[c].id] # "empty" /\ UNCHANGED waiting
       \/ waiting' = waiting \ {call[c].id}
    /\ call' = [call EXCEPT ![c] = Idle("cancelled")]
    /\ UNCHANGED <<nextID, reader, give, slot, ctx, serverVars>>

CancelContext(c) ==
    /\ c \notin ctx
    /\ ctx' = ctx \cup {c}
    /\ UNCHANGED <<nextID, waiting, reader, give, slot, call, serverVars>>

-----------------------------------------------------------------------------
(* The reader. *)

Arrived(kind) ==
    reader = "reading" /\ give = {} /\ fromServer # <<>> /\ Head(fromServer).kind = kind

\* deliver: the waiter is taken out under the lock.
Deliver ==
    /\ Arrived("answer")
    /\ give' = {Head(fromServer).id} \cap waiting
    /\ waiting' = waiting \ give'
    /\ fromServer' = Tail(fromServer)
    /\ UNCHANGED <<nextID, reader, slot, call, ctx, up, toServer, serving>>

\* The rest of deliver, and of failWaiters: the send on the channel, which
\* holds one answer.
HandOver(id) ==
    /\ id \in give /\ slot[id] = "empty"
    /\ slot' = [slot EXCEPT ![id] = IF Closed THEN "closed" ELSE "answer"]
    /\ give' = give \ {id}
    /\ UNCHANGED <<nextID, waiting, reader, call, ctx, serverVars>>

\* handleNotification: the handlers run on this goroutine.
HandleNotification ==
    /\ Arrived("note")
    /\ fromServer' = Tail(fromServer)
    /\ UNCHANGED <<nextID, waiting, reader, give, slot, call, ctx, up, toServer, serving>>

\* Slip: the waiters are dropped and not told.
DropWaiters ==
    /\ reader = "reading" /\ give = {} /\ ~up
    /\ reader' = "failing"
    /\ waiting' = {}
    /\ UNCHANGED <<nextID, give, slot, call, ctx, serverVars>>

\* The stream ends, wherever what was still on its way was cut off:
\* failWaiters takes every waiter and closes the door.
FailWaiters ==
    /\ reader = "reading" /\ give = {} /\ ~up
    /\ reader' = "failing"
    /\ give' = waiting
    /\ waiting' = {}
    /\ UNCHANGED <<nextID, slot, call, ctx, serverVars>>

CloseDone ==
    /\ reader = "failing" /\ give = {}
    /\ reader' = "over"
    /\ UNCHANGED <<nextID, waiting, give, slot, call, ctx, serverVars>>

-----------------------------------------------------------------------------
(* The server, as McpServer promises it, and the transport. *)

ServerReads ==
    /\ up /\ toServer # <<>>
    /\ toServer' = Tail(toServer)
    /\ LET m == Head(toServer) IN
       serving' = IF m.kind = "request" THEN [serving EXCEPT ![m.id] = "working"]
                  ELSE [serving EXCEPT ![m.id] = IF @ = "working" THEN "told" ELSE @]
    /\ UNCHANGED <<clientVars, up, fromServer>>

ServerAnswers(id) ==
    /\ up /\ serving[id] # "no"
    /\ serving' = [serving EXCEPT ![id] = "no"]
    /\ fromServer' = Append(fromServer, Answer(id))
    /\ UNCHANGED <<clientVars, up, toServer>>

ServerSays(what) ==
    /\ up /\ Len(fromServer) < MaxWire
    /\ fromServer' = Append(fromServer, Note(what))
    /\ UNCHANGED <<clientVars, up, toServer, serving>>

\* The server dies, the bridge is killed, or Close is called.
Break ==
    /\ up
    /\ up' = FALSE
    /\ toServer' = <<>>
    /\ serving' = [id \in Ids |-> "no"]
    /\ UNCHANGED <<clientVars, fromServer>>

-----------------------------------------------------------------------------

CallerStep(c) ==
    Number(c) \/ Register(c) \/ Send(c) \/ SendFails(c) \/ Take(c) \/ Abandon(c) \/ EndGrace(c)

\* The reader, the handler of a notification apart.
ReaderStep == Deliver \/ (\E id \in Ids : HandOver(id)) \/ FailWaiters \/ CloseDone

Server == ServerReads \/ (\E id \in Ids : ServerAnswers(id)) \/ Break

ClientNext ==
    \/ \E c \in Callers : Begin(c) \/ CallerStep(c) \/ CancelContext(c)
    \/ ReaderStep \/ HandleNotification
    \/ Server \/ \E what \in Notes : ServerSays(what)

\* The goroutines run, timers fire, and the server reads its socket and
\* answers a request it was told to drop.  Nothing makes it answer another.
ClientFairness ==
    /\ \A c \in Callers : WF_vars(CallerStep(c))
    /\ WF_vars(ReaderStep) /\ WF_vars(HandleNotification)
    /\ WF_vars(ServerReads)
    /\ \A id \in Ids : WF_vars(serving[id] = "told" /\ ServerAnswers(id))

ClientSpec == ClientInit /\ [][ClientNext]_vars /\ ClientFairness

-----------------------------------------------------------------------------
(* Properties. *)

ClientTypeOK ==
    /\ nextID \in 0..MaxId /\ waiting \subseteq Ids
    /\ reader \in {"reading", "failing", "over"} /\ give \subseteq Ids
    /\ slot \in [Ids -> {"empty", "answer", "closed"}]
    /\ call \in [Callers -> CallState] /\ ctx \subseteq Callers
    /\ up \in BOOLEAN
    /\ toServer \in Seq(Lines("server")) /\ fromServer \in Seq(Lines("client"))
    /\ serving \in [Ids -> {"no", "working", "told"}]

\* The reader never blocks on a send: a channel it holds is empty, so an
\* answer nobody takes does not stall every later one, nor the end of the
\* connection.  (deliver and failWaiters both take a waiter out before they
\* send to it, and the channel has room for one.)
ReaderNeverBlocks == \A id \in give : slot[id] = "empty"

\* Nobody is parked behind a closed connection: once the reader is gone, every
\* caller still in its select has something to take, whatever the order of
\* its registration and of failWaiters.  (TestClosingUnblocksEveryoneWaiting.)
NobodyParked == reader = "over" => \A c \in Callers : InFlight(c) => slot[call[c].id] # "empty"

\* No waiter outlives its request: an entry belongs to a caller still in
\* request, however that call came to its end.
NoWaiterLeaks == \A id \in waiting : \E c \in Callers : InFlight(c) /\ call[c].id = id

\* The server works for nobody without having been told: while it has a
\* request or is about to, its caller is still there, or the cancellation is
\* on its way, or it has been read.
Ordered(id) == serving[id] = "working" \/ \E i \in 1..Len(toServer) : toServer[i] = Request(id)

NoWorkForNobody ==
    \A id \in Ids : Ordered(id) =>
        \/ \E c \in Callers : call[c].st = "waiting" /\ call[c].id = id
        \/ \E i \in 1..Len(toServer) : toServer[i] = Cancelled(id)

\* A request ends, and its caller is let go, once its context is cancelled or
\* the transport is gone: neither waits for an answer the server owes.
EveryRequestEnds ==
    \A c \in Callers : (call[c].st \in Steps \ {"idle", "named"} /\ (c \in ctx \/ ~up))
                       ~> (call[c].st = "idle")

\* Cancelling stops the work and not only the waiting.
CancelStopsTheWork ==
    \A id \in Ids : (\E c \in Callers : call[c].st = "grace" /\ call[c].id = id)
                    ~> (serving[id] = "no" /\ ~Ordered(id))
=============================================================================
