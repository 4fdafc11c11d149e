------------------------------- MODULE Watch --------------------------------
(***************************************************************************)
(* Waiting on the display.  Two event loops over connections of their own: *)
(* the one that fans changes of root-window properties out to those who    *)
(* wait for a window (internal/desktop/xevents.go, wait_for_window), and   *)
(* the one that remembers when the screen was last painted                 *)
(* (internal/desktop/xdamage.go, wait_for_idle).                           *)
(***************************************************************************)
EXTENDS Naturals, Sequences, SequencesExt

CONSTANTS
    Waiters,     \* calls of WaitFor, one each
    Kinds,       \* properties the watcher reports
    Interned,    \* those whose atoms were there when NewWatcher looked
    Want,        \* those a waiter asked for
    Buffer,      \* room in the channel of a subscription
    MaxChanges,  \* bound: changes of properties and titles
    Quiet,       \* how long the screen has to be still
    Patience,    \* the timeout of a wait for that
    MaxTime,     \* bound: the clock of the screen
    MaxPaints    \* bound: paints

ASSUME WatchConstants ==
    /\ Buffer \in Nat \ {0} /\ MaxChanges \in Nat /\ MaxTime \in Nat
    /\ Interned \subseteq Kinds /\ Want \subseteq Kinds /\ Quiet \in Nat \ {0} /\ Patience \in Nat /\ MaxPaints \in Nat

VARIABLES
    present,   \* what the waiters look for is there (external: the window manager)
    changes,   \* changes made so far
    wire,      \* events X has sent and run has not read
    running,   \* run has not ended
    closed,    \* Watcher.closed
    subs,      \* Watcher.subs
    channel,   \* the channel of each waiter: what it holds, and whether it is shut
    waiter,    \* where each call is, whether it has a backstop, and its answer
    missed     \* history: those asleep at a change without an event, or when a wanted event
               \* found their channel full of unwanted ones

watcherVars == <<present, changes, wire, running, closed, subs, channel, waiter, missed>>

VARIABLES
    region,     \* the damage of the root window, as X keeps it: is there any
    notices,    \* notifications on their way
    subtracts,  \* Subtract requests on their way
    hearing,    \* run has read a notification and not noted the time
    last,       \* DamageWatcher.last
    painted,    \* when the screen was last painted
    swallowed,  \* history: a paint fell into a region about to be emptied
    paints,     \* paints so far
    clock,
    idler       \* wait_for_idle: where it is, when its timer fires, its deadline

damageVars == <<region, notices, subtracts, hearing, last, painted, swallowed, paints, clock, idler>>
watchVars == <<watcherVars, damageVars>>

\* ---- those who wait for a window

Fresh == [pc |-> "away", backstop |-> FALSE, answer |-> FALSE]

WatcherInit ==
    /\ present = FALSE /\ changes = 0 /\ wire = <<>>
    /\ running = TRUE /\ closed = FALSE /\ subs = {}
    /\ channel = [w \in Waiters |-> [holds |-> <<>>, shut |-> FALSE]]
    /\ waiter = [w \in Waiters |-> Fresh]
    /\ missed = {}

WaiterAt(w, pc) == waiter' = [waiter EXCEPT ![w].pc = pc]

\* The window manager rewrites a property: a window appears or goes, or neither.
Rewrite(kind) ==
    /\ kind \in Interned /\ changes < MaxChanges /\ changes' = changes + 1
    /\ wire' = IF running THEN Append(wire, kind) ELSE wire
    /\ present' \in IF kind \in Want THEN BOOLEAN ELSE {present}
    /\ UNCHANGED <<running, closed, subs, channel, waiter, missed>>

\* A window changes its title, of which no property of the root says anything, or
\* a property changes that NewWatcher did not find and does not look for again.
Retitle ==
    /\ changes < MaxChanges /\ changes' = changes + 1
    /\ present' = ~present
    /\ missed' = missed \cup {w \in Waiters : waiter[w].pc = "asleep"}
    /\ UNCHANGED <<wire, running, closed, subs, channel, waiter>>

\* X goes away: run ends, and nobody is told.
LoseX ==
    /\ running /\ running' = FALSE
    /\ wire' = <<>> /\ present' = FALSE /\ changes' = MaxChanges
    /\ UNCHANGED <<closed, subs, channel, waiter, missed>>

\* run and broadcast, under the lock.
Broadcast ==
    /\ wire # <<>> /\ running
    /\ wire' = Tail(wire)
    /\ LET full(w) == Len(channel[w].holds) >= Buffer
       IN  /\ channel' = [w \in Waiters |-> IF w \in subs /\ ~full(w)
                             THEN [channel[w] EXCEPT !.holds = Append(@, Head(wire))] ELSE channel[w]]
           /\ missed' = missed \cup {w \in subs : /\ full(w) /\ Head(wire) \in Want
                                                  /\ ToSet(channel[w].holds) \cap Want = {}}
    /\ UNCHANGED <<present, changes, running, closed, subs, waiter>>

\* Close: every subscription is dropped; the connection goes, and run with it.
CloseWatcher ==
    /\ ~closed /\ closed' = TRUE
    /\ channel' = [w \in Waiters |-> IF w \in subs THEN [channel[w] EXCEPT !.shut = TRUE] ELSE channel[w]]
    /\ subs' = {} /\ running' = FALSE /\ wire' = <<>>
    /\ UNCHANGED <<present, changes, waiter, missed>>

\* WaitFor: the first look.
WaitFor(w) ==
    /\ waiter[w].pc = "away"
    /\ \E b \in BOOLEAN :
         waiter' = [waiter EXCEPT ![w] = [pc |-> IF present THEN "returned" ELSE "subscribe",
                                          backstop |-> b, answer |-> present]]
    /\ UNCHANGED <<present, changes, wire, running, closed, subs, channel, missed>>

\* Subscribe: a closed watcher hands back a dead channel.
\* Slip: the subscription is trusted to bring whatever happens from here on.
SubscribeAndSleep(w) ==
    /\ waiter[w].pc = "subscribe"
    /\ IF closed THEN channel' = [channel EXCEPT ![w].shut = TRUE] /\ UNCHANGED subs
                 ELSE subs' = subs \cup {w} /\ UNCHANGED channel
    /\ WaiterAt(w, "asleep")
    /\ UNCHANGED <<present, changes, wire, running, closed, missed>>

Subscribe(w) ==
    /\ waiter[w].pc = "subscribe"
    /\ IF closed THEN channel' = [channel EXCEPT ![w].shut = TRUE] /\ UNCHANGED subs
                 ELSE subs' = subs \cup {w} /\ UNCHANGED channel
    /\ WaiterAt(w, "look")
    /\ UNCHANGED <<present, changes, wire, running, closed, missed>>

Answers(w, yes) == waiter' = [waiter EXCEPT ![w].pc = "leaving", ![w].answer = yes]

\* check.
Look(w) ==
    /\ waiter[w].pc = "look"
    /\ IF present THEN Answers(w, TRUE) ELSE WaiterAt(w, "asleep")
    /\ UNCHANGED <<present, changes, wire, running, closed, subs, channel, missed>>

\* An event wakes the waiter; one of another kind does not make it look.
Wake(w) ==
    /\ waiter[w].pc = "asleep" /\ channel[w].holds # <<>>
    /\ channel' = [channel EXCEPT ![w].holds = Tail(@)]
    /\ WaiterAt(w, IF Head(channel[w].holds) \in Want THEN "look" ELSE "asleep")
    /\ UNCHANGED <<present, changes, wire, running, closed, subs, missed>>

\* The channel is shut and empty: one last look.
LastLook(w) ==
    /\ waiter[w].pc = "asleep" /\ channel[w].holds = <<>> /\ channel[w].shut
    /\ Answers(w, present)
    /\ UNCHANGED <<present, changes, wire, running, closed, subs, channel, missed>>

Backstop(w) ==
    /\ waiter[w].pc = "asleep" /\ waiter[w].backstop
    /\ WaiterAt(w, "look")
    /\ UNCHANGED <<present, changes, wire, running, closed, subs, channel, missed>>

\* The context is cancelled, or the deadline has passed.
WaitEnds(w) ==
    /\ waiter[w].pc = "asleep"
    /\ Answers(w, FALSE)
    /\ UNCHANGED <<present, changes, wire, running, closed, subs, channel, missed>>

\* The deferred cancel.
Unsubscribe(w) ==
    /\ waiter[w].pc = "leaving"
    /\ subs' = subs \ {w}
    /\ channel' = [channel EXCEPT ![w].shut = TRUE]
    /\ WaiterAt(w, "returned")
    /\ UNCHANGED <<present, changes, wire, running, closed, missed>>

WatcherNext ==
    \/ \E kind \in Kinds : Rewrite(kind)
    \/ Retitle \/ LoseX \/ Broadcast \/ CloseWatcher
    \/ \E w \in Waiters :
         \/ WaitFor(w) \/ Subscribe(w) \/ Look(w) \/ Wake(w)
         \/ LastLook(w) \/ Backstop(w) \/ WaitEnds(w) \/ Unsubscribe(w)

\* ---- those who wait for the screen to be still

DamageInit ==
    /\ region = "empty" /\ notices = 0 /\ subtracts = 0 /\ hearing = FALSE
    /\ last = 0 /\ painted = 0 /\ swallowed = FALSE /\ paints = 0 /\ clock = 0
    /\ idler = [pc |-> "away", wake |-> 0, until |-> 0]

\* X keeps one region: it says so when the region stops being empty, and no more.
Paint ==
    /\ paints < MaxPaints /\ paints' = paints + 1
    /\ painted' = clock /\ region' = "dirty"
    /\ notices' = notices + (IF region = "empty" THEN 1 ELSE 0)
    /\ swallowed' = (swallowed \/ (region = "dirty" /\ subtracts > 0))
    /\ UNCHANGED <<subtracts, hearing, last, clock, idler>>

\* run reads a notification and asks for the region to be emptied.
Hear ==
    /\ notices > 0 /\ ~hearing
    /\ notices' = notices - 1 /\ hearing' = TRUE /\ subtracts' = subtracts + 1
    /\ UNCHANGED <<region, last, painted, swallowed, paints, clock, idler>>

Stamp ==
    /\ hearing /\ hearing' = FALSE
    /\ last' = clock /\ swallowed' = FALSE
    /\ UNCHANGED <<region, notices, subtracts, painted, paints, clock, idler>>

Subtract ==
    /\ subtracts > 0 /\ subtracts' = subtracts - 1 /\ region' = "empty"
    /\ UNCHANGED <<notices, hearing, last, painted, swallowed, paints, clock, idler>>

Tick ==
    /\ clock < MaxTime /\ clock' = clock + 1
    /\ UNCHANGED <<region, notices, subtracts, hearing, last, painted, swallowed, paints, idler>>

AskForQuiet ==
    /\ idler.pc \in {"away", "busy"}
    /\ idler' = [pc |-> "measure", wake |-> 0,
                 until |-> IF idler.pc = "busy" THEN idler.until ELSE clock + Patience]
    /\ UNCHANGED <<region, notices, subtracts, hearing, last, painted, swallowed, paints, clock>>

\* QuietFor: sleep exactly as long as the answer can still change.
Measure ==
    /\ idler.pc = "measure"
    /\ LET needed == last + Quiet
           wake == IF needed > idler.until THEN idler.until ELSE needed
       IN  idler' = IF clock >= needed THEN [idler EXCEPT !.pc = "still"]
                    ELSE IF wake <= clock THEN [idler EXCEPT !.pc = "gave up"]
                    ELSE [idler EXCEPT !.pc = "sleep", !.wake = wake]
    /\ UNCHANGED <<region, notices, subtracts, hearing, last, painted, swallowed, paints, clock>>

TimerFires ==
    /\ idler.pc = "sleep" /\ clock >= idler.wake
    /\ idler' = [idler EXCEPT !.pc = "measure"]
    /\ UNCHANGED <<region, notices, subtracts, hearing, last, painted, swallowed, paints, clock>>

IdleCancelled ==
    /\ idler.pc = "sleep"
    /\ idler' = [idler EXCEPT !.pc = "gave up"]
    /\ UNCHANGED <<region, notices, subtracts, hearing, last, painted, swallowed, paints, clock>>

\* toolWaitForIdle: the picture is still and the processor is not, so it asks again.
CpuBusy ==
    /\ idler.pc = "still" /\ clock < idler.until
    /\ idler' = [idler EXCEPT !.pc = "busy"]
    /\ UNCHANGED <<region, notices, subtracts, hearing, last, painted, swallowed, paints, clock>>

DamageNext ==
    \/ Paint \/ Hear \/ Stamp \/ Subtract \/ Tick
    \/ AskForQuiet \/ Measure \/ TimerFires \/ IdleCancelled \/ CpuBusy

WatchInit == WatcherInit /\ DamageInit
WatchNext ==
    \/ WatcherNext /\ UNCHANGED damageVars
    \/ DamageNext /\ UNCHANGED watcherVars

WatchSpec == WatchInit /\ [][WatchNext]_watchVars

\* ---- properties

WatchTypeOK ==
    /\ present \in BOOLEAN /\ running \in BOOLEAN /\ closed \in BOOLEAN
    /\ changes \in 0..MaxChanges
    /\ wire \in Seq(Kinds) /\ subs \subseteq Waiters /\ missed \subseteq Waiters
    /\ \A w \in Waiters : channel[w].holds \in Seq(Kinds) /\ Len(channel[w].holds) <= Buffer
    /\ region \in {"empty", "dirty"} /\ notices \in Nat /\ subtracts \in Nat
    /\ idler.pc \in {"away", "measure", "sleep", "still", "gave up", "busy"}

\* Nobody sleeps through what it waits for.  A caller asleep while its window is
\* there has a wanted event on its way or in its channel, or a shut channel that
\* makes it look, or a backstop; or else a title changed, which no event tells,
\* or its channel was so full of events it does not want that the wanted one was
\* dropped.  No event is sent on a shut channel.  And the screen can always
\* be heard: damage X keeps to itself has a notification or a Subtract on its
\* way, and a paint later than the time noted is on its way to be, but for one
\* that fell into a region about to be emptied.
NobodySleepsThrough ==
    /\ \A w \in Waiters : (waiter[w].pc = "asleep" /\ present) =>
         \/ (ToSet(wire) \cup ToSet(channel[w].holds)) \cap Want # {}
         \/ channel[w].shut \/ waiter[w].backstop \/ w \in missed
    /\ \A w \in subs : ~channel[w].shut
    /\ region = "dirty" => notices > 0 \/ subtracts > 0
    /\ painted > last => notices > 0 \/ hearing \/ swallowed
=============================================================================
