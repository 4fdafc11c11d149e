----------------------------- MODULE DeskProofs -----------------------------
(***************************************************************************)
(* Proofs about the desk: what is held down on it and the tunnels of SSH   *)
(* sessions, who waits for its display, the shells, and the terminal a     *)
(* person shares with the agents; for every number of sessions, keys,      *)
(* calls, tunnels and waiters.                                             *)
(***************************************************************************)
EXTENDS HeldInput, SshTunnels, Watch, PtyShell, Terminal, SequenceTheorems, TLAPS

InputInv == InputTypeOK /\ KeysComeUpWithTheirDriver

\* What a session and a call know of one another: who is listed has not been
\* closed, and who has been asked for a tunnel is listed or has been closed.
SshBooks ==
    /\ \A h \in listed : ending[h] = "no" /\ client[h] # "none"
    /\ \A h \in Hosts : client[h] = "none" => ending[h] = "no"
    /\ \A t \in Tunnels : listener[t] = "open" => opener[t].pc \in {"store", "stored"}
    /\ \A t \in Tunnels : opener[t].pc # "away" =>
          opener[t].host \in Hosts /\ (opener[t].host \in listed \/ ending[opener[t].host] # "no")
    /\ \A c \in Closers : closer[c].pc # "away" => closer[c].host \in Hosts /\ closer[c].tunnel \in Tunnels

SshInv == SshTypeOK /\ SshBooks /\ PortsAreFreed

-----------------------------------------------------------------------------
(***************************************************************************)
(* What is held down.                                                      *)
(***************************************************************************)

\* The events a handler can have at hand.
LEMMA EventKinds ==
    ASSUME NEW ev \in Events \cup {NoEvent}, ev # NoEvent
    PROVE  \/ ev.t = "reset"
           \/ ev.t = "gp" /\ ev.b \in SUBSET PadButtons
           \/ ev.t = "kb" /\ ev.x \in Keys /\ ev.d \in BOOLEAN
           \/ ev.t = "mb" /\ ev.x \in Buttons /\ ev.d \in BOOLEAN
  BY DEF Events, OfEither

\* The calls of the agent's that can be past their check.
LEMMA ToolKinds ==
    ASSUME NEW ev \in ToolCalls \cup {NoEvent}, ev # NoEvent
    PROVE  \/ ev.t = "gp" /\ ev.b \in SUBSET PadButtons
           \/ ev.t = "mb" /\ ev.x \in Buttons /\ ev.d \in BOOLEAN
           \/ ev.t = "gb" /\ ev.x \in PadButtons /\ ev.d \in BOOLEAN
           \/ ev.t = "tap" /\ ev.x \in Buttons \cup PadButtons
  BY DEF ToolCalls, OfEither

\* One thing goes down or up: nothing else changes hands, and what goes down
\* belongs to whoever had it or to whoever pressed it.
LEMMA HeldStep ==
    ASSUME InputTypeOK, NEW p \in Parties, NEW x \in Keys \cup Buttons \cup PadButtons,
           NEW down \in BOOLEAN, Held(p, x, down)
    PROVE  /\ held' \in [Keys \cup Buttons \cup PadButtons -> Parties \cup {Nobody}]
           /\ \A y \in Keys \cup Buttons \cup PadButtons : held'[y] \in {held[y], p, Nobody}
           /\ Down' = IF down THEN Down \cup {x} ELSE Down \ {x}
  <1>1. p # Nobody
    BY InputConstants DEF Parties
  <1>2. held' \in [Keys \cup Buttons \cup PadButtons -> Parties \cup {Nobody}]
    BY DEF Held, InputTypeOK
  <1>3. \A y \in Keys \cup Buttons \cup PadButtons :
            held'[y] = IF y # x THEN held[y] ELSE IF ~down THEN Nobody
                       ELSE IF held[x] = Nobody THEN p ELSE held[x]
    BY DEF Held, InputTypeOK
  <1>4. Down' = IF down THEN Down \cup {x} ELSE Down \ {x}
    BY <1>1, <1>2, <1>3 DEF Down, InputTypeOK
  <1> QED BY <1>2, <1>3, <1>4

\* A set of things is let go of.
LEMMA LiftedStep ==
    ASSUME InputTypeOK, NEW xs \in SUBSET (Keys \cup Buttons \cup PadButtons), held' = Lifted(xs)
    PROVE  /\ held' \in [Keys \cup Buttons \cup PadButtons -> Parties \cup {Nobody}]
           /\ \A y \in Keys \cup Buttons \cup PadButtons : held'[y] \in {held[y], Nobody}
           /\ Down' = Down \ xs
  BY DEF Lifted, Down, InputTypeOK

\* A snapshot of the gamepad is applied.
LEMMA ApplyStep ==
    ASSUME InputTypeOK, NEW p \in Parties, NEW snapshot \in SUBSET PadButtons, Apply(p, snapshot)
    PROVE  /\ held' \in [Keys \cup Buttons \cup PadButtons -> Parties \cup {Nobody}]
           /\ \A y \in Keys \cup Buttons \cup PadButtons : held'[y] \in {held[y], p, Nobody}
           /\ Down' = (Down \ (pressed \ snapshot)) \cup (snapshot \ pressed)
  <1>1. p # Nobody
    BY InputConstants DEF Parties
  <1>2. held' = [x \in Keys \cup Buttons \cup PadButtons |->
                    IF x \in pressed \ snapshot THEN Nobody
                    ELSE IF x \in snapshot \ pressed THEN p ELSE held[x]]
    BY DEF Apply, InputTypeOK
  <1> QED BY <1>1, <1>2 DEF Down, InputTypeOK

\* What the injector does for p keeps its books, and gives nothing to another.
InjectorKeeps(p) ==
    /\ held' \in [Keys \cup Buttons \cup PadButtons -> Parties \cup {Nobody}]
    /\ \A y \in Keys \cup Buttons \cup PadButtons : held'[y] \in {held[y], p, Nobody}
    /\ pressedKeys' \subseteq Keys /\ pressedButtons' \subseteq Buttons /\ pressed' \subseteq PadButtons
    /\ Down' = pressedKeys' \cup pressedButtons' \cup pressed'

LEMMA KeyKeeps ==
    ASSUME InputInv, NEW p \in Parties, NEW x \in Keys, NEW down \in BOOLEAN,
           Key(p, x, down), pressed' = pressed
    PROVE  InjectorKeeps(p)
  <1>1. Held(p, x, down)
    BY DEF Key
  <1>2. x \notin Buttons /\ x \notin PadButtons
    BY InputConstants
  <1> QED BY <1>1, <1>2, HeldStep DEF InputInv, InputTypeOK, Key, InjectorKeeps, KeysComeUpWithTheirDriver

LEMMA ButtonKeeps ==
    ASSUME InputInv, NEW p \in Parties, NEW b \in Buttons, NEW down \in BOOLEAN,
           Button(p, b, down), pressed' = pressed
    PROVE  InjectorKeeps(p)
  <1>1. Held(p, b, down)
    BY DEF Button
  <1>2. b \notin Keys /\ b \notin PadButtons
    BY InputConstants
  <1> QED BY <1>1, <1>2, HeldStep DEF InputInv, InputTypeOK, Button, InjectorKeeps, KeysComeUpWithTheirDriver

LEMMA ReleaseKeeps ==
    ASSUME InputInv, NEW p \in Parties, ReleaseAll, pressed' = pressed
    PROVE  InjectorKeeps(p) /\ Down' = pressed
  <1>1. pressedKeys \cup pressedButtons \in SUBSET (Keys \cup Buttons \cup PadButtons)
    BY DEF InputInv, InputTypeOK
  <1>2. pressed \cap (pressedKeys \cup pressedButtons) = {}
    BY InputConstants DEF InputInv, InputTypeOK
  <1>3. held' = Lifted(pressedKeys \cup pressedButtons)
    BY DEF ReleaseAll
  <1>4. /\ held' \in [Keys \cup Buttons \cup PadButtons -> Parties \cup {Nobody}]
        /\ \A y \in Keys \cup Buttons \cup PadButtons : held'[y] \in {held[y], Nobody}
        /\ Down' = Down \ (pressedKeys \cup pressedButtons)
    BY <1>1, <1>3, LiftedStep DEF InputInv
  <1>5. Down' = pressed
    BY <1>2, <1>4 DEF InputInv, KeysComeUpWithTheirDriver
  <1> QED BY <1>4, <1>5 DEF ReleaseAll, InjectorKeeps, InputInv, InputTypeOK

LEMMA PadKeeps ==
    ASSUME InputInv, NEW p \in Parties, NEW snapshot \in SUBSET PadButtons, Apply(p, snapshot),
           UNCHANGED <<pressedKeys, pressedButtons>>
    PROVE  InjectorKeeps(p)
  <1>1. pressedKeys \cap PadButtons = {} /\ pressedButtons \cap PadButtons = {}
    BY InputConstants DEF InputInv, InputTypeOK
  <1>2. /\ held' \in [Keys \cup Buttons \cup PadButtons -> Parties \cup {Nobody}]
        /\ \A y \in Keys \cup Buttons \cup PadButtons : held'[y] \in {held[y], p, Nobody}
        /\ Down' = (Down \ (pressed \ snapshot)) \cup (snapshot \ pressed)
    BY ApplyStep DEF InputInv
  <1>3. pressed' = snapshot
    BY DEF Apply
  <1> QED BY <1>1, <1>2, <1>3 DEF InjectorKeeps, InputInv, InputTypeOK, KeysComeUpWithTheirDriver

\* A step of the injector keeps what has to come up: only its own party can have
\* something more down, and that is late once its Close has begun.
LEMMA InjectorStep ==
    ASSUME InputInv, NEW p \in Parties, InjectorKeeps(p), UNCHANGED closing,
           late' \subseteq DOMAIN held, late \subseteq late',
           p \in Sessions /\ LetGo(p) => {x \in DOMAIN held : held'[x] = p /\ held[x] # p} \subseteq late'
    PROVE  /\ late' \subseteq DOMAIN held' /\ held' \in [Keys \cup Buttons \cup PadButtons -> Parties \cup {Nobody}]
           /\ KeysComeUpWithTheirDriver'
  <1>1. DOMAIN held = Keys \cup Buttons \cup PadButtons /\ DOMAIN held' = DOMAIN held
    BY DEF InputInv, InputTypeOK, InjectorKeeps
  <1>2. ASSUME NEW s \in Sessions, LetGo(s)' PROVE DownBy(s)' \subseteq late'
    <2> SUFFICES ASSUME NEW x \in DOMAIN held, held'[x] = s PROVE x \in late'
      BY <1>1 DEF DownBy
    <2>0. LetGo(s)
      BY <1>2 DEF LetGo
    <2>1. CASE held[x] = s
      BY <2>0, <2>1 DEF InputInv, KeysComeUpWithTheirDriver, DownBy
    <2>2. CASE held[x] # s
      <3>1. s \in Parties /\ s # Nobody
        BY InputConstants DEF Parties
      <3>2. p = s
        BY <1>1, <2>2, <3>1 DEF InjectorKeeps
      <3> QED BY <2>0, <2>2, <3>2
    <2> QED BY <2>1, <2>2
  <1>3. Down' = pressedKeys' \cup pressedButtons' \cup pressed'
    BY DEF InjectorKeeps
  <1> QED BY <1>1, <1>2, <1>3 DEF InjectorKeeps, KeysComeUpWithTheirDriver

\* What the handlers have at hand, and what becomes of it once one has injected
\* it or has checked another.
HandlerOK ==
    /\ DOMAIN handler = Parties /\ handler[Agent] \in ToolCalls \cup {NoEvent}
    /\ \A s \in Sessions : handler[s] \in Events \cup {NoEvent}

LEMMA HandlerMoves ==
    ASSUME InputInv, NEW p \in Parties, NEW ev, handler' = [handler EXCEPT ![p] = ev],
           \/ ev = NoEvent
           \/ p = Agent /\ ev \in ToolCalls
           \/ p \in Sessions /\ ev \in Events
    PROVE  HandlerOK'
  BY InputConstants DEF InputInv, InputTypeOK, HandlerOK, Parties

LEMMA InputStart == InputInit => InputInv
  <1> SUFFICES ASSUME InputInit PROVE InputInv
    OBVIOUS
  <1>1. held = [x \in Keys \cup Buttons \cup PadButtons |-> Nobody]
    BY DEF InputInit, NotHeld
  <1>2. InputTypeOK
    BY <1>1 DEF InputInit, InputTypeOK, Parties
  <1>3. Down = {}
    BY <1>1 DEF Down
  <1>4. \A s \in Sessions : ~LetGo(s)
    BY DEF InputInit, LetGo
  <1> QED BY <1>2, <1>3, <1>4 DEF InputInit, InputInv, KeysComeUpWithTheirDriver

\* The handler of a session has its event injected, checked long before.
LEMMA InjectStep ==
    ASSUME InputInv, NEW s \in Sessions, Inject(s)
    PROVE  InputInv'
  <1> DEFINE ev == handler[s]
  <1>1. s \in Parties
    BY DEF Parties
  <1>2. /\ \/ ev.t = "reset"
           \/ ev.t = "gp" /\ ev.b \in SUBSET PadButtons
           \/ ev.t = "kb" /\ ev.x \in Keys /\ ev.d \in BOOLEAN
           \/ ev.t = "mb" /\ ev.x \in Buttons /\ ev.d \in BOOLEAN
    <2>1. ev \in Events \cup {NoEvent} /\ ev # NoEvent
      BY DEF Inject, InputInv, InputTypeOK
    <2> QED BY <2>1, EventKinds
  <1>3. InjectorKeeps(s)
    <2>1. CASE ev.t = "reset"
      <3>1. ReleaseAll /\ pressed' = pressed
        BY <2>1 DEF Inject, Injects
      <3> QED BY <1>1, <3>1, ReleaseKeeps
    <2>2. CASE ev.t = "gp" /\ ev.b \in SUBSET PadButtons
      <3>1. Apply(s, ev.b) /\ UNCHANGED <<pressedKeys, pressedButtons>>
        BY <2>2 DEF Inject, Injects
      <3> QED BY <1>1, <2>2, <3>1, PadKeeps
    <2>3. CASE ev.t = "kb" /\ ev.x \in Keys /\ ev.d \in BOOLEAN
      <3>1. Key(s, ev.x, ev.d) /\ pressed' = pressed
        BY <2>3 DEF Inject, Injects
      <3> QED BY <1>1, <2>3, <3>1, KeyKeeps
    <2>4. CASE ev.t = "mb" /\ ev.x \in Buttons /\ ev.d \in BOOLEAN
      <3>1. Button(s, ev.x, ev.d) /\ pressed' = pressed
        BY <2>4 DEF Inject, Injects
      <3> QED BY <1>1, <2>4, <3>1, ButtonKeeps
    <2> QED BY <1>2, <2>1, <2>2, <2>3, <2>4
  <1>4. /\ late' = IF LetGo(s) THEN late \cup {x \in DOMAIN held : held'[x] = s /\ held[x] # s} ELSE late
        /\ UNCHANGED <<driver, closing, tapped>>
    BY DEF Inject
  <1>5. late' \subseteq DOMAIN held /\ late \subseteq late'
    BY <1>4 DEF InputInv, InputTypeOK
  <1>6. /\ late' \subseteq DOMAIN held' /\ held' \in [Keys \cup Buttons \cup PadButtons -> Parties \cup {Nobody}]
        /\ KeysComeUpWithTheirDriver'
    BY <1>1, <1>3, <1>4, <1>5, InjectorStep
  <1>7. HandlerOK'
    BY <1>1, HandlerMoves DEF Inject
  <1> QED BY <1>3, <1>4, <1>6, <1>7 DEF InputInv, InputTypeOK, InjectorKeeps, HandlerOK

\* Close looks: what it leaves down when its session does not drive is known.
LEMMA LooksStep ==
    ASSUME InputInv, NEW s \in Sessions, CloseLooks(s)
    PROVE  InputInv'
  <1>1. /\ closing' = [closing EXCEPT ![s] = IF driver = s THEN "releasing" ELSE "leaving"]
        /\ late' = IF driver = s THEN late ELSE late \cup DownBy(s)
        /\ UNCHANGED <<driver, held, pressedKeys, pressedButtons, pressed, handler, tapped>>
    BY DEF CloseLooks
  <1>2. closing' \in [Sessions -> {"open", "releasing", "leaving", "left"}]
    BY <1>1 DEF InputInv, InputTypeOK
  <1>3. ASSUME NEW r \in Sessions, LetGo(r)' PROVE DownBy(r)' \subseteq late'
    <2>1. DownBy(r)' = DownBy(r)
      BY <1>1 DEF DownBy
    <2>2. CASE r = s
      <3>1. driver # s
        BY <1>1, <1>3, <2>2 DEF LetGo, InputInv, InputTypeOK
      <3> QED BY <1>1, <2>1, <2>2, <3>1
    <2>3. CASE r # s
      <3>1. LetGo(r)
        BY <1>1, <1>3, <2>3 DEF LetGo, InputInv, InputTypeOK
      <3> QED BY <1>1, <2>1, <3>1 DEF InputInv, KeysComeUpWithTheirDriver
    <2> QED BY <2>2, <2>3
  <1>4. Down' = pressedKeys' \cup pressedButtons' \cup pressed'
    BY <1>1 DEF Down, InputInv, KeysComeUpWithTheirDriver
  <1>5. late' \subseteq DOMAIN held'
    BY <1>1 DEF DownBy, InputInv, InputTypeOK
  <1>6. InputTypeOK'
    BY <1>1, <1>2, <1>5 DEF InputInv, InputTypeOK
  <1> QED BY <1>3, <1>4, <1>6 DEF InputInv, KeysComeUpWithTheirDriver

\* Close lets go of what the injector has down, whoever drives by then.
LEMMA ReleasesStep ==
    ASSUME InputInv, NEW s \in Sessions, CloseReleases(s)
    PROVE  InputInv'
  <1>1. /\ closing' = [closing EXCEPT ![s] = "leaving"]
        /\ ReleaseAll /\ late' = late \cup (DownBy(s) \cap PadButtons)
        /\ UNCHANGED <<driver, pressed, handler, tapped, presses>>
    BY DEF CloseReleases
  <1>2. closing' \in [Sessions -> {"open", "releasing", "leaving", "left"}]
    BY <1>1 DEF InputInv, InputTypeOK
  <1>3. s \in Parties
    BY DEF Parties
  <1>4. InjectorKeeps(s) /\ Down' = pressed
    BY <1>1, <1>3, ReleaseKeeps
  <1>5. /\ held' \in [Keys \cup Buttons \cup PadButtons -> Parties \cup {Nobody}]
        /\ \A y \in Keys \cup Buttons \cup PadButtons : held'[y] \in {held[y], Nobody}
    <2>1. pressedKeys \cup pressedButtons \in SUBSET (Keys \cup Buttons \cup PadButtons)
      BY DEF InputInv, InputTypeOK
    <2>2. held' = Lifted(pressedKeys \cup pressedButtons)
      BY <1>1 DEF ReleaseAll
    <2> QED BY <2>1, <2>2, LiftedStep DEF InputInv
  <1>6. DOMAIN held' = DOMAIN held /\ DOMAIN held = Keys \cup Buttons \cup PadButtons
    BY <1>5 DEF InputInv, InputTypeOK
  <1>7. ASSUME NEW r \in Sessions, LetGo(r)' PROVE DownBy(r)' \subseteq late'
    <2> SUFFICES ASSUME NEW x \in DOMAIN held, held'[x] = r PROVE x \in late'
      BY <1>6 DEF DownBy
    <2>1. r # Nobody
      BY InputConstants DEF Parties
    <2>2. held[x] = r
      BY <1>5, <1>6, <2>1
    <2>3. x \in pressed
      <3>1. x \in Down'
        BY <1>6, <2>1 DEF Down
      <3> QED BY <1>4, <3>1
    <2>4. CASE r = s
      BY <1>1, <2>2, <2>3, <2>4 DEF DownBy, InputInv, InputTypeOK
    <2>5. CASE r # s
      <3>1. LetGo(r)
        BY <1>1, <1>7, <2>5 DEF LetGo, InputInv, InputTypeOK
      <3> QED BY <1>1, <2>2, <3>1 DEF DownBy, InputInv, KeysComeUpWithTheirDriver
    <2> QED BY <2>4, <2>5
  <1>8. Down' = pressedKeys' \cup pressedButtons' \cup pressed'
    BY <1>4 DEF InjectorKeeps
  <1>9. late' \subseteq DOMAIN held'
    BY <1>1, <1>6 DEF DownBy, InputInv, InputTypeOK
  <1>10. pressedKeys' \subseteq Keys /\ pressedButtons' \subseteq Buttons /\ pressed' \subseteq PadButtons
    BY <1>4 DEF InjectorKeeps
  <1>11. InputTypeOK'
    BY <1>1, <1>2, <1>5, <1>9, <1>10 DEF InputInv, InputTypeOK
  <1> QED BY <1>7, <1>8, <1>11 DEF InputInv, KeysComeUpWithTheirDriver

LEMMA PadButtonKeeps ==
    ASSUME InputInv, NEW p \in Parties, NEW b \in PadButtons, NEW down \in BOOLEAN, PadButton(p, b, down)
    PROVE  InjectorKeeps(p)
  <1>1. b \in Keys \cup Buttons \cup PadButtons
    OBVIOUS
  <1>2. /\ Held(p, b, down) /\ UNCHANGED <<pressedKeys, pressedButtons>>
        /\ pressed' = IF down THEN pressed \cup {b} ELSE pressed \ {b}
    BY DEF PadButton
  <1>3. /\ held' \in [Keys \cup Buttons \cup PadButtons -> Parties \cup {Nobody}]
        /\ \A y \in Keys \cup Buttons \cup PadButtons : held'[y] \in {held[y], p, Nobody}
        /\ Down' = IF down THEN Down \cup {b} ELSE Down \ {b}
    <2>1. InputTypeOK /\ Held(p, b, down)
      BY <1>2 DEF InputInv
    <2> QED BY ONLY <1>1, <2>1, HeldStep, down \in BOOLEAN, p \in Parties
  <1>4. b \notin Keys /\ b \notin Buttons
    BY InputConstants
  <1> QED BY <1>2, <1>3, <1>4 DEF InjectorKeeps, InputInv, InputTypeOK, KeysComeUpWithTheirDriver

LEMMA EitherKeeps ==
    ASSUME InputInv, NEW x \in Buttons \cup PadButtons, NEW down \in BOOLEAN, EitherButton(x, down)
    PROVE  InjectorKeeps(Agent)
  <1>1. Agent \in Parties
    BY DEF Parties
  <1>2. CASE x \in Buttons
    <2>1. Button(Agent, x, down) /\ pressed' = pressed
      BY <1>2 DEF EitherButton
    <2> QED BY <1>1, <1>2, <2>1, ButtonKeeps
  <1>3. CASE x \notin Buttons
    <2>1. PadButton(Agent, x, down) /\ x \in PadButtons
      BY <1>3 DEF EitherButton
    <2> QED BY <1>1, <2>1, PadButtonKeeps
  <1> QED BY <1>2, <1>3

\* What the tools of the agent press belongs to no session.
LEMMA AgentStep ==
    ASSUME InputInv, InjectorKeeps(Agent), tapped' \in Buttons \cup PadButtons \cup {Nobody},
           HandlerOK', UNCHANGED <<driver, closing, late>>
    PROVE  InputInv'
  <1>1. Agent \in Parties /\ Agent \notin Sessions
    BY InputConstants DEF Parties
  <1>2. late' \subseteq DOMAIN held /\ late \subseteq late'
    BY DEF InputInv, InputTypeOK
  <1>3. /\ late' \subseteq DOMAIN held' /\ held' \in [Keys \cup Buttons \cup PadButtons -> Parties \cup {Nobody}]
        /\ KeysComeUpWithTheirDriver'
    BY <1>1, <1>2, InjectorStep
  <1> QED BY <1>3 DEF InputInv, InputTypeOK, InjectorKeeps, HandlerOK

LEMMA ToolStep ==
    ASSUME InputInv, ToolInjects
    PROVE  InputInv'
  <1> DEFINE ev == handler[Agent]
  <1>1. Agent \in Parties
    BY DEF Parties
  <1>2. /\ ev # NoEvent /\ handler' = [handler EXCEPT ![Agent] = NoEvent]
        /\ UNCHANGED <<driver, closing, late>>
    BY DEF ToolInjects
  <1>3. /\ \/ ev.t = "gp" /\ ev.b \in SUBSET PadButtons
           \/ ev.t = "mb" /\ ev.x \in Buttons /\ ev.d \in BOOLEAN
           \/ ev.t = "gb" /\ ev.x \in PadButtons /\ ev.d \in BOOLEAN
           \/ ev.t = "tap" /\ ev.x \in Buttons \cup PadButtons
    <2>1. ev \in ToolCalls \cup {NoEvent}
      BY DEF InputInv, InputTypeOK
    <2> QED BY <1>2, <2>1, ToolKinds
  <1>4. InjectorKeeps(Agent) /\ tapped' \in Buttons \cup PadButtons \cup {Nobody}
    <2>0. tapped \in Buttons \cup PadButtons \cup {Nobody}
      BY DEF InputInv, InputTypeOK
    <2>1. CASE ev.t = "gp" /\ ev.b \in SUBSET PadButtons
      <3>1. Apply(Agent, ev.b) /\ UNCHANGED <<pressedKeys, pressedButtons, tapped>>
        BY <2>1 DEF ToolInjects, Injects
      <3> QED BY <1>1, <2>0, <2>1, <3>1, PadKeeps
    <2>2. CASE ev.t = "mb" /\ ev.x \in Buttons /\ ev.d \in BOOLEAN
      <3>1. Button(Agent, ev.x, ev.d) /\ UNCHANGED <<pressed, tapped>>
        BY <2>2 DEF ToolInjects, Injects
      <3> QED BY <1>1, <2>0, <2>2, <3>1, ButtonKeeps
    <2>3. CASE ev.t = "gb" /\ ev.x \in PadButtons /\ ev.d \in BOOLEAN
      <3>1. PadButton(Agent, ev.x, ev.d) /\ UNCHANGED tapped
        BY <2>3 DEF ToolInjects, Injects
      <3> QED BY <1>1, <2>0, <2>3, <3>1, PadButtonKeeps
    <2>4. CASE ev.t = "tap" /\ ev.x \in Buttons \cup PadButtons
      <3>1. EitherButton(ev.x, TRUE) /\ tapped' = ev.x
        BY <2>4 DEF ToolInjects, Injects
      <3> QED BY <2>4, <3>1, EitherKeeps
    <2> QED BY <1>3, <2>1, <2>2, <2>3, <2>4
  <1>5. HandlerOK'
    BY <1>1, <1>2, HandlerMoves
  <1> QED BY <1>2, <1>4, <1>5, AgentStep

LEMMA QuietInput ==
    ASSUME InputInv, UNCHANGED <<held, pressedKeys, pressedButtons, pressed, late, tapped>>,
           driver' \in Parties \cup {Nobody}, HandlerOK',
           closing' \in [Sessions -> {"open", "releasing", "leaving", "left"}],
           \A s \in Sessions : LetGo(s)' => LetGo(s)
    PROVE  InputInv'
  BY DEF InputInv, InputTypeOK, HandlerOK, KeysComeUpWithTheirDriver, Down, DownBy

LEMMA InputStep == InputInv /\ [InputNext]_inputVars => InputInv'
  <1> SUFFICES ASSUME InputInv, [InputNext]_inputVars PROVE InputInv'
    OBVIOUS
  <1>0. /\ driver \in Parties \cup {Nobody} /\ HandlerOK
        /\ closing \in [Sessions -> {"open", "releasing", "leaving", "left"}]
        /\ tapped \in Buttons \cup PadButtons \cup {Nobody}
    BY DEF InputInv, InputTypeOK, HandlerOK
  <1>1. ASSUME NEW p \in Parties \cup {Nobody}, Drive(p) PROVE InputInv'
    <2>1. HandlerOK' /\ \A s \in Sessions : LetGo(s)' => LetGo(s)
      BY <1>0, <1>1 DEF Drive, HandlerOK, LetGo
    <2> QED BY <1>0, <1>1, <2>1, QuietInput DEF Drive
  <1>2. ASSUME NEW p \in Parties, NEW ev, Check(p, ev),
               \/ p = Agent /\ ev \in ToolCalls
               \/ p \in Sessions /\ ev \in Events
        PROVE  InputInv'
    <2>1. HandlerOK'
      BY <1>2, HandlerMoves DEF Check
    <2>2. \A s \in Sessions : LetGo(s)' => LetGo(s)
      BY <1>2 DEF Check, LetGo
    <2> QED BY <1>0, <1>2, <2>1, <2>2, QuietInput DEF Check
  <1>3. ASSUME NEW s \in Sessions, Inject(s) PROVE InputInv'
    BY <1>3, InjectStep
  <1>4. ASSUME NEW s \in Sessions, CloseLooks(s) PROVE InputInv'
    BY <1>4, LooksStep
  <1>5. ASSUME NEW s \in Sessions, CloseReleases(s) PROVE InputInv'
    BY <1>5, ReleasesStep
  <1>6. ASSUME NEW s \in Sessions, CloseLeaves(s) PROVE InputInv'
    <2>1. /\ closing' \in [Sessions -> {"open", "releasing", "leaving", "left"}]
          /\ driver' \in Parties \cup {Nobody}
      BY <1>0, <1>6 DEF CloseLeaves
    <2>2. \A r \in Sessions : LetGo(r)' => LetGo(r)
      BY <1>0, <1>6 DEF CloseLeaves, LetGo
    <2>3. HandlerOK'
      BY <1>0, <1>6 DEF CloseLeaves, HandlerOK
    <2> QED BY <1>6, <2>1, <2>2, <2>3, QuietInput DEF CloseLeaves
  <1>7. CASE ToolInjects
    BY <1>7, ToolStep
  <1>8. CASE TapEnds
    <2>1. tapped \in Buttons \cup PadButtons /\ EitherButton(tapped, FALSE)
      BY <1>0, <1>8 DEF TapEnds
    <2>2. InjectorKeeps(Agent)
      BY <2>1, EitherKeeps
    <2>3. HandlerOK'
      BY <1>0, <1>8 DEF TapEnds, HandlerOK
    <2> QED BY <1>8, <2>2, <2>3, AgentStep DEF TapEnds
  <1>9. CASE UNCHANGED inputVars
    <2>1. HandlerOK' /\ \A s \in Sessions : LetGo(s)' => LetGo(s)
      BY <1>0, <1>9 DEF inputVars, HandlerOK, LetGo
    <2> QED BY <1>0, <1>9, <2>1, QuietInput DEF inputVars
  <1>10. ASSUME NEW s \in Sessions, NEW ev \in Events, Check(s, ev) PROVE InputInv'
    <2>1. s \in Parties
      BY DEF Parties
    <2> QED BY <1>2, <1>10, <2>1
  <1>11. ASSUME NEW ev \in ToolCalls, Check(Agent, ev) PROVE InputInv'
    <2>1. Agent \in Parties
      BY DEF Parties
    <2> QED BY <1>2, <1>11, <2>1
  <1> QED
    BY <1>1, <1>3, <1>4, <1>5, <1>6, <1>7, <1>8, <1>9, <1>10, <1>11 DEF InputNext

\* What the injector and the gamepad keep is what it looks like, always: the
\* books of input.go and joystick.go hold sets of their own things.
THEOREM InputTyping == InputSpec => []InputTypeOK
  <1>1. InputInv => InputTypeOK
    BY DEF InputInv
  <1> QED BY <1>1, InputStart, InputStep, PTL DEF InputSpec

\* Keys come up with the one who drove, for any number of sessions and keys:
\* Close in session.go, against a handler that has already checked, controls that
\* moved on, a gamepad and an agent that hold what they hold.
THEOREM KeysComeUp == InputSpec => []KeysComeUpWithTheirDriver
  <1>1. InputInv => KeysComeUpWithTheirDriver
    BY DEF InputInv
  <1> QED BY <1>1, InputStart, InputStep, PTL DEF InputSpec

-----------------------------------------------------------------------------
(***************************************************************************)
(* Tunnels.                                                                *)
(***************************************************************************)

LEMMA SshStart == SshInit => SshInv
  <1> SUFFICES ASSUME SshInit PROVE SshInv
    OBVIOUS
  <1>1. SshTypeOK
    BY DEF SshInit, SshTypeOK, Unopened, Unclosed
  <1>2. SshBooks
    BY DEF SshInit, SshBooks, Unopened, Unclosed
  <1>3. PortsAreFreed
    BY DEF SshInit, PortsAreFreed
  <1> QED BY <1>1, <1>2, <1>3 DEF SshInv

Openers ==
    [pc : {"away", "probe", "listen", "store", "stored", "failed"},
     host : Hosts \cup {""}, kind : {"", "local", "remote"}, addr : Addrs \cup {""}]
Closings ==
    [pc : {"away", "remove", "shut", "no such tunnel", "done"},
     host : Hosts \cup {""}, tunnel : Tunnels \cup {""}]

\* A call that moves on changes nothing of what it is about.
OpenerGoes(t, pc) ==
    /\ opener' \in [Tunnels -> Openers]
    /\ \A u \in Tunnels :
          /\ opener'[u].host = opener[u].host /\ opener'[u].kind = opener[u].kind
          /\ opener'[u].pc = IF u = t THEN pc ELSE opener[u].pc

CloserGoes(c, pc) ==
    /\ closer' \in [Closers -> Closings]
    /\ \A d \in Closers :
          /\ closer'[d].host = closer[d].host /\ closer'[d].tunnel = closer[d].tunnel
          /\ closer'[d].pc = IF d = c THEN pc ELSE closer[d].pc

LEMMA OpenerRecord ==
    ASSUME NEW r \in Openers, NEW pc \in {"away", "probe", "listen", "store", "stored", "failed"}
    PROVE  /\ [r EXCEPT !.pc = pc] \in Openers /\ [r EXCEPT !.pc = pc].pc = pc
           /\ [r EXCEPT !.pc = pc].host = r.host /\ [r EXCEPT !.pc = pc].kind = r.kind
  BY DEF Openers

LEMMA ClosingRecord ==
    ASSUME NEW r \in Closings, NEW pc \in {"away", "remove", "shut", "no such tunnel", "done"}
    PROVE  /\ [r EXCEPT !.pc = pc] \in Closings /\ [r EXCEPT !.pc = pc].pc = pc
           /\ [r EXCEPT !.pc = pc].host = r.host /\ [r EXCEPT !.pc = pc].tunnel = r.tunnel
  BY DEF Closings

LEMMA OpenerMoves ==
    ASSUME SshTypeOK, NEW t \in Tunnels,
           NEW pc \in {"away", "probe", "listen", "store", "stored", "failed"}, OpenerAt(t, pc)
    PROVE  OpenerGoes(t, pc)
  <1> DEFINE r == [opener[t] EXCEPT !.pc = pc]
  <1>1. opener' = [opener EXCEPT ![t] = r] /\ opener \in [Tunnels -> Openers]
    BY DEF OpenerAt, SshTypeOK, Openers
  <1>2. r \in Openers /\ r.pc = pc /\ r.host = opener[t].host /\ r.kind = opener[t].kind
    BY <1>1, OpenerRecord
  <1> HIDE DEF r
  <1> QED BY <1>1, <1>2 DEF OpenerGoes

LEMMA CloserMoves ==
    ASSUME SshTypeOK, NEW c \in Closers, NEW pc \in {"away", "remove", "shut", "no such tunnel", "done"},
           closer' = [closer EXCEPT ![c].pc = pc]
    PROVE  CloserGoes(c, pc)
  <1> DEFINE r == [closer[c] EXCEPT !.pc = pc]
  <1>1. closer' = [closer EXCEPT ![c] = r] /\ closer \in [Closers -> Closings]
    BY DEF SshTypeOK, Closings
  <1>2. r \in Closings /\ r.pc = pc /\ r.host = closer[c].host /\ r.tunnel = closer[c].tunnel
    BY <1>1, ClosingRecord
  <1> HIDE DEF r
  <1> QED BY <1>1, <1>2 DEF CloserGoes

\* The books after each kind of step.
LEMMA SessionSteps ==
    ASSUME SshInv, NEW h \in Hosts,
           Connect(h) \/ LoseServer(h) \/ CloseSession(h) \/ Sweep(h) \/ CloseClient(h)
    PROVE  SshInv'
  <1>1. CASE Connect(h)
    <2>1. SshTypeOK'
      BY <1>1 DEF SshInv, SshTypeOK, Connect
    <2>2. SshBooks'
      <3>1. /\ client' = [client EXCEPT ![h] = "up"] /\ listed' = listed \cup {h} /\ client[h] = "none"
            /\ UNCHANGED <<ending, opener, listener, closer>>
        BY <1>1 DEF Connect
      <3>2. ending[h] = "no"
        BY <3>1 DEF SshInv, SshBooks
      <3>3. \A k \in Hosts : client'[k] = IF k = h THEN "up" ELSE client[k]
        BY <3>1 DEF SshInv, SshTypeOK
      <3>4. \A k \in listed' : ending'[k] = "no" /\ client'[k] # "none"
        BY <3>1, <3>2, <3>3 DEF SshInv, SshBooks, SshTypeOK
      <3>5. \A k \in Hosts : client'[k] = "none" => ending'[k] = "no"
        BY <3>1, <3>3 DEF SshInv, SshBooks
      <3> QED BY <3>1, <3>4, <3>5 DEF SshInv, SshBooks
    <2>3. PortsAreFreed'
      BY <1>1 DEF SshInv, SshBooks, SshTypeOK, PortsAreFreed, Connect
    <2> QED BY <2>1, <2>2, <2>3 DEF SshInv
  <1>2. CASE LoseServer(h)
    <2>1. SshTypeOK'
      BY <1>2 DEF SshInv, SshTypeOK, LoseServer, WithoutRemote
    <2>2. SshBooks'
      BY <1>2 DEF SshInv, SshTypeOK, SshBooks, LoseServer, WithoutRemote
    <2>3. PortsAreFreed'
      BY <1>2 DEF SshInv, SshBooks, SshTypeOK, PortsAreFreed, LoseServer, WithoutRemote
    <2> QED BY <2>1, <2>2, <2>3 DEF SshInv
  <1>3. CASE CloseSession(h)
    <2>1. SshTypeOK'
      BY <1>3 DEF SshInv, SshTypeOK, CloseSession
    <2>2. SshBooks'
      BY <1>3 DEF SshInv, SshTypeOK, SshBooks, CloseSession
    <2>3. PortsAreFreed'
      BY <1>3 DEF SshInv, SshBooks, SshTypeOK, PortsAreFreed, CloseSession
    <2> QED BY <2>1, <2>2, <2>3 DEF SshInv
  \* What the session knows by now is shut; what comes later is stored too late.
  <1>4. CASE Sweep(h)
    <2>1. SshTypeOK'
      BY <1>4 DEF SshInv, SshTypeOK, Sweep, Shut
    <2>2. SshBooks'
      BY <1>4 DEF SshInv, SshTypeOK, SshBooks, Sweep, Shut
    <2>3. PortsAreFreed'
      BY <1>4 DEF SshInv, SshBooks, SshTypeOK, PortsAreFreed, Sweep, Shut
    <2> QED BY <2>1, <2>2, <2>3 DEF SshInv
  <1>5. CASE CloseClient(h)
    <2>1. SshTypeOK'
      BY <1>5 DEF SshInv, SshTypeOK, CloseClient, WithoutRemote
    <2>2. SshBooks'
      BY <1>5 DEF SshInv, SshTypeOK, SshBooks, CloseClient, WithoutRemote
    <2>3. PortsAreFreed'
      BY <1>5 DEF SshInv, SshBooks, SshTypeOK, PortsAreFreed, CloseClient, WithoutRemote
    <2> QED BY <2>1, <2>2, <2>3 DEF SshInv
  <1> QED BY <1>1, <1>2, <1>3, <1>4, <1>5

LEMMA OpenTunnelStep ==
    ASSUME SshInv, NEW t \in Tunnels, NEW h \in Hosts, NEW kind \in {"local", "remote"}, NEW addr \in Addrs,
           OpenTunnel(t, h, kind, addr)
    PROVE  SshInv'
  <1> DEFINE entry == [pc |-> IF kind = "local" THEN "probe" ELSE "listen", host |-> h, kind |-> kind, addr |-> addr]
  <1>1. /\ opener' = [opener EXCEPT ![t] = entry] /\ opener[t].pc = "away" /\ h \in listed
        /\ UNCHANGED <<listed, client, tunnels, ending, listener, stopped, closer, tooLate>>
    BY DEF OpenTunnel
  <1>2. entry \in [pc : {"away", "probe", "listen", "store", "stored", "failed"},
                    host : Hosts \cup {""}, kind : {"", "local", "remote"}, addr : Addrs \cup {""}]
    OBVIOUS
  <1>3. SshTypeOK'
    BY <1>1, <1>2 DEF SshInv, SshTypeOK
  <1>4. listener[t] # "open"
    BY <1>1 DEF SshInv, SshBooks
  <1>5. opener'[t] = entry /\ \A u \in Tunnels \ {t} : opener'[u] = opener[u]
    BY <1>1 DEF SshInv, SshTypeOK
  <1>6. SshBooks'
    BY <1>1, <1>4, <1>5 DEF SshInv, SshBooks
  <1>7. PortsAreFreed'
    BY <1>1, <1>4, <1>5 DEF SshInv, PortsAreFreed
  <1> QED BY <1>3, <1>6, <1>7 DEF SshInv

LEMMA OpenerSteps ==
    ASSUME SshInv, NEW t \in Tunnels, Probe(t) \/ Listen(t) \/ Store(t)
    PROVE  SshInv'
  <1>1. opener[t].host \in Hosts /\ (opener[t].host \in listed \/ ending[opener[t].host] # "no")
    BY DEF Probe, Listen, Store, SshInv, SshBooks
  <1>2. CASE Probe(t)
    <2>1. OpenerAt(t, "listen") \/ OpenerAt(t, "failed")
      BY <1>2 DEF Probe
    <2>2. OpenerGoes(t, "listen") \/ OpenerGoes(t, "failed")
      BY <2>1, OpenerMoves DEF SshInv
    <2>3. opener[t].pc = "probe" /\ UNCHANGED <<listed, client, tunnels, ending, listener, stopped, closer, tooLate>>
      BY <1>2 DEF Probe
    <2>4. listener[t] # "open"
      BY <2>3 DEF SshInv, SshBooks
    <2>5. SshTypeOK'
      BY <2>2, <2>3 DEF SshInv, SshTypeOK, OpenerGoes, Openers
    <2>6. SshBooks'
      BY <1>1, <2>2, <2>3, <2>4 DEF SshInv, SshBooks, OpenerGoes
    <2>7. PortsAreFreed'
      BY <2>2, <2>3, <2>4 DEF SshInv, PortsAreFreed, OpenerGoes
    <2> QED BY <2>5, <2>6, <2>7 DEF SshInv
  <1>3. CASE Listen(t)
    <2>1. /\ opener[t].pc = "listen" /\ UNCHANGED <<listed, client, tunnels, ending, stopped, closer, tooLate>>
          /\ \/ OpenerAt(t, "failed") /\ UNCHANGED listener
             \/ OpenerAt(t, "store") /\ listener' = [listener EXCEPT ![t] = "open"]
      BY <1>3 DEF Listen
    <2>2. listener[t] # "open"
      BY <2>1 DEF SshInv, SshBooks
    <2>3. CASE OpenerAt(t, "failed") /\ UNCHANGED listener
      <3>1. OpenerGoes(t, "failed")
        BY <2>3, OpenerMoves DEF SshInv
      <3>2. SshTypeOK'
        BY <2>1, <2>3, <3>1 DEF SshInv, SshTypeOK, OpenerGoes, Openers
      <3>3. SshBooks'
        BY <1>1, <2>1, <2>2, <2>3, <3>1 DEF SshInv, SshBooks, OpenerGoes
      <3>4. PortsAreFreed'
        BY <2>1, <2>2, <2>3, <3>1 DEF SshInv, PortsAreFreed, OpenerGoes
      <3> QED BY <3>2, <3>3, <3>4 DEF SshInv
    <2>4. CASE OpenerAt(t, "store") /\ listener' = [listener EXCEPT ![t] = "open"]
      <3>1. OpenerGoes(t, "store")
        BY <2>4, OpenerMoves DEF SshInv
      <3>2. listener' \in [Tunnels -> {"none", "open", "closed"}]
            /\ \A u \in Tunnels \ {t} : listener'[u] = listener[u]
        BY <2>4 DEF SshInv, SshTypeOK
      <3>3. SshTypeOK'
        BY <2>1, <3>1, <3>2 DEF SshInv, SshTypeOK, OpenerGoes, Openers
      <3>4. SshBooks'
        BY <1>1, <2>1, <3>1, <3>2 DEF SshInv, SshBooks, OpenerGoes
      <3>5. PortsAreFreed'
        BY <2>1, <3>1, <3>2 DEF SshInv, PortsAreFreed, OpenerGoes
      <3> QED BY <3>3, <3>4, <3>5 DEF SshInv
    <2> QED BY <2>1, <2>3, <2>4
  <1>4. CASE Store(t)
    <2> DEFINE h == opener[t].host
    <2>1. /\ opener[t].pc = "store" /\ OpenerAt(t, "stored")
          /\ tunnels' = [tunnels EXCEPT ![h] = @ \cup {t}]
          /\ tooLate' = IF ending[h] \in {"swept", "closed"} THEN tooLate \cup {t} ELSE tooLate
          /\ UNCHANGED <<listed, client, ending, listener, stopped, closer>>
      BY <1>4 DEF Store
    <2>2. OpenerGoes(t, "stored")
      BY <2>1, OpenerMoves DEF SshInv
    <2>3. /\ tunnels' \in [Hosts -> SUBSET Tunnels] /\ t \in tunnels'[h]
          /\ \A k \in Hosts : tunnels[k] \subseteq tunnels'[k]
      BY <1>1, <2>1 DEF SshInv, SshTypeOK
    <2>4. SshTypeOK'
      BY <2>1, <2>2, <2>3 DEF SshInv, SshTypeOK, OpenerGoes, Openers
    <2>5. SshBooks'
      BY <1>1, <2>1, <2>2 DEF SshInv, SshBooks, OpenerGoes
    <2>6. h \in listed \/ ending[h] \in {"removed", "swept", "closed"}
      BY <1>1 DEF SshInv, SshTypeOK
    <2>7. PortsAreFreed'
      <3> SUFFICES ASSUME NEW u \in Tunnels, listener'[u] = "open"
                   PROVE  LET k == opener'[u].host
                          IN  \/ opener'[u].pc = "store"
                              \/ u \in tunnels'[k] /\ (k \in listed' \/ ending'[k] = "removed")
                              \/ \E c \in Closers : closer'[c].pc = "shut" /\ closer'[c].tunnel = u
                              \/ u \in tooLate'
        BY DEF PortsAreFreed
      <3>1. CASE u = t
        BY <2>1, <2>2, <2>3, <2>6, <3>1 DEF OpenerGoes
      <3>2. CASE u # t
        <4>1. opener[u].host \in Hosts
          BY <2>1 DEF SshInv, SshBooks
        <4> QED BY <2>1, <2>2, <2>3, <3>2, <4>1 DEF SshInv, PortsAreFreed, OpenerGoes
      <3> QED BY <3>1, <3>2
    <2> QED BY <2>4, <2>5, <2>7 DEF SshInv
  <1> QED BY <1>2, <1>3, <1>4

LEMMA GetForCloseStep ==
    ASSUME SshInv, NEW c \in Closers, NEW h \in Hosts, NEW t \in Tunnels, GetForClose(c, h, t)
    PROVE  SshInv'
  <1> DEFINE entry == [pc |-> "remove", host |-> h, tunnel |-> t]
  <1>1. /\ closer' = [closer EXCEPT ![c] = entry] /\ closer[c].pc = "away"
        /\ UNCHANGED <<listed, client, tunnels, ending, opener, listener, stopped, tooLate>>
    BY DEF GetForClose
  <1>2. closer'[c] = entry /\ \A d \in Closers \ {c} : closer'[d] = closer[d]
    BY <1>1 DEF SshInv, SshTypeOK
  <1>3. SshTypeOK'
    BY <1>1 DEF SshInv, SshTypeOK
  <1>4. SshBooks'
    BY <1>1, <1>2 DEF SshInv, SshBooks
  <1>5. PortsAreFreed'
    BY <1>1, <1>2 DEF SshInv, PortsAreFreed
  <1> QED BY <1>3, <1>4, <1>5 DEF SshInv

\* The call that takes a tunnel out of its session is the one that shuts it.
LEMMA RemoveTunnelStep ==
    ASSUME SshInv, NEW c \in Closers, RemoveTunnel(c)
    PROVE  SshInv'
  <1> DEFINE h == closer[c].host
             t == closer[c].tunnel
             pc == IF t \in tunnels[h] THEN "shut" ELSE "no such tunnel"
  <1>1. /\ closer[c].pc = "remove" /\ tunnels' = [tunnels EXCEPT ![h] = @ \ {t}]
        /\ closer' = [closer EXCEPT ![c].pc = pc]
        /\ UNCHANGED <<listed, client, ending, opener, listener, stopped, tooLate>>
    BY DEF RemoveTunnel
  <1>2. h \in Hosts /\ t \in Tunnels
    BY <1>1 DEF SshInv, SshBooks
  <1>3. CloserGoes(c, pc)
    <2>1. pc \in {"away", "remove", "shut", "no such tunnel", "done"}
      OBVIOUS
    <2> HIDE DEF pc
    <2> QED BY <1>1, <2>1, CloserMoves DEF SshInv
  <1>4. SshTypeOK'
    BY <1>1, <1>2, <1>3 DEF SshInv, SshTypeOK, CloserGoes, Closings
  <1>5. SshBooks'
    BY <1>1, <1>2, <1>3 DEF SshInv, SshBooks, CloserGoes
  <1>6. PortsAreFreed'
    <2> SUFFICES ASSUME NEW u \in Tunnels, listener'[u] = "open"
                 PROVE  LET k == opener'[u].host
                        IN  \/ opener'[u].pc = "store"
                            \/ u \in tunnels'[k] /\ (k \in listed' \/ ending'[k] = "removed")
                            \/ \E d \in Closers : closer'[d].pc = "shut" /\ closer'[d].tunnel = u
                            \/ u \in tooLate'
      BY DEF PortsAreFreed
    <2> DEFINE k == opener[u].host
    <2>1. k \in Hosts
      BY <1>1 DEF SshInv, SshBooks
    <2>2. CASE u \in tunnels[k] /\ u \notin tunnels'[k]
      <3>1. t = u /\ h = k
        BY <1>1, <1>2, <2>1, <2>2 DEF SshInv, SshTypeOK
      <3>2. closer'[c].pc = "shut" /\ closer'[c].tunnel = u
        BY <1>3, <2>2, <3>1 DEF CloserGoes
      <3> QED BY <3>2
    <2>3. CASE ~(u \in tunnels[k] /\ u \notin tunnels'[k])
      <3>1. \A d \in Closers : closer[d].pc = "shut" /\ closer[d].tunnel = u =>
               closer'[d].pc = "shut" /\ closer'[d].tunnel = u
        BY <1>1, <1>3 DEF CloserGoes
      <3> QED BY <1>1, <2>3, <3>1 DEF SshInv, PortsAreFreed
    <2> QED BY <2>2, <2>3
  <1> QED BY <1>4, <1>5, <1>6 DEF SshInv

LEMMA ShutTunnelStep ==
    ASSUME SshInv, NEW c \in Closers, ShutTunnel(c)
    PROVE  SshInv'
  <1> DEFINE t == closer[c].tunnel
  <1>1. /\ closer[c].pc = "shut" /\ stopped' = stopped \cup {t}
        /\ UNCHANGED <<listed, client, tunnels, ending, opener, tooLate>>
    BY DEF ShutTunnel
  <1>2. t \in Tunnels
    BY <1>1 DEF SshInv, SshBooks
  <1>3. CloserGoes(c, "done")
    <2>1. closer' = [closer EXCEPT ![c].pc = "done"]
      BY DEF ShutTunnel
    <2> QED BY <2>1, CloserMoves DEF SshInv
  <1>4. /\ listener' \in [Tunnels -> {"none", "open", "closed"}]
        /\ \A u \in Tunnels : listener'[u] = "open" => u # t /\ listener[u] = "open"
    BY DEF ShutTunnel, Shut, SshInv, SshTypeOK
  <1>5. SshTypeOK'
    <2>1. closer' \in [Closers -> Closings] /\ stopped' \subseteq Tunnels
      BY <1>1, <1>2, <1>3 DEF CloserGoes, SshInv, SshTypeOK
    <2> QED BY <1>1, <1>4, <2>1 DEF SshInv, SshTypeOK, Closings
  <1>6. SshBooks'
    BY <1>1, <1>3, <1>4 DEF SshInv, SshBooks, CloserGoes
  <1>7. PortsAreFreed'
    <2> SUFFICES ASSUME NEW u \in Tunnels, listener'[u] = "open"
                 PROVE  LET h == opener'[u].host
                        IN  \/ opener'[u].pc = "store"
                            \/ u \in tunnels'[h] /\ (h \in listed' \/ ending'[h] = "removed")
                            \/ \E d \in Closers : closer'[d].pc = "shut" /\ closer'[d].tunnel = u
                            \/ u \in tooLate'
      BY DEF PortsAreFreed
    <2>1. listener[u] = "open" /\ u # t
      BY <1>4
    <2>2. \A d \in Closers : closer[d].pc = "shut" /\ closer[d].tunnel = u =>
             closer'[d].pc = "shut" /\ closer'[d].tunnel = u
      BY <1>3, <2>1 DEF CloserGoes
    <2> QED BY <1>1, <2>1, <2>2 DEF SshInv, PortsAreFreed
  <1> QED BY <1>5, <1>6, <1>7 DEF SshInv

LEMMA SshStep == SshInv /\ [SshNext]_sshVars => SshInv'
  <1> SUFFICES ASSUME SshInv, [SshNext]_sshVars PROVE SshInv'
    OBVIOUS
  <1>1. CASE UNCHANGED sshVars
    BY <1>1 DEF sshVars, SshInv, SshTypeOK, SshBooks, PortsAreFreed
  <1>2. CASE SshNext
    BY <1>2, SessionSteps, OpenTunnelStep, OpenerSteps, GetForCloseStep, RemoveTunnelStep, ShutTunnelStep
       DEF SshNext
  <1> QED BY <1>1, <1>2

\* No port of a tunnel is left open that nobody can close, for any number of
\* sessions, tunnels and calls: TunnelLocal, TunnelRemote, CloseTunnel and Close
\* in sshclient.go, but for a tunnel stored after Close had looked.
THEOREM PortsFreed == SshSpec => []PortsAreFreed
  <1>1. SshInv => PortsAreFreed
    BY DEF SshInv
  <1> QED BY <1>1, SshStart, SshStep, PTL DEF SshSpec
-----------------------------------------------------------------------------
(***************************************************************************)
(* Waiting on the display.                                                 *)
(***************************************************************************)

\* What is in a queue.
LEMMA QueueHolds ==
    ASSUME NEW S, NEW s \in Seq(S)
    PROVE  /\ ToSet(s) \subseteq S /\ \A x : x \in ToSet(s) <=> \E i \in 1 .. Len(s) : s[i] = x
           /\ ToSet(<<>>) = {}
           /\ \A x \in S : Append(s, x) \in Seq(S) /\ ToSet(Append(s, x)) = ToSet(s) \cup {x}
           /\ s # <<>> => /\ Head(s) \in S /\ Tail(s) \in Seq(S)
                          /\ ToSet(s) = ToSet(Tail(s)) \cup {Head(s)}
                          /\ Len(Tail(s)) <= Len(s)
  <1> DEFINE n == Len(s)
  <1>1. n \in Nat /\ DOMAIN s = 1 .. n
    BY LenProperties
  <1>2. \A i \in 1 .. n : s[i] \in S
    BY ElementOfSeq
  <1>3. \A x : x \in ToSet(s) <=> \E i \in 1 .. n : s[i] = x
    BY <1>1 DEF ToSet
  <1>4. ToSet(<<>>) = {}
    BY EmptySeq DEF ToSet
  <1> HIDE DEF n
  <1>5. ASSUME NEW x \in S PROVE Append(s, x) \in Seq(S) /\ ToSet(Append(s, x)) = ToSet(s) \cup {x}
    <2> DEFINE t == Append(s, x)
    <2>1. t \in Seq(S) /\ Len(t) = n + 1 /\ (\A i \in 1 .. n : t[i] = s[i]) /\ t[n + 1] = x
      BY AppendProperties DEF n
    <2>2. DOMAIN t = 1 .. n + 1
      BY <2>1, LenProperties
    <2> HIDE DEF t
    <2>3. \A y : y \in ToSet(t) <=> \E i \in 1 .. n + 1 : t[i] = y
      BY <2>2 DEF ToSet
    <2>4. \A i \in 1 .. n + 1 : i = n + 1 \/ i \in 1 .. n
      BY <1>1
    <2>5. n + 1 \in 1 .. n + 1 /\ \A i \in 1 .. n : i \in 1 .. n + 1
      BY <1>1
    <2>6. \A y : y \in ToSet(t) <=> y \in ToSet(s) \/ y = x
      BY <1>3, <2>1, <2>3, <2>4, <2>5
    <2> QED
      BY <2>1, <2>6 DEF t
  <1>6. ASSUME s # <<>>
        PROVE  /\ Head(s) \in S /\ Tail(s) \in Seq(S)
               /\ ToSet(s) = ToSet(Tail(s)) \cup {Head(s)}
               /\ Len(Tail(s)) <= n
    <2> DEFINE t == Tail(s)
    <2>1. /\ Head(s) \in S /\ t \in Seq(S) /\ Len(t) = n - 1
          /\ \A i \in 1 .. Len(t) : t[i] = s[i + 1]
      BY <1>6, HeadTailProperties DEF n
    <2>2. Head(s) = s[1] /\ 1 \in 1 .. n /\ n > 0
      BY <1>1, <1>6, EmptySeq DEF n
    <2>3. DOMAIN t = 1 .. Len(t)
      BY <2>1, LenProperties
    <2> HIDE DEF t
    <2>4. \A y : y \in ToSet(t) <=> \E i \in 1 .. n - 1 : t[i] = y
      BY <2>1, <2>3 DEF ToSet
    <2>5. \A i \in 1 .. n - 1 : i + 1 \in 1 .. n /\ t[i] = s[i + 1]
      BY <1>1, <2>1
    <2>6. \A i \in 1 .. n : i = 1 \/ (i - 1 \in 1 .. n - 1 /\ t[i - 1] = s[i])
      <3> TAKE i \in 1 .. n
      <3>1. i = 1 \/ (i - 1 \in 1 .. n - 1 /\ i - 1 + 1 = i)
        BY <1>1
      <3> DEFINE k == i - 1
      <3> HIDE DEF k
      <3>2. k \in 1 .. n - 1 => t[k] = s[k + 1]
        BY <2>5
      <3> QED
        BY <3>1, <3>2 DEF k
    <2>7. \A y \in ToSet(s) : y \in ToSet(t) \/ y = Head(s)
      BY <1>3, <2>2, <2>4, <2>6
    <2>8. \A y : y \in ToSet(t) => y \in ToSet(s)
      BY <1>3, <2>4, <2>5
    <2>9. Head(s) \in ToSet(s)
      BY <1>3, <2>2
    <2>10. Len(t) <= n
      BY <1>1, <2>1
    <2> QED
      BY <2>1, <2>7, <2>8, <2>9, <2>10 DEF t
  <1>7. ToSet(s) \subseteq S
    BY <1>2, <1>3
  <1> QED
    BY <1>3, <1>4, <1>5, <1>6, <1>7 DEF n

Places == {"away", "subscribe", "look", "asleep", "leaving", "returned"}

WatcherTypes ==
    /\ present \in BOOLEAN /\ running \in BOOLEAN /\ closed \in BOOLEAN /\ changes \in Nat
    /\ wire \in Seq(Kinds) /\ subs \subseteq Waiters /\ missed \subseteq Waiters
    /\ channel \in [Waiters -> [holds : Seq(Kinds), shut : BOOLEAN]]
    /\ waiter \in [Waiters -> [pc : Places, backstop : BOOLEAN, answer : BOOLEAN]]

\* Who may sleep is subscribed or has a dead channel; who has not subscribed has
\* an open one. And once run has ended nothing appears any more, but for those
\* whose channel is shut.
Subscribed ==
    /\ \A w \in subs : ~channel[w].shut
    /\ \A w \in Waiters : waiter[w].pc \in {"asleep", "look"} => w \in subs \/ channel[w].shut
    /\ \A w \in Waiters : waiter[w].pc \in {"away", "subscribe"} => w \notin subs /\ ~channel[w].shut
    /\ closed => subs = {}
    /\ ~running => wire = <<>> /\ (closed \/ (changes >= MaxChanges /\ ~present))

Coming(w) == \E kind \in Want : kind \in ToSet(wire) \/ kind \in ToSet(channel[w].holds)

NobodySleeps ==
    \A w \in Waiters : (waiter[w].pc = "asleep" /\ present) =>
        Coming(w) \/ channel[w].shut \/ waiter[w].backstop \/ w \in missed

WatcherInv == WatcherTypes /\ Subscribed /\ NobodySleeps
DamageTypes ==
    /\ region \in {"empty", "dirty"} /\ notices \in Nat /\ subtracts \in Nat
    /\ hearing \in BOOLEAN /\ swallowed \in BOOLEAN
    /\ last \in Nat /\ painted \in Nat /\ clock \in Nat /\ painted <= clock

\* Damage is heard of.
ScreenIsHeard ==
    /\ region = "dirty" => notices > 0 \/ subtracts > 0
    /\ painted > last => notices > 0 \/ hearing \/ swallowed

DamageInv == DamageTypes /\ ScreenIsHeard

LEMMA WatcherStart == WatcherInit => WatcherInv
  <1> SUFFICES ASSUME WatcherInit PROVE WatcherInv
    OBVIOUS
  <1>1. <<>> \in Seq(Kinds)
    BY EmptySeq
  <1>2. [holds |-> <<>>, shut |-> FALSE] \in [holds : Seq(Kinds), shut : BOOLEAN]
    BY <1>1
  <1>3. Fresh \in [pc : Places, backstop : BOOLEAN, answer : BOOLEAN] /\ Fresh.pc = "away"
    BY DEF Fresh, Places
  <1>4. /\ \A w \in Waiters : channel[w] = [holds |-> <<>>, shut |-> FALSE] /\ waiter[w] = Fresh
        /\ channel \in [Waiters -> [holds : Seq(Kinds), shut : BOOLEAN]]
        /\ waiter \in [Waiters -> [pc : Places, backstop : BOOLEAN, answer : BOOLEAN]]
    BY <1>2, <1>3 DEF WatcherInit
  <1>5. WatcherTypes
    BY <1>1, <1>4 DEF WatcherInit, WatcherTypes
  <1>6. Subscribed
    BY <1>3, <1>4 DEF WatcherInit, Subscribed
  <1>7. NobodySleeps
    BY <1>3, <1>4 DEF NobodySleeps
  <1> QED
    BY <1>5, <1>6, <1>7 DEF WatcherInv

\* A call moves on, and no other does.
LEMMA WaiterMoves ==
    ASSUME WatcherTypes, NEW w \in Waiters, NEW p \in Places, NEW yes \in BOOLEAN,
           WaiterAt(w, p) \/ (p = "leaving" /\ Answers(w, yes))
    PROVE  /\ waiter' \in [Waiters -> [pc : Places, backstop : BOOLEAN, answer : BOOLEAN]]
           /\ waiter'[w].pc = p /\ waiter'[w].backstop = waiter[w].backstop
           /\ \A v \in Waiters : v # w => waiter'[v] = waiter[v]
  <1> DEFINE R == [pc : Places, backstop : BOOLEAN, answer : BOOLEAN]
             r == [waiter[w] EXCEPT !.pc = p]
             s == [waiter[w] EXCEPT !.pc = "leaving", !.answer = yes]
  <1>1. waiter \in [Waiters -> R] /\ waiter[w] \in R
    BY DEF WatcherTypes
  <1>2. /\ r \in R /\ r.pc = p /\ r.backstop = waiter[w].backstop
        /\ s \in R /\ s.pc = "leaving" /\ s.backstop = waiter[w].backstop
    BY <1>1 DEF Places
  <1>3. \/ waiter' = [waiter EXCEPT ![w] = r]
        \/ p = "leaving" /\ waiter' = [waiter EXCEPT ![w] = s]
    BY DEF WaiterAt, Answers
  <1> HIDE DEF R, r, s
  <1>4. waiter' \in [Waiters -> R]
    BY <1>1, <1>2, <1>3
  <1>5. /\ waiter'[w].pc = p /\ waiter'[w].backstop = waiter[w].backstop
        /\ \A v \in Waiters : v # w => waiter'[v] = waiter[v]
    BY <1>1, <1>2, <1>3
  <1> QED
    BY <1>4, <1>5 DEF R

\* What a call does that touches neither the subscriptions nor the channels.
LEMMA CallStep ==
    ASSUME WatcherInv, NEW w \in Waiters,
           WaitFor(w) \/ Look(w) \/ LastLook(w) \/ Backstop(w) \/ WaitEnds(w)
    PROVE  WatcherInv'
  <1> USE DEF WatcherInv
  <1>1. UNCHANGED <<present, changes, wire, running, closed, subs, channel, missed>>
    BY DEF WaitFor, Look, LastLook, Backstop, WaitEnds
  <1>2. /\ waiter' \in [Waiters -> [pc : Places, backstop : BOOLEAN, answer : BOOLEAN]]
        /\ \A v \in Waiters : v # w => waiter'[v] = waiter[v]
        /\ waiter'[w].pc \in {"asleep", "look"} => waiter[w].pc \in {"asleep", "look"}
        /\ waiter'[w].pc \in {"away", "subscribe"} => waiter[w].pc \in {"away", "subscribe"}
        /\ waiter'[w].pc = "asleep" => ~present
    <2>1. CASE WaitFor(w)
      <3>1. PICK b \in BOOLEAN :
              waiter' = [waiter EXCEPT ![w] = [pc |-> IF present THEN "returned" ELSE "subscribe",
                                               backstop |-> b, answer |-> present]]
        BY <2>1 DEF WaitFor
      <3> DEFINE r == [pc |-> IF present THEN "returned" ELSE "subscribe", backstop |-> b, answer |-> present]
      <3>2. r \in [pc : Places, backstop : BOOLEAN, answer : BOOLEAN] /\ r.pc \in {"returned", "subscribe"}
        BY DEF Places, WatcherTypes
      <3>3. waiter[w].pc = "away" /\ waiter' = [waiter EXCEPT ![w] = r]
            /\ waiter \in [Waiters -> [pc : Places, backstop : BOOLEAN, answer : BOOLEAN]]
        BY <2>1, <3>1 DEF WaitFor, WatcherTypes
      <3> HIDE DEF r
      <3> QED
        BY <3>2, <3>3
    <2>2. CASE Look(w)
      <3>1. waiter[w].pc = "look" /\ IF present THEN Answers(w, TRUE) ELSE WaiterAt(w, "asleep")
        BY <2>2 DEF Look
      <3>2. CASE present
        <4>1. Answers(w, TRUE) /\ "leaving" \in Places
          BY <3>1, <3>2 DEF Places
        <4> QED
          BY <3>1, <4>1, WaiterMoves
      <3>3. CASE ~present
        <4>1. WaiterAt(w, "asleep") /\ "asleep" \in Places
          BY <3>1, <3>3 DEF Places
        <4> QED
          BY <3>1, <3>3, <4>1, WaiterMoves
      <3> QED
        BY <3>2, <3>3
    <2>3. CASE LastLook(w)
      <3>1. Answers(w, present) /\ present \in BOOLEAN /\ "leaving" \in Places
        BY <2>3 DEF LastLook, WatcherTypes, Places
      <3> QED
        BY <3>1, WaiterMoves
    <2>4. CASE Backstop(w)
      <3>1. waiter[w].pc = "asleep" /\ WaiterAt(w, "look") /\ "look" \in Places
        BY <2>4 DEF Backstop, Places
      <3> QED
        BY <3>1, WaiterMoves
    <2>5. CASE WaitEnds(w)
      <3>1. Answers(w, FALSE) /\ "leaving" \in Places
        BY <2>5 DEF WaitEnds, Places
      <3> QED
        BY <3>1, WaiterMoves
    <2> QED
      BY <2>1, <2>2, <2>3, <2>4, <2>5
  <1>3. WatcherTypes'
    BY <1>1, <1>2 DEF WatcherTypes
  <1>4. Subscribed'
    BY <1>1, <1>2 DEF Subscribed
  <1>5. NobodySleeps'
    BY <1>1, <1>2 DEF NobodySleeps, Coming
  <1> QED
    BY <1>3, <1>4, <1>5

\* The channel of one subscription is shut, and holds what it held.
LEMMA Shuts ==
    ASSUME WatcherTypes, NEW w \in Waiters, channel' = [channel EXCEPT ![w].shut = TRUE]
    PROVE  /\ channel' \in [Waiters -> [holds : Seq(Kinds), shut : BOOLEAN]]
           /\ channel'[w].holds = channel[w].holds /\ channel'[w].shut = TRUE
           /\ \A v \in Waiters : v # w => channel'[v] = channel[v]
  <1> DEFINE R == [holds : Seq(Kinds), shut : BOOLEAN]
             r == [channel[w] EXCEPT !.shut = TRUE]
  <1>1. channel \in [Waiters -> R] /\ channel[w] \in R
    BY DEF WatcherTypes
  <1>2. r \in R /\ r.shut = TRUE /\ r.holds = channel[w].holds
    BY <1>1
  <1>3. channel' = [channel EXCEPT ![w] = r]
    OBVIOUS
  <1> HIDE DEF R, r
  <1>4. channel' \in [Waiters -> R] /\ channel'[w] = r /\ \A v \in Waiters : v # w => channel'[v] = channel[v]
    BY <1>1, <1>2, <1>3
  <1> QED
    BY <1>2, <1>4 DEF R

LEMMA SubscribeStep == ASSUME WatcherInv, NEW w \in Waiters, Subscribe(w) PROVE WatcherInv'
  <1> USE DEF WatcherInv
  <1>1. /\ UNCHANGED <<present, changes, wire, running, closed, missed>>
        /\ waiter[w].pc = "subscribe" /\ WaiterAt(w, "look")
        /\ \/ closed /\ channel' = [channel EXCEPT ![w].shut = TRUE] /\ subs' = subs
           \/ ~closed /\ subs' = subs \cup {w} /\ channel' = channel
    BY DEF Subscribe
  <1>2. "look" \in Places
    BY DEF Places
  <1>3. /\ waiter' \in [Waiters -> [pc : Places, backstop : BOOLEAN, answer : BOOLEAN]]
        /\ waiter'[w].pc = "look" /\ \A v \in Waiters : v # w => waiter'[v] = waiter[v]
    BY <1>1, <1>2, WaiterMoves
  <1>4. CASE closed /\ channel' = [channel EXCEPT ![w].shut = TRUE] /\ subs' = subs
    <2>1. /\ channel' \in [Waiters -> [holds : Seq(Kinds), shut : BOOLEAN]]
          /\ channel'[w].holds = channel[w].holds /\ channel'[w].shut = TRUE
          /\ \A v \in Waiters : v # w => channel'[v] = channel[v]
      BY <1>4, Shuts
    <2>2. WatcherTypes'
      BY <1>1, <1>3, <1>4, <2>1 DEF WatcherTypes
    <2>3. Subscribed'
      BY <1>1, <1>3, <1>4, <2>1 DEF Subscribed
    <2>4. NobodySleeps'
      BY <1>1, <1>3, <1>4, <2>1 DEF NobodySleeps, Coming
    <2> QED
      BY <2>2, <2>3, <2>4
  <1>5. CASE ~closed /\ subs' = subs \cup {w} /\ channel' = channel
    <2>2. WatcherTypes'
      BY <1>1, <1>3, <1>5 DEF WatcherTypes
    <2>3. Subscribed'
      BY <1>1, <1>3, <1>5 DEF Subscribed
    <2>4. NobodySleeps'
      BY <1>1, <1>3, <1>5 DEF NobodySleeps, Coming
    <2> QED
      BY <2>2, <2>3, <2>4
  <1> QED
    BY <1>1, <1>4, <1>5

LEMMA UnsubscribeStep == ASSUME WatcherInv, NEW w \in Waiters, Unsubscribe(w) PROVE WatcherInv'
  <1> USE DEF WatcherInv
  <1>1. /\ UNCHANGED <<present, changes, wire, running, closed, missed>>
        /\ waiter[w].pc = "leaving" /\ WaiterAt(w, "returned")
        /\ channel' = [channel EXCEPT ![w].shut = TRUE] /\ subs' = subs \ {w}
    BY DEF Unsubscribe
  <1>2. "returned" \in Places
    BY DEF Places
  <1>3. /\ waiter' \in [Waiters -> [pc : Places, backstop : BOOLEAN, answer : BOOLEAN]]
        /\ waiter'[w].pc = "returned" /\ \A v \in Waiters : v # w => waiter'[v] = waiter[v]
    BY <1>1, <1>2, WaiterMoves
  <1>4. /\ channel' \in [Waiters -> [holds : Seq(Kinds), shut : BOOLEAN]]
        /\ channel'[w].holds = channel[w].holds /\ channel'[w].shut = TRUE
        /\ \A v \in Waiters : v # w => channel'[v] = channel[v]
    BY <1>1, Shuts
  <1>5. WatcherTypes'
    BY <1>1, <1>3, <1>4 DEF WatcherTypes
  <1>6. Subscribed'
    <2>1. \A v \in subs : v \in Waiters
      BY DEF WatcherTypes
    <2> QED
      BY <1>1, <1>3, <1>4, <2>1 DEF Subscribed
  <1>7. NobodySleeps'
    BY <1>1, <1>3, <1>4 DEF NobodySleeps, Coming
  <1> QED
    BY <1>5, <1>6, <1>7

\* The event that is taken is looked at, or it is none the caller waits for.
LEMMA WakeStep == ASSUME WatcherInv, NEW w \in Waiters, Wake(w) PROVE WatcherInv'
  <1> USE DEF WatcherInv
  <1> DEFINE q == channel[w].holds
             p == IF Head(q) \in Want THEN "look" ELSE "asleep"
  <1>1. /\ UNCHANGED <<present, changes, wire, running, closed, subs, missed>>
        /\ waiter[w].pc = "asleep" /\ WaiterAt(w, p) /\ q # <<>>
        /\ channel' = [channel EXCEPT ![w].holds = Tail(q)]
    BY DEF Wake
  <1>2. p \in Places
    BY DEF Places
  <1>3. q \in Seq(Kinds) /\ channel \in [Waiters -> [holds : Seq(Kinds), shut : BOOLEAN]]
    BY DEF WatcherTypes
  <1>4. Tail(q) \in Seq(Kinds) /\ ToSet(q) = ToSet(Tail(q)) \cup {Head(q)}
    BY <1>1, <1>3, QueueHolds
  <1>5. p = "asleep" => Head(q) \notin Want
    OBVIOUS
  <1>6. p \in {"look", "asleep"}
    OBVIOUS
  <1> DEFINE t == Tail(q)
  <1>7. /\ channel' \in [Waiters -> [holds : Seq(Kinds), shut : BOOLEAN]]
        /\ channel'[w].holds = t /\ \A v \in Waiters : channel'[v].shut = channel[v].shut
        /\ \A v \in Waiters : v # w => channel'[v] = channel[v]
    BY <1>1, <1>3, <1>4
  <1> HIDE DEF p, t
  <1>8. /\ waiter' \in [Waiters -> [pc : Places, backstop : BOOLEAN, answer : BOOLEAN]]
        /\ waiter'[w].pc = p /\ waiter'[w].backstop = waiter[w].backstop
        /\ \A v \in Waiters : v # w => waiter'[v] = waiter[v]
    BY <1>1, <1>2, WaiterMoves
  <1>9. WatcherTypes'
    BY <1>1, <1>7, <1>8 DEF WatcherTypes
  <1>10. Subscribed'
    <2>1. \A v \in Waiters : waiter'[v].pc = waiter[v].pc \/ (v = w /\ waiter'[v].pc \in {"look", "asleep"})
      BY <1>6, <1>8
    <2>2. w \in subs \/ channel[w].shut
      BY <1>1 DEF Subscribed
    <2>3. \A v \in subs : v \in Waiters
      BY DEF WatcherTypes
    <2> QED
      BY <1>1, <1>7, <2>1, <2>2, <2>3 DEF Subscribed
  <1>11. NobodySleeps'
    <2> SUFFICES ASSUME NEW v \in Waiters, waiter'[v].pc = "asleep", present
                 PROVE  Coming(v)' \/ channel[v].shut \/ waiter'[v].backstop \/ v \in missed
      BY <1>1, <1>7 DEF NobodySleeps
    <2>1. waiter[v].pc = "asleep" /\ waiter'[v].backstop = waiter[v].backstop
      BY <1>1, <1>8
    <2>2. Coming(v) \/ channel[v].shut \/ waiter[v].backstop \/ v \in missed
      BY <2>1 DEF NobodySleeps
    <2>3. ASSUME NEW kind \in Want, kind \in ToSet(channel[v].holds) PROVE kind \in ToSet(channel'[v].holds)
      <3>1. CASE v = w
        <4>1. kind # Head(q)
          BY <1>5, <1>8, <2>1, <2>3, <3>1 DEF p
        <4> QED
          BY <1>4, <1>7, <2>3, <3>1, <4>1 DEF t
      <3> QED
        BY <1>7, <2>3, <3>1
    <2>4. Coming(v) => Coming(v)'
      BY <1>1, <2>3 DEF Coming
    <2> QED
      BY <2>1, <2>2, <2>4
  <1> QED
    BY <1>9, <1>10, <1>11

LEMMA RewriteStep == ASSUME WatcherInv, NEW kind \in Kinds, Rewrite(kind) PROVE WatcherInv'
  <1> USE DEF WatcherInv
  <1>1. /\ UNCHANGED <<running, closed, subs, channel, waiter, missed>>
        /\ wire' = (IF running THEN Append(wire, kind) ELSE wire)
        /\ present' \in (IF kind \in Want THEN BOOLEAN ELSE {present})
        /\ changes < MaxChanges /\ changes' = changes + 1
    BY DEF Rewrite
  <1>2. wire \in Seq(Kinds) /\ changes \in Nat /\ MaxChanges \in Nat /\ present \in BOOLEAN
    BY WatchConstants DEF WatcherTypes
  <1>3. Append(wire, kind) \in Seq(Kinds) /\ ToSet(Append(wire, kind)) = ToSet(wire) \cup {kind}
    BY <1>2, QueueHolds
  <1>4. /\ wire' \in Seq(Kinds) /\ ToSet(wire) \subseteq ToSet(wire')
        /\ running => kind \in ToSet(wire')
    BY <1>1, <1>2, <1>3
  <1>5. present' \in BOOLEAN /\ (kind \notin Want => present' = present)
    BY <1>1, <1>2
  <1>6. ~running => closed
    BY <1>1, <1>2 DEF Subscribed
  <1>7. WatcherTypes'
    BY <1>1, <1>2, <1>4, <1>5 DEF WatcherTypes
  <1>8. Subscribed'
    BY <1>1, <1>6 DEF Subscribed
  <1>9. NobodySleeps'
    <2> SUFFICES ASSUME NEW w \in Waiters, waiter[w].pc = "asleep", present'
                 PROVE  Coming(w)' \/ channel[w].shut \/ waiter[w].backstop \/ w \in missed
      BY <1>1 DEF NobodySleeps
    <2>1. Coming(w) => Coming(w)'
      BY <1>1, <1>4 DEF Coming
    <2>2. CASE kind \in Want /\ running
      BY <1>4, <2>2 DEF Coming
    <2>3. CASE ~running
      BY <1>6, <2>3 DEF Subscribed
    <2>4. CASE kind \notin Want
      BY <1>5, <2>1, <2>4 DEF NobodySleeps
    <2> QED
      BY <2>2, <2>3, <2>4
  <1> QED
    BY <1>7, <1>8, <1>9

LEMMA RetitleStep == ASSUME WatcherInv, Retitle PROVE WatcherInv'
  <1> USE DEF WatcherInv
  <1>1. /\ UNCHANGED <<wire, running, closed, subs, channel, waiter>>
        /\ missed' = missed \cup {w \in Waiters : waiter[w].pc = "asleep"}
        /\ changes < MaxChanges /\ changes' = changes + 1 /\ present' = ~present
    BY DEF Retitle
  <1>2. changes \in Nat /\ MaxChanges \in Nat
    BY WatchConstants DEF WatcherTypes
  <1>3. ~running => closed
    BY <1>1, <1>2 DEF Subscribed
  <1>4. WatcherTypes'
    BY <1>1, <1>2 DEF WatcherTypes
  <1>5. Subscribed'
    BY <1>1, <1>3 DEF Subscribed
  <1>6. NobodySleeps'
    BY <1>1 DEF NobodySleeps
  <1> QED
    BY <1>4, <1>5, <1>6

LEMMA LoseXStep == ASSUME WatcherInv, LoseX PROVE WatcherInv'
  <1> USE DEF WatcherInv
  <1>1. /\ UNCHANGED <<closed, subs, channel, waiter, missed>>
        /\ running' = FALSE /\ wire' = <<>> /\ present' = FALSE /\ changes' = MaxChanges
    BY DEF LoseX
  <1>2. <<>> \in Seq(Kinds) /\ MaxChanges \in Nat
    BY EmptySeq, WatchConstants
  <1>3. WatcherTypes'
    BY <1>1, <1>2 DEF WatcherTypes
  <1>4. Subscribed'
    BY <1>1, <1>2 DEF Subscribed
  <1>5. NobodySleeps'
    BY <1>1 DEF NobodySleeps
  <1> QED
    BY <1>3, <1>4, <1>5

LEMMA CloseWatcherStep == ASSUME WatcherInv, CloseWatcher PROVE WatcherInv'
  <1> USE DEF WatcherInv
  <1> DEFINE R == [holds : Seq(Kinds), shut : BOOLEAN]
             r(w) == IF w \in subs THEN [channel[w] EXCEPT !.shut = TRUE] ELSE channel[w]
  <1>1. /\ UNCHANGED <<present, changes, waiter, missed>>
        /\ channel' = [w \in Waiters |-> r(w)]
        /\ closed' = TRUE /\ subs' = {} /\ running' = FALSE /\ wire' = <<>>
    BY DEF CloseWatcher
  <1>2. \A w \in Waiters : r(w) \in R /\ r(w).holds = channel[w].holds
    BY DEF WatcherTypes
  <1>3. \A w \in Waiters : w \in subs => r(w).shut = TRUE
    BY DEF WatcherTypes
  <1>4. \A w \in Waiters : w \notin subs => r(w) = channel[w]
    OBVIOUS
  <1> HIDE DEF r
  <1>5. channel' \in [Waiters -> R] /\ \A w \in Waiters : channel'[w] = r(w)
    BY <1>1, <1>2
  <1> HIDE DEF R
  <1>6. <<>> \in Seq(Kinds)
    BY EmptySeq
  <1>7. WatcherTypes'
    BY <1>1, <1>5, <1>6 DEF WatcherTypes, R
  <1>8. Subscribed'
    BY <1>1, <1>3, <1>4, <1>5 DEF Subscribed
  <1>9. NobodySleeps'
    BY <1>1, <1>3, <1>4, <1>5 DEF NobodySleeps, Subscribed
  <1> QED
    BY <1>7, <1>8, <1>9

\* A wanted event that is handed out is in the channel, or the channel was full:
\* of events that are wanted too, or its caller is noted.
LEMMA BroadcastStep == ASSUME WatcherInv, Broadcast PROVE WatcherInv'
  <1> USE DEF WatcherInv
  <1> DEFINE full(w) == Len(channel[w].holds) >= Buffer
             R == [holds : Seq(Kinds), shut : BOOLEAN]
             more(w) == Append(channel[w].holds, Head(wire))
             r(w) == IF w \in subs /\ ~full(w) THEN [channel[w] EXCEPT !.holds = more(w)] ELSE channel[w]
  <1>1. /\ UNCHANGED <<present, changes, running, closed, subs, waiter>>
        /\ wire # <<>> /\ running /\ wire' = Tail(wire)
        /\ channel' = [w \in Waiters |-> r(w)]
        /\ missed' = missed \cup {w \in subs : /\ full(w) /\ Head(wire) \in Want
                                               /\ ToSet(channel[w].holds) \cap Want = {}}
    BY DEF Broadcast
  <1>2. wire \in Seq(Kinds) /\ channel \in [Waiters -> R] /\ subs \subseteq Waiters /\ missed \subseteq Waiters
    BY DEF WatcherTypes
  <1>3. Head(wire) \in Kinds /\ Tail(wire) \in Seq(Kinds) /\ ToSet(wire) = ToSet(Tail(wire)) \cup {Head(wire)}
    BY <1>1, <1>2, QueueHolds
  <1>4. \A w \in Waiters : channel[w].holds \in Seq(Kinds)
    BY <1>2
  <1>5. \A w \in Waiters : more(w) \in Seq(Kinds) /\ ToSet(more(w)) = ToSet(channel[w].holds) \cup {Head(wire)}
    BY <1>3, <1>4, QueueHolds
  <1> HIDE DEF more
  <1>6. \A w \in Waiters : /\ r(w) \in R /\ r(w).shut = channel[w].shut
                           /\ r(w).holds = (IF w \in subs /\ ~full(w) THEN more(w) ELSE channel[w].holds)
    BY <1>2, <1>5
  <1> HIDE DEF r, full
  <1>7. channel' \in [Waiters -> R] /\ \A w \in Waiters : channel'[w] = r(w)
    BY <1>1, <1>6
  <1> HIDE DEF R
  <1>8. missed' \subseteq Waiters
    BY <1>1, <1>2
  <1>9. WatcherTypes'
    BY <1>1, <1>3, <1>7, <1>8 DEF WatcherTypes, R
  <1>10. Subscribed'
    BY <1>1, <1>2, <1>6, <1>7 DEF Subscribed
  <1>11. NobodySleeps'
    <2> SUFFICES ASSUME NEW w \in Waiters, waiter[w].pc = "asleep", present, ~channel[w].shut
                 PROVE  Coming(w)' \/ waiter[w].backstop \/ w \in missed'
      BY <1>1, <1>6, <1>7 DEF NobodySleeps
    <2>1. w \in subs /\ missed \subseteq missed'
      BY <1>1 DEF Subscribed
    <2>2. CASE waiter[w].backstop \/ w \in missed
      BY <2>1, <2>2
    <2>3. ASSUME NEW kind \in Want, kind \in ToSet(channel[w].holds) PROVE Coming(w)'
      <3>1. kind \in ToSet(channel'[w].holds)
        BY <1>5, <1>6, <1>7, <2>3
      <3> QED
        BY <3>1 DEF Coming
    <2>4. ASSUME NEW kind \in Want, kind \in ToSet(wire) PROVE Coming(w)' \/ w \in missed'
      <3>1. CASE kind # Head(wire)
        BY <1>1, <1>3, <2>4, <3>1 DEF Coming
      <3>2. CASE kind = Head(wire) /\ ~full(w)
        <4>1. kind \in ToSet(channel'[w].holds)
          BY <1>5, <1>6, <1>7, <2>1, <3>2
        <4> QED
          BY <4>1 DEF Coming
      <3>3. CASE kind = Head(wire) /\ full(w)
        <4>1. CASE ToSet(channel[w].holds) \cap Want = {}
          BY <1>1, <2>1, <2>4, <3>3, <4>1
        <4>2. CASE ToSet(channel[w].holds) \cap Want # {}
          BY <2>3, <4>2
        <4> QED
          BY <4>1, <4>2
      <3> QED
        BY <3>1, <3>2, <3>3
    <2>5. Coming(w) \/ waiter[w].backstop \/ w \in missed
      BY DEF NobodySleeps
    <2> QED
      BY <2>2, <2>3, <2>4, <2>5 DEF Coming
  <1> QED
    BY <1>9, <1>10, <1>11

LEMMA WatcherStep == ASSUME WatcherInv, WatcherNext \/ UNCHANGED watcherVars PROVE WatcherInv'
  <1>1. CASE UNCHANGED watcherVars
    <2>1. UNCHANGED <<present, changes, wire, running, closed, subs, channel, waiter, missed>>
      BY <1>1 DEF watcherVars
    <2> QED
      BY <2>1 DEF WatcherInv, WatcherTypes, Subscribed, NobodySleeps, Coming
  <1>2. CASE \E kind \in Kinds : Rewrite(kind)
    BY <1>2, RewriteStep
  <1>3. CASE Retitle \/ LoseX \/ Broadcast \/ CloseWatcher
    BY <1>3, RetitleStep, LoseXStep, BroadcastStep, CloseWatcherStep
  <1>4. ASSUME NEW w \in Waiters,
               \/ WaitFor(w) \/ Subscribe(w) \/ Look(w) \/ Wake(w)
               \/ LastLook(w) \/ Backstop(w) \/ WaitEnds(w) \/ Unsubscribe(w)
        PROVE  WatcherInv'
    BY <1>4, CallStep, SubscribeStep, WakeStep, UnsubscribeStep
  <1> QED
    BY <1>1, <1>2, <1>3, <1>4 DEF WatcherNext

\* A paint the time noted does not cover yet is on its way to be.
LEMMA DamageStep == ASSUME DamageInv, DamageNext \/ UNCHANGED damageVars PROVE DamageInv'
  <1> USE DEF DamageInv, DamageTypes, ScreenIsHeard
  <1>1. CASE Paint
    <2>1. /\ painted' = clock /\ region' = "dirty"
          /\ notices' = notices + (IF region = "empty" THEN 1 ELSE 0)
          /\ swallowed' = (swallowed \/ (region = "dirty" /\ subtracts > 0))
          /\ UNCHANGED <<subtracts, hearing, last, clock>>
      BY <1>1 DEF Paint
    <2>2. swallowed' \in BOOLEAN
      BY <2>1
    <2>3. notices' \in Nat /\ notices' >= notices
      BY <2>1
    <2>4. DamageTypes'
      BY <2>1, <2>2, <2>3
    <2>5. CASE region = "empty"
      BY <2>1, <2>5
    <2>6. CASE region = "dirty"
      <3>1. notices > 0 \/ subtracts > 0
        BY <2>6
      <3>2. subtracts > 0 => swallowed'
        BY <2>1, <2>6
      <3>3. notices > 0 => notices' > 0
        BY <2>1, <2>3
      <3> QED
        BY <2>1, <2>4, <3>1, <3>2, <3>3
    <2> QED
      BY <2>5, <2>6
  <1>2. CASE Hear
    BY <1>2 DEF Hear
  <1>3. CASE Stamp
    <2>1. /\ hearing' = FALSE /\ last' = clock /\ swallowed' = FALSE
          /\ UNCHANGED <<region, notices, subtracts, painted, clock>>
      BY <1>3 DEF Stamp
    <2>2. ~ (painted' > last')
      BY <2>1
    <2>3. hearing' \in BOOLEAN /\ swallowed' \in BOOLEAN
      BY <2>1
    <2> QED
      BY <2>1, <2>2, <2>3
  <1>4. CASE Subtract
    BY <1>4 DEF Subtract
  <1>5. CASE Tick
    BY <1>5 DEF Tick
  <1>6. CASE AskForQuiet \/ Measure \/ TimerFires \/ IdleCancelled \/ CpuBusy
    <2>1. UNCHANGED <<region, notices, subtracts, hearing, last, painted, swallowed, paints, clock>>
      BY <1>6 DEF AskForQuiet, Measure, TimerFires, IdleCancelled, CpuBusy
    <2> QED
      BY <2>1
  <1>7. CASE UNCHANGED damageVars
    BY <1>7 DEF damageVars
  <1> QED
    BY <1>1, <1>2, <1>3, <1>4, <1>5, <1>6, <1>7 DEF DamageNext

\* Watcher (xevents.go) and DamageWatcher (xdamage.go): however events, titles,
\* full channels, a lost display and Close fall together, no caller of WaitFor
\* sleeps on while its window is there with nothing left to wake it, no event is
\* sent on a shut channel, and no paint goes unheard.
THEOREM NobodyOversleeps == WatchSpec => []NobodySleepsThrough
  <1> DEFINE Inv == WatcherInv /\ DamageInv
  <1>1. WatchInit => Inv
    <2> SUFFICES ASSUME WatchInit PROVE Inv
      OBVIOUS
    <2>1. hearing \in BOOLEAN /\ swallowed \in BOOLEAN
      BY DEF WatchInit, DamageInit
    <2>2. DamageInv
      BY <2>1 DEF WatchInit, DamageInit, DamageInv, DamageTypes, ScreenIsHeard
    <2> QED
      BY <2>2, WatcherStart DEF WatchInit
  <1>2. Inv /\ [WatchNext]_watchVars => Inv'
    BY WatcherStep, DamageStep DEF WatchNext, watchVars
  <1>3. Inv => NobodySleepsThrough
    <2> SUFFICES ASSUME WatcherInv, DamageInv PROVE NobodySleepsThrough
      OBVIOUS
    <2>1. ASSUME NEW w \in Waiters, waiter[w].pc = "asleep", present
          PROVE  \/ (ToSet(wire) \cup ToSet(channel[w].holds)) \cap Want # {}
                 \/ channel[w].shut \/ waiter[w].backstop \/ w \in missed
      BY <2>1 DEF WatcherInv, NobodySleeps, Coming
    <2>2. \A w \in subs : ~channel[w].shut
      BY DEF WatcherInv, Subscribed
    <2>3. ScreenIsHeard
      BY DEF DamageInv
    <2> QED
      BY <2>1, <2>2, <2>3 DEF NobodySleepsThrough, ScreenIsHeard
  <1> HIDE DEF Inv
  <1> QED
    BY <1>1, <1>2, <1>3, PTL DEF WatchSpec
-----------------------------------------------------------------------------
(***************************************************************************)
(* A shell and the calls that share it.                                    *)
(***************************************************************************)

Climbs(s) == \A i, j \in 1 .. Len(s) : i < j => s[i] < s[j]
Before(A, B) == \A x \in A, y \in B : x < y

Seen(c) == ToSet(acc[c]) \cup stale[c]

ShellTypes ==
    /\ stdin \in Seq(Callers) /\ runs \in Callers \cup {NobodysOwn}
    /\ pty \in Seq(Nat) /\ buf \in Seq(Nat) /\ printer \in Seq(Callers \cup {NobodysOwn})
    /\ caller \in [Calls -> {"away", "write", "poll", "completed", "timed out"}]
    /\ acc \in [Calls -> Seq(Nat)] /\ stale \in [Calls -> SUBSET Nat]

\* What a call has is older than what is in the buffer, and that is older than
\* what is still in the terminal.
InOrder ==
    /\ Climbs(pty) /\ Climbs(buf) /\ Before(ToSet(buf), ToSet(pty))
    /\ \A x \in ToSet(buf) \cup ToSet(pty) : x <= Len(printer)
    /\ \A c \in Calls : /\ Climbs(acc[c]) /\ Before(Seen(c), ToSet(buf) \cup ToSet(pty))
                        /\ \A x \in Seen(c) : x <= Len(printer)

Apart ==
    \A c \in Calls : /\ ToSet(acc[c]) \cap stale[c] = {}
                     /\ \A d \in Calls \ {c} : ToSet(acc[c]) \cap ToSet(acc[d]) = {}

\* A call that has not begun has nothing, and no command prints before it is
\* written.
NotYet ==
    /\ \A c \in Calls : caller[c] = "away" => acc[c] = <<>> /\ stale[c] = {}
    /\ \A c \in Callers : caller[c] \in {"away", "write"} =>
          c \notin ToSet(stdin) /\ runs # c /\ c \notin ToSet(printer)

Accounted ==
    \A c \in Callers : caller[c] = "poll" =>
        \A k \in 1 .. Len(printer) : printer[k] = c =>
            \/ k \in ToSet(pty) \cup ToSet(buf) \cup ToSet(acc[c]) \cup trimmed
            \/ \E d \in Calls \ {c} : k \in Seen(d)

ShellInv == ShellTypes /\ InOrder /\ Apart /\ NotYet /\ Accounted

LEMMA AppendClimbs ==
    ASSUME NEW s \in Seq(Nat), NEW x \in Nat, Climbs(s), Before(ToSet(s), {x})
    PROVE  Climbs(Append(s, x))
  <1> DEFINE n == Len(s)
             t == Append(s, x)
  <1>1. n \in Nat /\ Len(t) = n + 1 /\ (\A i \in 1 .. n : t[i] = s[i]) /\ t[n + 1] = x
    BY AppendProperties, LenProperties
  <1>2. \A i \in 1 .. n : s[i] < x
    BY QueueHolds DEF Before
  <1>3. \A i, j \in 1 .. n : i < j => s[i] < s[j]
    BY DEF Climbs
  <1> HIDE DEF n, t
  <1> SUFFICES ASSUME NEW i \in 1 .. n + 1, NEW j \in 1 .. n + 1, i < j PROVE t[i] < t[j]
    BY <1>1 DEF Climbs, t
  <1>4. i \in 1 .. n
    BY <1>1
  <1>5. CASE j = n + 1
    BY <1>1, <1>2, <1>4, <1>5
  <1>6. CASE j \in 1 .. n
    BY <1>1, <1>3, <1>4, <1>6
  <1> QED
    BY <1>1, <1>5, <1>6

LEMMA TailClimbs ==
    ASSUME NEW s \in Seq(Nat), s # <<>>, Climbs(s)
    PROVE  Climbs(Tail(s)) /\ Before({Head(s)}, ToSet(Tail(s)))
  <1> DEFINE n == Len(s)
             t == Tail(s)
  <1>1. /\ n \in Nat /\ n > 0 /\ Head(s) = s[1] /\ t \in Seq(Nat) /\ Len(t) = n - 1
        /\ \A i \in 1 .. Len(t) : t[i] = s[i + 1]
    BY HeadTailProperties, LenProperties, EmptySeq
  <1>2. \A i, j \in 1 .. n : i < j => s[i] < s[j]
    BY DEF Climbs
  <1>3. \A x : x \in ToSet(t) <=> \E i \in 1 .. Len(t) : t[i] = x
    BY <1>1, QueueHolds
  <1> HIDE DEF n, t
  <1>4. \A i \in 1 .. n - 1 : i + 1 \in 1 .. n /\ t[i] = s[i + 1] /\ 1 < i + 1
    BY <1>1
  <1>5. Climbs(t)
    <2> SUFFICES ASSUME NEW i \in 1 .. n - 1, NEW j \in 1 .. n - 1, i < j PROVE t[i] < t[j]
      BY <1>1 DEF Climbs
    <2>1. i + 1 < j + 1
      BY <1>1
    <2> QED
      BY <1>2, <1>4, <2>1
  <1>6. \A i \in 1 .. n - 1 : s[1] < t[i]
    <2>1. 1 \in 1 .. n
      BY <1>1
    <2> QED
      BY <1>2, <1>4, <2>1
  <1>7. Before({Head(s)}, ToSet(t))
    BY <1>1, <1>3, <1>6 DEF Before
  <1> QED
    BY <1>5, <1>7 DEF t

\* One sequence after another.
LEMMA ConcatClimbs ==
    ASSUME NEW s \in Seq(Nat), NEW t \in Seq(Nat), Climbs(s), Climbs(t), Before(ToSet(s), ToSet(t))
    PROVE  /\ s \o t \in Seq(Nat) /\ Climbs(s \o t) /\ ToSet(s \o t) = ToSet(s) \cup ToSet(t)
  <1> DEFINE m == Len(s)
             n == Len(t)
             c == s \o t
  <1>1. m \in Nat /\ n \in Nat
    BY LenProperties
  <1>2. c \in Seq(Nat) /\ Len(c) = m + n /\ \A i \in 1 .. m + n : c[i] = IF i <= m THEN s[i] ELSE t[i - m]
    BY ConcatProperties
  <1>3. /\ \A x : x \in ToSet(s) <=> \E i \in 1 .. m : s[i] = x
        /\ \A x : x \in ToSet(t) <=> \E i \in 1 .. n : t[i] = x
    BY QueueHolds
  <1>4. \A x : x \in ToSet(c) <=> \E i \in 1 .. m + n : c[i] = x
    <2> HIDE DEF c
    <2>1. \A x : x \in ToSet(c) <=> \E i \in 1 .. Len(c) : c[i] = x
      BY <1>2, QueueHolds
    <2> HIDE DEF m, n
    <2> QED
      BY <1>2, <2>1
  <1>5. /\ \A i, j \in 1 .. m : i < j => s[i] < s[j]
        /\ \A i, j \in 1 .. n : i < j => t[i] < t[j]
        /\ \A i \in 1 .. m, j \in 1 .. n : s[i] < t[j]
    BY <1>3 DEF Climbs, Before
  <1> HIDE DEF m, n, c
  <1>6. \A i \in 1 .. m : i \in 1 .. m + n /\ c[i] = s[i]
    <2> TAKE i \in 1 .. m
    <2>1. i \in 1 .. m + n /\ i <= m
      BY <1>1
    <2> QED
      BY <1>2, <2>1
  <1>7. \A i \in 1 .. n : m + i \in 1 .. m + n /\ c[m + i] = t[i]
    <2> TAKE i \in 1 .. n
    <2> DEFINE k == m + i
    <2>1. k \in 1 .. m + n /\ ~ (k <= m) /\ k - m = i
      BY <1>1
    <2> HIDE DEF k
    <2>2. c[k] = t[i]
      BY <1>2, <2>1
    <2> QED
      BY <2>1, <2>2 DEF k
  <1>8. \A i \in 1 .. m + n : i \in 1 .. m \/ \E j \in 1 .. n : i = m + j
    <2> TAKE i \in 1 .. m + n
    <2>1. CASE i <= m
      BY <1>1, <2>1
    <2>2. CASE ~ (i <= m)
      <3>1. i - m \in 1 .. n /\ i = m + (i - m)
        BY <1>1, <2>2
      <3> QED
        BY <3>1
    <2> QED
      BY <2>1, <2>2
  <1>9. Climbs(c)
    <2> SUFFICES ASSUME NEW i \in 1 .. m + n, NEW j \in 1 .. m + n, i < j PROVE c[i] < c[j]
      BY <1>2 DEF Climbs
    <2>1. CASE j \in 1 .. m
      <3>1. i \in 1 .. m
        BY <1>1, <2>1
      <3> QED
        BY <1>5, <1>6, <2>1, <3>1
    <2>2. ASSUME NEW l \in 1 .. n, j = m + l PROVE c[i] < c[j]
      <3>1. c[j] = t[l]
        BY <1>7, <2>2
      <3>2. CASE i \in 1 .. m
        BY <1>5, <1>6, <3>1, <3>2
      <3>3. ASSUME NEW k \in 1 .. n, i = m + k PROVE c[i] < c[j]
        <4>1. k < l /\ c[i] = t[k]
          BY <1>1, <1>7, <2>2, <3>3
        <4> QED
          BY <1>5, <3>1, <4>1
      <3> QED
        BY <1>8, <3>2, <3>3
    <2> QED
      BY <1>8, <2>1, <2>2
  <1>10. ToSet(c) = ToSet(s) \cup ToSet(t)
    <2>1. \A x \in ToSet(c) : x \in ToSet(s) \/ x \in ToSet(t)
      <3>1. TAKE x \in ToSet(c)
      <3>2. PICK i \in 1 .. m + n : c[i] = x
        BY <1>4
      <3>3. CASE i \in 1 .. m
        BY <1>3, <1>6, <3>2, <3>3
      <3>4. ASSUME NEW j \in 1 .. n, i = m + j PROVE x \in ToSet(t)
        BY <1>3, <1>7, <3>2, <3>4
      <3> QED
        BY <1>8, <3>2, <3>3, <3>4
    <2>2. \A x \in ToSet(s) : x \in ToSet(c)
      BY <1>3, <1>4, <1>6
    <2>3. \A x \in ToSet(t) : x \in ToSet(c)
      BY <1>3, <1>4, <1>7
    <2> QED
      BY <2>1, <2>2, <2>3
  <1> QED
    BY <1>2, <1>9, <1>10 DEF c

\* What is kept of a sequence past the ceiling.
LEMMA SuffixClimbs ==
    ASSUME NEW s \in Seq(Nat), NEW m \in 1 .. Len(s) + 1, Climbs(s)
    PROVE  /\ SubSeq(s, m, Len(s)) \in Seq(Nat) /\ Climbs(SubSeq(s, m, Len(s)))
           /\ ToSet(SubSeq(s, m, Len(s))) \subseteq ToSet(s)
  <1> DEFINE n == Len(s)
             t == SubSeq(s, m, n)
             l == IF m <= n THEN n - m + 1 ELSE 0
  <1>1. n \in Nat /\ m \in Nat /\ m >= 1
    BY LenProperties
  <1>2. \A i \in m .. n : s[i] \in Nat
    <2> TAKE i \in m .. n
    <2>1. i \in 1 .. n
      BY <1>1
    <2> QED
      BY <2>1, ElementOfSeq
  <1>3. t \in Seq(Nat) /\ Len(t) = l /\ \A i \in 1 .. l : t[i] = s[m + i - 1]
    BY <1>1, <1>2, SubSeqProperties
  <1>4. \A i, j \in 1 .. n : i < j => s[i] < s[j]
    BY DEF Climbs
  <1>5. /\ \A x : x \in ToSet(s) <=> \E i \in 1 .. n : s[i] = x
        /\ \A x : x \in ToSet(t) <=> \E i \in 1 .. l : t[i] = x
    <2>1. \A x : x \in ToSet(s) <=> \E i \in 1 .. n : s[i] = x
      BY QueueHolds
    <2> HIDE DEF n, t
    <2>2. \A x : x \in ToSet(t) <=> \E i \in 1 .. Len(t) : t[i] = x
      BY <1>3, QueueHolds
    <2> HIDE DEF l
    <2> QED
      BY <1>3, <2>1, <2>2
  <1> HIDE DEF n, t
  <1>6. \A i \in 1 .. l : m + i - 1 \in 1 .. n
    BY <1>1
  <1> HIDE DEF l
  <1>7. Climbs(t)
    <2> SUFFICES ASSUME NEW i \in 1 .. l, NEW j \in 1 .. l, i < j PROVE t[i] < t[j]
      BY <1>3 DEF Climbs
    <2> DEFINE h == m + i - 1
               k == m + j - 1
    <2>1. h \in 1 .. n /\ k \in 1 .. n /\ h < k
      BY <1>1, <1>6
    <2>2. t[i] = s[h] /\ t[j] = s[k]
      BY <1>3
    <2> HIDE DEF h, k
    <2> QED
      BY <1>4, <2>1, <2>2
  <1>8. \A x \in ToSet(t) : x \in ToSet(s)
    BY <1>3, <1>5, <1>6
  <1> QED
    BY <1>3, <1>7, <1>8 DEF n, t

LEMMA NotBelowItself == \A x \in Nat : ~ (x < x)
  OBVIOUS

LEMMA NothingQueued == ToSet(<<>>) = {} /\ <<>> \in Seq(Nat) /\ Climbs(<<>>)
  BY EmptySeq DEF ToSet, Climbs

LEMMA ShellStart == ShellInit => ShellInv
  <1> SUFFICES ASSUME ShellInit PROVE ShellInv
    OBVIOUS
  <1>1. <<>> \in Seq(Nat) /\ <<>> \in Seq(Callers) /\ <<>> \in Seq(Callers \cup {NobodysOwn}) /\ Len(<<>>) = 0
    BY EmptySeq
  <1>2. ToSet(<<>>) = {}
    BY EmptySeq DEF ToSet
  <1>3. Climbs(<<>>)
    BY <1>1 DEF Climbs
  <1>4. \A c \in Calls : caller[c] = "away" /\ acc[c] = <<>> /\ stale[c] = {}
    BY DEF ShellInit
  <1>5. ShellTypes
    BY <1>1 DEF ShellInit, ShellTypes
  <1>6. \A c \in Calls : Seen(c) = {}
    BY <1>2, <1>4 DEF Seen
  <1>7. InOrder
    BY <1>2, <1>3, <1>4, <1>6 DEF ShellInit, InOrder, Before
  <1>8. Apart
    BY <1>2, <1>4 DEF Apart
  <1>9. NotYet
    <2>1. \A c \in Callers : runs # c /\ stdin = <<>> /\ printer = <<>>
      BY ShellConstants DEF ShellInit
    <2> QED
      BY <1>2, <1>4, <2>1 DEF NotYet
  <1>10. Accounted
    BY <1>4 DEF Accounted, Calls
  <1> QED
    BY <1>5, <1>7, <1>8, <1>9, <1>10 DEF ShellInv

\* A call moves on, and no other does.
LEMMA CallMoves ==
    ASSUME ShellTypes, NEW c \in Calls, NEW p \in {"away", "write", "poll", "completed", "timed out"},
           CallerAt(c, p)
    PROVE  /\ caller' \in [Calls -> {"away", "write", "poll", "completed", "timed out"}]
           /\ caller'[c] = p /\ \A d \in Calls : d # c => caller'[d] = caller[d]
  BY DEF CallerAt, ShellTypes

\* What moves no output keeps it where it was.
LEMMA OutputStays ==
    ASSUME ShellInv, UNCHANGED <<pty, printer, buf, acc, stale, trimmed>>,
           \A c \in Callers : caller'[c] = "poll" => caller[c] = "poll" \/ c \notin ToSet(printer)
    PROVE  InOrder' /\ Apart' /\ Accounted'
  <1> USE DEF ShellInv
  <1>1. InOrder'
    BY DEF InOrder, Seen
  <1>2. Apart'
    BY DEF Apart
  <1>3. printer \in Seq(Callers \cup {NobodysOwn})
    BY DEF ShellTypes
  <1>4. \A x : x \in ToSet(printer) <=> \E k \in 1 .. Len(printer) : printer[k] = x
    BY <1>3, QueueHolds
  <1>5. Accounted'
    <2> SUFFICES ASSUME NEW c \in Callers, caller'[c] = "poll", NEW k \in 1 .. Len(printer), printer[k] = c
                 PROVE  \/ k \in ToSet(pty) \cup ToSet(buf) \cup ToSet(acc[c]) \cup trimmed
                        \/ \E d \in Calls \ {c} : k \in Seen(d)
      BY DEF Accounted, Seen
    <2>1. caller[c] = "poll"
      BY <1>4
    <2> QED
      BY <2>1 DEF Accounted
  <1> QED
    BY <1>1, <1>2, <1>5

LEMMA ShellReadsStep == ASSUME ShellInv, ShellReads PROVE ShellInv'
  <1> USE DEF ShellInv
  <1>1. /\ UNCHANGED <<pty, printer, buf, acc, stale, trimmed, caller>>
        /\ stdin # <<>> /\ runs' = Head(stdin) /\ stdin' = Tail(stdin)
    BY DEF ShellReads
  <1>2. stdin \in Seq(Callers)
    BY DEF ShellTypes
  <1>3. Head(stdin) \in Callers /\ Tail(stdin) \in Seq(Callers) /\ ToSet(stdin) = ToSet(Tail(stdin)) \cup {Head(stdin)}
    BY <1>1, <1>2, QueueHolds
  <1>4. ShellTypes'
    BY <1>1, <1>3 DEF ShellTypes
  <1>5. NotYet'
    BY <1>1, <1>3 DEF NotYet
  <1> QED
    BY <1>1, <1>4, <1>5, OutputStays

LEMMA ShellEndsStep ==
    ASSUME ShellInv, CommandEnds \/ ShellDies \/ DrainEnds \/ CloseShell
    PROVE  ShellInv'
  <1> USE DEF ShellInv
  <1>1. /\ UNCHANGED <<pty, printer, buf, acc, stale, trimmed, caller, stdin>>
        /\ runs' = runs \/ runs' = NobodysOwn
    BY DEF CommandEnds, ShellDies, DrainEnds, CloseShell
  <1>2. ShellTypes'
    BY <1>1 DEF ShellTypes
  <1>3. \A c \in Callers : runs' = c => runs = c
    BY <1>1, ShellConstants
  <1>4. NotYet'
    BY <1>1, <1>3 DEF NotYet
  <1> QED
    BY <1>1, <1>2, <1>4, OutputStays

LEMMA CallerEndsStep == ASSUME ShellInv, NEW c \in Callers, FallsQuiet(c) \/ RunTimesOut(c) PROVE ShellInv'
  <1> USE DEF ShellInv
  <1>1. /\ UNCHANGED <<pty, printer, buf, acc, stale, trimmed, stdin, runs>>
        /\ CallerAt(c, "completed") \/ CallerAt(c, "timed out")
    BY DEF FallsQuiet, RunTimesOut
  <1>2. c \in Calls
    BY DEF Calls
  <1>3. /\ caller' \in [Calls -> {"away", "write", "poll", "completed", "timed out"}]
        /\ caller'[c] \in {"completed", "timed out"} /\ \A d \in Calls : d # c => caller'[d] = caller[d]
    BY <1>1, <1>2, CallMoves
  <1>4. ShellTypes'
    BY <1>1, <1>3 DEF ShellTypes
  <1>5. Callers \subseteq Calls
    BY DEF Calls
  <1>6. NotYet'
    BY <1>1, <1>3, <1>5 DEF NotYet
  <1>7. \A d \in Callers : caller'[d] = "poll" => caller[d] = "poll"
    BY <1>3, <1>5
  <1> QED
    BY <1>1, <1>4, <1>6, <1>7, OutputStays

LEMMA WriteStep == ASSUME ShellInv, NEW c \in Callers, WriteCommand(c) PROVE ShellInv'
  <1> USE DEF ShellInv
  <1>1. /\ UNCHANGED <<pty, printer, buf, acc, stale, trimmed, runs>>
        /\ caller[c] = "write" /\ CallerAt(c, "poll")
        /\ stdin' = IF lives THEN Append(stdin, c) ELSE stdin
    BY DEF WriteCommand
  <1>2. Callers \subseteq Calls /\ stdin \in Seq(Callers)
    BY DEF Calls, ShellTypes
  <1>3. /\ caller' \in [Calls -> {"away", "write", "poll", "completed", "timed out"}]
        /\ caller'[c] = "poll" /\ \A d \in Calls : d # c => caller'[d] = caller[d]
    BY <1>1, <1>2, CallMoves
  <1>4. stdin' \in Seq(Callers) /\ ToSet(stdin') \subseteq ToSet(stdin) \cup {c}
    BY <1>1, <1>2, QueueHolds
  <1>5. ShellTypes'
    BY <1>1, <1>3, <1>4 DEF ShellTypes
  <1>6. NotYet'
    BY <1>1, <1>2, <1>3, <1>4 DEF NotYet
  <1>7. \A d \in Callers : caller'[d] = "poll" => caller[d] = "poll" \/ d \notin ToSet(printer)
    BY <1>1, <1>2, <1>3 DEF NotYet
  <1> QED
    BY <1>1, <1>5, <1>6, <1>7, OutputStays

\* A new chunk is younger than all there is.
LEMMA PrintStep == ASSUME ShellInv, ShellPrints PROVE ShellInv'
  <1> USE DEF ShellInv
  <1> DEFINE n == Len(printer)
  <1>1. UNCHANGED <<stdin, runs, buf, caller, acc, trimmed, stale>>
    BY DEF ShellPrints
  <1>2. /\ printer \in Seq(Callers \cup {NobodysOwn}) /\ runs \in Callers \cup {NobodysOwn}
        /\ pty \in Seq(Nat) /\ buf \in Seq(Nat) /\ n \in Nat
        /\ \A c \in Calls : acc[c] \in Seq(Nat) /\ stale[c] \subseteq Nat
    BY LenProperties DEF ShellTypes
  <1>3. /\ printer' = Append(printer, runs) /\ printer' \in Seq(Callers \cup {NobodysOwn})
        /\ Len(printer') = n + 1 /\ (\A i \in 1 .. n : printer'[i] = printer[i]) /\ printer'[n + 1] = runs
    BY <1>2, AppendProperties DEF ShellPrints
  <1>4. pty' = Append(pty, n + 1) /\ n + 1 \in Nat
    BY <1>2, <1>3 DEF ShellPrints
  <1>5. pty' \in Seq(Nat) /\ ToSet(pty') = ToSet(pty) \cup {n + 1}
    BY <1>2, <1>4, QueueHolds
  <1>6. ToSet(printer') = ToSet(printer) \cup {runs}
    BY <1>2, <1>3, QueueHolds
  <1>7. /\ \A x \in ToSet(buf) \cup ToSet(pty) : x \in Nat /\ x <= n
        /\ \A c \in Calls : \A x \in Seen(c) : x \in Nat /\ x <= n
    BY <1>2, QueueHolds DEF InOrder, Seen
  <1> HIDE DEF n
  <1>8. ShellTypes'
    BY <1>1, <1>3, <1>5 DEF ShellTypes
  <1>9. InOrder'
    <2>1. Before(ToSet(pty), {n + 1})
      BY <1>2, <1>7 DEF Before
    <2>2. Climbs(pty')
      BY <1>2, <1>4, <2>1, AppendClimbs DEF InOrder
    <2>3. Before(ToSet(buf), ToSet(pty'))
      BY <1>2, <1>5, <1>7 DEF Before, InOrder
    <2>4. \A x \in ToSet(buf) \cup ToSet(pty') : x <= Len(printer')
      BY <1>2, <1>3, <1>5, <1>7
    <2>5. \A c \in Calls : /\ Before(Seen(c), ToSet(buf) \cup ToSet(pty'))
                           /\ \A x \in Seen(c) : x <= Len(printer')
      BY <1>2, <1>3, <1>5, <1>7 DEF Before, InOrder
    <2>6. Climbs(buf) /\ \A c \in Calls : Climbs(acc[c]) /\ Seen(c)' = Seen(c)
      BY <1>1 DEF InOrder, Seen
    <2> QED
      BY <1>1, <2>2, <2>3, <2>4, <2>5, <2>6 DEF InOrder
  <1>10. Apart'
    BY <1>1 DEF Apart
  <1>11. NotYet'
    BY <1>1, <1>6 DEF NotYet
  <1>12. Accounted'
    <2> SUFFICES ASSUME NEW c \in Callers, caller[c] = "poll", NEW k \in 1 .. n + 1, printer'[k] = c
                 PROVE  \/ k \in ToSet(pty') \cup ToSet(buf) \cup ToSet(acc[c]) \cup trimmed
                        \/ \E d \in Calls \ {c} : k \in Seen(d)
      BY <1>1, <1>3 DEF Accounted, Seen
    <2>1. CASE k = n + 1
      BY <1>5, <2>1
    <2>2. CASE k # n + 1
      <3>1. k \in 1 .. n /\ printer[k] = c
        BY <1>2, <1>3, <2>2
      <3>2. \/ k \in ToSet(pty) \cup ToSet(buf) \cup ToSet(acc[c]) \cup trimmed
            \/ \E d \in Calls \ {c} : k \in Seen(d)
        BY <3>1 DEF Accounted, n
      <3> QED
        BY <1>5, <3>2
    <2> QED
      BY <2>1, <2>2
  <1> QED
    BY <1>8, <1>9, <1>10, <1>11, <1>12

\* A chunk moves from the terminal to the buffer, whose head may go.
LEMMA DrainStep == ASSUME ShellInv, DrainPty PROVE ShellInv'
  <1> USE DEF ShellInv
  <1> DEFINE over == Len(buf) > Ceiling
             kept == IF over THEN SubSeq(buf, Len(buf) - KeptTail + 1, Len(buf)) ELSE buf
             h == Head(pty)
  <1>1. /\ UNCHANGED <<stdin, runs, printer, caller, acc, stale>>
        /\ pty # <<>> /\ pty' = Tail(pty) /\ buf' = Append(kept, h)
        /\ trimmed' = trimmed \cup (ToSet(buf) \ ToSet(kept))
    BY DEF DrainPty
  <1>2. pty \in Seq(Nat) /\ buf \in Seq(Nat) /\ Len(buf) \in Nat
    BY LenProperties DEF ShellTypes
  <1>3. /\ h \in Nat /\ pty' \in Seq(Nat) /\ ToSet(pty) = ToSet(pty') \cup {h}
        /\ Climbs(pty') /\ Before({h}, ToSet(pty'))
    BY <1>1, <1>2, QueueHolds, TailClimbs DEF InOrder
  <1>4. kept \in Seq(Nat) /\ Climbs(kept) /\ ToSet(kept) \subseteq ToSet(buf)
    <2>1. CASE over
      <3>1. Len(buf) - KeptTail + 1 \in 1 .. Len(buf) + 1
        BY <1>2, <2>1, ShellConstants
      <3> QED
        BY <1>2, <2>1, <3>1, SuffixClimbs DEF InOrder
    <2>2. CASE ~over
      BY <1>2, <2>2 DEF InOrder
    <2> QED
      BY <2>1, <2>2
  <1> HIDE DEF kept, h
  <1>5. buf' \in Seq(Nat) /\ ToSet(buf') = ToSet(kept) \cup {h}
    BY <1>1, <1>3, <1>4, QueueHolds
  <1>6. Before(ToSet(buf), ToSet(pty)) /\ \A x \in ToSet(buf) \cup ToSet(pty) : x <= Len(printer)
    BY DEF InOrder
  <1>7. Climbs(buf')
    <2>1. Before(ToSet(kept), {h})
      BY <1>3, <1>4, <1>6 DEF Before
    <2> QED
      BY <1>1, <1>3, <1>4, <2>1, AppendClimbs
  <1>8. Before(ToSet(buf'), ToSet(pty'))
    BY <1>3, <1>4, <1>5, <1>6 DEF Before
  <1>9. ToSet(buf') \cup ToSet(pty') \subseteq ToSet(buf) \cup ToSet(pty)
    BY <1>3, <1>4, <1>5
  <1>10. ShellTypes'
    BY <1>1, <1>3, <1>5 DEF ShellTypes
  <1>11. InOrder'
    <2>1. \A c \in Calls : Before(Seen(c), ToSet(buf') \cup ToSet(pty'))
      BY <1>9 DEF InOrder, Before
    <2>2. \A x \in ToSet(buf') \cup ToSet(pty') : x <= Len(printer)
      BY <1>6, <1>9
    <2>3. \A c \in Calls : Climbs(acc[c]) /\ Seen(c)' = Seen(c) /\ \A x \in Seen(c) : x <= Len(printer)
      BY <1>1 DEF InOrder, Seen
    <2> QED
      BY <1>1, <1>3, <1>7, <1>8, <2>1, <2>2, <2>3 DEF InOrder
  <1>12. Apart'
    BY <1>1 DEF Apart
  <1>13. NotYet'
    BY <1>1 DEF NotYet
  <1>14. Accounted'
    <2>1. \A x : x \in ToSet(pty) \cup ToSet(buf) \cup trimmed => x \in ToSet(pty') \cup ToSet(buf') \cup trimmed'
      BY <1>1, <1>3, <1>5
    <2>2. \A d \in Calls : Seen(d)' = Seen(d)
      BY <1>1 DEF Seen
    <2> SUFFICES ASSUME NEW c \in Callers, caller[c] = "poll", NEW k \in 1 .. Len(printer), printer[k] = c
                 PROVE  \/ k \in ToSet(pty') \cup ToSet(buf') \cup ToSet(acc[c]) \cup trimmed'
                        \/ \E d \in Calls \ {c} : k \in Seen(d)
      BY <1>1, <2>2 DEF Accounted
    <2>3. \/ k \in ToSet(pty) \cup ToSet(buf) \cup ToSet(acc[c]) \cup trimmed
          \/ \E d \in Calls \ {c} : k \in Seen(d)
      BY DEF Accounted
    <2> QED
      BY <2>1, <2>3
  <1> QED
    BY <1>10, <1>11, <1>12, <1>13, <1>14

\* A call begins: what is in the buffer will be nobody's.
LEMMA StartStep == ASSUME ShellInv, NEW c \in Callers, Start(c) PROVE ShellInv'
  <1> USE DEF ShellInv
  <1>1. /\ UNCHANGED <<stdin, runs, pty, printer, acc, trimmed>>
        /\ caller[c] = "away" /\ CallerAt(c, "write") /\ buf' = <<>>
        /\ stale' = [stale EXCEPT ![c] = ToSet(buf)]
    BY DEF Start
  <1>2. c \in Calls /\ Callers \subseteq Calls /\ buf \in Seq(Nat) /\ stale \in [Calls -> SUBSET Nat]
    BY DEF Calls, ShellTypes
  <1>3. /\ caller' \in [Calls -> {"away", "write", "poll", "completed", "timed out"}]
        /\ caller'[c] = "write" /\ \A d \in Calls : d # c => caller'[d] = caller[d]
    BY <1>1, <1>2, CallMoves
  <1>4. ToSet(buf) \subseteq Nat /\ ToSet(buf') = {} /\ buf' \in Seq(Nat) /\ Climbs(buf')
    BY <1>1, <1>2, QueueHolds, NothingQueued
  <1>5. /\ stale' \in [Calls -> SUBSET Nat] /\ stale'[c] = ToSet(buf)
        /\ \A d \in Calls : d # c => stale'[d] = stale[d]
    BY <1>1, <1>2, <1>4
  <1>6. acc[c] = <<>> /\ stale[c] = {} /\ ToSet(acc[c]) = {}
    BY <1>1, <1>2, QueueHolds DEF NotYet
  <1>7. /\ Seen(c)' = ToSet(buf) /\ Seen(c) = {}
        /\ \A d \in Calls : d # c => Seen(d)' = Seen(d)
    BY <1>1, <1>5, <1>6 DEF Seen
  <1>8. ShellTypes'
    BY <1>1, <1>3, <1>4, <1>5 DEF ShellTypes
  <1>9. InOrder'
    <2>1. Climbs(pty) /\ Before({}, ToSet(pty)) /\ \A x \in ToSet(pty) : x <= Len(printer)
      BY DEF InOrder, Before
    <2>2. ASSUME NEW d \in Calls
          PROVE  /\ Climbs(acc[d]) /\ Before(Seen(d)', ToSet(pty))
                 /\ \A x \in Seen(d)' : x <= Len(printer)
      <3>1. CASE d = c
        BY <1>7, <3>1 DEF InOrder
      <3>2. CASE d # c
        BY <1>7, <3>2 DEF InOrder, Before
      <3> QED
        BY <3>1, <3>2
    <2> QED
      BY <1>1, <1>4, <2>1, <2>2 DEF InOrder
  <1>10. Apart'
    <2>1. \A d \in Calls : ToSet(acc[d]) \cap stale'[d] = {}
      BY <1>5, <1>6 DEF Apart
    <2> QED
      BY <1>1, <2>1 DEF Apart
  <1>11. NotYet'
    BY <1>1, <1>2, <1>3, <1>5 DEF NotYet
  <1>12. Accounted'
    <2> SUFFICES ASSUME NEW b \in Callers, caller'[b] = "poll", NEW k \in 1 .. Len(printer), printer[k] = b
                 PROVE  \/ k \in ToSet(pty) \cup ToSet(acc[b]) \cup trimmed
                        \/ \E d \in Calls \ {b} : k \in Seen(d)'
      BY <1>1, <1>4 DEF Accounted
    <2>1. b # c /\ caller[b] = "poll"
      BY <1>2, <1>3
    <2>2. \/ k \in ToSet(pty) \cup ToSet(buf) \cup ToSet(acc[b]) \cup trimmed
          \/ \E d \in Calls \ {b} : k \in Seen(d)
      BY <2>1 DEF Accounted
    <2>3. k \in ToSet(buf) => k \in Seen(c)'
      BY <1>7
    <2>4. \A d \in Calls : k \in Seen(d) => k \in Seen(d)'
      BY <1>7
    <2> QED
      BY <1>2, <2>1, <2>2, <2>3, <2>4
  <1> QED
    BY <1>8, <1>9, <1>10, <1>11, <1>12

\* A call takes the buffer, whole.
LEMMA TakeKeeps ==
    ASSUME ShellInv, NEW c \in Calls, Take(c),
           UNCHANGED <<stdin, runs, pty, printer, trimmed, stale>>,
           caller' \in [Calls -> {"away", "write", "poll", "completed", "timed out"}],
           caller'[c] \notin {"away", "write"}, caller'[c] = "poll" => caller[c] = "poll",
           \A d \in Calls : d # c => caller'[d] = caller[d]
    PROVE  ShellInv'
  <1> USE DEF ShellInv
  <1> DEFINE s == acc[c] \o buf
  <1>1. acc' = [acc EXCEPT ![c] = s] /\ buf' = <<>>
    BY DEF Take
  <1>2. acc \in [Calls -> Seq(Nat)] /\ acc[c] \in Seq(Nat) /\ buf \in Seq(Nat) /\ Callers \subseteq Calls
    BY DEF ShellTypes, Calls
  <1>3. Before(ToSet(acc[c]), ToSet(buf))
    BY DEF InOrder, Before, Seen
  <1>4. s \in Seq(Nat) /\ Climbs(s) /\ ToSet(s) = ToSet(acc[c]) \cup ToSet(buf)
    BY <1>2, <1>3, ConcatClimbs DEF InOrder
  <1> HIDE DEF s
  <1>5. ToSet(buf') = {} /\ buf' \in Seq(Nat) /\ Climbs(buf')
    BY <1>1, NothingQueued
  <1>6. /\ acc' \in [Calls -> Seq(Nat)] /\ acc'[c] = s
        /\ \A d \in Calls : d # c => acc'[d] = acc[d]
    BY <1>1, <1>2, <1>4
  <1>7. /\ Seen(c)' = Seen(c) \cup ToSet(buf)
        /\ \A d \in Calls : d # c => Seen(d)' = Seen(d)
    BY <1>4, <1>6 DEF Seen
  <1>8. \A x \in ToSet(buf) : x \in Nat /\ \A d \in Calls : x \notin Seen(d)
    <2>3. ToSet(buf) \subseteq Nat
      BY <1>2, QueueHolds
    <2>1. \A x \in ToSet(buf) : x \in Nat /\ ~ (x < x)
      BY <2>3, NotBelowItself
    <2>2. \A d \in Calls : \A x \in Seen(d), y \in ToSet(buf) : x < y
      BY DEF InOrder, Before
    <2> QED
      BY <2>1, <2>2
  <1>9. ShellTypes'
    BY <1>5, <1>6 DEF ShellTypes
  <1>10. InOrder'
    <2>1. /\ Climbs(pty) /\ Before({}, ToSet(pty)) /\ \A x \in ToSet(pty) : x <= Len(printer)
          /\ Before(ToSet(buf), ToSet(pty)) /\ \A x \in ToSet(buf) : x <= Len(printer)
      BY DEF InOrder, Before
    <2>2. ASSUME NEW d \in Calls
          PROVE  /\ Climbs(acc'[d]) /\ Before(Seen(d)', ToSet(pty))
                 /\ \A x \in Seen(d)' : x <= Len(printer)
      <3>1. Before(Seen(d), ToSet(pty)) /\ Climbs(acc[d]) /\ \A x \in Seen(d) : x <= Len(printer)
        BY DEF InOrder, Before
      <3>2. CASE d = c
        BY <1>4, <1>6, <1>7, <2>1, <3>1, <3>2 DEF Before
      <3>3. CASE d # c
        BY <1>6, <1>7, <3>1, <3>3
      <3> QED
        BY <3>2, <3>3
    <2> QED
      BY <1>5, <2>1, <2>2 DEF InOrder
  <1>11. Apart'
    <2>1. ASSUME NEW d \in Calls PROVE ToSet(acc'[d]) \cap stale[d] = {}
      BY <1>4, <1>6, <1>8 DEF Apart, Seen
    <2>2. ASSUME NEW d \in Calls, NEW e \in Calls, d # e PROVE ToSet(acc'[d]) \cap ToSet(acc'[e]) = {}
      <3>1. ToSet(acc[d]) \cap ToSet(acc[e]) = {}
        BY <2>2 DEF Apart
      <3>2. \A x \in ToSet(buf) : x \notin ToSet(acc[d]) /\ x \notin ToSet(acc[e])
        BY <1>8 DEF Seen
      <3>3. CASE d = c
        <4>1. ToSet(acc'[d]) = ToSet(acc[d]) \cup ToSet(buf) /\ ToSet(acc'[e]) = ToSet(acc[e])
          BY <1>4, <1>6, <2>2, <3>3
        <4> QED
          BY <3>1, <3>2, <4>1
      <3>4. CASE e = c
        <4>1. ToSet(acc'[e]) = ToSet(acc[e]) \cup ToSet(buf) /\ ToSet(acc'[d]) = ToSet(acc[d])
          BY <1>4, <1>6, <2>2, <3>4
        <4> QED
          BY <3>1, <3>2, <4>1
      <3>5. CASE d # c /\ e # c
        BY <1>6, <3>1, <3>5
      <3> QED
        BY <3>3, <3>4, <3>5
    <2> QED
      BY <2>1, <2>2 DEF Apart
  <1>12. NotYet'
    BY <1>2, <1>6 DEF NotYet
  <1>13. Accounted'
    <2> SUFFICES ASSUME NEW b \in Callers, caller'[b] = "poll", NEW k \in 1 .. Len(printer), printer[k] = b
                 PROVE  \/ k \in ToSet(pty) \cup ToSet(acc'[b]) \cup trimmed
                        \/ \E d \in Calls \ {b} : k \in Seen(d)'
      BY <1>5 DEF Accounted
    <2>1. caller[b] = "poll" /\ b \in Calls
      BY <1>2
    <2>2. \/ k \in ToSet(pty) \cup ToSet(buf) \cup ToSet(acc[b]) \cup trimmed
          \/ \E d \in Calls \ {b} : k \in Seen(d)
      BY <2>1 DEF Accounted
    <2>3. \A d \in Calls : k \in Seen(d) => k \in Seen(d)'
      BY <1>7
    <2>4. k \in ToSet(acc[b]) => k \in ToSet(acc'[b])
      BY <1>4, <1>6, <2>1
    <2>5. CASE k \in ToSet(buf) /\ b = c
      BY <1>4, <1>6, <2>5
    <2>6. CASE k \in ToSet(buf) /\ b # c
      <3>1. k \in Seen(c)' /\ c \in Calls \ {b}
        BY <1>7, <2>6
      <3> QED
        BY <3>1
    <2> QED
      BY <2>2, <2>3, <2>4, <2>5, <2>6
  <1> QED
    BY <1>9, <1>10, <1>11, <1>12, <1>13

LEMMA PollStep == ASSUME ShellInv, NEW c \in Callers, PollBuffer(c) PROVE ShellInv'
  <1>1. /\ Take(c) /\ caller[c] = "poll" /\ caller' = caller
        /\ UNCHANGED <<stdin, runs, pty, printer, trimmed, stale>>
    BY DEF PollBuffer
  <1>2. c \in Calls /\ caller \in [Calls -> {"away", "write", "poll", "completed", "timed out"}]
    BY DEF Calls, ShellInv, ShellTypes
  <1>3. caller'[c] \notin {"away", "write"}
    BY <1>1
  <1> QED
    BY <1>1, <1>2, <1>3, TakeKeeps

LEMMA ReadStep == ASSUME ShellInv, NEW r \in Readers, Read(r) PROVE ShellInv'
  <1>1. Take(r) /\ CallerAt(r, "completed") /\ UNCHANGED <<stdin, runs, pty, printer, trimmed, stale>>
    BY DEF Read
  <1>2. r \in Calls /\ ShellTypes
    BY DEF Calls, ShellInv
  <1>3. /\ caller' \in [Calls -> {"away", "write", "poll", "completed", "timed out"}]
        /\ caller'[r] = "completed" /\ \A d \in Calls : d # r => caller'[d] = caller[d]
    BY <1>1, <1>2, CallMoves
  <1>4. caller'[r] \notin {"away", "write"} /\ caller'[r] # "poll"
    BY <1>3
  <1> QED
    BY <1>1, <1>2, <1>3, <1>4, TakeKeeps

LEMMA ShellStep == ASSUME ShellInv, [ShellNext]_shellVars PROVE ShellInv'
  <1>1. CASE UNCHANGED shellVars
    <2>1. UNCHANGED <<stdin, runs, pty, printer, buf, caller, acc, trimmed, stale>>
      BY <1>1 DEF shellVars
    <2>2. InOrder' /\ Apart' /\ Accounted'
      BY <2>1, OutputStays
    <2> QED
      BY <2>1, <2>2 DEF ShellInv, ShellTypes, NotYet
  <1>2. CASE ShellReads \/ ShellPrints \/ CommandEnds \/ ShellDies \/ DrainPty \/ DrainEnds \/ CloseShell
    BY <1>2, ShellReadsStep, PrintStep, ShellEndsStep, DrainStep
  <1>3. ASSUME NEW c \in Callers,
               Start(c) \/ WriteCommand(c) \/ PollBuffer(c) \/ FallsQuiet(c) \/ RunTimesOut(c)
        PROVE  ShellInv'
    BY <1>3, StartStep, WriteStep, PollStep, CallerEndsStep
  <1>4. ASSUME NEW r \in Readers, Read(r) PROVE ShellInv'
    BY <1>4, ReadStep
  <1> QED
    BY <1>1, <1>2, <1>3, <1>4 DEF ShellNext

\* ShellSession.drain, Run and Drain (shell.go, tools_sys.go): what a shell
\* prints reaches one call, once, in order and not a later one; and while a
\* command's call goes on its output is lost to the ceiling or to another call
\* on the same shell, and to nothing else.
THEOREM OutputIsShared == ShellSpec => []OutputReachesOneCall
  <1>1. ShellInv => OutputReachesOneCall
    <2> SUFFICES ASSUME ShellInv PROVE OutputReachesOneCall
      OBVIOUS
    <2> USE DEF ShellInv
    <2>1. /\ \A c \in Calls : acc[c] \in Seq(Nat) /\ DOMAIN acc[c] = 1 .. Len(acc[c]) /\ ToSet(acc[c]) \subseteq Nat
          /\ DOMAIN printer = 1 .. Len(printer)
      BY LenProperties, QueueHolds DEF ShellTypes
    <2>2. ASSUME NEW c \in Calls
          PROVE  /\ \A i, j \in DOMAIN acc[c] : i < j => acc[c][i] < acc[c][j]
                 /\ ToSet(acc[c]) \cap (ToSet(buf) \cup ToSet(pty) \cup stale[c]) = {}
                 /\ \A d \in Calls \ {c} : ToSet(acc[c]) \cap ToSet(acc[d]) = {}
      <3>1. Climbs(acc[c]) /\ Before(ToSet(acc[c]), ToSet(buf) \cup ToSet(pty))
        BY DEF InOrder, Before, Seen
      <3>2. \A x \in ToSet(acc[c]) : x \in Nat /\ ~ (x < x)
        BY <2>1, NotBelowItself
      <3>3. ToSet(acc[c]) \cap (ToSet(buf) \cup ToSet(pty)) = {}
        BY <3>1, <3>2 DEF Before
      <3>4. \A i, j \in DOMAIN acc[c] : i < j => acc[c][i] < acc[c][j]
        BY <2>1, <3>1 DEF Climbs
      <3> QED
        BY <3>3, <3>4 DEF Apart
    <2>3. ASSUME NEW c \in Callers, caller[c] = "poll", NEW k \in DOMAIN printer, printer[k] = c
          PROVE  \/ k \in ToSet(pty) \cup ToSet(buf) \cup ToSet(acc[c]) \cup trimmed
                 \/ \E d \in Calls \ {c} : k \in ToSet(acc[d]) \cup stale[d]
      BY <2>1, <2>3 DEF Accounted, Seen
    <2> QED
      BY <2>2, <2>3 DEF OutputReachesOneCall
  <1> QED
    BY <1>1, ShellStart, ShellStep, PTL DEF ShellSpec
-----------------------------------------------------------------------------
(***************************************************************************)
(* The shared terminal.                                                    *)
(***************************************************************************)

Stages == {"away", "attach", "before", "text", "enter", "poll", "lost", "refused", "returned"}
CallState == [pc : Stages, quiet : 0 .. 1, changed : BOOLEAN, differs : BOOLEAN]
CodeFile == [of : SUBSET (Commands \cup {Elsewhere}), fresh : SUBSET Runs]
Outcome == [finished : BOOLEAN, code : SUBSET (Commands \cup {Elsewhere}), borrowed : BOOLEAN]

PaneTypes ==
    /\ call \in [Runs -> CallState] /\ result \in [Runs -> Outcome]
    /\ record \in [pane : CodeFile, shared : CodeFile]
    /\ line \subseteq Commands /\ queue \in Seq(SUBSET Commands) /\ doing \subseteq Commands

\* A command that was typed is in the pane until it ends, and on the line only
\* until its caller presses Return.
Whereabouts ==
    \A r \in Runs : /\ r \in line => call[r].pc = "enter"
                    /\ call[r].pc \in {"enter", "poll"} => r \in InPane \cup ended

\* Who is not crowded has the pane to itself, and a code that is fresh for it is
\* its own; who has not begun has none.
Alone ==
    /\ \A r \in Active : r \notin crowded =>
          InPane \subseteq {r} /\ (r \in record.pane.fresh => record.pane.of = {r})
    /\ \A r \in Runs : call[r].pc \in {"away", "attach", "before"} => r \notin record.pane.fresh

PaneInv == PaneTypes /\ Whereabouts /\ Alone /\ OutcomeIsOwn

LEMMA PaneStart == TerminalInit => PaneInv
  <1> SUFFICES ASSUME TerminalInit PROVE PaneInv
    OBVIOUS
  <1>1. /\ line = {} /\ queue = <<>> /\ doing = {} /\ ended = {}
        /\ record = [pane |-> NoFile, shared |-> NoFile]
        /\ call = [r \in Runs |-> Unasked]
        /\ result = [r \in Runs |-> [finished |-> FALSE, code |-> {}, borrowed |-> FALSE]]
    BY DEF TerminalInit
  <1>2. Unasked \in CallState /\ Unasked.pc = "away"
    BY DEF Unasked, CallState, Stages
  <1>3. NoFile \in CodeFile /\ NoFile.fresh = {}
    BY DEF NoFile, CodeFile
  <1>4. [finished |-> FALSE, code |-> {}, borrowed |-> FALSE] \in Outcome
    BY DEF Outcome
  <1>5. <<>> \in Seq(SUBSET Commands)
    BY EmptySeq
  <1>6. \A r \in Runs : call[r].pc = "away"
    BY <1>1, <1>2
  <1>7. PaneTypes
    BY <1>1, <1>2, <1>3, <1>4, <1>5 DEF PaneTypes
  <1>8. Whereabouts
    BY <1>1, <1>6 DEF Whereabouts
  <1>9. Alone
    BY <1>1, <1>3, <1>6 DEF Alone, Active
  <1>10. OutcomeIsOwn
    BY <1>6 DEF OutcomeIsOwn
  <1> QED
    BY <1>7, <1>8, <1>9, <1>10 DEF PaneInv

LEMMA TextIsSeen ==
    ASSUME NEW calls \in [Runs -> CallState]
    PROVE  TextChanges(calls) \in [Runs -> CallState] /\ \A r \in Runs : TextChanges(calls)[r].pc = calls[r].pc
  <1>1. \A r \in Runs : LET s == [calls[r] EXCEPT !.changed = TRUE, !.differs = TRUE]
                        IN  s \in CallState /\ s.pc = calls[r].pc
    BY DEF CallState
  <1> QED
    BY <1>1 DEF TextChanges

\* A call goes to another stage; a call that is done is as one that was never asked.
LEMMA PcChanges ==
    ASSUME NEW calls \in [Runs -> CallState], NEW r \in Runs, NEW p \in Stages
    PROVE  /\ [calls EXCEPT ![r].pc = p] \in [Runs -> CallState]
           /\ [calls EXCEPT ![r].pc = p][r].pc = p
           /\ \A t \in Runs : t # r => [calls EXCEPT ![r].pc = p][t] = calls[t]
  <1> DEFINE s == [calls[r] EXCEPT !.pc = p]
  <1>1. s \in CallState /\ s.pc = p
    BY DEF CallState
  <1>2. [calls EXCEPT ![r].pc = p] = [calls EXCEPT ![r] = s]
    OBVIOUS
  <1> HIDE DEF s
  <1> QED
    BY <1>1, <1>2

LEMMA UnaskedAt ==
    ASSUME NEW p \in Stages
    PROVE  [Unasked EXCEPT !.pc = p] \in CallState /\ [Unasked EXCEPT !.pc = p].pc = p
  <1>1. Unasked \in CallState
    BY DEF Unasked, CallState, Stages
  <1> QED
    BY <1>1 DEF CallState

\* What happens outside the pane, or before a call has its picture of it.
LEMMA BesideThePane ==
    ASSUME PaneInv, UNCHANGED <<line, queue, doing, ended, record, result, crowded, slow>>,
           call' \in [Runs -> CallState],
           \A r \in Runs : \/ call'[r].pc = call[r].pc
                           \/ /\ call[r].pc \in {"away", "attach"}
                              /\ call'[r].pc \in {"attach", "before", "refused"}
    PROVE  PaneInv'
  <1> USE DEF PaneInv
  <1>1. \A r \in Runs : call'[r].pc \in {"text", "enter", "poll", "lost", "returned"} \/ call[r].pc = "enter"
                          => call'[r].pc = call[r].pc
    OBVIOUS
  <1>2. \A r \in Runs : call'[r].pc \in {"away", "attach", "before"} => call[r].pc \in {"away", "attach", "before"}
    OBVIOUS
  <1>3. PaneTypes'
    BY DEF PaneTypes
  <1>4. Whereabouts'
    BY <1>1 DEF Whereabouts, InPane
  <1>5. Active' \subseteq Active
    BY <1>1 DEF Active
  <1>6. Alone'
    BY <1>2, <1>5 DEF Alone, InPane
  <1>7. OutcomeIsOwn'
    BY <1>1 DEF OutcomeIsOwn
  <1> QED
    BY <1>3, <1>4, <1>6, <1>7

LEMMA BesideStep ==
    ASSUME PaneInv,
           \/ WindowCloses \/ OpenSession \/ OpenAttaches \/ PanePrints
           \/ \E r \in Runs : RunStarts(r) \/ RunAttaches(r) \/ PollPane(r)
    PROVE  PaneInv'
  <1>1. call \in [Runs -> CallState]
    BY DEF PaneInv, PaneTypes
  <1>2. CASE WindowCloses \/ OpenSession \/ OpenAttaches
    <2>1. UNCHANGED <<line, queue, doing, ended, record, result, crowded, slow, call>>
      BY <1>2 DEF WindowCloses, OpenSession, OpenAttaches
    <2> QED
      BY <1>1, <2>1, BesideThePane
  <1>3. CASE PanePrints
    <2>1. UNCHANGED <<line, queue, doing, ended, record, result, crowded, slow>> /\ call' = TextChanges(call)
      BY <1>3 DEF PanePrints
    <2>2. call' \in [Runs -> CallState] /\ \A r \in Runs : call'[r].pc = call[r].pc
      BY <1>1, <2>1, TextIsSeen
    <2> QED
      BY <2>1, <2>2, BesideThePane
  <1>4. ASSUME NEW r \in Runs, RunStarts(r) PROVE PaneInv'
    <2>1. /\ UNCHANGED <<line, queue, doing, ended, record, result, crowded, slow>>
          /\ call[r].pc = "away" /\ call' = [call EXCEPT ![r].pc = IF shown THEN "before" ELSE "attach"]
      BY <1>4 DEF RunStarts, CallAt
    <2> DEFINE p == IF shown THEN "before" ELSE "attach"
    <2>4. p \in {"attach", "before"} /\ p \in Stages
      BY DEF Stages
    <2> HIDE DEF p
    <2>5. call' = [call EXCEPT ![r].pc = p]
      BY <2>1 DEF p
    <2>2. call' \in [Runs -> CallState] /\ call'[r].pc \in {"attach", "before"}
          /\ \A s \in Runs : s # r => call'[s] = call[s]
      BY <1>1, <2>4, <2>5, PcChanges
    <2>3. \A s \in Runs : \/ call'[s].pc = call[s].pc
                          \/ /\ call[s].pc \in {"away", "attach"}
                             /\ call'[s].pc \in {"attach", "before", "refused"}
      BY <2>1, <2>2
    <2> QED
      BY <2>1, <2>2, <2>3, BesideThePane
  <1>5. ASSUME NEW r \in Runs, RunAttaches(r) PROVE PaneInv'
    <2>1. /\ UNCHANGED <<line, queue, doing, ended, record, result, crowded, slow>>
          /\ call[r].pc = "attach"
          /\ \/ call' = [call EXCEPT ![r].pc = "before"]
             \/ call' = [call EXCEPT ![r].pc = "refused"]
      BY <1>5 DEF RunAttaches, CallAt
    <2>4. PICK p \in {"before", "refused"} : call' = [call EXCEPT ![r].pc = p]
      BY <2>1
    <2>5. p \in Stages
      BY DEF Stages
    <2>2. call' \in [Runs -> CallState] /\ call'[r].pc \in {"before", "refused"}
          /\ \A s \in Runs : s # r => call'[s] = call[s]
      BY <1>1, <2>4, <2>5, PcChanges
    <2>3. \A s \in Runs : \/ call'[s].pc = call[s].pc
                          \/ /\ call[s].pc \in {"away", "attach"}
                             /\ call'[s].pc \in {"attach", "before", "refused"}
      BY <2>1, <2>2
    <2> QED
      BY <2>1, <2>2, <2>3, BesideThePane
  <1>6. ASSUME NEW r \in Runs, PollPane(r) PROVE PaneInv'
    <2> DEFINE q == IF call[r].changed THEN 0 ELSE 1
               s == [call[r] EXCEPT !.quiet = q, !.changed = FALSE]
    <2>1. /\ UNCHANGED <<line, queue, doing, ended, record, result, crowded, slow>>
          /\ call' = [call EXCEPT ![r] = s]
      BY <1>6 DEF PollPane
    <2>4. q \in 0 .. 1
      OBVIOUS
    <2> HIDE DEF q
    <2>2. s \in CallState /\ s.pc = call[r].pc
      BY <1>1, <2>4 DEF CallState
    <2> HIDE DEF s
    <2>3. call' \in [Runs -> CallState] /\ \A t \in Runs : call'[t].pc = call[t].pc
      BY <1>1, <2>1, <2>2
    <2> QED
      BY <2>1, <2>3, BesideThePane
  <1> QED
    BY <1>2, <1>3, <1>4, <1>5, <1>6

\* The shell takes up the next line.
LEMMA PaneReadsStep == ASSUME PaneInv, PaneReads PROVE PaneInv'
  <1> USE DEF PaneInv
  <1>1. /\ doing = {} /\ queue # <<>> /\ doing' = Head(queue) /\ queue' = Tail(queue)
        /\ UNCHANGED <<line, ended, record, call, result, crowded, slow>>
    BY DEF PaneReads
  <1>2. queue \in Seq(SUBSET Commands)
    BY DEF PaneTypes
  <1>3. /\ doing' \in SUBSET Commands /\ queue' \in Seq(SUBSET Commands)
        /\ ToSet(queue) = ToSet(queue') \cup {doing'}
    BY <1>1, <1>2, QueueHolds
  <1>4. InPane' = InPane
    BY <1>1, <1>3 DEF InPane
  <1>5. PaneTypes'
    BY <1>1, <1>3 DEF PaneTypes
  <1>6. Whereabouts'
    BY <1>1, <1>4 DEF Whereabouts
  <1>7. Alone'
    BY <1>1, <1>4 DEF Alone, Active
  <1>8. OutcomeIsOwn'
    BY <1>1 DEF OutcomeIsOwn
  <1> QED
    BY <1>5, <1>6, <1>7, <1>8

\* A line is entered: by its caller, or by a person who adds to it.
LEMMA LineIsEntered ==
    ASSUME PaneTypes, NEW L \in SUBSET Commands, queue' = Append(queue, L)
    PROVE  queue' \in Seq(SUBSET Commands) /\ ToSet(queue') = ToSet(queue) \cup {L}
  <1>1. queue \in Seq(SUBSET Commands)
    BY DEF PaneTypes
  <1> QED
    BY <1>1, QueueHolds

LEMMA PersonTypesStep == ASSUME PaneInv, NEW c \in Others, PersonTypes(c) PROVE PaneInv'
  <1> USE DEF PaneInv
  <1>1. /\ queue' = Append(queue, line \cup {c}) /\ line' = {} /\ call' = TextChanges(call)
        /\ crowded' = crowded \cup {r \in Active : {c} \ {r} # {}}
        /\ UNCHANGED <<doing, ended, record, result, slow>>
    BY DEF PersonTypes, Crowd
  <1>2. c \notin Runs /\ c \in Commands
    BY TerminalConstants DEF Commands
  <1>3. call' \in [Runs -> CallState] /\ \A r \in Runs : call'[r].pc = call[r].pc
    BY <1>1, TextIsSeen DEF PaneTypes
  <1>4. line \cup {c} \in SUBSET Commands
    BY <1>2 DEF PaneTypes
  <1>5. queue' \in Seq(SUBSET Commands) /\ ToSet(queue') = ToSet(queue) \cup {line \cup {c}}
    BY <1>1, <1>4, LineIsEntered
  <1>6. InPane' = InPane \cup {c}
    <2> DEFINE L == line \cup {c}
    <2>1. ToSet(queue') = ToSet(queue) \cup {L}
      BY <1>5
    <2> HIDE DEF L
    <2>2. \A x : x \in UNION ToSet(queue') <=> x \in UNION ToSet(queue) \/ x \in L
      BY <2>1
    <2>3. \A x : x \in InPane' <=> x \in doing \/ x \in UNION ToSet(queue')
      BY <1>1 DEF InPane
    <2>4. \A x : x \in InPane <=> x \in line \/ x \in doing \/ x \in UNION ToSet(queue)
      BY DEF InPane
    <2> QED
      BY <2>2, <2>3, <2>4 DEF L
  <1>7. Active' = Active
    BY <1>3 DEF Active
  <1>8. Active \subseteq crowded' /\ crowded \subseteq crowded'
    BY <1>1, <1>2 DEF Active
  <1>9. PaneTypes'
    BY <1>1, <1>3, <1>5 DEF PaneTypes
  <1>10. Whereabouts'
    BY <1>1, <1>3, <1>6 DEF Whereabouts
  <1>11. Alone'
    BY <1>1, <1>3, <1>7, <1>8 DEF Alone
  <1>12. OutcomeIsOwn'
    BY <1>1, <1>3, <1>8 DEF OutcomeIsOwn
  <1> QED
    BY <1>9, <1>10, <1>11, <1>12

LEMMA PaneEndsStep == ASSUME PaneInv, PaneEnds PROVE PaneInv'
  <1> USE DEF PaneInv
  <1> DEFINE f == [of |-> doing, fresh |-> Active]
  <1>1. /\ doing # {} /\ ended' = ended \cup doing /\ doing' = {} /\ call' = TextChanges(call)
        /\ record' = [record EXCEPT !.pane = f]
        /\ UNCHANGED <<line, queue, result, crowded, slow>>
    BY DEF PaneEnds, Written
  <1>2. call' \in [Runs -> CallState] /\ \A r \in Runs : call'[r].pc = call[r].pc
    BY <1>1, TextIsSeen DEF PaneTypes
  <1>3. f \in CodeFile /\ f.of = doing /\ f.fresh = Active
    BY DEF CodeFile, PaneTypes, Active
  <1>4. record \in [pane : CodeFile, shared : CodeFile]
    BY DEF PaneTypes
  <1> HIDE DEF f
  <1>5. record' \in [pane : CodeFile, shared : CodeFile] /\ record'.pane = f
    BY <1>1, <1>3, <1>4
  <1>6. Active' = Active
    BY <1>2 DEF Active
  <1>7. InPane = InPane' \cup doing
    BY <1>1 DEF InPane
  <1>8. PaneTypes'
    BY <1>1, <1>2, <1>5 DEF PaneTypes
  <1>9. Whereabouts'
    BY <1>1, <1>2, <1>7 DEF Whereabouts
  <1>10. Alone'
    <2>1. ASSUME NEW r \in Active, r \notin crowded PROVE InPane' \subseteq {r} /\ record'.pane.of = {r}
      <3>1. InPane \subseteq {r}
        BY <2>1 DEF Alone
      <3> QED
        BY <1>1, <1>3, <1>5, <1>7, <3>1
    <2>2. \A r \in Runs : call'[r].pc \in {"away", "attach", "before"} => r \notin record'.pane.fresh
      BY <1>2, <1>3, <1>5 DEF Active
    <2> QED
      BY <1>1, <1>6, <2>1, <2>2 DEF Alone
  <1>11. OutcomeIsOwn'
    BY <1>1, <1>2 DEF OutcomeIsOwn
  <1> QED
    BY <1>8, <1>9, <1>10, <1>11

\* The shell is left: what was typed is gone, and every call at work with it.
LEMMA PaneExitsStep == ASSUME PaneInv, PaneExits PROVE PaneInv'
  <1> USE DEF PaneInv
  <1> DEFINE left(r) == CASE call[r].pc = "poll"                       -> [Unasked EXCEPT !.pc = "lost"]
                          [] call[r].pc \in {"before", "text", "enter"} -> [Unasked EXCEPT !.pc = "refused"]
                          [] OTHER                                     -> call[r]
  <1>1. /\ ended' = ended \cup doing /\ doing' = {} /\ line' = {} /\ queue' = <<>>
        /\ call' = [r \in Runs |-> left(r)]
        /\ UNCHANGED <<record, result, crowded, slow>>
    BY DEF PaneExits
  <1>2. \A r \in Runs : call[r] \in CallState
    BY DEF PaneTypes
  <1>3. \A r \in Runs :
          /\ left(r) \in CallState
          /\ \/ call[r].pc = "poll" /\ left(r).pc = "lost"
             \/ call[r].pc \in {"before", "text", "enter"} /\ left(r).pc = "refused"
             \/ call[r].pc \notin {"poll", "before", "text", "enter"} /\ left(r).pc = call[r].pc
    <2> TAKE r \in Runs
    <2>1. [Unasked EXCEPT !.pc = "lost"] \in CallState /\ [Unasked EXCEPT !.pc = "lost"].pc = "lost"
      BY UnaskedAt DEF Stages
    <2>2. [Unasked EXCEPT !.pc = "refused"] \in CallState /\ [Unasked EXCEPT !.pc = "refused"].pc = "refused"
      BY UnaskedAt DEF Stages
    <2>3. CASE call[r].pc = "poll"
      <3>1. left(r) = [Unasked EXCEPT !.pc = "lost"]
        BY <2>3
      <3> HIDE DEF left
      <3> QED
        BY <2>1, <2>3, <3>1
    <2>4. CASE call[r].pc \in {"before", "text", "enter"}
      <3>1. left(r) = [Unasked EXCEPT !.pc = "refused"]
        BY <2>4
      <3> HIDE DEF left
      <3> QED
        BY <2>2, <2>4, <3>1
    <2>5. CASE call[r].pc \notin {"poll", "before", "text", "enter"}
      <3>1. left(r) = call[r]
        BY <2>5
      <3> HIDE DEF left
      <3> QED
        BY <1>2, <2>5, <3>1
    <2> QED
      BY <2>3, <2>4, <2>5
  <1> HIDE DEF left
  <1>4. call' \in [Runs -> CallState] /\ \A r \in Runs : call'[r] = left(r)
    BY <1>1, <1>3
  <1>5. <<>> \in Seq(SUBSET Commands) /\ ToSet(<<>>) = {}
    BY EmptySeq DEF ToSet
  <1>6. InPane' = {}
    BY <1>1, <1>5 DEF InPane
  <1>7. PaneTypes'
    BY <1>1, <1>4, <1>5 DEF PaneTypes
  <1>8. Whereabouts'
    BY <1>1, <1>3, <1>4 DEF Whereabouts
  <1>9. Active' \subseteq Active
    BY <1>3, <1>4 DEF Active
  <1>10. Alone'
    <2>1. \A r \in Runs : call'[r].pc \in {"away", "attach", "before"} => call[r].pc \in {"away", "attach", "before"}
      BY <1>3, <1>4
    <2> QED
      BY <1>1, <1>6, <1>9, <2>1 DEF Alone
  <1>11. OutcomeIsOwn'
    <2>1. \A r \in Runs : call'[r].pc = "returned" => call[r].pc = "returned"
      BY <1>3, <1>4
    <2> QED
      BY <1>1, <2>1 DEF OutcomeIsOwn
  <1> QED
    BY <1>7, <1>8, <1>10, <1>11

\* A code written elsewhere, and terminal_open, which removes them all.
LEMMA FilesStep == ASSUME PaneInv, ElsewhereEnds \/ OpenRemoves PROVE PaneInv'
  <1> USE DEF PaneInv
  <1>1. UNCHANGED <<line, queue, doing, ended, call, result, crowded, slow>>
    BY DEF ElsewhereEnds, OpenRemoves
  <1>2. /\ record' \in [pane : CodeFile, shared : CodeFile]
        /\ record'.pane = record.pane \/ record'.pane.fresh = {}
    <2>1. CASE ElsewhereEnds
      <3> DEFINE f == [of |-> {Elsewhere}, fresh |-> Active]
      <3>1. record' = [record EXCEPT !.shared = f] /\ f \in CodeFile
        BY <2>1 DEF ElsewhereEnds, Written, CodeFile, Active
      <3>2. record \in [pane : CodeFile, shared : CodeFile]
        BY DEF PaneTypes
      <3> HIDE DEF f
      <3> QED
        BY <3>1, <3>2
    <2>2. CASE OpenRemoves
      <3>1. NoFile \in CodeFile /\ NoFile.fresh = {}
        BY DEF NoFile, CodeFile
      <3> QED
        BY <2>2, <3>1 DEF OpenRemoves
    <2> QED
      BY <2>1, <2>2
  <1>3. PaneTypes'
    BY <1>1, <1>2 DEF PaneTypes
  <1>4. Whereabouts'
    BY <1>1 DEF Whereabouts, InPane
  <1>5. Alone'
    BY <1>1, <1>2 DEF Alone, Active, InPane
  <1>6. OutcomeIsOwn'
    BY <1>1 DEF OutcomeIsOwn
  <1> QED
    BY <1>3, <1>4, <1>5, <1>6

\* A call takes its picture of the pane: what is in it then crowds it.
LEMMA RunCapturesStep == ASSUME PaneInv, NEW r \in Runs, RunCaptures(r) PROVE PaneInv'
  <1> USE DEF PaneInv
  <1> DEFINE s == [pc |-> "text", quiet |-> 0, changed |-> TRUE, differs |-> FALSE]
  <1>1. /\ call[r].pc = "before" /\ call' = [call EXCEPT ![r] = s]
        /\ crowded' = IF InPane # {} THEN crowded \cup {r} ELSE crowded
        /\ UNCHANGED <<line, queue, doing, ended, record, result, slow>>
    BY DEF RunCaptures
  <1>2. s \in CallState /\ s.pc = "text"
    BY DEF CallState, Stages
  <1> HIDE DEF s
  <1>3. call' \in [Runs -> CallState] /\ call'[r].pc = "text" /\ \A t \in Runs : t # r => call'[t] = call[t]
    BY <1>1, <1>2 DEF PaneTypes
  <1>4. crowded \subseteq crowded' /\ (InPane # {} => r \in crowded') /\ InPane' = InPane
    BY <1>1 DEF InPane
  <1>5. PaneTypes'
    BY <1>1, <1>3 DEF PaneTypes
  <1>6. Whereabouts'
    BY <1>1, <1>3, <1>4 DEF Whereabouts
  <1>7. Active' \subseteq Active \cup {r}
    BY <1>3 DEF Active
  <1>8. Alone'
    <2>1. r \notin record.pane.fresh
      BY <1>1 DEF Alone
    <2> QED
      BY <1>1, <1>3, <1>4, <1>7, <2>1 DEF Alone
  <1>9. OutcomeIsOwn'
    BY <1>1, <1>3, <1>4 DEF OutcomeIsOwn
  <1> QED
    BY <1>5, <1>6, <1>8, <1>9

\* Its text goes onto the line.
LEMMA SendTextStep == ASSUME PaneInv, NEW r \in Runs, SendText(r) PROVE PaneInv'
  <1> USE DEF PaneInv
  <1>1. /\ call[r].pc = "text" /\ line' = line \cup {r}
        /\ call' = [TextChanges(call) EXCEPT ![r].pc = "enter"]
        /\ crowded' = crowded \cup {s \in Active : InPane \cup {r} # {s}}
        /\ UNCHANGED <<queue, doing, ended, record, result, slow>>
    BY DEF SendText
  <1>2. TextChanges(call) \in [Runs -> CallState] /\ \A t \in Runs : TextChanges(call)[t].pc = call[t].pc
    BY TextIsSeen DEF PaneTypes
  <1>3. /\ call' \in [Runs -> CallState] /\ call'[r].pc = "enter"
        /\ \A t \in Runs : t # r => call'[t].pc = call[t].pc
    <2> DEFINE seen == TextChanges(call)
    <2>1. call' = [seen EXCEPT ![r].pc = "enter"] /\ "enter" \in Stages
      BY <1>1 DEF Stages
    <2>2. seen \in [Runs -> CallState] /\ \A t \in Runs : seen[t].pc = call[t].pc
      BY <1>2
    <2> HIDE DEF seen
    <2>3. /\ call' \in [Runs -> CallState] /\ call'[r].pc = "enter"
          /\ \A t \in Runs : t # r => call'[t] = seen[t]
      BY <2>1, <2>2, PcChanges
    <2> QED
      BY <2>2, <2>3
  <1>4. InPane' = InPane \cup {r}
    BY <1>1 DEF InPane
  <1>5. Active' = Active
    BY <1>1, <1>3 DEF Active
  <1>6. r \in Commands
    BY DEF Commands
  <1>7. PaneTypes'
    BY <1>1, <1>3, <1>6 DEF PaneTypes
  <1>8. Whereabouts'
    BY <1>1, <1>3, <1>4 DEF Whereabouts
  <1>9. Alone'
    <2>1. \A t \in Active : t \notin crowded' => InPane' \subseteq {t} /\ t \notin crowded
      BY <1>1, <1>4
    <2>2. \A t \in Runs : call'[t].pc \in {"away", "attach", "before"} => call[t].pc \in {"away", "attach", "before"}
      BY <1>3
    <2> QED
      BY <1>1, <1>5, <2>1, <2>2 DEF Alone
  <1>10. OutcomeIsOwn'
    BY <1>1, <1>3 DEF OutcomeIsOwn
  <1> QED
    BY <1>7, <1>8, <1>9, <1>10

LEMMA SendEnterStep == ASSUME PaneInv, NEW r \in Runs, SendEnter(r) PROVE PaneInv'
  <1> USE DEF PaneInv
  <1>1. /\ call[r].pc = "enter" /\ queue' = Append(queue, line) /\ line' = {}
        /\ call' = [TextChanges(call) EXCEPT ![r].pc = "poll"]
        /\ UNCHANGED <<doing, ended, record, result, crowded, slow>>
    BY DEF SendEnter
  <1>2. TextChanges(call) \in [Runs -> CallState] /\ \A t \in Runs : TextChanges(call)[t].pc = call[t].pc
    BY TextIsSeen DEF PaneTypes
  <1>3. /\ call' \in [Runs -> CallState] /\ call'[r].pc = "poll"
        /\ \A t \in Runs : t # r => call'[t].pc = call[t].pc
    <2> DEFINE seen == TextChanges(call)
    <2>1. call' = [seen EXCEPT ![r].pc = "poll"] /\ "poll" \in Stages
      BY <1>1 DEF Stages
    <2>2. seen \in [Runs -> CallState] /\ \A t \in Runs : seen[t].pc = call[t].pc
      BY <1>2
    <2> HIDE DEF seen
    <2>3. /\ call' \in [Runs -> CallState] /\ call'[r].pc = "poll"
          /\ \A t \in Runs : t # r => call'[t] = seen[t]
      BY <2>1, <2>2, PcChanges
    <2> QED
      BY <2>2, <2>3
  <1>4. queue' \in Seq(SUBSET Commands) /\ ToSet(queue') = ToSet(queue) \cup {line}
    BY <1>1, LineIsEntered DEF PaneTypes
  <1>5. InPane' = InPane
    BY <1>1, <1>4 DEF InPane
  <1>6. Active' = Active
    BY <1>1, <1>3 DEF Active
  <1>7. PaneTypes'
    BY <1>1, <1>3, <1>4 DEF PaneTypes
  <1>8. Whereabouts'
    BY <1>1, <1>3, <1>5 DEF Whereabouts
  <1>9. Alone'
    <2>1. \A t \in Runs : call'[t].pc \in {"away", "attach", "before"} => call[t].pc \in {"away", "attach", "before"}
      BY <1>3
    <2> QED
      BY <1>1, <1>5, <1>6, <2>1 DEF Alone
  <1>10. OutcomeIsOwn'
    BY <1>1, <1>3 DEF OutcomeIsOwn
  <1> QED
    BY <1>7, <1>8, <1>9, <1>10

\* An answer: settled, with the shell in the foreground, or given up.
LEMMA AnswerStep == ASSUME PaneInv, NEW r \in Runs, RunSettles(r) \/ RunEnds(r) PROVE PaneInv'
  <1> USE DEF PaneInv
  <1>1. PICK finished \in BOOLEAN :
          /\ Answer(r, finished) /\ call[r].pc \in {"poll", "lost"}
          /\ finished => /\ call[r].pc = "poll" /\ PaneIdle
                         /\ r \in UNION ToSet(queue) => r \in slow'
          /\ slow \subseteq slow'
          /\ UNCHANGED <<line, queue, doing, ended, record, crowded>>
    <2>1. CASE RunSettles(r)
      BY <2>1 DEF RunSettles, Settles
    <2>2. CASE RunEnds(r)
      BY <2>2 DEF RunEnds
    <2> QED
      BY <2>1, <2>2
  <1> DEFINE x == ReadExitCode(r)
             o == [finished |-> finished, code |-> x.code, borrowed |-> x.borrowed]
             s == [Unasked EXCEPT !.pc = "returned"]
  <1>2. result' = [result EXCEPT ![r] = o] /\ call' = [call EXCEPT ![r] = s]
    BY <1>1 DEF Answer
  <1>3. s \in CallState /\ s.pc = "returned"
    BY UnaskedAt DEF Stages
  <1>4. record.pane \in CodeFile /\ record.shared \in CodeFile
    BY DEF PaneTypes
  <1>5. /\ x.code \in SUBSET (Commands \cup {Elsewhere}) /\ x.borrowed \in BOOLEAN
        /\ x.borrowed \/ x.code = (IF r \in record.pane.fresh THEN record.pane.of ELSE {})
    <2>1. CASE record.pane # NoFile
      <3>1. x = [code |-> IF r \in record.pane.fresh THEN record.pane.of ELSE {}, borrowed |-> FALSE]
        BY <2>1 DEF ReadExitCode
      <3> HIDE DEF x
      <3> QED
        BY <1>4, <3>1 DEF CodeFile
    <2>2. CASE record.pane = NoFile
      <3>1. x = [code |-> IF r \in record.shared.fresh THEN record.shared.of ELSE {}, borrowed |-> TRUE]
        BY <2>2 DEF ReadExitCode
      <3> HIDE DEF x
      <3> QED
        BY <1>4, <3>1 DEF CodeFile
    <2> QED
      BY <2>1, <2>2
  <1> HIDE DEF s, x
  <1>6. o \in Outcome /\ o.finished = finished /\ o.code = x.code /\ o.borrowed = x.borrowed
    BY <1>5 DEF Outcome
  <1> HIDE DEF o
  <1>7. /\ call' \in [Runs -> CallState] /\ call'[r].pc = "returned"
        /\ \A t \in Runs : t # r => call'[t] = call[t]
    BY <1>2, <1>3 DEF PaneTypes
  <1>8. /\ result' \in [Runs -> Outcome] /\ result'[r] = o
        /\ \A t \in Runs : t # r => result'[t] = result[t]
    BY <1>2, <1>6 DEF PaneTypes
  <1>9. InPane' = InPane
    BY <1>1 DEF InPane
  <1>10. PaneTypes'
    BY <1>1, <1>7, <1>8 DEF PaneTypes
  <1>11. Whereabouts'
    BY <1>1, <1>7, <1>9 DEF Whereabouts
  <1>12. Alone'
    <2>1. Active' \subseteq Active
      BY <1>7 DEF Active
    <2>2. \A t \in Runs : call'[t].pc \in {"away", "attach", "before"} => call[t].pc \in {"away", "attach", "before"}
      BY <1>7
    <2> QED
      BY <1>1, <1>9, <2>1, <2>2 DEF Alone
  <1>13. OutcomeIsOwn'
    <2>1. ASSUME finished, r \in Program, r \notin slow' PROVE r \in ended
      <3>1. r \in InPane \cup ended /\ r \notin line
        BY <1>1, <2>1 DEF Whereabouts
      <3>2. r \notin UNION ToSet(queue) /\ r \notin doing
        BY <1>1, <2>1 DEF PaneIdle
      <3> QED
        BY <3>1, <3>2 DEF InPane
    <2>2. ASSUME r \notin crowded PROVE x.code \in {{}, {r}} \/ x.borrowed
      <3>1. r \in record.pane.fresh => record.pane.of = {r}
        BY <1>1, <2>2 DEF Alone, Active
      <3> QED
        BY <1>5, <3>1
    <2> SUFFICES ASSUME NEW t \in Runs, call'[t].pc = "returned"
                 PROVE  /\ (result'[t].finished /\ t \in Program /\ t \notin slow') => t \in ended
                        /\ t \notin crowded => result'[t].code \in {{}, {t}} \/ result'[t].borrowed
      BY <1>1 DEF OutcomeIsOwn
    <2>3. CASE t = r
      BY <1>6, <1>8, <2>1, <2>2, <2>3
    <2>4. CASE t # r
      <3>1. result'[t] = result[t] /\ call[t].pc = "returned"
        BY <1>7, <1>8, <2>4
      <3> QED
        BY <1>1, <3>1 DEF OutcomeIsOwn
    <2> QED
      BY <2>3, <2>4
  <1> QED
    BY <1>10, <1>11, <1>12, <1>13

LEMMA TerminalStep == ASSUME PaneInv, [TerminalNext]_terminalVars PROVE PaneInv'
  <1>1. CASE UNCHANGED terminalVars
    <2>1. UNCHANGED <<line, queue, doing, ended, record, result, crowded, slow, call>>
      BY <1>1 DEF terminalVars
    <2>2. call' \in [Runs -> CallState]
      BY <2>1 DEF PaneInv, PaneTypes
    <2> QED
      BY <2>1, <2>2, BesideThePane
  <1>2. ASSUME NEW c \in Others, PersonTypes(c) PROVE PaneInv'
    BY <1>2, PersonTypesStep
  <1>3. CASE \/ PaneReads \/ PanePrints \/ PaneEnds \/ PaneExits \/ WindowCloses \/ ElsewhereEnds
             \/ OpenRemoves \/ OpenSession \/ OpenAttaches
    BY <1>3, PaneReadsStep, PaneEndsStep, PaneExitsStep, FilesStep, BesideStep
  <1>4. ASSUME NEW r \in Runs,
               \/ RunStarts(r) \/ RunAttaches(r) \/ RunCaptures(r) \/ SendText(r) \/ SendEnter(r)
               \/ PollPane(r) \/ RunSettles(r) \/ RunEnds(r)
        PROVE  PaneInv'
    BY <1>4, BesideStep, RunCapturesStep, SendTextStep, SendEnterStep, AnswerStep
  <1> QED
    BY <1>1, <1>2, <1>3, <1>4 DEF TerminalNext

\* terminal_run (tools_terminal.go): whoever types into the shared pane, a
\* program that is reported as finished has ended, and an exit code is that of
\* the call it is reported to, but for the cases the property names.
THEOREM OutcomesAreOwn == TerminalSpec => []OutcomeIsOwn
  <1>1. PaneInv => OutcomeIsOwn
    BY DEF PaneInv
  <1> QED
    BY <1>1, PaneStart, TerminalStep, PTL DEF TerminalSpec
=============================================================================
