----------------------------- MODULE HeldInput ------------------------------
(***************************************************************************)
(* What is held down on the desktop: the injector of keys and buttons      *)
(* (internal/desktop/input.go), the virtual gamepad (joystick.go), the     *)
(* input handler and the closing of each browser session                   *)
(* (internal/stream/session.go), and the mouse and gamepad tools of the    *)
(* agent (internal/mcp).  Who drives moves freely here: Room says how.     *)
(***************************************************************************)
EXTENDS FiniteSets, Naturals

CONSTANTS
    Sessions,    \* browser sessions, each a member of the room
    Agent,       \* the agent's place in the room
    Nobody,
    Keys,        \* keycodes
    Buttons,     \* mouse buttons
    PadButtons,  \* gamepad buttons
    MaxPresses   \* bound: presses

ASSUME InputConstants ==
    /\ Agent \notin Sessions /\ Nobody \notin Sessions \cup {Agent}
    /\ MaxPresses \in Nat
    /\ Keys \cap Buttons = {} /\ PadButtons \cap (Keys \cup Buttons) = {}

VARIABLES
    driver,          \* Room.controller
    pressedKeys,     \* InputInjector.pressedKeys
    pressedButtons,  \* InputInjector.pressedButtons
    pressed,         \* Joystick.pressed
    held,            \* external: what X and the gamepad device have down, and by whom
    handler,         \* the input event of each session, and the tool call of the agent, past its check
    closing,         \* how far each session's Close is
    tapped,          \* what a click, a drag or a tap of the agent's has down, and will let go of
    presses,
    late             \* history: what went down for a session whose Close had begun

inputVars == <<driver, pressedKeys, pressedButtons, pressed, held, handler, closing, tapped, presses, late>>

Parties == Sessions \cup {Agent}
NoEvent == [t |-> "none"]
NotHeld == [x \in Keys \cup Buttons \cup PadButtons |-> Nobody]
Down == {x \in DOMAIN held : held[x] # Nobody}
DownBy(s) == {x \in DOMAIN held : held[x] = s}

\* A browser's events; of the tools mouse_down and mouse_up (mb), gamepad_state
\* (gp), gamepad_button (gb), and mouse_click, mouse_drag and gamepad_tap (tap).
OfEither == [t : {"mb"}, x : Buttons, d : BOOLEAN] \cup [t : {"gp"}, b : SUBSET PadButtons]
Events == OfEither \cup {[t |-> "reset"]} \cup [t : {"kb"}, x : Keys, d : BOOLEAN]
ToolCalls == OfEither \cup [t : {"gb"}, x : PadButtons, d : BOOLEAN]
                      \cup [t : {"tap"}, x : Buttons \cup PadButtons]

InputInit ==
    /\ driver = Nobody
    /\ pressedKeys = {} /\ pressedButtons = {} /\ pressed = {}
    /\ held = NotHeld
    /\ handler = [p \in Parties |-> NoEvent]
    /\ closing = [s \in Sessions |-> "open"]
    /\ tapped = Nobody /\ presses = 0 /\ late = {}

\* The controls move. Nobody lets go of anything on that account.
Drive(p) ==
    /\ p \in Sessions => closing[p] # "left"
    /\ p # driver /\ driver' = p
    /\ UNCHANGED <<pressedKeys, pressedButtons, pressed, held, handler, closing, tapped, presses, late>>

\* The check of handleInput, and of a tool call, under the room's lock: what it
\* lets pass is injected later, whoever drives by then.
Check(p, ev) ==
    /\ p \in Sessions => closing[p] # "left"
    /\ handler[p] = NoEvent /\ driver = p
    /\ handler' = [handler EXCEPT ![p] = ev]
    /\ UNCHANGED <<driver, pressedKeys, pressedButtons, pressed, held, closing, tapped, presses, late>>

\* ---- the injector, each call under its lock

Held(p, x, down) ==
    /\ down => presses < MaxPresses
    /\ presses' = presses + (IF down THEN 1 ELSE 0)
    /\ held' = [held EXCEPT ![x] = IF ~down THEN Nobody ELSE IF @ = Nobody THEN p ELSE @]

\* A key or a button of the display goes down or up, and is remembered.
Key(p, x, down) ==
    /\ Held(p, x, down)
    /\ pressedKeys' = IF down THEN pressedKeys \cup {x} ELSE pressedKeys \ {x}
    /\ UNCHANGED pressedButtons

Button(p, b, down) ==
    /\ Held(p, b, down)
    /\ pressedButtons' = IF down THEN pressedButtons \cup {b} ELSE pressedButtons \ {b}
    /\ UNCHANGED pressedKeys

Lifted(xs) == [x \in DOMAIN held |-> IF x \in xs THEN Nobody ELSE held[x]]

ReleaseAll ==
    /\ held' = Lifted(pressedKeys \cup pressedButtons)
    /\ pressedKeys' = {} /\ pressedButtons' = {}

\* Joystick.Apply: the snapshot against the last one; only what changed is sent.
Apply(p, snapshot) ==
    /\ Cardinality(snapshot \ pressed) + presses <= MaxPresses
    /\ presses' = presses + Cardinality(snapshot \ pressed)
    /\ pressed' = snapshot
    /\ held' = [x \in DOMAIN held |-> IF x \in pressed \ snapshot THEN Nobody
                                      ELSE IF x \in snapshot \ pressed THEN p ELSE held[x]]

\* Joystick.Button sends what it is told.
PadButton(p, b, down) ==
    /\ Held(p, b, down)
    /\ pressed' = IF down THEN pressed \cup {b} ELSE pressed \ {b}
    /\ UNCHANGED <<pressedKeys, pressedButtons>>

EitherButton(x, down) ==
    IF x \in Buttons THEN Button(Agent, x, down) /\ UNCHANGED pressed ELSE PadButton(Agent, x, down)

\* The injection of what both can do.
Injects(p, ev) ==
    \/ ev.t = "gp" /\ Apply(p, ev.b) /\ UNCHANGED <<pressedKeys, pressedButtons>>
    \/ ev.t = "mb" /\ Button(p, ev.x, ev.d) /\ UNCHANGED pressed

\* Whether Close has let go of the keys of s, or looked and found nothing to do.
LetGo(s) == closing[s] \in {"leaving", "left"}

\* handleInput, after its check.
Inject(s) ==
    /\ handler[s] # NoEvent
    /\ handler' = [handler EXCEPT ![s] = NoEvent]
    /\ \/ Injects(s, handler[s])
       \/ handler[s].t = "reset" /\ ReleaseAll /\ UNCHANGED <<pressed, presses>>
       \/ handler[s].t = "kb" /\ Key(s, handler[s].x, handler[s].d) /\ UNCHANGED pressed
    /\ late' = IF LetGo(s) THEN late \cup {x \in DOMAIN held : held'[x] = s /\ held[x] # s} ELSE late
    /\ UNCHANGED <<driver, closing, tapped>>

\* The agent's tool, after its checks.
ToolInjects ==
    /\ handler[Agent] # NoEvent
    /\ handler' = [handler EXCEPT ![Agent] = NoEvent]
    /\ \/ Injects(Agent, handler[Agent]) /\ UNCHANGED tapped
       \/ handler[Agent].t = "gb" /\ PadButton(Agent, handler[Agent].x, handler[Agent].d) /\ UNCHANGED tapped
       \/ /\ handler[Agent].t = "tap" /\ tapped = Nobody
          /\ EitherButton(handler[Agent].x, TRUE) /\ tapped' = handler[Agent].x
    /\ UNCHANGED <<driver, closing, late>>

\* The end of a click, a drag or a tap lets go without asking who drives.
TapEnds ==
    /\ tapped # Nobody
    /\ EitherButton(tapped, FALSE) /\ tapped' = Nobody
    /\ UNCHANGED <<driver, handler, closing, late>>

\* ---- Close

\* Slip: the room is left before Close asks whether its session drives.
CloseLooksTooLate(s) ==
    /\ closing[s] = "open"
    /\ closing' = [closing EXCEPT ![s] = "leaving"]
    /\ driver' = IF driver = s THEN Nobody ELSE driver
    /\ UNCHANGED <<pressedKeys, pressedButtons, pressed, held, handler, tapped, presses, late>>

\* Whether the session drives decides whether anything is let go of.
CloseLooks(s) ==
    /\ closing[s] = "open"
    /\ closing' = [closing EXCEPT ![s] = IF driver = s THEN "releasing" ELSE "leaving"]
    /\ late' = IF driver = s THEN late ELSE late \cup DownBy(s)
    /\ UNCHANGED <<driver, pressedKeys, pressedButtons, pressed, held, handler, tapped, presses>>

\* Whoever drives by now, and whoever holds what is let go of.
CloseReleases(s) ==
    /\ closing[s] = "releasing"
    /\ closing' = [closing EXCEPT ![s] = "leaving"]
    /\ ReleaseAll
    /\ late' = late \cup (DownBy(s) \cap PadButtons)
    /\ UNCHANGED <<driver, pressed, handler, tapped, presses>>

CloseLeaves(s) ==
    /\ closing[s] = "leaving"
    /\ closing' = [closing EXCEPT ![s] = "left"]
    /\ driver' = IF driver = s THEN Nobody ELSE driver
    /\ UNCHANGED <<pressedKeys, pressedButtons, pressed, held, handler, tapped, presses, late>>

InputNext ==
    \/ \E p \in Parties \cup {Nobody} : Drive(p)
    \/ \E s \in Sessions :
         \/ \E ev \in Events : Check(s, ev)
         \/ Inject(s) \/ CloseLooks(s) \/ CloseReleases(s) \/ CloseLeaves(s)
    \/ \E ev \in ToolCalls : Check(Agent, ev)
    \/ ToolInjects \/ TapEnds

InputSpec == InputInit /\ [][InputNext]_inputVars

\* ---- properties

InputTypeOK ==
    /\ driver \in Parties \cup {Nobody}
    /\ pressedKeys \subseteq Keys /\ pressedButtons \subseteq Buttons /\ pressed \subseteq PadButtons
    /\ held \in [Keys \cup Buttons \cup PadButtons -> Parties \cup {Nobody}]
    /\ DOMAIN handler = Parties /\ handler[Agent] \in ToolCalls \cup {NoEvent}
    /\ \A s \in Sessions : handler[s] \in Events \cup {NoEvent}
    /\ closing \in [Sessions -> {"open", "releasing", "leaving", "left"}]
    /\ tapped \in Buttons \cup PadButtons \cup {Nobody} /\ late \subseteq DOMAIN held

\* Keys come up with the one who drove.  Once Close has let go of what a session
\* held nothing is down by its hand, but for what Close does not let go of: what
\* the session still held when Close found the controls gone from it, the buttons
\* of the gamepad, and what its handler had checked before and injected after.
\* And the injector and the gamepad know of everything that is down, so that a
\* later release can reach it.
KeysComeUpWithTheirDriver ==
    /\ \A s \in Sessions : LetGo(s) => DownBy(s) \subseteq late
    /\ Down = pressedKeys \cup pressedButtons \cup pressed
=============================================================================
