-------------------------------- MODULE Feeds --------------------------------
(***************************************************************************)
(* What the desktop tells a browser besides the picture: the clipboard,    *)
(* which travels both ways, and the shape of the pointer                   *)
(* (internal/stream/session.go, internal/desktop/clipboard.go, cursor.go   *)
(* and the page's client.js).                                              *)
(*                                                                         *)
(* The input handler and the clipboard watcher of a session share lastClip *)
(* without a lock.  A page's data channel keeps the order of its messages. *)
(***************************************************************************)
EXTENDS Naturals, Sequences

CONSTANTS
    Pages,        \* browser sessions, and the page of each
    Texts,        \* what can be copied
    NoText,       \* nothing owns the selection
    Shapes,       \* pointer shapes a browser can show
    NoShape,
    ShapeBuffer,  \* room in a subscriber's channel
    MaxCopies,    \* bound: things copied, here or there, and focus events
    MaxShapes     \* bound: changes of the shape

ASSUME FeedConstants ==
    /\ NoText \notin Texts /\ NoShape \notin Shapes /\ ShapeBuffer \in Nat \ {0}
    /\ MaxCopies \in Nat /\ MaxShapes \in Nat

VARIABLES
    clip,        \* the CLIPBOARD selection of the desktop
    lastClip,    \* Session.lastClip
    watch,       \* watchClipboard: where it is, and what it has read
    handling,    \* the clip event a session's handler is about to put on the desktop
    toPage,      \* clip messages on their way
    fromPage,    \* clip events; of each, whether a message has reached the page since
    pageClip,    \* external: the clipboard of the browser's machine
    pageLast,    \* client.js: lastClip
    apart,       \* history: the two sides were last told different things
    copies

VARIABLES
    shape,       \* CursorTracker.current
    subs,        \* CursorTracker.subs
    updates,     \* each subscriber's channel
    opening,     \* OnOpen of each data channel: how far, and the shape it got
    leaving,      \* Session.Close: how far
    shown,       \* the pointer each page draws
    missed,      \* history: the latest shape did not fit the channel
    leaked,      \* history: subscribed when Close had already looked
    changes

clipVars   == <<clip, lastClip, watch, handling, toPage, fromPage, pageClip, pageLast, apart, copies>>
cursorVars == <<shape, subs, updates, opening, leaving, shown, missed, leaked, changes>>
feedVars   == <<clipVars, cursorVars>>

-----------------------------------------------------------------------------
(* The clipboard. *)

ClipInit ==
    /\ clip \in Texts \cup {NoText} /\ lastClip = [p \in Pages |-> NoText]
    /\ watch = [p \in Pages |-> [pc |-> "new", got |-> NoText]]
    /\ handling = [p \in Pages |-> NoText]
    /\ toPage = [p \in Pages |-> <<>>] /\ fromPage = [p \in Pages |-> <<>>]
    /\ pageClip = [p \in Pages |-> NoText] /\ pageLast = [p \in Pages |-> NoText]
    /\ apart = [p \in Pages |-> FALSE] /\ copies = 0

Counted == copies < MaxCopies /\ copies' = copies + 1

\* Something on the desktop copies, or the agent's set_clipboard does.
CopyThere(v) ==
    /\ Counted /\ clip' = v
    /\ UNCHANGED <<lastClip, watch, handling, toPage, fromPage, pageClip, pageLast, apart>>

CopyHere(p, v) ==
    /\ Counted /\ pageClip' = [pageClip EXCEPT ![p] = v]
    /\ UNCHANGED <<clip, lastClip, watch, handling, toPage, fromPage, pageLast, apart>>

\* syncLocalClipboard, when the page gets the focus.
Focus(p) ==
    /\ pageClip[p] \notin {NoText, pageLast[p]} /\ Counted
    /\ pageLast' = [pageLast EXCEPT ![p] = pageClip[p]]
    /\ fromPage' = [fromPage EXCEPT ![p] = Append(@, [text |-> pageClip[p], crossed |-> FALSE])]
    /\ UNCHANGED <<clip, lastClip, watch, handling, toPage, pageClip, apart>>

\* onmessage.  The write to the machine's clipboard is refused to a page
\* without the focus, and nobody looks.
Receive(p) ==
    /\ toPage[p] # <<>> /\ toPage' = [toPage EXCEPT ![p] = Tail(@)]
    /\ pageLast' = [pageLast EXCEPT ![p] = Head(toPage[p])]
    /\ pageClip' \in {pageClip, [pageClip EXCEPT ![p] = Head(toPage[p])]}
    /\ fromPage' = [fromPage EXCEPT ![p] = [i \in DOMAIN @ |-> [@[i] EXCEPT !.crossed = TRUE]]]
    /\ UNCHANGED <<clip, lastClip, watch, handling, apart, copies>>

\* handleInput, a clip event of one who drives, or of one who does not.
TakeClip(p) ==
    /\ handling[p] = NoText /\ fromPage[p] # <<>>
    /\ fromPage' = [fromPage EXCEPT ![p] = Tail(@)]
    /\ \/ /\ lastClip' = [lastClip EXCEPT ![p] = Head(fromPage[p]).text]
          /\ handling' = [handling EXCEPT ![p] = Head(fromPage[p]).text]
          /\ apart' = [apart EXCEPT ![p] = \/ Head(fromPage[p]).crossed \/ toPage[p] # <<>>
                                          \/ watch[p].pc = "send"]
       \/ apart' = [apart EXCEPT ![p] = TRUE] /\ UNCHANGED <<lastClip, handling>>
    /\ UNCHANGED <<clip, watch, toPage, pageClip, pageLast, copies>>

\* Clipboard.Set, which may fail.
SetClip(p) ==
    /\ handling[p] # NoText /\ handling' = [handling EXCEPT ![p] = NoText]
    /\ clip' \in {clip, handling[p]}
    /\ UNCHANGED <<lastClip, watch, toPage, fromPage, pageClip, pageLast, apart, copies>>

WatchAt(p, pc, got) == watch' = [watch EXCEPT ![p] = [pc |-> pc, got |-> got]]

\* watchClipboard: what is there when it starts is not sent.
WatchStarts(p) ==
    /\ watch[p].pc = "new" /\ WatchAt(p, IF clip = NoText THEN "tick" ELSE "keep", clip)
    /\ UNCHANGED <<clip, lastClip, handling, toPage, fromPage, pageClip, pageLast, apart, copies>>

KeepFirst(p) ==
    /\ watch[p].pc = "keep" /\ WatchAt(p, "tick", NoText)
    /\ lastClip' = [lastClip EXCEPT ![p] = watch[p].got]
    /\ apart' = [apart EXCEPT ![p] = TRUE]
    /\ UNCHANGED <<clip, handling, toPage, fromPage, pageClip, pageLast, copies>>

GetClip(p) ==
    /\ watch[p].pc = "tick" /\ clip # NoText /\ WatchAt(p, "compare", clip)
    /\ UNCHANGED <<clip, lastClip, handling, toPage, fromPage, pageClip, pageLast, apart, copies>>

\* Slip: remembered before it is compared.
CompareRemembered(p) ==
    /\ watch[p].pc = "compare" /\ WatchAt(p, "tick", NoText)
    /\ lastClip' = [lastClip EXCEPT ![p] = watch[p].got]
    /\ UNCHANGED <<clip, handling, toPage, fromPage, pageClip, pageLast, apart, copies>>

Compare(p) ==
    /\ watch[p].pc = "compare"
    /\ IF watch[p].got = lastClip[p] THEN WatchAt(p, "tick", NoText)
                                     ELSE WatchAt(p, "remember", watch[p].got)
    /\ UNCHANGED <<clip, lastClip, handling, toPage, fromPage, pageClip, pageLast, apart, copies>>

\* Whatever the handler has written to lastClip since.
Remember(p) ==
    /\ watch[p].pc = "remember" /\ WatchAt(p, "send", watch[p].got)
    /\ lastClip' = [lastClip EXCEPT ![p] = watch[p].got]
    /\ apart' = [apart EXCEPT ![p] = FALSE]
    /\ UNCHANGED <<clip, handling, toPage, fromPage, pageClip, pageLast, copies>>

SendClip(p) ==
    /\ watch[p].pc = "send" /\ WatchAt(p, "tick", NoText)
    /\ toPage' = [toPage EXCEPT ![p] = Append(@, watch[p].got)]
    /\ UNCHANGED <<clip, lastClip, handling, fromPage, pageClip, pageLast, apart, copies>>

ClipNext ==
    \/ \E v \in Texts : CopyThere(v) \/ \E p \in Pages : CopyHere(p, v)
    \/ \E p \in Pages :
         \/ Focus(p) \/ Receive(p) \/ TakeClip(p) \/ SetClip(p)
         \/ WatchStarts(p) \/ KeepFirst(p) \/ GetClip(p) \/ Compare(p) \/ Remember(p) \/ SendClip(p)

-----------------------------------------------------------------------------
(* The pointer. *)

CursorInit ==
    /\ shape \in Shapes \cup {NoShape} /\ subs = {} /\ changes = 0
    /\ updates = [p \in Pages |-> <<>>]
    /\ opening = [p \in Pages |-> [pc |-> "new", first |-> NoShape]]
    /\ leaving = [p \in Pages |-> "open"]
    /\ shown = [p \in Pages |-> NoShape]
    /\ missed = {} /\ leaked = {}

Roomy(p) == Len(updates[p]) < ShapeBuffer

\* refresh: published to whoever has room.  A shape no browser can show leaves
\* everything as it is.
Refresh(v) ==
    /\ changes < MaxShapes /\ changes' = changes + 1
    /\ shape' = v
    /\ updates' = [p \in Pages |-> IF p \in subs /\ Roomy(p) THEN Append(updates[p], v) ELSE updates[p]]
    /\ missed' = {p \in Pages : IF p \in subs THEN ~Roomy(p) ELSE p \in missed}
    /\ UNCHANGED <<subs, opening, leaving, shown, leaked>>

\* OnOpen: Subscribe, under the tracker's lock.
Joined(p) == leaked' = IF leaving[p] = "looked" THEN leaked \cup {p} ELSE leaked

SubscribeShape(p) ==
    /\ opening[p].pc = "new"
    /\ opening' = [opening EXCEPT ![p] = [pc |-> "subscribed", first |-> shape]]
    /\ subs' = subs \cup {p} /\ Joined(p)
    /\ UNCHANGED <<shape, updates, leaving, shown, missed, changes>>

\* The channel is kept for Close, unguarded.
KeepChannel(p) ==
    /\ opening[p].pc = "subscribed" /\ opening' = [opening EXCEPT ![p].pc = "kept"]
    /\ Joined(p)
    /\ UNCHANGED <<shape, subs, updates, leaving, shown, missed, changes>>

SendFirst(p) ==
    /\ opening[p].pc = "kept" /\ opening' = [opening EXCEPT ![p].pc = "following"]
    /\ shown' = [shown EXCEPT ![p] = IF opening[p].first = NoShape THEN @ ELSE opening[p].first]
    /\ UNCHANGED <<shape, subs, updates, leaving, missed, leaked, changes>>

ForwardShape(p) ==
    /\ opening[p].pc = "following" /\ updates[p] # <<>>
    /\ shown' = [shown EXCEPT ![p] = Head(updates[p])]
    /\ updates' = [updates EXCEPT ![p] = Tail(@)]
    /\ UNCHANGED <<shape, subs, opening, leaving, missed, leaked, changes>>

\* The follower leaves once the session is done.
StopFollowing(p) ==
    /\ opening[p].pc = "following" /\ leaving[p] # "open"
    /\ opening' = [opening EXCEPT ![p].pc = "over"]
    /\ UNCHANGED <<shape, subs, updates, leaving, shown, missed, leaked, changes>>

\* Close: done, and then Unsubscribe if there is a channel to be seen.
CloseDone(p) ==
    /\ leaving[p] = "open" /\ leaving' = [leaving EXCEPT ![p] = "done"]
    /\ UNCHANGED <<shape, subs, updates, opening, shown, missed, leaked, changes>>

CloseLooks(p) ==
    /\ leaving[p] = "done" /\ leaving' = [leaving EXCEPT ![p] = "looked"]
    /\ IF opening[p].pc \in {"kept", "following", "over"}
       THEN subs' = subs \ {p} /\ UNCHANGED leaked
       ELSE leaked' = leaked \cup (subs \cap {p}) /\ UNCHANGED subs
    /\ UNCHANGED <<shape, updates, opening, shown, missed, changes>>

CursorNext ==
    \/ \E v \in Shapes : Refresh(v)
    \/ \E p \in Pages :
         \/ SubscribeShape(p) \/ KeepChannel(p) \/ SendFirst(p) \/ ForwardShape(p) \/ StopFollowing(p)
         \/ CloseDone(p) \/ CloseLooks(p)

-----------------------------------------------------------------------------
FeedInit == ClipInit /\ CursorInit

FeedNext ==
    \/ ClipNext /\ UNCHANGED cursorVars
    \/ CursorNext /\ UNCHANGED clipVars

FeedSpec == FeedInit /\ [][FeedNext]_feedVars

-----------------------------------------------------------------------------
(* Properties. *)

Words == Texts \cup {NoText}
Clips == [text : Words, crossed : BOOLEAN]

FeedTypeOK ==
    /\ clip \in Words /\ copies \in 0..MaxCopies
    /\ lastClip \in [Pages -> Words] /\ handling \in [Pages -> Words]
    /\ pageClip \in [Pages -> Words] /\ pageLast \in [Pages -> Words]
    /\ watch \in [Pages -> [pc : {"new", "keep", "tick", "compare", "remember", "send"}, got : Words]]
    /\ toPage \in [Pages -> Seq(Words)] /\ fromPage \in [Pages -> Seq(Clips)]
    /\ apart \in [Pages -> BOOLEAN]
    /\ shape \in Shapes \cup {NoShape} /\ changes \in 0..MaxShapes
    /\ updates \in [Pages -> Seq(Shapes)] /\ \A p \in Pages : Len(updates[p]) <= ShapeBuffer
    /\ shown \in [Pages -> Shapes \cup {NoShape}]
    /\ opening \in [Pages -> [pc : {"new", "subscribed", "kept", "following", "over"},
                              first : Shapes \cup {NoShape}]]
    /\ leaving \in [Pages -> {"open", "done", "looked"}]
    /\ subs \subseteq Pages /\ missed \subseteq Pages /\ leaked \subseteq Pages

\* Nothing of a page's clipboard is on its way in either direction.
AtRest(p) ==
    /\ watch[p].pc = "tick" /\ lastClip[p] = clip /\ handling[p] = NoText
    /\ toPage[p] = <<>> /\ fromPage[p] = <<>> /\ pageLast[p] = pageClip[p]

\* Pages catch up with the desktop.  Once nothing is on its way, what a page
\* would paste is what the desktop would; but for what was on the desktop
\* before the session, an event that was ignored because its sender did not
\* drive, and one that crossed a message of the watcher.  A page that has drawn
\* what its channel held shows the latest shape, unless that one did not fit.
\* And no channel of a closed session is kept, unless it was registered or made
\* known when Close had already looked for it.
PagesCatchUp ==
    /\ \A p \in Pages : AtRest(p) /\ clip # NoText => pageClip[p] = clip \/ apart[p]
    /\ \A p \in Pages : opening[p].pc = "following" /\ leaving[p] = "open" /\ updates[p] = <<>> =>
                            shown[p] = shape \/ p \in missed
    /\ \A p \in subs : leaving[p] = "looked" => p \in leaked
=============================================================================
