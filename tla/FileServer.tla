----------------------------- MODULE FileServer -----------------------------
(***************************************************************************)
(* The file manager of the browser (internal/stream/files.go) and the      *)
(* delivery of finished files (delivery.go): one-use tickets, the tree     *)
(* below the root, and who is told of a download.                          *)
(*                                                                         *)
(* A path is a sequence of names, and the server's root is one of them. A  *)
(* link points at any path, below the root or not; links are made by the   *)
(* desktop.  An operation on the tree is one step, from resolve to the     *)
(* system call.  An upload is several: its directory is resolved, its body *)
(* comes in, and its files are created, each on a path walked anew.        *)
(* Requests without a valid session token change nothing and are left out. *)
(***************************************************************************)
EXTENDS Naturals, Sequences, FiniteSets

CONSTANTS
    Paths,      \* the paths that may come to exist
    Root,       \* FileServer.root
    Trees,      \* what the desktop may look like at the start
    MaxLinks,   \* links that one path may go through
    Browsers,   \* members of the room with a session
    Agent,      \* the member without one
    TicketTTL,  \* ticketTTL
    Uploads,    \* upload requests
    Puts,       \* what the desktop's programs put there
    MaxEdits,   \* bound: changes by the desktop
    MaxTickets, \* bound: tickets minted
    LastTime    \* bound: the end of time

ASSUME FileConstants ==
    /\ Paths \subseteq Seq(STRING) /\ <<>> \in Paths
    /\ Root \in Paths
    /\ \A p \in Paths : p # <<>> => SubSeq(p, 1, Len(p) - 1) \in Paths
    /\ Agent \notin Browsers
    /\ MaxEdits \in Nat /\ MaxTickets \in Nat /\ TicketTTL \in Nat /\ LastTime \in Nat \ {0} /\ MaxLinks \in Nat

VARIABLES
    clock,    \* the time
    minted,   \* tickets made so far: they are numbered in the order of their making
    tickets,  \* FileServer.tickets: when each of them runs out
    served,   \* history: how often each ticket was redeemed
    inbox,    \* history: the tickets each browser was told of
    tree,     \* the node at each path
    edits,    \* changes by the desktop so far
    upload,   \* the directory each upload goes to, once it is resolved
    seats,    \* members of the room
    driver,   \* Room.controller: one of the seats, or nobody
    online,   \* sessions whose channel is open
    handing   \* Deliver under way: who is still to be told, and how many were

ticketVars == <<clock, minted, tickets, served>>
treeVars == <<tree, edits, upload>>
roomVars == <<seats, driver, online>>
fileVars == <<ticketVars, treeVars, roomVars, inbox, handing>>

Ids == 1..MaxTickets

-----------------------------------------------------------------------------
(***************************************************************************)
(* The tree.                                                               *)
(***************************************************************************)

Kinds == {"none", "file", "dir", "link"}
Nodes == [kind : Kinds, to : Paths]
Plain(kind) == [kind |-> kind, to |-> <<>>]

Parent(p) == SubSeq(p, 1, Len(p) - 1)

\* Not a path of the tree.
Nowhere == <<"nowhere">>

\* The root is a directory and not reached through a link (the daemon's own home).
ASSUME TreesStand ==
    /\ Nowhere \notin Paths
    /\ \A t \in Trees : t \in [Paths -> Nodes] /\ t[Root].kind = "dir"
    /\ Puts \subseteq Nodes

Last(p) == p[Len(p)]
Below(p, q) == Len(p) <= Len(q) /\ SubSeq(q, 1, Len(p)) = p
Is(p, kind) == p \in Paths /\ tree[p].kind = kind
Exists(p) == p \in Paths /\ tree[p].kind # "none"

\* withinRoot
Inside(p) == Below(Root, p)

\* The paths a request can name: filepath.Clean leaves no way up.
Named == {p \in Paths : Inside(p)}

\* filepath.EvalSymlinks: links along the way and at the end are followed.
Real[n \in 0..MaxLinks, p \in Paths] ==
    IF p = <<>> THEN <<>>
    ELSE LET d == Real[n, Parent(p)]
             q == Append(d, Last(p))
         IN  IF d = Nowhere \/ ~ Exists(q) THEN Nowhere
             ELSE IF tree[q].kind # "link" THEN q
             ELSE IF n = 0 THEN Nowhere ELSE Real[n - 1, tree[q].to]

Follows(p) == Real[MaxLinks, p]

\* resolve, and what a system call that does not follow the last name makes of
\* its answer: a path that leads nowhere stands for its last name in the
\* directory it would be in.
\* Slip: what does not exist yet needs no look at where it would be.
ResolvedByParent(p) ==
    IF Follows(p) # Nowhere THEN (IF Follows(p) \in Named THEN Follows(p) ELSE Nowhere)
    ELSE IF p # Root /\ Follows(Parent(p)) # Nowhere THEN Append(Follows(Parent(p)), Last(p))
    ELSE Nowhere

Resolved(p) ==
    IF Follows(p) # Nowhere THEN (IF Follows(p) \in Named THEN Follows(p) ELSE Nowhere)
    ELSE IF p # Root /\ Follows(Parent(p)) \in Named
         THEN Append(Follows(Parent(p)), Last(p))
    ELSE Nowhere

\* A new name can go there.
Free(q) == q \in Paths /\ q # <<>> /\ Is(Parent(q), "dir")

\* handleOp, "mkdir": os.MkdirAll. A name that is taken is left alone.
Mkdir(p) ==
    LET q == Resolved(p) IN
    /\ Free(q) /\ Is(q, "none")
    /\ tree' = [tree EXCEPT ![q] = Plain("dir")]

Without(q) == [x \in Paths |-> IF Below(q, x) THEN Plain("none") ELSE tree[x]]

\* handleOp, "delete": os.RemoveAll of anything but the root.
Delete(p) ==
    /\ Resolved(p) # Root /\ Exists(Resolved(p))
    /\ tree' = Without(Resolved(p))

\* q with the tree below s moved to d.
Onto(s, d, x) == d \o SubSeq(x, Len(s) + 1, Len(x))
Moved(s, d) ==
    [x \in Paths |-> IF \E y \in Paths : Below(s, y) /\ Onto(s, d, y) = x
                     THEN tree[CHOOSE y \in Paths : Below(s, y) /\ Onto(s, d, y) = x]
                     ELSE IF Below(s, x) \/ Below(d, x) THEN Plain("none") ELSE tree[x]]

\* handleOp, "rename": os.Rename does not replace a directory, nor a file by one,
\* and does not move a directory into itself.
Rename(p, to) ==
    LET s == Resolved(p)
        d == Resolved(to)
    IN
    /\ Exists(s) /\ Free(d) /\ s # d /\ ~ Below(s, d)
    /\ ~ Is(d, "dir") /\ (Is(s, "dir") => Is(d, "none"))
    /\ \A x \in Paths : Below(s, x) /\ Exists(x) => Onto(s, d, x) \in Paths
    /\ tree' = Moved(s, d)

\* handleUpload: the directory is resolved before the body has come in.
StartUpload(u, p) ==
    /\ upload[u] = Nowhere /\ Is(Resolved(p), "dir")
    /\ upload' = [upload EXCEPT ![u] = Resolved(p)]
    /\ UNCHANGED <<tree, edits>>

\* Where os.Create makes p: a link at the end is followed, also to what does not
\* exist yet.
Created[n \in 0..MaxLinks, p \in Paths] ==
    IF p = <<>> \/ Real[n, Parent(p)] = Nowhere THEN Nowhere
    ELSE LET q == Append(Real[n, Parent(p)], Last(p))
         IN  IF ~ Is(q, "link") THEN q
             ELSE IF n = 0 THEN Nowhere ELSE Created[n - 1, tree[q].to]

\* One of its files; the name is its last part only (filepath.Base).
PutFile(u, name) ==
    LET p == Append(upload[u], name)
        q == IF p \in Paths THEN Created[MaxLinks, p] ELSE Nowhere
    IN  /\ upload[u] # Nowhere
        /\ Free(q) /\ tree[q].kind \in {"none", "file"}
        /\ tree' = [tree EXCEPT ![q] = Plain("file")]
        /\ UNCHANGED <<edits, upload>>

\* All are written, or one could not be.
EndUpload(u) ==
    /\ upload[u] # Nowhere
    /\ upload' = [upload EXCEPT ![u] = Nowhere]
    /\ UNCHANGED <<tree, edits>>

FileNames == {Last(p) : p \in Named \ {Root}}

\* The desktop's own programs make and remove what they like below the root, at
\* any time.
DesktopPuts(p, node) ==
    /\ edits < MaxEdits /\ edits' = edits + 1
    /\ p # Root /\ Is(Parent(p), "dir") /\ Is(p, "none")
    /\ tree' = [tree EXCEPT ![p] = node]
    /\ UNCHANGED upload

DesktopRemoves(p) ==
    /\ edits < MaxEdits /\ edits' = edits + 1
    /\ p # Root /\ Exists(p)
    /\ tree' = Without(p)
    /\ UNCHANGED upload

Operation(p) == (Mkdir(p) \/ Delete(p) \/ \E to \in Named : Rename(p, to)) /\ UNCHANGED <<edits, upload>>

TreeNext ==
    /\ \/ \E p \in Named : \/ Operation(p) \/ DesktopRemoves(p)
                           \/ \E node \in Puts : DesktopPuts(p, node)
       \/ \E u \in Uploads : \/ EndUpload(u)
                             \/ \E p \in Named : StartUpload(u, p)
                             \/ \E name \in FileNames : PutFile(u, name)
    /\ UNCHANGED <<ticketVars, roomVars, inbox, handing>>

-----------------------------------------------------------------------------
(***************************************************************************)
(* Tickets.                                                                *)
(***************************************************************************)

Live == {n \in Ids : tickets[n] # 0}
Expired(n) == clock > tickets[n]

\* newTicket: 0 is no entry in the map. Times begin at 1.
Mint ==
    /\ minted < MaxTickets
    /\ minted' = minted + 1
    /\ tickets' = [n \in Ids |-> IF n = minted' THEN clock + TicketTTL
                                 ELSE IF n \in Live /\ Expired(n) THEN 0 ELSE tickets[n]]
    /\ UNCHANGED <<clock, served>>

\* handleTicket
AskTicket ==
    /\ \E p \in Named : Exists(Resolved(p))
    /\ Mint
    /\ UNCHANGED <<treeVars, roomVars, inbox, handing>>

\* claimTicket.
\* Slip: only a ticket that has run out is taken out of the map.
ClaimKeeps(n) ==
    /\ n \in Live
    /\ tickets' = IF Expired(n) THEN [tickets EXCEPT ![n] = 0] ELSE tickets
    /\ served' = IF Expired(n) THEN served ELSE [served EXCEPT ![n] = @ + 1]
    /\ UNCHANGED <<clock, minted>>

Claim(n) ==
    /\ n \in Live
    /\ tickets' = [tickets EXCEPT ![n] = 0]
    /\ served' = IF Expired(n) THEN served ELSE [served EXCEPT ![n] = @ + 1]
    /\ UNCHANGED <<clock, minted>>

\* handleDownload, by whoever has the number; what is at the path by then is sent.
Download(n) == Claim(n) /\ UNCHANGED <<treeVars, roomVars, inbox, handing>>

Wait ==
    /\ clock < LastTime
    /\ clock' = clock + 1
    /\ UNCHANGED <<minted, tickets, served, treeVars, roomVars, inbox, handing>>

-----------------------------------------------------------------------------
(***************************************************************************)
(* Delivery.                                                               *)
(***************************************************************************)

Nobody == "nobody"
Members == Browsers \cup {Agent}

\* The room moves on: somebody comes, goes, takes or frees the controls, or a
\* channel opens or breaks.
RoomMoves ==
    /\ \/ \E m \in Members \ seats : seats' = seats \cup {m} /\ UNCHANGED <<driver, online>>
       \/ \E m \in seats :
            /\ seats' = seats \ {m} /\ online' = online \ {m}
            /\ driver' = IF driver = m THEN Nobody ELSE driver
       \/ \E m \in seats \cup {Nobody} : driver' = m /\ UNCHANGED <<seats, online>>
       \/ \E m \in seats \cap Browsers : online' \in {online \cup {m}, online \ {m}} /\ UNCHANGED <<seats, driver>>
    /\ UNCHANGED <<ticketVars, treeVars, inbox, handing>>

Idle == [todo |-> {}, sent |-> 0, of |-> 0]

\* Deliver, with the room locked: a person at the controls asked for the file;
\* otherwise it is for everybody who has a browser.
Targets == {m \in seats \cap Browsers : driver \in {Nobody, Agent} \/ driver = m}

StartDelivery ==
    /\ handing.todo = {}
    /\ handing' = [todo |-> Targets, sent |-> 0, of |-> Cardinality(Targets)]
    /\ UNCHANGED <<ticketVars, treeVars, roomVars, inbox>>

\* One recipient: a ticket, and the message if the channel is open.
Hand(m) ==
    /\ m \in handing.todo
    /\ handing' = [handing EXCEPT !.todo = @ \ {m}, !.sent = @ + 1]
    /\ Mint
    /\ inbox' = IF m \in online THEN [inbox EXCEPT ![m] = @ \cup {minted'}] ELSE inbox
    /\ UNCHANGED <<treeVars, roomVars>>

TicketNext ==
    \/ AskTicket
    \/ \E n \in Ids : Download(n)
    \/ Wait
    \/ RoomMoves
    \/ StartDelivery
    \/ \E m \in Browsers : Hand(m)

FileInit ==
    /\ clock = 1 /\ minted = 0
    /\ tickets = [n \in Ids |-> 0] /\ served = [n \in Ids |-> 0]
    /\ inbox = [m \in Browsers |-> {}]
    /\ tree \in Trees /\ edits = 0 /\ upload = [u \in Uploads |-> Nowhere]
    /\ seats = {} /\ driver = Nobody /\ online = {}
    /\ handing = Idle

FileNext == TreeNext \/ TicketNext

FileSpec == FileInit /\ [][FileNext]_fileVars

-----------------------------------------------------------------------------
(***************************************************************************)
(* Properties.                                                             *)
(***************************************************************************)

FileTypeOK ==
    /\ clock \in 1..LastTime /\ minted \in 0..MaxTickets
    /\ tickets \in [Ids -> 0..LastTime + TicketTTL]
    /\ served \in [Ids -> Nat]
    /\ inbox \in [Browsers -> SUBSET Ids]
    /\ tree \in [Paths -> Nodes]
    /\ edits \in 0..MaxEdits /\ upload \in [Uploads -> Paths \cup {Nowhere}]
    /\ seats \subseteq Members /\ driver \in seats \cup {Nobody} /\ online \subseteq seats
    /\ handing \in [todo : SUBSET Browsers, sent : Nat, of : Nat]
    /\ handing.sent + Cardinality(handing.todo) = handing.of

\* A ticket is good for one download and for one browser: of all the requests
\* that carry its number one is served, and no other browser was told of it. One
\* that has not been minted, or that was spent, is not in the map.  (So a
\* download that broke off is not resumed: ResumableDownloads below.)
OneDownloadEach ==
    \A n \in Ids :
        /\ served[n] <= 1
        /\ n \in Live => served[n] = 0 /\ n <= minted
        /\ Cardinality({m \in Browsers : n \in inbox[m]}) <= 1

\* A link stands on the way to p, or at it.
ThroughLink(p) == \E q \in Paths : Below(q, p) /\ Is(q, "link")

\* The server keeps below its root, whatever links lead out of it and whatever
\* the desktop does between two steps: nothing else is made, moved, replaced or
\* deleted, and the root stays, also when a link is what names it.  Only an
\* upload goes elsewhere: when a link stands at the name of its file, or has come
\* in place of its directory since that was resolved.
KeepsBelowRoot ==
    [][/\ Is(Root, "dir")'
       /\ \A x \in Paths : tree'[x] # tree[x] /\ ~ Inside(x) =>
              \E u \in Uploads, name \in FileNames :
                  PutFile(u, name) /\ ThroughLink(Append(upload[u], name))]_fileVars

(***************************************************************************)
(* What the comments say and the code does not do.                         *)
(***************************************************************************)

\* handleDownload: ServeContent "lets an interrupted download resume". The next
\* request carries the number of a ticket that the first has spent: as an
\* invariant of the run gate it is violated.
ResumableDownloads == \A n \in Ids : served[n] > 0 => n \in Live

\* resolve: "confined to the root". As a property of the run gate it is violated
\* by an upload through a link.
AlwaysBelowRoot == [][\A x \in Paths : tree'[x] # tree[x] => Inside(x)]_fileVars
=============================================================================
