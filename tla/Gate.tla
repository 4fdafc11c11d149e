-------------------------------- MODULE Gate --------------------------------
(***************************************************************************)
(* Who gets as far as the desktop: the limiter per origin (IPGate in       *)
(* internal/stream/ratelimit.go), the /ws handler in front of it           *)
(* (cmd/sentineldesk/main.go), the login over the socket                   *)
(* (Session.authenticate) and its session tokens (auth.go).                *)
(*                                                                         *)
(* Each method of IPGate is one critical section and so one action; a      *)
(* visit goes through several, with anything in between: the token taken   *)
(* at the door, the ban looked up once the socket is open, the verdict on  *)
(* its first frame.  The look at the ban before the token is left out:     *)
(* Take repeats it.                                                        *)
(*                                                                         *)
(* The unit of time is what one token takes (1/gateRate).  An origin is    *)
(* already reduced by GateKey.  A session token is its expiry: nobody      *)
(* forges a signature.                                                     *)
(***************************************************************************)
EXTENDS Naturals, FiniteSets

CONSTANTS
    Origins,     \* keys of the limiter
    Shared,      \* the overflow bucket
    Visits,      \* connections to /ws
    Burst,       \* gateBurst
    BanAfter,    \* gateBanAfter
    BanFirst,    \* gateBanFirst
    BanMax,      \* gateBanMax
    MaxKeys,     \* gateMaxKeys
    SweepEvery,  \* gateSweepEvery
    TokenTTL,    \* Auth.ttl
    AuthEnabled, \* Auth.enabled
    Watched,     \* the buckets somebody counts tokens of
    Strides,     \* by how much time may advance at once
    MaxTime      \* bound: the end of time

ASSUME GateConstants ==
    /\ Shared \notin Origins
    /\ Burst \in Nat /\ BanAfter \in Nat \ {0}
    /\ BanFirst \in Nat \ {0} /\ BanMax \in Nat /\ BanFirst <= BanMax
    /\ MaxKeys \in Nat /\ SweepEvery \in Nat /\ TokenTTL \in Nat /\ MaxTime \in Nat
    /\ AuthEnabled \in BOOLEAN /\ Watched \subseteq Origins \cup {Shared}
    /\ Strides \in SUBSET (Nat \ {0})
    /\ IsFiniteSet(Origins)

\* gateEntryTTL
EntryTTL == 2 * BanMax

\* An entry that has been idle for so long has its burst back.
ASSUME BurstBackInTime == Burst <= EntryTTL

Buckets == Origins \cup {Shared}

VARIABLES
    now,      \* the clock
    known,    \* the keys of IPGate.entries
    entry,    \* IPGate.entries and IPGate.overflow
    lastKeep, \* IPGate.lastKeep
    visit,    \* how far each connection has come
    sentence, \* history: how long the last ban of each origin was, 0 for none
    ends,     \* history: when it ends
    since,    \* history: the start of the window each bucket is watched for
    spent     \* history: tokens taken from it since then

gateVars == <<now, known, entry, lastKeep, visit, sentence, ends, since, spent>>

Smaller(a, b) == IF a < b THEN a ELSE b

\* A new ipEntry.
Fresh == [tokens |-> Burst, refill |-> now, seen |-> now, fails |-> 0, banUntil |-> 0, banFor |-> 0]

Blank == [tokens |-> Burst, refill |-> 0, seen |-> 0, fails |-> 0, banUntil |-> 0, banFor |-> 0]

Serving(e) == now < e.banUntil

\* IPGate.Banned
Banned(o) == o \in known /\ Serving(entry[o])

-----------------------------------------------------------------------------
(***************************************************************************)
(* The limiter.                                                            *)
(***************************************************************************)

\* sweepLocked.
Stale(e) == ~ Serving(e) /\ now - e.seen > EntryTTL

SweepDue == now - lastKeep >= SweepEvery

Kept == IF SweepDue THEN {o \in known : ~ Stale(entry[o])} ELSE known

Keeps == lastKeep' = IF SweepDue THEN now ELSE lastKeep

\* takeFrom: what has trickled in since the last time, up to a full bucket.
\* Slip: the bucket has no bottom to its memory, an idle origin saves up tokens.
FilledUncapped(e) == [e EXCEPT !.tokens = @ + (now - e.refill), !.refill = now, !.seen = now]

Filled(e) ==
    [e EXCEPT !.tokens = Smaller(Burst, @ + (now - e.refill)), !.refill = now, !.seen = now]

\* The entry that Take and Fail find under o, where there is room for one.
Found(o) == IF o \in Kept THEN entry[o] ELSE Fresh

\* Slip: a full ledger makes room for whoever comes.
WithKeyMakesRoom(o) == IF o \in Kept \/ Cardinality(Kept) < MaxKeys THEN Kept \cup {o} ELSE {o}

\* Kept with o in it, unless the ledger is full.
WithKey(o) == IF o \in Kept \/ Cardinality(Kept) < MaxKeys THEN Kept \cup {o} ELSE Kept

\* What the sweep dropped is as if it had never been there.
Swept(changed) ==
    [b \in Buckets |-> IF b \in DOMAIN changed THEN changed[b]
                       ELSE IF b \in known \ Kept THEN Blank ELSE entry[b]]

Move(v, pc) == visit' = [visit EXCEPT ![v].pc = pc]

\* A token out of bucket b, or none there.
Spend(v, b, e) ==
    /\ entry' = Swept([x \in {b} |-> IF e.tokens < 1 THEN e ELSE [e EXCEPT !.tokens = @ - 1]])
    /\ Move(v, IF e.tokens < 1 THEN "away" ELSE "open")
    /\ spent' = IF e.tokens < 1 THEN spent ELSE [spent EXCEPT ![b] = @ + 1]

\* The /ws handler: IPGate.Take.
Take(v) ==
    LET o == visit[v].origin IN
    /\ visit[v].pc = "away"
    /\ known' = WithKey(o)
    /\ Keeps
    /\ \/ o \in WithKey(o) /\ Serving(Found(o))
          /\ entry' = Swept([x \in {o} |-> [Found(o) EXCEPT !.seen = now]])
          /\ Move(v, "away")
          /\ UNCHANGED spent
       \/ o \in WithKey(o) /\ ~ Serving(Found(o)) /\ Spend(v, o, Filled(Found(o)))
       \/ o \notin WithKey(o) /\ Spend(v, Shared, Filled(entry[Shared]))
    /\ UNCHANGED <<now, sentence, ends, since>>

\* How long the next ban of an entry is.
NextBan(e) == IF e.banFor = 0 THEN BanFirst ELSE Smaller(2 * e.banFor, BanMax)

Failed(e) ==
    IF e.fails + 1 < BanAfter THEN [e EXCEPT !.seen = now, !.fails = @ + 1]
    ELSE [e EXCEPT !.seen = now, !.fails = 0, !.banFor = NextBan(e), !.banUntil = now + NextBan(e)]

\* IPGate.Fail: with no room in the ledger nothing is recorded.
Fail(v) ==
    LET o == visit[v].origin
        e == Failed(Found(o))
        banned == o \in WithKey(o) /\ Found(o).fails + 1 >= BanAfter
    IN
    /\ visit[v].pc = "wrong"
    /\ Move(v, "away")
    /\ known' = WithKey(o)
    /\ Keeps
    /\ entry' = Swept([x \in WithKey(o) \cap {o} |-> e])
    /\ sentence' = IF banned THEN [sentence EXCEPT ![o] = e.banFor] ELSE sentence
    /\ ends' = IF banned THEN [ends EXCEPT ![o] = e.banUntil] ELSE ends
    /\ UNCHANGED <<now, since, spent>>

\* IPGate.pass. The session goes on in the room; the next connection may come.
Pass(v) ==
    LET o == visit[v].origin IN
    /\ visit[v].pc = "right"
    /\ Move(v, "away")
    /\ entry' = IF o \in known
                THEN [entry EXCEPT ![o].fails = 0, ![o].banUntil = 0, ![o].seen = now]
                ELSE entry
    /\ UNCHANGED <<now, known, lastKeep, sentence, ends, since, spent>>

-----------------------------------------------------------------------------
(***************************************************************************)
(* A visit.                                                                *)
(***************************************************************************)

\* The first frame. A token is the time it runs out, one lifetime after it was
\* signed: the secret may outlive the process that signed it.
Frames ==
    [kind : {"other", "password", "wrong"}, exp : {0}]
      \cup [kind : {"token"}, exp : {t + TokenTTL : t \in 0..now}]

\* ValidToken, ValidCredentials
Accepts(f) ==
    \/ ~ AuthEnabled
    \/ f.kind = "password"
    \/ f.kind = "token" /\ now < f.exp

GateInit ==
    /\ now = 0 /\ known = {} /\ lastKeep = 0
    /\ entry = [b \in Buckets |-> Blank]
    /\ visit \in [Visits -> [pc : {"away"}, origin : Origins]]
    /\ sentence = [o \in Origins |-> 0] /\ ends = [o \in Origins |-> 0]
    /\ since = [b \in Buckets |-> 0] /\ spent = [b \in Buckets |-> 0]

VisitOnly == UNCHANGED <<now, known, entry, lastKeep, sentence, ends, since, spent>>

\* authenticate, on an open socket: the upgrade may fail, or a ban have landed.
Open(v) ==
    /\ visit[v].pc = "open"
    /\ \/ Move(v, "away")
       \/ ~ Banned(visit[v].origin) /\ Move(v, "reading")
    /\ VisitOnly

\* Its verdict on the first frame: silence ends the connection, and a frame that
\* is no login counts as a failure like a wrong one.
Judge(v) ==
    /\ visit[v].pc = "reading"
    /\ \/ Move(v, "away")
       \/ \E f \in Frames :
            Move(v, IF f.kind # "other" /\ Accepts(f) THEN "right" ELSE "wrong")
    /\ VisitOnly

Tick(d) ==
    /\ now + d <= MaxTime
    /\ now' = now + d
    /\ UNCHANGED <<known, entry, lastKeep, visit, sentence, ends, since, spent>>

\* Somebody starts to count what bucket b lets through.
Observe(b) ==
    /\ since' = [since EXCEPT ![b] = now]
    /\ spent' = [spent EXCEPT ![b] = 0]
    /\ UNCHANGED <<now, known, entry, lastKeep, visit, sentence, ends>>

GateNext ==
    \/ \E v \in Visits : Take(v) \/ Open(v) \/ Judge(v) \/ Fail(v) \/ Pass(v)
    \/ \E d \in Strides : Tick(d)
    \/ \E b \in Watched : Observe(b)

GateSpec == GateInit /\ [][GateNext]_gateVars

-----------------------------------------------------------------------------
(***************************************************************************)
(* Properties.                                                             *)
(***************************************************************************)

EntryState ==
    [tokens : 0..Burst, refill : Nat, seen : Nat, fails : 0..BanAfter - 1, banUntil : Nat,
     banFor : {0} \cup BanFirst..BanMax]

VisitState == [pc : {"away", "open", "reading", "wrong", "right"}, origin : Origins]

\* The ledger never holds more keys than it may, and a bucket no more than a burst.
GateTypeOK ==
    /\ now \in Nat /\ lastKeep \in 0..now
    /\ known \subseteq Origins /\ Cardinality(known) <= MaxKeys
    /\ entry \in [Buckets -> EntryState]
    /\ \A b \in Buckets : entry[b].refill <= now /\ entry[b].seen <= now
    /\ visit \in [Visits -> VisitState]
    /\ sentence \in [Origins -> {0} \cup BanFirst..BanMax]
    /\ ends \in [Origins -> Nat]
    /\ since \in [Buckets -> Nat] /\ spent \in [Buckets -> Nat]
    /\ \A b \in Buckets : since[b] <= now

LetsIn(o) == \E v \in Visits : visit[v].pc = "right" /\ visit'[v].pc # "right" /\ visit[v].origin = o

\* No sweep, no further failure and no full ledger shortens a ban that is being
\* served or lifts it: only a login that succeeds does. And whoever comes back
\* before a good while has passed gets twice the last ban, however the entry was
\* swept, refilled or cleared since: the time to live "must exceed gateBanMax, or
\* the sweep would quietly pardon a repeat offender at exactly the moment their
\* ban runs out", and "getting in once must not make the next round of guessing
\* cheaper".
BansStandAndGrow ==
    [][\A o \in Origins :
         /\ Banned(o) => \/ o \in known' /\ entry'[o].banUntil >= entry[o].banUntil
                         \/ LetsIn(o)
         /\ ends'[o] # ends[o] /\ sentence[o] # 0 /\ now <= ends[o] + (EntryTTL - BanMax)
              => sentence'[o] = Smaller(2 * sentence[o], BanMax)]_gateVars

\* In any stretch of time a bucket lets through no more than one burst and what
\* trickles in meanwhile, also when its entry is swept and made anew.
OneBurstAndTheTrickle == \A b \in Buckets : spent[b] <= Burst + (now - since[b])
=============================================================================
