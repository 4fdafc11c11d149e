----------------------------- MODULE GateProofs -----------------------------
(***************************************************************************)
(* Proofs about what pages and files go through, for any number of         *)
(* origins, connections, browsers, paths, sessions and calls.              *)
(***************************************************************************)
EXTENDS Gate, FileServer, Feeds, Browser, FiniteSetTheorems, SequenceTheorems, TLAPS

-----------------------------------------------------------------------------
(***************************************************************************)
(* The limiter.                                                            *)
(***************************************************************************)

\* What takeFrom would find in bucket b; a key that is not there has a full one.
Level(b) ==
    IF b \in known \cup {Shared} THEN Smaller(Burst, entry[b].tokens + (now - entry[b].refill))
    ELSE Burst

\* What a bucket let through it no longer has.
Accounts == \A b \in Buckets : spent[b] + Level(b) <= Burst + (now - since[b])

\* Whoever refills a bucket sees its entry, and a ban began when it was seen.
EntriesFit ==
    \A b \in Buckets :
        /\ entry[b].refill <= entry[b].seen
        /\ entry[b].banUntil <= entry[b].seen + entry[b].banFor

\* A ban is remembered for as long as it counts.
Remembered ==
    \A o \in Origins :
        sentence[o] # 0 /\ now <= ends[o] + BanMax =>
            /\ o \in known
            /\ entry[o].banFor = sentence[o]
            /\ ends[o] <= entry[o].seen + BanMax

GateInv == GateTypeOK /\ EntriesFit /\ Accounts /\ Remembered

LEMMA GateStart == GateInit => GateInv
  <1> SUFFICES ASSUME GateInit PROVE GateInv
    OBVIOUS
  <1> USE GateConstants DEF GateInit, Buckets
  <1>1. Cardinality({}) = 0
    BY FS_EmptySet
  <1>2. Blank \in EntryState
    BY DEF Blank, EntryState
  <1>3. Blank.tokens = Burst /\ Blank.refill = 0 /\ Blank.seen = 0 /\ Blank.banUntil = 0 /\ Blank.banFor = 0
    BY DEF Blank
  <1>4. GateTypeOK
    BY <1>1, <1>2, <1>3 DEF GateTypeOK, VisitState
  <1>5. EntriesFit
    BY <1>3 DEF EntriesFit
  <1>6. Accounts
    BY <1>3 DEF Accounts, Level, Smaller
  <1>7. Remembered
    BY DEF Remembered
  <1> QED
    BY <1>4, <1>5, <1>6, <1>7 DEF GateInv

\* What Take and Fail leave in the place of each entry.
LEMMA SweptAt ==
    ASSUME GateInv, NEW b \in Buckets, NEW e \in EntryState, entry' = Swept([x \in {b} |-> e])
    PROVE  /\ entry' \in [Buckets -> EntryState] /\ entry'[b] = e
           /\ \A c \in Buckets \ {b} : entry'[c] = IF c \in known \ Kept THEN Blank ELSE entry[c]
  <1>1. entry'[b] = e /\ \A c \in Buckets \ {b} : entry'[c] = IF c \in known \ Kept THEN Blank ELSE entry[c]
    BY DEF Swept
  <1>2. entry' = [c \in Buckets |-> entry'[c]]
    BY DEF Swept
  <1>3. Blank \in EntryState
    BY GateConstants DEF Blank, EntryState
  <1>4. \A c \in Buckets : entry'[c] \in EntryState
    BY <1>1, <1>3 DEF GateInv, GateTypeOK
  <1> QED
    BY <1>1, <1>2, <1>4

\* The sweep: nobody banned goes, nor anybody whose bucket is not full again,
\* nor a ban that still counts; and a new key goes where there is room for it.
LEMMA SweepIsSafe ==
    ASSUME GateInv, NEW o \in Origins
    PROVE  /\ Kept \subseteq known /\ Kept \subseteq WithKey(o) /\ WithKey(o) \subseteq Kept \cup {o}
           /\ WithKey(o) \subseteq Origins /\ Cardinality(WithKey(o)) <= MaxKeys
           /\ \A b \in known \ Kept : ~ Serving(entry[b]) /\ Level(b) = Burst
           /\ \A b \in known \ Kept : sentence[b] = 0 \/ now > ends[b] + BanMax
  <1> USE GateConstants DEF GateInv, GateTypeOK
  <1>1. Kept \subseteq known /\ \A b \in known \ Kept : Stale(entry[b])
    BY DEF Kept
  <1>2. Kept \subseteq WithKey(o) /\ WithKey(o) \subseteq Kept \cup {o} /\ WithKey(o) \subseteq Origins
    BY <1>1 DEF WithKey
  <1>3. Cardinality(WithKey(o)) <= MaxKeys
    <2>1. IsFiniteSet(known) /\ IsFiniteSet(Kept) /\ Cardinality(Kept) <= Cardinality(known)
          /\ Cardinality(Kept) \in Nat /\ Cardinality(known) \in Nat
      BY <1>1, FS_Subset, FS_CardinalityType
    <2>2. CASE o \in Kept
      <3>1. WithKey(o) = Kept
        BY <2>2 DEF WithKey
      <3> QED
        BY <2>1, <3>1
    <2>3. CASE o \notin Kept
      <3>1. Cardinality(Kept \cup {o}) = Cardinality(Kept) + 1
        BY <2>1, <2>3, FS_AddElement
      <3> QED
        BY <2>1, <2>3, <3>1 DEF WithKey
    <2> QED
      BY <2>2, <2>3
  <1>4. ASSUME NEW b \in known \ Kept
        PROVE  /\ ~ Serving(entry[b]) /\ Level(b) = Burst
               /\ sentence[b] = 0 \/ now > ends[b] + BanMax
    <2>1. b \in Buckets /\ b \in Origins /\ entry[b] \in EntryState /\ entry[b].refill <= entry[b].seen
          /\ entry[b].seen <= now
      BY DEF Buckets, EntriesFit
    <2>2. entry[b].tokens \in Nat /\ entry[b].refill \in Nat /\ entry[b].seen \in Nat
      BY <2>1 DEF EntryState
    <2>3. ~ Serving(entry[b]) /\ now - entry[b].seen > 2 * BanMax
      BY <1>1 DEF Stale, EntryTTL
    <2>4. Level(b) = Burst
      BY <2>2, <2>1, <2>3, BurstBackInTime DEF Level, Smaller, EntryTTL
    <2>5. sentence[b] = 0 \/ now > ends[b] + BanMax
      BY <2>1, <2>2, <2>3 DEF Remembered
    <2> QED
      BY <2>3, <2>4, <2>5
  <1> QED
    BY <1>1, <1>2, <1>3, <1>4

\* A key that is not there yet gets an entry with a full bucket and no past.
LEMMA FoundIs ==
    ASSUME GateInv, NEW o \in Origins
    PROVE  /\ Found(o) \in EntryState
           /\ Found(o).refill <= Found(o).seen /\ Found(o).seen <= now
           /\ Found(o).banUntil <= now + Found(o).banFor
           /\ Smaller(Burst, Found(o).tokens + (now - Found(o).refill)) = Level(o)
           /\ o \in Kept => Found(o) = entry[o]
           /\ sentence[o] # 0 /\ now <= ends[o] + BanMax => o \in Kept
  <1> USE GateConstants DEF GateInv, GateTypeOK
  <1>1. CASE o \in Kept
    <2>1. o \in known /\ o \in Buckets /\ Found(o) = entry[o]
      BY <1>1, SweepIsSafe DEF Found, Buckets
    <2>2. entry[o] \in EntryState /\ entry[o].seen <= now /\ entry[o].refill <= entry[o].seen
          /\ entry[o].banUntil <= entry[o].seen + entry[o].banFor
      BY <2>1 DEF EntriesFit
    <2>3. entry[o].seen \in Nat /\ entry[o].banFor \in Nat /\ entry[o].banUntil \in Nat
      BY <2>2 DEF EntryState
    <2> QED
      BY <1>1, <2>1, <2>2, <2>3 DEF Level
  <1>2. CASE o \notin Kept
    <2>1. Found(o) = Fresh
      BY <1>2 DEF Found
    <2>2. Fresh \in EntryState /\ Fresh.tokens = Burst /\ Fresh.refill = now /\ Fresh.seen = now
          /\ Fresh.banUntil = 0 /\ Fresh.banFor = 0
      BY DEF Fresh, EntryState
    <2>3. Level(o) = Burst
      <3>1. CASE o \in known
        BY <1>2, <3>1, SweepIsSafe
      <3>2. CASE o \notin known
        BY <3>2 DEF Level
      <3> QED
        BY <3>1, <3>2
    <2>4. ~ (sentence[o] # 0 /\ now <= ends[o] + BanMax)
      <3>1. CASE o \in known
        BY <1>2, <3>1, SweepIsSafe
      <3>2. CASE o \notin known
        BY <3>2 DEF Remembered
      <3> QED
        BY <3>1, <3>2
    <2> QED
      BY <1>2, <2>1, <2>2, <2>3, <2>4 DEF Smaller
  <1> QED
    BY <1>1, <1>2

\* takeFrom, and the token it takes.
LEMMA FilledIs ==
    ASSUME now \in Nat, NEW e \in EntryState, e.refill <= now
    PROVE  /\ Filled(e) \in EntryState
           /\ Filled(e).tokens = Smaller(Burst, e.tokens + (now - e.refill))
           /\ Filled(e).refill = now /\ Filled(e).seen = now
           /\ Filled(e).banUntil = e.banUntil /\ Filled(e).banFor = e.banFor
  <1> DEFINE n == Smaller(Burst, e.tokens + (now - e.refill))
  <1>1. n \in 0..Burst
    BY GateConstants DEF EntryState, Smaller
  <1>2. Filled(e) = [e EXCEPT !.tokens = n, !.refill = now, !.seen = now]
    BY DEF Filled
  <1> HIDE DEF n
  <1>3. Filled(e) \in EntryState
    BY <1>1, <1>2 DEF EntryState
  <1>4. Filled(e).tokens = n /\ Filled(e).refill = now /\ Filled(e).seen = now
        /\ Filled(e).banUntil = e.banUntil /\ Filled(e).banFor = e.banFor
    BY <1>2 DEF EntryState
  <1> QED
    BY <1>3, <1>4 DEF n

LEMMA OneLess ==
    ASSUME NEW e \in EntryState, e.tokens >= 1
    PROVE  /\ [e EXCEPT !.tokens = @ - 1] \in EntryState
           /\ [e EXCEPT !.tokens = @ - 1].tokens = e.tokens - 1
           /\ [e EXCEPT !.tokens = @ - 1].refill = e.refill /\ [e EXCEPT !.tokens = @ - 1].seen = e.seen
           /\ [e EXCEPT !.tokens = @ - 1].banUntil = e.banUntil
           /\ [e EXCEPT !.tokens = @ - 1].banFor = e.banFor
  BY GateConstants DEF EntryState

\* Somebody being served looks again.
LEMMA SeenIs ==
    ASSUME now \in Nat, NEW e \in EntryState
    PROVE  /\ [e EXCEPT !.seen = now] \in EntryState
           /\ [e EXCEPT !.seen = now].tokens = e.tokens
           /\ [e EXCEPT !.seen = now].refill = e.refill /\ [e EXCEPT !.seen = now].seen = now
           /\ [e EXCEPT !.seen = now].banUntil = e.banUntil
           /\ [e EXCEPT !.seen = now].banFor = e.banFor
  BY DEF EntryState

\* The slate an accepted login leaves: what is forgiven is the ban, not its length.
LEMMA ForgivenIs ==
    ASSUME now \in Nat, NEW e \in EntryState, NEW d,
           d = [e EXCEPT !.fails = 0, !.banUntil = 0, !.seen = now]
    PROVE  /\ d \in EntryState /\ d.tokens = e.tokens /\ d.refill = e.refill
           /\ d.seen = now /\ d.banUntil = 0 /\ d.banFor = e.banFor
  <1>1. 0 \in 0..BanAfter - 1 /\ 0 \in Nat
    BY GateConstants
  <1>2. d \in EntryState
    BY <1>1 DEF EntryState
  <1>3. d.tokens = e.tokens /\ d.refill = e.refill /\ d.seen = now /\ d.banUntil = 0 /\ d.banFor = e.banFor
    BY DEF EntryState
  <1> QED
    BY <1>2, <1>3

\* The length of the next ban, and the entry it is written into.
LEMMA NextBanIs ==
    ASSUME NEW e \in EntryState
    PROVE  /\ NextBan(e) \in BanFirst..BanMax /\ e.banFor <= NextBan(e)
           /\ e.banFor # 0 => NextBan(e) = Smaller(2 * e.banFor, BanMax)
  BY GateConstants DEF EntryState, NextBan, Smaller

LEMMA FailedIs ==
    ASSUME now \in Nat, NEW e \in EntryState
    PROVE  /\ Failed(e) \in EntryState
           /\ Failed(e).tokens = e.tokens /\ Failed(e).refill = e.refill /\ Failed(e).seen = now
           /\ e.fails + 1 < BanAfter => Failed(e).banUntil = e.banUntil /\ Failed(e).banFor = e.banFor
           /\ e.fails + 1 >= BanAfter => Failed(e).banUntil = now + NextBan(e) /\ Failed(e).banFor = NextBan(e)
  <1>1. NextBan(e) \in BanFirst..BanMax /\ now + NextBan(e) \in Nat
    BY NextBanIs, GateConstants
  <1>2. e.fails \in 0..BanAfter - 1 /\ 0 \in 0..BanAfter - 1
    BY GateConstants DEF EntryState
  <1>3. CASE e.fails + 1 < BanAfter
    <2>1. e.fails + 1 \in 0..BanAfter - 1
      BY <1>2, <1>3, GateConstants
    <2>2. Failed(e) = [e EXCEPT !.seen = now, !.fails = e.fails + 1]
      BY <1>3 DEF Failed
    <2>3. Failed(e) \in EntryState
      BY <2>1, <2>2 DEF EntryState
    <2>4. Failed(e).tokens = e.tokens /\ Failed(e).refill = e.refill /\ Failed(e).seen = now
          /\ Failed(e).banUntil = e.banUntil /\ Failed(e).banFor = e.banFor
      BY <2>2 DEF EntryState
    <2> QED
      BY <1>2, <1>3, <2>3, <2>4, GateConstants
  <1>4. CASE ~ (e.fails + 1 < BanAfter)
    <2> DEFINE n == NextBan(e)
               t == now + NextBan(e)
    <2>1. n \in {0} \cup BanFirst..BanMax /\ t \in Nat
      BY <1>1
    <2>2. Failed(e) = [e EXCEPT !.seen = now, !.fails = 0, !.banFor = n, !.banUntil = t]
      BY <1>4 DEF Failed
    <2> HIDE DEF n, t
    <2>3. Failed(e) \in EntryState
      BY <1>2, <2>1, <2>2 DEF EntryState
    <2>4. Failed(e).tokens = e.tokens /\ Failed(e).refill = e.refill /\ Failed(e).seen = now
          /\ Failed(e).banUntil = t /\ Failed(e).banFor = n
      BY <2>2 DEF EntryState
    <2> QED
      BY <1>2, <1>4, <2>3, <2>4, GateConstants DEF n, t
  <1> QED
    BY <1>3, <1>4

\* The keys that Take and Fail do not write lose nothing by the sweep and by the
\* new key.
LEMMA OthersStay ==
    ASSUME GateInv, NEW o \in Origins, known' = WithKey(o), UNCHANGED now, NEW b \in Buckets,
           \A c \in Buckets \ {b} : entry'[c] = IF c \in known \ Kept THEN Blank ELSE entry[c],
           o \in WithKey(o) => o \in Kept \/ o = b
    PROVE  /\ \A c \in Buckets \ {b} :
                /\ Level(c)' = Level(c)
                /\ entry'[c].refill <= entry'[c].seen /\ entry'[c].seen <= now
                /\ entry'[c].banUntil <= entry'[c].seen + entry'[c].banFor
           /\ \A c \in Origins \ {b} :
                sentence[c] # 0 /\ now <= ends[c] + BanMax =>
                    /\ c \in known'
                    /\ entry'[c].banFor = sentence[c]
                    /\ ends[c] <= entry'[c].seen + BanMax
  <1>1. Blank.refill = 0 /\ Blank.seen = 0 /\ Blank.banUntil = 0 /\ Blank.banFor = 0 /\ now \in Nat
    BY DEF Blank, GateInv, GateTypeOK
  <1>2. ASSUME NEW c \in Buckets \ {b}
        PROVE  /\ Level(c)' = Level(c)
               /\ entry'[c].refill <= entry'[c].seen /\ entry'[c].seen <= now
               /\ entry'[c].banUntil <= entry'[c].seen + entry'[c].banFor
    <2>1. CASE c \in known \ Kept
      <3>1. c \notin known' /\ c # Shared /\ entry'[c] = Blank /\ Level(c) = Burst
        BY <2>1, SweepIsSafe, GateConstants DEF GateInv, GateTypeOK
      <3> QED
        BY <1>1, <3>1 DEF Level
    <2>2. CASE c \notin known \ Kept
      <3>1. entry'[c] = entry[c]
        BY <2>2
      <3>2. c \in known' <=> c \in known
        BY <2>2, SweepIsSafe
      <3> QED
        BY <3>1, <3>2 DEF Level, EntriesFit, GateInv, GateTypeOK
    <2> QED
      BY <2>1, <2>2
  <1>3. ASSUME NEW c \in Origins \ {b}, sentence[c] # 0, now <= ends[c] + BanMax
        PROVE  c \in known' /\ entry'[c].banFor = sentence[c] /\ ends[c] <= entry'[c].seen + BanMax
    <2>1. c \in Kept /\ c \in known'
      BY <1>3, FoundIs, SweepIsSafe
    <2>2. entry'[c] = entry[c]
      BY <2>1 DEF Buckets
    <2> QED
      BY <1>3, <2>1, <2>2, SweepIsSafe DEF Remembered, GateInv
  <1> QED
    BY <1>2, <1>3

LEMMA KeepsInTime ==
    ASSUME GateInv, Keeps, UNCHANGED now
    PROVE  lastKeep' \in 0..now'
  BY DEF GateInv, GateTypeOK, Keeps

LEMMA VisitGoes ==
    ASSUME GateInv, NEW v \in Visits, NEW pc \in {"away", "open", "reading", "wrong", "right"}, Move(v, pc)
    PROVE  visit' \in [Visits -> VisitState]
  BY DEF GateInv, GateTypeOK, VisitState, Move

\* Take and Fail write one entry: all is well when that one is.
LEMMA WrittenKeeps ==
    ASSUME GateInv, NEW o \in Origins, known' = WithKey(o), Keeps, UNCHANGED <<now, since>>,
           NEW b \in Buckets, NEW e \in EntryState, entry' = Swept([x \in {b} |-> e]),
           o \in WithKey(o) => o \in Kept \/ o = b,
           b = Shared \/ b \in WithKey(o),
           e.refill <= e.seen, e.seen <= now, e.banUntil <= e.seen + e.banFor,
           visit' \in [Visits -> VisitState],
           spent' \in [Buckets -> Nat], \A c \in Buckets \ {b} : spent'[c] = spent[c],
           spent'[b] + Smaller(Burst, e.tokens + (now - e.refill)) <= spent[b] + Level(b),
           sentence' \in [Origins -> {0} \cup BanFirst..BanMax], ends' \in [Origins -> Nat],
           \A c \in Origins \ {b} : sentence'[c] = sentence[c] /\ ends'[c] = ends[c],
           b \in Origins /\ sentence'[b] # 0 /\ now <= ends'[b] + BanMax =>
               e.banFor = sentence'[b] /\ ends'[b] <= e.seen + BanMax
    PROVE  GateInv'
  <1>1. /\ entry' \in [Buckets -> EntryState] /\ entry'[b] = e
        /\ \A c \in Buckets \ {b} : entry'[c] = IF c \in known \ Kept THEN Blank ELSE entry[c]
    BY SweptAt
  <1>2. /\ \A c \in Buckets \ {b} :
             /\ Level(c)' = Level(c)
             /\ entry'[c].refill <= entry'[c].seen /\ entry'[c].seen <= now
             /\ entry'[c].banUntil <= entry'[c].seen + entry'[c].banFor
        /\ \A c \in Origins \ {b} :
             sentence[c] # 0 /\ now <= ends[c] + BanMax =>
                 c \in known' /\ entry'[c].banFor = sentence[c] /\ ends[c] <= entry'[c].seen + BanMax
    BY <1>1, OthersStay
  <1>3. now \in Nat /\ Burst \in Nat
    BY GateConstants DEF GateInv, GateTypeOK
  <1>4. GateTypeOK'
    <2>1. \A c \in Buckets : entry'[c].refill <= now /\ entry'[c].seen <= now
      <3> SUFFICES ASSUME NEW c \in Buckets PROVE entry'[c].refill <= now /\ entry'[c].seen <= now
        OBVIOUS
      <3>1. entry'[c] \in EntryState /\ entry'[c].seen <= now /\ entry'[c].refill <= entry'[c].seen
        BY <1>1, <1>2
      <3>2. entry'[c].seen \in Nat /\ entry'[c].refill \in Nat
        BY <3>1 DEF EntryState
      <3> QED
        BY <1>3, <3>1, <3>2
    <2>2. lastKeep' \in 0..now'
      BY KeepsInTime
    <2>3. known' \subseteq Origins /\ Cardinality(known') <= MaxKeys
      BY SweepIsSafe
    <2> QED
      BY <1>1, <2>1, <2>2, <2>3 DEF GateInv, GateTypeOK
  <1>5. EntriesFit'
    BY <1>1, <1>2 DEF EntriesFit
  <1>6. Accounts'
    <2> SUFFICES ASSUME NEW c \in Buckets PROVE spent'[c] + Level(c)' <= Burst + (now - since[c])
      BY DEF Accounts
    <2>1. spent[c] + Level(c) <= Burst + (now - since[c]) /\ spent[c] \in Nat /\ since[c] \in Nat
      BY DEF GateInv, GateTypeOK, Accounts
    <2>2. CASE c # b
      BY <1>2, <2>1, <2>2
    <2>3. CASE c = b
      <3>1. Level(b)' = Smaller(Burst, e.tokens + (now - e.refill))
        BY <1>1 DEF Level, Smaller
      <3>2. Level(b) \in Int
        <4>1. entry[b] \in EntryState
          BY DEF GateInv, GateTypeOK
        <4> QED
          BY <1>3, <4>1 DEF Level, Smaller, EntryState
      <3>3. Smaller(Burst, e.tokens + (now - e.refill)) \in Int
        BY <1>3 DEF Smaller, EntryState
      <3>4. spent'[b] \in Nat
        OBVIOUS
      <3> QED
        BY <1>3, <2>1, <2>3, <3>1, <3>2, <3>3, <3>4
    <2> QED
      BY <2>2, <2>3
  <1>7. Remembered'
    <2> SUFFICES ASSUME NEW c \in Origins, sentence'[c] # 0, now <= ends'[c] + BanMax
                 PROVE  /\ c \in known'
                        /\ entry'[c].banFor = sentence'[c]
                        /\ ends'[c] <= entry'[c].seen + BanMax
      BY DEF Remembered
    <2>1. CASE c = b
      BY <1>1, <2>1, GateConstants
    <2>2. CASE c # b
      BY <1>2, <2>2
    <2> QED
      BY <2>1, <2>2
  <1> QED
    BY <1>4, <1>5, <1>6, <1>7 DEF GateInv

\* A token out of a bucket whose entry was e, or none there.
LEMMA SpendKeeps ==
    ASSUME GateInv, NEW v \in Visits, NEW o \in Origins, known' = WithKey(o), Keeps,
           UNCHANGED <<now, sentence, ends, since>>,
           NEW b \in Buckets, NEW e \in EntryState, Spend(v, b, Filled(e)),
           o \in WithKey(o) => o \in Kept \/ o = b,
           b = Shared \/ b \in WithKey(o),
           e.refill <= now, e.banUntil <= now + e.banFor,
           Smaller(Burst, e.tokens + (now - e.refill)) = Level(b),
           b \in Origins /\ sentence[b] # 0 /\ now <= ends[b] + BanMax =>
               e.banFor = sentence[b] /\ ends[b] <= now + BanMax
    PROVE  GateInv'
  <1> DEFINE g == Filled(e)
             n == IF g.tokens < 1 THEN g ELSE [g EXCEPT !.tokens = @ - 1]
  <1>1. now \in Nat /\ Burst \in Nat /\ spent \in [Buckets -> Nat]
        /\ sentence \in [Origins -> {0} \cup BanFirst..BanMax] /\ ends \in [Origins -> Nat]
    BY GateConstants DEF GateInv, GateTypeOK
  <1>2. g \in EntryState /\ g.tokens = Level(b) /\ g.refill = now /\ g.seen = now
        /\ g.banUntil = e.banUntil /\ g.banFor = e.banFor /\ g.tokens \in 0..Burst
    <2>1. g \in EntryState /\ g.tokens = Level(b) /\ g.refill = now /\ g.seen = now
          /\ g.banUntil = e.banUntil /\ g.banFor = e.banFor
      BY <1>1, FilledIs
    <2> QED
      BY <2>1 DEF EntryState
  <1>3. visit' \in [Visits -> VisitState]
    BY VisitGoes DEF Spend
  <1>4. spent' = (IF g.tokens < 1 THEN spent ELSE [spent EXCEPT ![b] = @ + 1])
        /\ entry' = Swept([x \in {b} |-> n])
    BY DEF Spend
  <1> HIDE DEF g
  <1>5. n \in EntryState /\ n.tokens = (IF g.tokens < 1 THEN g.tokens ELSE g.tokens - 1) /\ n.refill = now
        /\ n.seen = now /\ n.banUntil = e.banUntil /\ n.banFor = e.banFor
    BY <1>2, OneLess
  <1> HIDE DEF n
  <1>6. spent' \in [Buckets -> Nat] /\ \A c \in Buckets \ {b} : spent'[c] = spent[c]
    BY <1>1, <1>4
  <1>7. spent'[b] + Smaller(Burst, n.tokens + (now - n.refill)) <= spent[b] + Level(b)
    <2>1. Smaller(Burst, n.tokens + (now - n.refill)) = n.tokens
      BY <1>1, <1>2, <1>5 DEF Smaller
    <2> QED
      BY <1>1, <1>2, <1>4, <1>5, <2>1
  <1>8. n.refill <= n.seen /\ n.seen <= now /\ n.banUntil <= n.seen + n.banFor
    BY <1>1, <1>5
  <1>9. b \in Origins /\ sentence'[b] # 0 /\ now <= ends'[b] + BanMax =>
            n.banFor = sentence'[b] /\ ends'[b] <= n.seen + BanMax
    BY <1>5
  <1>10. sentence' \in [Origins -> {0} \cup BanFirst..BanMax] /\ ends' \in [Origins -> Nat]
         /\ UNCHANGED <<now, since>>
         /\ \A c \in Origins \ {b} : sentence'[c] = sentence[c] /\ ends'[c] = ends[c]
    BY <1>1
  <1> QED
    BY <1>3, <1>4, <1>5, <1>6, <1>7, <1>8, <1>9, <1>10, WrittenKeeps

LEMMA TakeKeeps == ASSUME GateInv, NEW v \in Visits, Take(v) PROVE GateInv'
  <1> DEFINE o == visit[v].origin
  <1>1. o \in Origins /\ o \in Buckets /\ Shared \in Buckets /\ Shared \notin Origins /\ now \in Nat
    BY GateConstants DEF GateInv, GateTypeOK, VisitState, Buckets
  <1>2. known' = WithKey(o) /\ Keeps /\ UNCHANGED <<now, sentence, ends, since>>
    BY DEF Take
  <1> HIDE DEF o
  <1>3. /\ Found(o) \in EntryState
        /\ Found(o).refill <= Found(o).seen /\ Found(o).seen <= now
        /\ Found(o).banUntil <= now + Found(o).banFor
        /\ Smaller(Burst, Found(o).tokens + (now - Found(o).refill)) = Level(o)
    BY <1>1, FoundIs
  <1>4. Found(o).refill \in Nat /\ Found(o).seen \in Nat
    BY <1>3 DEF EntryState
  <1>5. sentence[o] # 0 /\ now <= ends[o] + BanMax => Found(o).banFor = sentence[o] /\ ends[o] <= now + BanMax
    <2> SUFFICES ASSUME sentence[o] # 0, now <= ends[o] + BanMax
                 PROVE  Found(o).banFor = sentence[o] /\ ends[o] <= now + BanMax
      OBVIOUS
    <2>1. Found(o) = entry[o] /\ entry[o].banFor = sentence[o] /\ ends[o] <= entry[o].seen + BanMax
      BY <1>1, FoundIs DEF GateInv, Remembered
    <2> QED
      BY <1>1, <1>3, <1>4, <2>1, GateConstants DEF GateInv, GateTypeOK
  <1>6. CASE /\ o \in WithKey(o) /\ Serving(Found(o))
             /\ entry' = Swept([x \in {o} |-> [Found(o) EXCEPT !.seen = now]])
             /\ Move(v, "away")
             /\ UNCHANGED spent
    <2> DEFINE e == [Found(o) EXCEPT !.seen = now]
    <2>1. e \in EntryState /\ e.tokens = Found(o).tokens /\ e.refill = Found(o).refill /\ e.seen = now
          /\ e.banUntil = Found(o).banUntil /\ e.banFor = Found(o).banFor
      BY <1>1, <1>3, SeenIs
    <2>2. entry' = Swept([x \in {o} |-> e])
      BY <1>6
    <2> HIDE DEF e
    <2>3. visit' \in [Visits -> VisitState]
      BY <1>6, VisitGoes
    <2>4. spent' \in [Buckets -> Nat] /\ \A c \in Buckets \ {o} : spent'[c] = spent[c]
      BY <1>6 DEF GateInv, GateTypeOK
    <2>5. spent'[o] + Smaller(Burst, e.tokens + (now - e.refill)) <= spent[o] + Level(o)
      <3>1. spent[o] \in Nat /\ Level(o) \in Int
        BY <1>1, <1>3, <1>4, GateConstants DEF GateInv, GateTypeOK, Smaller, EntryState
      <3> QED
        BY <1>3, <1>6, <2>1, <3>1
    <2>6. e.refill <= e.seen /\ e.seen <= now /\ e.banUntil <= e.seen + e.banFor
      BY <1>1, <1>3, <1>4, <2>1
    <2>7. sentence' \in [Origins -> {0} \cup BanFirst..BanMax] /\ ends' \in [Origins -> Nat]
          /\ UNCHANGED <<now, since>>
          /\ \A c \in Origins \ {o} : sentence'[c] = sentence[c] /\ ends'[c] = ends[c]
      BY <1>2 DEF GateInv, GateTypeOK
    <2>8. o \in Origins /\ sentence'[o] # 0 /\ now <= ends'[o] + BanMax =>
              e.banFor = sentence'[o] /\ ends'[o] <= e.seen + BanMax
      BY <1>2, <1>5, <2>1
    <2> QED
      BY <1>1, <1>2, <1>6, <2>1, <2>2, <2>3, <2>4, <2>5, <2>6, <2>7, <2>8, WrittenKeeps
  <1>7. CASE o \in WithKey(o) /\ ~ Serving(Found(o)) /\ Spend(v, o, Filled(Found(o)))
    <2>1. Found(o).refill <= now
      BY <1>1, <1>3, <1>4
    <2> QED
      BY <1>1, <1>2, <1>3, <1>5, <1>7, <2>1, SpendKeeps
  <1>8. CASE o \notin WithKey(o) /\ Spend(v, Shared, Filled(entry[Shared]))
    <2>1. entry[Shared] \in EntryState /\ entry[Shared].refill <= now /\ entry[Shared].seen <= now
          /\ entry[Shared].banUntil <= entry[Shared].seen + entry[Shared].banFor
      BY <1>1 DEF GateInv, GateTypeOK, EntriesFit
    <2>2. entry[Shared].seen \in Nat /\ entry[Shared].banFor \in Nat /\ entry[Shared].banUntil \in Nat
      BY <2>1, GateConstants DEF EntryState
    <2>3. entry[Shared].banUntil <= now + entry[Shared].banFor
      BY <1>1, <2>1, <2>2
    <2>4. Smaller(Burst, entry[Shared].tokens + (now - entry[Shared].refill)) = Level(Shared)
      BY DEF Level
    <2> QED
      BY <1>1, <1>2, <1>8, <2>1, <2>3, <2>4, SpendKeeps
  <1> QED
    BY <1>6, <1>7, <1>8 DEF Take, o

LEMMA FailKeeps == ASSUME GateInv, NEW v \in Visits, Fail(v) PROVE GateInv'
  <1> DEFINE o == visit[v].origin
             e == Failed(Found(o))
             banned == o \in WithKey(o) /\ Found(o).fails + 1 >= BanAfter
  <1>1. o \in Origins /\ o \in Buckets /\ Shared \in Buckets /\ Shared \notin Origins /\ now \in Nat
    BY GateConstants DEF GateInv, GateTypeOK, VisitState, Buckets
  <1>2. /\ known' = WithKey(o) /\ Keeps /\ UNCHANGED <<now, since, spent>>
        /\ entry' = Swept([x \in WithKey(o) \cap {o} |-> e])
        /\ sentence' = (IF banned THEN [sentence EXCEPT ![o] = e.banFor] ELSE sentence)
        /\ ends' = (IF banned THEN [ends EXCEPT ![o] = e.banUntil] ELSE ends)
    BY DEF Fail
  <1>3. visit' \in [Visits -> VisitState]
    BY VisitGoes DEF Fail
  <1> HIDE DEF o
  <1>4. /\ Found(o) \in EntryState /\ Found(o).fails \in Nat
        /\ Found(o).refill \in Nat /\ Found(o).seen \in Nat /\ Found(o).banFor \in Nat /\ Found(o).banUntil \in Nat
        /\ Found(o).refill <= Found(o).seen /\ Found(o).seen <= now
        /\ Found(o).banUntil <= now + Found(o).banFor
        /\ Smaller(Burst, Found(o).tokens + (now - Found(o).refill)) = Level(o)
    <2>1. Found(o) \in EntryState
      BY <1>1, FoundIs
    <2>2. Found(o).fails \in Nat /\ Found(o).refill \in Nat /\ Found(o).seen \in Nat
          /\ Found(o).banFor \in Nat /\ Found(o).banUntil \in Nat
      BY <2>1, GateConstants DEF EntryState
    <2> QED
      BY <1>1, <2>1, <2>2, FoundIs
  <1>5. /\ e \in EntryState
        /\ e.tokens = Found(o).tokens /\ e.refill = Found(o).refill /\ e.seen = now
        /\ Found(o).fails + 1 < BanAfter => e.banUntil = Found(o).banUntil /\ e.banFor = Found(o).banFor
        /\ Found(o).fails + 1 >= BanAfter =>
             /\ e.banUntil = now + NextBan(Found(o)) /\ e.banFor = NextBan(Found(o))
             /\ NextBan(Found(o)) \in BanFirst..BanMax
    BY <1>1, <1>4, FailedIs, NextBanIs
  <1> HIDE DEF e
  <1>6. sentence' \in [Origins -> {0} \cup BanFirst..BanMax] /\ ends' \in [Origins -> Nat]
        /\ \A c \in Origins \ {o} : sentence'[c] = sentence[c] /\ ends'[c] = ends[c]
    <2>1. sentence \in [Origins -> {0} \cup BanFirst..BanMax] /\ ends \in [Origins -> Nat]
      BY DEF GateInv, GateTypeOK
    <2>2. CASE banned
      <3>1. e.banFor \in BanFirst..BanMax /\ e.banUntil \in Nat
        BY <1>5, <2>2 DEF EntryState
      <3> QED
        BY <1>1, <1>2, <2>1, <2>2, <3>1
    <2>3. CASE ~ banned
      BY <1>2, <2>1, <2>3
    <2> QED
      BY <2>2, <2>3
  <1>7. spent' \in [Buckets -> Nat] /\ UNCHANGED spent
    BY <1>2 DEF GateInv, GateTypeOK
  <1>8. CASE o \in WithKey(o)
    <2>1. entry' = Swept([x \in {o} |-> e])
      <3>1. WithKey(o) \cap {o} = {o}
        BY <1>8
      <3> QED
        BY <1>2, <3>1
    <2>2. e.refill <= e.seen /\ e.seen <= now /\ e.banUntil <= e.seen + e.banFor
      BY <1>1, <1>4, <1>5, GateConstants
    <2>3. spent'[o] + Smaller(Burst, e.tokens + (now - e.refill)) <= spent[o] + Level(o)
      <3>1. spent[o] \in Nat /\ Level(o) \in Int
        BY <1>1, <1>4, GateConstants DEF GateInv, GateTypeOK, Smaller, EntryState
      <3> QED
        BY <1>4, <1>5, <1>7, <3>1
    <2>4. o \in Origins /\ sentence'[o] # 0 /\ now <= ends'[o] + BanMax =>
            e.banFor = sentence'[o] /\ ends'[o] <= e.seen + BanMax
      <3> SUFFICES ASSUME sentence'[o] # 0, now <= ends'[o] + BanMax
                   PROVE  e.banFor = sentence'[o] /\ ends'[o] <= e.seen + BanMax
        OBVIOUS
      <3>1. sentence \in [Origins -> {0} \cup BanFirst..BanMax] /\ ends \in [Origins -> Nat]
        BY DEF GateInv, GateTypeOK
      <3>2. CASE banned
        <4>1. sentence'[o] = e.banFor /\ ends'[o] = e.banUntil
          BY <1>1, <1>2, <3>1, <3>2
        <4> QED
          BY <1>1, <1>5, <3>2, <4>1, GateConstants
      <3>3. CASE ~ banned
        <4>1. sentence'[o] = sentence[o] /\ ends'[o] = ends[o] /\ e.banFor = Found(o).banFor
          BY <1>2, <1>4, <1>5, <1>8, <3>3, GateConstants
        <4>2. Found(o) = entry[o] /\ entry[o].banFor = sentence[o] /\ ends[o] <= entry[o].seen + BanMax
          BY <1>1, <4>1, FoundIs DEF GateInv, Remembered
        <4> QED
          BY <1>1, <1>4, <1>5, <3>1, <4>1, <4>2, GateConstants
      <3> QED
        BY <3>2, <3>3
    <2> HIDE DEF banned
    <2> QED
      BY <1>1, <1>2, <1>3, <1>5, <1>6, <1>7, <1>8, <2>1, <2>2, <2>3, <2>4, WrittenKeeps
  <1>9. CASE o \notin WithKey(o)
    <2> DEFINE w == entry[Shared]
    <2>1. w \in EntryState /\ w.refill <= w.seen /\ w.seen <= now /\ w.banUntil <= w.seen + w.banFor
      BY <1>1 DEF GateInv, GateTypeOK, EntriesFit
    <2>2. entry' = Swept([x \in {Shared} |-> w])
      <3>1. Shared \notin known
        BY <1>1 DEF GateInv, GateTypeOK
      <3>2. WithKey(o) \cap {o} = {}
        BY <1>9
      <3>3. entry' = Swept([x \in {} |-> e])
        BY <1>2, <3>2
      <3> QED
        BY <3>1, <3>3 DEF Swept
    <2>3. spent'[Shared] + Smaller(Burst, w.tokens + (now - w.refill)) <= spent[Shared] + Level(Shared)
      <3>1. spent[Shared] \in Nat /\ w.tokens \in Int /\ w.refill \in Int
        BY <1>1, <2>1, GateConstants DEF GateInv, GateTypeOK, EntryState
      <3> QED
        BY <1>1, <1>7, <3>1, GateConstants DEF Level, Smaller
    <2>4. \A c \in Origins \ {Shared} : sentence'[c] = sentence[c] /\ ends'[c] = ends[c]
      BY <1>2, <1>9
    <2> HIDE DEF w, banned
    <2> QED
      BY <1>1, <1>2, <1>3, <1>6, <1>7, <1>9, <2>1, <2>2, <2>3, <2>4, WrittenKeeps
  <1> QED
    BY <1>8, <1>9

LEMMA PassKeeps == ASSUME GateInv, NEW v \in Visits, Pass(v) PROVE GateInv'
  <1> DEFINE o == visit[v].origin
             e == [entry[o] EXCEPT !.fails = 0, !.banUntil = 0, !.seen = now]
  <1>1. o \in Origins /\ o \in Buckets /\ now \in Nat
    BY DEF GateInv, GateTypeOK, VisitState, Buckets
  <1>2. UNCHANGED <<now, known, lastKeep, sentence, ends, since, spent>>
        /\ entry' = IF o \in known
                    THEN [entry EXCEPT ![o].fails = 0, ![o].banUntil = 0, ![o].seen = now]
                    ELSE entry
    BY DEF Pass
  <1>3. visit' \in [Visits -> VisitState]
    BY VisitGoes DEF Pass
  <1> HIDE DEF o
  <1>4. entry \in [Buckets -> EntryState] /\ entry[o] \in EntryState
    BY <1>1 DEF GateInv, GateTypeOK
  <1>5. e \in EntryState /\ e.tokens = entry[o].tokens /\ e.refill = entry[o].refill
        /\ e.seen = now /\ e.banUntil = 0 /\ e.banFor = entry[o].banFor
    BY <1>1, <1>4, ForgivenIs
  <1>6. entry' = IF o \in known THEN [entry EXCEPT ![o] = e] ELSE entry
    BY <1>1, <1>2, <1>4
  <1> HIDE DEF e
  <1>7. /\ entry' \in [Buckets -> EntryState]
        /\ \A b \in Buckets :
             /\ entry'[b].tokens = entry[b].tokens /\ entry'[b].refill = entry[b].refill
             /\ entry'[b].banFor = entry[b].banFor
             /\ \/ entry'[b].seen = entry[b].seen /\ entry'[b].banUntil = entry[b].banUntil
                \/ entry'[b].seen = now /\ entry'[b].banUntil = 0
    BY <1>1, <1>4, <1>5, <1>6
  <1>8. \A b \in Buckets : entry[b].seen \in Nat /\ entry[b].refill \in Nat /\ entry[b].banFor \in Nat
    BY <1>4, GateConstants DEF EntryState
  <1>9. GateTypeOK'
    BY <1>1, <1>2, <1>3, <1>7 DEF GateInv, GateTypeOK
  <1>10. EntriesFit'
    <2> SUFFICES ASSUME NEW b \in Buckets
                 PROVE  entry'[b].refill <= entry'[b].seen /\ entry'[b].banUntil <= entry'[b].seen + entry'[b].banFor
      BY DEF EntriesFit
    <2>1. entry[b].refill <= entry[b].seen /\ entry[b].seen <= now
          /\ entry[b].banUntil <= entry[b].seen + entry[b].banFor
      BY DEF GateInv, GateTypeOK, EntriesFit
    <2> QED
      BY <1>1, <1>7, <1>8, <2>1
  <1>11. Accounts'
    BY <1>2, <1>7 DEF GateInv, Accounts, Level, Smaller
  <1>12. Remembered'
    <2> SUFFICES ASSUME NEW c \in Origins, sentence[c] # 0, now <= ends[c] + BanMax
                 PROVE  c \in known /\ entry'[c].banFor = sentence[c] /\ ends[c] <= entry'[c].seen + BanMax
      BY <1>2 DEF Remembered
    <2>1. c \in known /\ entry[c].banFor = sentence[c] /\ ends[c] <= entry[c].seen + BanMax /\ c \in Buckets
          /\ entry[c].seen <= now /\ ends[c] \in Nat
      BY DEF GateInv, GateTypeOK, Remembered, Buckets
    <2> QED
      BY <1>1, <1>7, <1>8, <2>1, GateConstants
  <1> QED
    BY <1>9, <1>10, <1>11, <1>12 DEF GateInv

LEMMA TickKeeps == ASSUME GateInv, NEW d \in Strides, Tick(d) PROVE GateInv'
  <1>1. d \in Nat /\ now \in Nat /\ now' = now + d /\ Burst \in Nat /\ BanMax \in Nat
        /\ UNCHANGED <<known, entry, lastKeep, visit, sentence, ends, since, spent>>
    BY GateConstants DEF Tick, GateInv, GateTypeOK
  <1>2. GateTypeOK'
    <2>1. \A b \in Buckets : entry[b].refill <= now' /\ entry[b].seen <= now' /\ since[b] <= now'
      <3>1. ASSUME NEW b \in Buckets PROVE entry[b].refill <= now' /\ entry[b].seen <= now' /\ since[b] <= now'
        <4>1. entry[b] \in EntryState /\ entry[b].refill <= now /\ entry[b].seen <= now
              /\ since[b] <= now /\ since[b] \in Nat
          BY DEF GateInv, GateTypeOK
        <4>2. entry[b].refill \in Nat /\ entry[b].seen \in Nat
          BY <4>1 DEF EntryState
        <4> QED
          BY <1>1, <4>1, <4>2
      <3> QED
        BY <3>1
    <2>2. now' \in Nat /\ lastKeep \in 0..now'
      BY <1>1 DEF GateInv, GateTypeOK
    <2> QED
      BY <1>1, <2>1, <2>2 DEF GateInv, GateTypeOK
  <1>3. EntriesFit'
    BY <1>1 DEF GateInv, EntriesFit
  <1>4. Accounts'
    <2> SUFFICES ASSUME NEW b \in Buckets PROVE spent[b] + Level(b)' <= Burst + (now' - since[b])
      BY <1>1 DEF Accounts
    <2>1. entry[b] \in EntryState /\ spent[b] \in Nat /\ since[b] \in Nat
          /\ spent[b] + Level(b) <= Burst + (now - since[b])
      BY DEF GateInv, GateTypeOK, Accounts
    <2>2. entry[b].tokens \in Nat /\ entry[b].refill \in Nat
      BY <1>1, <2>1 DEF EntryState
    <2> QED
      BY <1>1, <2>1, <2>2 DEF Level, Smaller
  <1>5. Remembered'
    BY <1>1 DEF GateInv, GateTypeOK, Remembered
  <1> QED
    BY <1>2, <1>3, <1>4, <1>5 DEF GateInv

LEMMA ObserveKeeps == ASSUME GateInv, NEW b \in Watched, Observe(b) PROVE GateInv'
  <1>1. b \in Buckets /\ now \in Nat /\ Burst \in Nat
        /\ since' = [since EXCEPT ![b] = now] /\ spent' = [spent EXCEPT ![b] = 0]
        /\ UNCHANGED <<now, known, entry, lastKeep, visit, sentence, ends>>
    BY GateConstants DEF Observe, GateInv, GateTypeOK, Buckets
  <1>2. GateTypeOK'
    BY <1>1 DEF GateInv, GateTypeOK
  <1>3. EntriesFit' /\ Remembered'
    BY <1>1 DEF GateInv, EntriesFit, Remembered
  <1>4. Accounts'
    <2>1. \A c \in Buckets : Level(c)' = Level(c)
      BY <1>1 DEF Level
    <2>2. Level(b) <= Burst
      <3>1. entry[b].tokens + (now - entry[b].refill) \in Int
        BY <1>1 DEF GateInv, GateTypeOK, EntryState
      <3> QED
        BY <1>1, <3>1 DEF Level, Smaller
    <2>3. since \in [Buckets -> Nat] /\ spent \in [Buckets -> Nat]
      BY DEF GateInv, GateTypeOK
    <2>4. Level(b) \in Int
      <3>1. entry[b].tokens + (now - entry[b].refill) \in Int
        BY <1>1 DEF GateInv, GateTypeOK, EntryState
      <3> QED
        BY <1>1, <3>1 DEF Level, Smaller
    <2> QED
      BY <1>1, <2>1, <2>2, <2>3, <2>4 DEF GateInv, Accounts
  <1> QED
    BY <1>2, <1>3, <1>4 DEF GateInv

LEMMA GateStep == GateInv /\ [GateNext]_gateVars => GateInv'
  <1> SUFFICES ASSUME GateInv, [GateNext]_gateVars PROVE GateInv'
    OBVIOUS
  <1>1. ASSUME NEW v \in Visits, Take(v) PROVE GateInv'
    BY <1>1, TakeKeeps
  <1>2. ASSUME NEW v \in Visits, Open(v) \/ Judge(v) PROVE GateInv'
    <2>1. visit' \in [Visits -> VisitState]
      BY <1>2, VisitGoes DEF Open, Judge
    <2>2. UNCHANGED <<now, known, entry, lastKeep, sentence, ends, since, spent>>
      BY <1>2 DEF Open, Judge, VisitOnly
    <2> QED
      BY <2>1, <2>2 DEF GateInv, GateTypeOK, EntriesFit, Accounts, Level, Remembered
  <1>3. ASSUME NEW v \in Visits, Fail(v) PROVE GateInv'
    BY <1>3, FailKeeps
  <1>4. ASSUME NEW v \in Visits, Pass(v) PROVE GateInv'
    BY <1>4, PassKeeps
  <1>5. ASSUME NEW d \in Strides, Tick(d) PROVE GateInv'
    BY <1>5, TickKeeps
  <1>6. ASSUME NEW b \in Watched, Observe(b) PROVE GateInv'
    BY <1>6, ObserveKeeps
  <1>7. CASE UNCHANGED gateVars
    BY <1>7 DEF gateVars, GateInv, GateTypeOK, EntriesFit, Accounts, Level, Remembered
  <1> QED
    BY <1>1, <1>2, <1>3, <1>4, <1>5, <1>6, <1>7 DEF GateNext

\* IPGate.Take, Fail, pass, sweepLocked: the ledger keeps to its size whatever
\* comes, and however often the entry of a bucket is swept and made anew the
\* bucket lets through no more than a burst and what trickles in.
THEOREM GateIsSafe == GateSpec => []GateTypeOK /\ []OneBurstAndTheTrickle
  <1>1. GateInv => GateTypeOK /\ OneBurstAndTheTrickle
    <2> SUFFICES ASSUME GateInv, NEW b \in Buckets PROVE spent[b] <= Burst + (now - since[b])
      BY DEF GateInv, OneBurstAndTheTrickle
    <2>1. entry[b] \in EntryState /\ entry[b].refill <= now /\ now \in Nat /\ spent[b] \in Nat /\ since[b] \in Nat
          /\ spent[b] + Level(b) <= Burst + (now - since[b])
      BY DEF GateInv, GateTypeOK, Accounts
    <2>2. entry[b].tokens \in Nat /\ entry[b].refill \in Nat /\ Burst \in Nat
      BY <2>1, GateConstants DEF EntryState
    <2>3. Level(b) \in Nat
      BY <2>1, <2>2 DEF Level, Smaller
    <2> QED
      BY <2>1, <2>2, <2>3
  <1> QED
    BY GateStart, GateStep, <1>1, PTL DEF GateSpec

\* A ban ends when its time is up or its origin is let in: neither the sweep nor
\* a further failure nor a ledger that is full takes any of it away.
LEMMA BanStands ==
    ASSUME GateInv, GateNext, NEW o \in Origins, Banned(o)
    PROVE  (o \in known' /\ entry'[o].banUntil >= entry[o].banUntil) \/ LetsIn(o)
  <1>1. o \in known /\ Serving(entry[o]) /\ o \in Buckets /\ o \in Kept /\ Found(o) = entry[o]
        /\ entry[o] \in EntryState /\ entry[o].seen <= now /\ entry[o].banUntil <= entry[o].seen + entry[o].banFor
        /\ entry \in [Buckets -> EntryState] /\ Shared # o /\ now \in Nat
    <2>1. o \in known /\ Serving(entry[o])
      BY DEF Banned
    <2>2. o \in Kept
      BY <2>1, SweepIsSafe
    <2> QED
      BY <2>1, <2>2, FoundIs, GateConstants DEF GateInv, GateTypeOK, EntriesFit, Buckets
  <1>2. entry[o].banUntil \in Nat /\ entry[o].banFor \in Nat /\ entry[o].seen \in Nat
    BY <1>1, GateConstants DEF EntryState
  <1>3. ASSUME NEW b \in Buckets, NEW e \in EntryState, entry' = Swept([x \in {b} |-> e]),
               NEW p \in Origins, known' = WithKey(p),
               b = o => e.banUntil >= entry[o].banUntil
        PROVE  o \in known' /\ entry'[o].banUntil >= entry[o].banUntil
    <2>1. entry'[b] = e /\ \A c \in Buckets \ {b} : entry'[c] = IF c \in known \ Kept THEN Blank ELSE entry[c]
      BY <1>3, SweptAt
    <2>2. o \in known'
      BY <1>1, <1>3, SweepIsSafe
    <2> QED
      BY <1>1, <1>2, <1>3, <2>1, <2>2
  <1>4. ASSUME NEW v \in Visits, Take(v) PROVE o \in known' /\ entry'[o].banUntil >= entry[o].banUntil
    <2> DEFINE p == visit[v].origin
    <2>1. p \in Origins /\ p \in Buckets /\ Shared \in Buckets
      BY DEF GateInv, GateTypeOK, VisitState, Buckets
    <2>2. known' = WithKey(p)
      BY <1>4 DEF Take
    <2> HIDE DEF p
    <2>3. Found(p) \in EntryState /\ Found(p).refill <= Found(p).seen /\ Found(p).seen <= now
      BY <2>1, FoundIs
    <2>4. CASE entry' = Swept([x \in {p} |-> [Found(p) EXCEPT !.seen = now]])
      <3> DEFINE e == [Found(p) EXCEPT !.seen = now]
      <3>1. e \in EntryState /\ e.banUntil = Found(p).banUntil
        BY <1>1, <2>3, SeenIs
      <3>2. entry' = Swept([x \in {p} |-> e])
        BY <2>4
      <3> HIDE DEF e
      <3>3. p = o => e.banUntil >= entry[o].banUntil
        BY <1>1, <1>2, <3>1
      <3> QED
        BY <1>3, <2>1, <2>2, <3>1, <3>2, <3>3
    <2>5. ASSUME NEW b \in Buckets, NEW e \in EntryState, Spend(v, b, Filled(e)), e.refill <= now, b # o
          PROVE  o \in known' /\ entry'[o].banUntil >= entry[o].banUntil
      <3> DEFINE g == Filled(e)
                 n == IF g.tokens < 1 THEN g ELSE [g EXCEPT !.tokens = @ - 1]
      <3>1. entry' = Swept([x \in {b} |-> n])
        BY <2>5 DEF Spend
      <3>2. g \in EntryState /\ g.tokens \in Nat
        <4>1. g \in EntryState
          BY <1>1, <2>5, FilledIs
        <4> QED
          BY <4>1, GateConstants DEF EntryState
      <3> HIDE DEF g
      <3>3. n \in EntryState
        BY <3>2, OneLess
      <3> HIDE DEF n
      <3> QED
        BY <1>3, <2>1, <2>2, <2>5, <3>1, <3>3
    <2>6. CASE ~ Serving(Found(p)) /\ Spend(v, p, Filled(Found(p)))
      <3>1. p # o
        BY <1>1, <2>6
      <3>2. Found(p).refill <= now
        BY <1>1, <2>3, GateConstants DEF EntryState
      <3> QED
        BY <2>1, <2>3, <2>5, <2>6, <3>1, <3>2
    <2>7. CASE Spend(v, Shared, Filled(entry[Shared]))
      <3>1. entry[Shared] \in EntryState /\ entry[Shared].refill <= now
        BY <2>1 DEF GateInv, GateTypeOK
      <3> QED
        BY <1>1, <2>1, <2>5, <2>7, <3>1
    <2> QED
      BY <1>4, <2>4, <2>6, <2>7 DEF Take, p
  <1>5. ASSUME NEW v \in Visits, Fail(v) PROVE o \in known' /\ entry'[o].banUntil >= entry[o].banUntil
    <2> DEFINE p == visit[v].origin
               e == Failed(Found(p))
    <2>1. p \in Origins /\ p \in Buckets
      BY DEF GateInv, GateTypeOK, VisitState, Buckets
    <2>2. known' = WithKey(p) /\ entry' = Swept([x \in WithKey(p) \cap {p} |-> e])
      BY <1>5 DEF Fail
    <2> HIDE DEF p
    <2>3. e \in EntryState /\ (p = o => e.banUntil >= entry[o].banUntil)
      <3>1. Found(p) \in EntryState
        BY <2>1, FoundIs
      <3>2. e \in EntryState
        BY <1>1, <3>1, FailedIs
      <3>3. p = o => e.banUntil >= entry[o].banUntil
        <4> SUFFICES ASSUME p = o PROVE e.banUntil >= entry[o].banUntil
          OBVIOUS
        <4>1. Found(p) = entry[o] /\ NextBan(entry[o]) \in Nat /\ entry[o].banFor <= NextBan(entry[o])
              /\ entry[o].fails \in Nat
          BY <1>1, NextBanIs, GateConstants DEF EntryState
        <4>2. /\ entry[o].fails + 1 < BanAfter => e.banUntil = entry[o].banUntil
              /\ entry[o].fails + 1 >= BanAfter => e.banUntil = now + NextBan(entry[o])
          BY <1>1, <4>1, FailedIs
        <4> QED
          BY <1>1, <1>2, <4>1, <4>2, GateConstants
      <3> QED
        BY <3>2, <3>3
    <2> HIDE DEF e
    <2>4. CASE p \in WithKey(p)
      <3>1. WithKey(p) \cap {p} = {p}
        BY <2>4
      <3>2. entry' = Swept([x \in {p} |-> e])
        BY <2>2, <3>1
      <3> QED
        BY <1>3, <2>1, <2>2, <2>3, <3>2
    <2>5. CASE p \notin WithKey(p)
      <3>1. WithKey(p) \cap {p} = {}
        BY <2>5
      <3>2. entry' = Swept([x \in {} |-> e])
        BY <2>2, <3>1
      <3>3. entry'[o] = entry[o]
        BY <1>1, <3>2 DEF Swept
      <3> QED
        BY <1>1, <1>2, <2>1, <2>2, <3>3, SweepIsSafe
    <2> QED
      BY <2>4, <2>5
  <1>6. ASSUME NEW v \in Visits, Pass(v)
        PROVE  (o \in known' /\ entry'[o].banUntil >= entry[o].banUntil) \/ LetsIn(o)
    <2>1. CASE visit[v].origin = o
      <3>1. visit[v].pc = "right" /\ visit'[v].pc = "away"
        BY <1>6 DEF Pass, Move, GateInv, GateTypeOK, VisitState
      <3> QED
        BY <2>1, <3>1 DEF LetsIn
    <2>2. CASE visit[v].origin # o
      <3>1. entry'[o] = entry[o] /\ known' = known
        BY <1>1, <1>6, <2>2 DEF Pass
      <3> QED
        BY <1>1, <1>2, <3>1
    <2> QED
      BY <2>1, <2>2
  <1>7. ASSUME UNCHANGED <<known, entry>> PROVE o \in known' /\ entry'[o].banUntil >= entry[o].banUntil
    BY <1>1, <1>2, <1>7
  <1> QED
    BY <1>4, <1>5, <1>6, <1>7 DEF GateNext, Open, Judge, VisitOnly, Tick, Observe

\* A ban that comes while the last one still counts is twice as long.
LEMMA BanGrows ==
    ASSUME GateInv, GateNext, NEW o \in Origins,
           ends'[o] # ends[o], sentence[o] # 0, now <= ends[o] + BanMax
    PROVE  sentence'[o] = Smaller(2 * sentence[o], BanMax)
  <1>1. PICK v \in Visits : Fail(v)
    BY DEF GateNext, Take, Open, Judge, VisitOnly, Pass, Tick, Observe
  <1> DEFINE p == visit[v].origin
             e == Failed(Found(p))
             banned == p \in WithKey(p) /\ Found(p).fails + 1 >= BanAfter
  <1>2. /\ sentence' = (IF banned THEN [sentence EXCEPT ![p] = e.banFor] ELSE sentence)
        /\ ends' = (IF banned THEN [ends EXCEPT ![p] = e.banUntil] ELSE ends)
    BY <1>1 DEF Fail
  <1>3. sentence \in [Origins -> {0} \cup BanFirst..BanMax] /\ ends \in [Origins -> Nat] /\ now \in Nat
    BY DEF GateInv, GateTypeOK
  <1> HIDE DEF p, e
  <1>4. banned /\ p = o /\ sentence'[o] = e.banFor
    BY <1>2, <1>3
  <1>5. Found(o) = entry[o] /\ entry[o].banFor = sentence[o] /\ Found(o) \in EntryState
    BY FoundIs DEF GateInv, Remembered
  <1>6. e.banFor = NextBan(entry[o]) /\ NextBan(entry[o]) = Smaller(2 * entry[o].banFor, BanMax)
    BY <1>3, <1>4, <1>5, FailedIs, NextBanIs DEF e
  <1> QED
    BY <1>4, <1>5, <1>6

\* IPGate.Banned, Fail, pass, sweepLocked: a ban is served to the end unless a
\* login succeeds, and whoever comes back too soon gets twice the last.
THEOREM BansHold == GateSpec => BansStandAndGrow
  <1> DEFINE Holds(o) ==
             /\ Banned(o) => \/ o \in known' /\ entry'[o].banUntil >= entry[o].banUntil
                             \/ LetsIn(o)
             /\ ends'[o] # ends[o] /\ sentence[o] # 0 /\ now <= ends[o] + (EntryTTL - BanMax)
                  => sentence'[o] = Smaller(2 * sentence[o], BanMax)
  <1>1. ASSUME GateInv, GateNext, NEW o \in Origins PROVE Holds(o)
    <2>1. EntryTTL - BanMax = BanMax
      BY GateConstants DEF EntryTTL
    <2> QED
      BY <1>1, <2>1, BanStands, BanGrows
  <1>2. GateInv /\ [GateNext]_gateVars => [\A o \in Origins : Holds(o)]_gateVars
    BY <1>1
  <1> QED
    BY <1>2, GateStart, GateStep, PTL DEF GateSpec, BansStandAndGrow

-----------------------------------------------------------------------------
(***************************************************************************)
(* The tree below the root: sequences of names, first.                     *)
(***************************************************************************)

LEMMA ParentIs ==
    ASSUME NEW S, NEW p \in Seq(S), p # <<>>
    PROVE  /\ Parent(p) \in Seq(S) /\ Len(Parent(p)) = Len(p) - 1 /\ Len(p) >= 1
           /\ \A i \in 1..Len(p) - 1 : Parent(p)[i] = p[i]
  <1> DEFINE n == Len(p)
             t == SubSeq(p, 1, n - 1)
  <1>1. n \in Nat /\ n >= 1
    <2>1. Len(p) \in Nat \ {0}
      BY EmptySeq
    <2> QED
      BY <2>1
  <1>2. \A i \in 1..n - 1 : p[i] \in S
    BY <1>1, ElementOfSeq
  <1>3. /\ t \in Seq(S)
        /\ Len(t) = IF 1 <= n - 1 THEN n - 1 - 1 + 1 ELSE 0
        /\ \A i \in 1..n - 1 - 1 + 1 : t[i] = p[1 + i - 1]
    <2> HIDE DEF n
    <2>1. 1 \in Int /\ n - 1 \in Int
      BY <1>1
    <2> QED
      BY <1>2, <2>1, SubSeqProperties
  <1>4. Parent(p) = t
    BY DEF Parent
  <1> HIDE DEF t, n
  <1>5. Len(t) = n - 1
    BY <1>1, <1>3
  <1>6. \A i \in 1..n - 1 : t[i] = p[i]
    BY <1>1, <1>3
  <1> QED
    BY <1>1, <1>3, <1>4, <1>5, <1>6 DEF n

LEMMA BelowIs ==
    ASSUME NEW S, NEW p \in Seq(S), NEW q \in Seq(S)
    PROVE  Below(p, q) <=> Len(p) <= Len(q) /\ \A i \in 1..Len(p) : q[i] = p[i]
  <1>1. Len(p) \in Nat /\ Len(q) \in Nat
    BY LenProperties
  <1> SUFFICES ASSUME Len(p) <= Len(q)
               PROVE  SubSeq(q, 1, Len(p)) = p <=> \A i \in 1..Len(p) : q[i] = p[i]
    BY DEF Below
  <1>2. \A i \in 1..Len(p) : q[i] \in S
    BY <1>1, ElementOfSeq
  <1>3. /\ SubSeq(q, 1, Len(p)) \in Seq(S) /\ Len(SubSeq(q, 1, Len(p))) = Len(p)
        /\ \A i \in 1..Len(p) : SubSeq(q, 1, Len(p))[i] = q[i]
    <2>1. /\ SubSeq(q, 1, Len(p)) \in Seq(S)
          /\ Len(SubSeq(q, 1, Len(p))) = IF 1 <= Len(p) THEN Len(p) - 1 + 1 ELSE 0
          /\ \A i \in 1..Len(p) - 1 + 1 : SubSeq(q, 1, Len(p))[i] = q[1 + i - 1]
      BY <1>1, <1>2, SubSeqProperties
    <2> QED
      BY <1>1, <2>1
  <1>4. (\A i \in 1..Len(p) : q[i] = p[i]) => SubSeq(q, 1, Len(p)) = p
    BY <1>1, <1>3, SeqEqual
  <1> QED
    BY <1>3, <1>4

\* Path x is what y becomes when s goes to d.
Becomes(s, d, y, x) ==
    /\ Len(s) <= Len(y) /\ Len(x) = Len(d) + (Len(y) - Len(s))
    /\ \A i \in 1..Len(d) : x[i] = d[i]
    /\ \A i \in 1..Len(y) - Len(s) : x[Len(d) + i] = y[Len(s) + i]

LEMMA OntoIs ==
    ASSUME NEW S, NEW s \in Seq(S), NEW d \in Seq(S), NEW y \in Seq(S), Below(s, y)
    PROVE  Onto(s, d, y) \in Seq(S) /\ Becomes(s, d, y, Onto(s, d, y))
  <1> DEFINE t == SubSeq(y, Len(s) + 1, Len(y))
  <1>1. Len(s) \in Nat /\ Len(d) \in Nat /\ Len(y) \in Nat /\ Len(s) <= Len(y)
    BY LenProperties DEF Below
  <1>2. t \in Seq(S) /\ Len(t) = Len(y) - Len(s) /\ \A i \in 1..Len(y) - Len(s) : t[i] = y[Len(s) + i]
    <2>1. \A i \in Len(s) + 1..Len(y) : y[i] \in S
      BY <1>1, ElementOfSeq
    <2>2. /\ t \in Seq(S)
          /\ Len(t) = IF Len(s) + 1 <= Len(y) THEN Len(y) - (Len(s) + 1) + 1 ELSE 0
          /\ \A i \in 1..Len(y) - (Len(s) + 1) + 1 : t[i] = y[Len(s) + 1 + i - 1]
      BY <1>1, <2>1, SubSeqProperties
    <2> QED
      BY <1>1, <2>2
  <1>3. Onto(s, d, y) = d \o t
    BY DEF Onto
  <1> HIDE DEF t
  <1>4. /\ d \o t \in Seq(S) /\ Len(d \o t) = Len(d) + Len(t)
        /\ \A i \in 1..Len(d) + Len(t) : (d \o t)[i] = IF i <= Len(d) THEN d[i] ELSE t[i - Len(d)]
    BY <1>2, ConcatProperties
  <1>5. \A i \in 1..Len(y) - Len(s) : (d \o t)[Len(d) + i] = t[i]
    BY <1>1, <1>2, <1>4
  <1> QED
    BY <1>1, <1>2, <1>3, <1>4, <1>5 DEF Becomes

-----------------------------------------------------------------------------
(***************************************************************************)
(* The tree below the root.                                                *)
(***************************************************************************)

TreeInv ==
    /\ tree \in [Paths -> Nodes] /\ Is(Root, "dir")
    /\ edits \in 0..MaxEdits /\ upload \in [Uploads -> Paths \cup {Nowhere}]

LEMMA PathFacts ==
    /\ <<>> \in Paths /\ Root \in Paths
    /\ \A p \in Paths : p \in Seq(STRING)
    /\ \A k \in Kinds : Plain(k) \in Nodes /\ Plain(k).kind = k
  <1>1. <<>> \in Paths /\ Root \in Paths /\ \A p \in Paths : p \in Seq(STRING)
    BY FileConstants
  <1> QED
    BY <1>1 DEF Plain, Nodes

LEMMA BelowOrder ==
    ASSUME NEW p \in Paths, NEW q \in Paths, NEW x \in Paths, Below(p, q)
    PROVE  /\ Below(q, x) => Below(p, x)
           /\ Below(q, p) => p = q
  <1>0. p \in Seq(STRING) /\ q \in Seq(STRING) /\ x \in Seq(STRING)
        /\ Len(p) \in Nat /\ Len(q) \in Nat /\ Len(x) \in Nat
    BY PathFacts, LenProperties
  <1>1. Len(p) <= Len(q) /\ \A i \in 1..Len(p) : q[i] = p[i]
    BY <1>0, BelowIs
  <1>2. ASSUME Below(q, x) PROVE Below(p, x)
    <2>1. Len(q) <= Len(x) /\ \A i \in 1..Len(q) : x[i] = q[i]
      BY <1>0, <1>2, BelowIs
    <2>2. Len(p) <= Len(x) /\ \A i \in 1..Len(p) : x[i] = p[i]
      BY <1>0, <1>1, <2>1
    <2> QED
      BY <1>0, <2>2, BelowIs
  <1>3. ASSUME Below(q, p) PROVE p = q
    <2>1. Len(p) = Len(q)
      BY <1>0, <1>1, <1>3, BelowIs
    <2> QED
      BY <1>0, <1>1, <2>1, SeqEqual
  <1> QED
    BY <1>2, <1>3

\* What resolve answers is the root or below it (withinRoot).
LEMMA ResolvedInside == ASSUME NEW p, Resolved(p) \in Paths PROVE Inside(Resolved(p))
  <1> DEFINE f == Follows(Parent(p))
             q == Append(f, Last(p))
  <1>1. CASE Follows(p) # Nowhere
    BY <1>1, TreesStand DEF Resolved, Named
  <1>2. CASE Follows(p) = Nowhere
    <2>1. f \in Named /\ Resolved(p) = q
      BY <1>2, TreesStand DEF Resolved
    <2> HIDE DEF f
    <2>2. f \in Seq(STRING) /\ q \in Seq(STRING) /\ Root \in Seq(STRING) /\ Below(Root, f)
      BY <2>1, PathFacts DEF Named, Inside
    <2> DEFINE e == Last(p)
               n == Len(f)
    <2>3. n \in Nat /\ Len(Root) \in Nat /\ Len(q) = n + 1 /\ \A i \in 1..n : q[i] = f[i]
      <3>1. f \in Seq(STRING \cup {e}) /\ e \in STRING \cup {e}
        BY <2>2
      <3> QED
        BY <2>2, <3>1, AppendProperties, LenProperties DEF e
    <2>4. Len(Root) <= n /\ \A i \in 1..Len(Root) : f[i] = Root[i]
      BY <2>2, BelowIs
    <2> HIDE DEF q, n
    <2>5. Len(Root) <= Len(q) /\ \A i \in 1..Len(Root) : q[i] = Root[i]
      BY <2>3, <2>4
    <2> QED
      BY <2>1, <2>2, <2>5, BelowIs DEF Inside
  <1> QED
    BY <1>1, <1>2

\* "mkdir", and a file that the desktop or an upload makes: one path changes.
LEMMA MakingKeeps ==
    ASSUME TreeInv, NEW q \in Paths, NEW node \in Nodes, ~ Is(q, "dir"),
           tree' = [tree EXCEPT ![q] = node]
    PROVE  /\ tree' \in [Paths -> Nodes] /\ Is(Root, "dir")'
           /\ \A x \in Paths : x # q => tree'[x] = tree[x]
  <1>1. q # Root /\ Root \in Paths
    BY PathFacts DEF TreeInv
  <1> QED
    BY <1>1 DEF TreeInv, Is

\* "delete": what is below goes along.
LEMMA DeletingKeeps ==
    ASSUME TreeInv, NEW q \in Paths, Inside(q), q # Root, tree' = Without(q)
    PROVE  /\ tree' \in [Paths -> Nodes] /\ Is(Root, "dir")'
           /\ \A x \in Paths : ~ Inside(x) => tree'[x] = tree[x]
  <1>1. \A x \in Paths : tree'[x] = IF Below(q, x) THEN Plain("none") ELSE tree[x]
    BY DEF Without
  <1>2. tree' \in [Paths -> Nodes]
    BY PathFacts DEF TreeInv, Without, Kinds
  <1>3. Root \in Paths /\ ~ Below(q, Root)
    BY PathFacts, BelowOrder DEF Inside
  <1>4. Is(Root, "dir")'
    BY <1>1, <1>3 DEF TreeInv, Is
  <1>5. \A x \in Paths : ~ Inside(x) => ~ Below(q, x)
    BY <1>3, BelowOrder DEF Inside
  <1> QED
    BY <1>1, <1>2, <1>4, <1>5

\* "rename": what is below comes along.
LEMMA RenamingKeeps ==
    ASSUME TreeInv, NEW s \in Paths, NEW d \in Paths, Inside(s), Inside(d),
           ~ Below(s, d), ~ Is(d, "dir"), tree' = Moved(s, d)
    PROVE  /\ tree' \in [Paths -> Nodes] /\ Is(Root, "dir")'
           /\ \A x \in Paths : ~ Inside(x) => tree'[x] = tree[x]
  <1> DEFINE From(x, y) == Below(s, y) /\ Onto(s, d, y) = x
  <1>1. Root \in Paths /\ s # Root /\ d # Root
    BY PathFacts DEF TreeInv, Inside
  <1>2. ~ Below(s, Root) /\ ~ Below(d, Root)
    BY <1>1, BelowOrder DEF Inside
  <1>3. \A x \in Paths : ~ Inside(x) => ~ Below(s, x) /\ ~ Below(d, x)
    BY <1>1, BelowOrder DEF Inside
  <1>4. ASSUME NEW y \in Paths, Below(s, y) PROVE Below(d, Onto(s, d, y))
    <2> DEFINE x == Onto(s, d, y)
    <2>1. /\ s \in Seq(STRING) /\ d \in Seq(STRING) /\ y \in Seq(STRING)
          /\ x \in Seq(STRING) /\ Becomes(s, d, y, x)
      BY <1>4, PathFacts, OntoIs
    <2>2. Len(s) \in Nat /\ Len(d) \in Nat /\ Len(y) \in Nat
      BY <2>1, LenProperties
    <2> HIDE DEF x
    <2>3. Len(d) <= Len(x) /\ \A i \in 1..Len(d) : x[i] = d[i]
      BY <2>1, <2>2 DEF Becomes
    <2>4. Below(d, x)
      BY <2>1, <2>3, BelowIs
    <2> QED
      BY <2>4 DEF x
  <1>5. ASSUME NEW x \in Paths, ~ Below(s, x), ~ Below(d, x) PROVE tree'[x] = tree[x]
    <2>1. ~ \E y \in Paths : From(x, y)
      BY <1>4, <1>5
    <2> QED
      BY <1>5, <2>1 DEF Moved
  <1>6. tree' \in [Paths -> Nodes]
    <2>1. ASSUME NEW x \in Paths PROVE tree'[x] \in Nodes
      <3>1. CASE \E y \in Paths : From(x, y)
        <4>1. tree'[x] = tree[CHOOSE y \in Paths : From(x, y)]
          BY <3>1 DEF Moved
        <4>2. (CHOOSE y \in Paths : From(x, y)) \in Paths
          BY <3>1
        <4> QED
          BY <4>1, <4>2 DEF TreeInv
      <3>2. CASE ~ \E y \in Paths : From(x, y)
        BY <3>2, PathFacts DEF Moved, TreeInv, Kinds
      <3> QED
        BY <3>1, <3>2
    <2>2. tree' = [x \in Paths |-> tree'[x]]
      BY DEF Moved
    <2> QED
      BY <2>1, <2>2
  <1>7. Is(Root, "dir")'
    BY <1>1, <1>2, <1>5 DEF TreeInv, Is
  <1> QED
    BY <1>3, <1>5, <1>6, <1>7

LEMMA TreeStart == FileInit => TreeInv
  <1> SUFFICES ASSUME FileInit PROVE TreeInv
    OBVIOUS
  <1>1. /\ tree \in [Paths -> Nodes] /\ tree[Root].kind = "dir"
        /\ edits = 0 /\ upload = [u \in Uploads |-> Nowhere]
    BY TreesStand DEF FileInit
  <1>2. MaxEdits \in Nat
    BY FileConstants
  <1> QED
    BY <1>1, <1>2, PathFacts DEF TreeInv, Is

\* What happens out of the root is an upload.
Confined ==
    \A x \in Paths : tree'[x] # tree[x] /\ ~ Inside(x) =>
        \E u \in Uploads, name \in FileNames : PutFile(u, name)

LEMMA OperationKeeps == ASSUME TreeInv, NEW p \in Named, Operation(p) PROVE TreeInv' /\ Confined
  <1>0. p \in Paths /\ UNCHANGED <<edits, upload>>
    BY DEF Named, Operation
  <1>1. CASE Mkdir(p)
    <2> DEFINE q == Resolved(p)
    <2>1. q \in Paths /\ ~ Is(q, "dir") /\ tree' = [tree EXCEPT ![q] = Plain("dir")]
      BY <1>1 DEF Mkdir, Is
    <2>2. Inside(q)
      BY <2>1, ResolvedInside
    <2>3. Plain("dir") \in Nodes
      BY PathFacts DEF Kinds
    <2> HIDE DEF q
    <2>4. tree' \in [Paths -> Nodes] /\ Is(Root, "dir")' /\ \A x \in Paths : x # q => tree'[x] = tree[x]
      BY <2>1, <2>3, MakingKeeps
    <2> QED
      BY <1>0, <2>2, <2>4 DEF TreeInv, Confined
  <1>2. CASE Delete(p)
    <2> DEFINE q == Resolved(p)
    <2>1. q \in Paths /\ q # Root /\ tree' = Without(q)
      BY <1>2 DEF Delete, Exists
    <2>2. Inside(q)
      BY <2>1, ResolvedInside
    <2> HIDE DEF q
    <2>3. tree' \in [Paths -> Nodes] /\ Is(Root, "dir")' /\ \A x \in Paths : ~ Inside(x) => tree'[x] = tree[x]
      BY <2>1, <2>2, DeletingKeeps
    <2> QED
      BY <1>0, <2>3 DEF TreeInv, Confined
  <1>3. ASSUME NEW to \in Named, Rename(p, to) PROVE TreeInv' /\ Confined
    <2> DEFINE s == Resolved(p)
               d == Resolved(to)
    <2>1. s \in Paths /\ d \in Paths /\ ~ Below(s, d) /\ ~ Is(d, "dir") /\ tree' = Moved(s, d)
      BY <1>3 DEF Rename, Exists, Free
    <2>2. Inside(s) /\ Inside(d)
      BY <2>1, ResolvedInside
    <2> HIDE DEF s, d
    <2>3. tree' \in [Paths -> Nodes] /\ Is(Root, "dir")' /\ \A x \in Paths : ~ Inside(x) => tree'[x] = tree[x]
      BY <2>1, <2>2, RenamingKeeps
    <2> QED
      BY <1>0, <2>3 DEF TreeInv, Confined
  <1> QED
    BY <1>1, <1>2, <1>3 DEF Operation

LEMMA DesktopKeeps ==
    ASSUME TreeInv, NEW p \in Named, DesktopRemoves(p) \/ \E node \in Puts : DesktopPuts(p, node)
    PROVE  TreeInv' /\ Confined
  <1>0. p \in Paths /\ Inside(p)
    BY DEF Named
  <1>1. edits' \in 0..MaxEdits /\ UNCHANGED upload
    BY FileConstants DEF TreeInv, DesktopRemoves, DesktopPuts
  <1>2. CASE DesktopRemoves(p)
    <2>1. p # Root /\ tree' = Without(p)
      BY <1>2 DEF DesktopRemoves
    <2>2. tree' \in [Paths -> Nodes] /\ Is(Root, "dir")' /\ \A x \in Paths : ~ Inside(x) => tree'[x] = tree[x]
      BY <1>0, <2>1, DeletingKeeps
    <2> QED
      BY <1>1, <2>2 DEF TreeInv, Confined
  <1>3. ASSUME NEW node \in Puts, DesktopPuts(p, node) PROVE TreeInv' /\ Confined
    <2>1. ~ Is(p, "dir") /\ node \in Nodes /\ tree' = [tree EXCEPT ![p] = node]
      BY <1>3, TreesStand DEF DesktopPuts, Is
    <2>2. tree' \in [Paths -> Nodes] /\ Is(Root, "dir")' /\ \A x \in Paths : x # p => tree'[x] = tree[x]
      BY <1>0, <2>1, MakingKeeps
    <2> QED
      BY <1>0, <1>1, <2>2 DEF TreeInv, Confined
  <1> QED
    BY <1>2, <1>3

LEMMA UploadKeeps ==
    ASSUME TreeInv, NEW u \in Uploads,
           \/ EndUpload(u)
           \/ \E p \in Named : StartUpload(u, p)
           \/ \E name \in FileNames : PutFile(u, name)
    PROVE  TreeInv' /\ Confined
  <1>1. CASE EndUpload(u)
    BY <1>1 DEF EndUpload, TreeInv, Confined, Is
  <1>2. ASSUME NEW p \in Named, StartUpload(u, p) PROVE TreeInv' /\ Confined
    BY <1>2 DEF StartUpload, TreeInv, Confined, Is
  <1>3. ASSUME NEW name \in FileNames, PutFile(u, name) PROVE TreeInv' /\ Confined
    <2>1. PICK q : Free(q) /\ tree[q].kind \in {"none", "file"} /\ tree' = [tree EXCEPT ![q] = Plain("file")]
      BY <1>3 DEF PutFile
    <2>2. q \in Paths /\ ~ Is(q, "dir") /\ Plain("file") \in Nodes
      BY <2>1, PathFacts DEF Free, Is, Kinds
    <2>3. tree' \in [Paths -> Nodes] /\ Is(Root, "dir")'
      BY <2>1, <2>2, MakingKeeps
    <2>4. UNCHANGED <<edits, upload>>
      BY <1>3 DEF PutFile
    <2> QED
      BY <1>3, <2>3, <2>4 DEF TreeInv, Confined
  <1> QED
    BY <1>1, <1>2, <1>3

LEMMA TreeStep == ASSUME TreeInv, [FileNext]_fileVars PROVE TreeInv' /\ Confined
  <1>1. CASE TreeNext
    BY <1>1, OperationKeeps, DesktopKeeps, UploadKeeps DEF TreeNext
  <1>2. ASSUME UNCHANGED treeVars PROVE TreeInv' /\ Confined
    BY <1>2 DEF treeVars, TreeInv, Confined, Is
  <1>3. CASE TicketNext
    BY <1>2, <1>3 DEF TicketNext, AskTicket, Download, Wait, RoomMoves, StartDelivery, Hand
  <1>4. CASE UNCHANGED fileVars
    BY <1>2, <1>4 DEF fileVars
  <1> QED
    BY <1>1, <1>3, <1>4 DEF FileNext

\* Whatever links lead out of the root and whatever the desktop does, what a
\* request makes, moves or deletes is below the root, which stays; and what is
\* changed elsewhere an upload has written (files.go, resolve and its callers).
THEOREM TreeIsSafe ==
    FileSpec =>
        [][/\ Is(Root, "dir")'
           /\ \A x \in Paths : tree'[x] # tree[x] /\ ~ Inside(x) =>
                  \E u \in Uploads, name \in FileNames : PutFile(u, name)]_fileVars
  <1>1. FileInit => TreeInv
    BY TreeStart
  <1>2. TreeInv /\ [FileNext]_fileVars => TreeInv'
    BY TreeStep
  <1>3. TreeInv /\ [FileNext]_fileVars =>
            [/\ Is(Root, "dir")'
             /\ \A x \in Paths : tree'[x] # tree[x] /\ ~ Inside(x) =>
                    \E u \in Uploads, name \in FileNames : PutFile(u, name)]_fileVars
    BY TreeStep DEF TreeInv, Confined
  <1> QED
    BY <1>1, <1>2, <1>3, PTL DEF FileSpec

-----------------------------------------------------------------------------
(***************************************************************************)
(* Tickets and their delivery.                                             *)
(***************************************************************************)

\* A number that was not given out yet is nowhere.
Unminted ==
    \A n \in Ids : n > minted =>
        served[n] = 0 /\ tickets[n] = 0 /\ \A m \in Browsers : n \notin inbox[m]

\* What is in the map was not served, and was told to one.
OneUse ==
    \A n \in Ids :
        /\ served[n] \in {0, 1} /\ (tickets[n] # 0 => served[n] = 0)
        /\ \A m, k \in Browsers : n \in inbox[m] /\ n \in inbox[k] => m = k

TicketInv == FileTypeOK /\ IsFiniteSet(seats) /\ IsFiniteSet(handing.todo) /\ Unminted /\ OneUse

LEMMA MintKeeps ==
    ASSUME FileTypeOK, Unminted, OneUse, Mint,
           \/ inbox' = inbox
           \/ \E m \in Browsers : inbox' = [inbox EXCEPT ![m] = @ \cup {minted'}]
    PROVE  /\ Unminted' /\ OneUse'
           /\ clock' \in 1..LastTime /\ minted' \in 0..MaxTickets
           /\ tickets' \in [Ids -> 0..LastTime + TicketTTL] /\ served' \in [Ids -> Nat]
           /\ inbox' \in [Browsers -> SUBSET Ids]
  <1>0. /\ MaxTickets \in Nat /\ TicketTTL \in Nat /\ LastTime \in Nat
        /\ clock \in 1..LastTime /\ minted \in 0..MaxTickets
        /\ tickets \in [Ids -> 0..LastTime + TicketTTL] /\ served \in [Ids -> Nat]
        /\ inbox \in [Browsers -> SUBSET Ids]
    BY FileConstants DEF FileTypeOK
  <1>1. /\ minted' = minted + 1 /\ minted' \in 1..MaxTickets /\ clock' = clock /\ served' = served
        /\ minted' \in Ids
    BY <1>0 DEF Mint, Ids
  <1>2. \A n \in Ids : /\ n = minted' => tickets'[n] = clock + TicketTTL
                       /\ n # minted' => tickets'[n] \in {0, tickets[n]}
    BY DEF Mint
  <1>3. tickets' \in [Ids -> 0..LastTime + TicketTTL]
    <2>1. clock + TicketTTL \in 0..LastTime + TicketTTL /\ 0 \in 0..LastTime + TicketTTL
      BY <1>0
    <2>2. \A n \in Ids : tickets'[n] \in 0..LastTime + TicketTTL
      BY <1>0, <1>2, <2>1
    <2>3. tickets' = [n \in Ids |-> tickets'[n]]
      BY DEF Mint
    <2> QED
      BY <2>2, <2>3
  <1>4. \A m \in Browsers, n \in Ids : n \in inbox'[m] => n \in inbox[m] \/ n = minted'
    BY <1>0
  <1>5. \A n \in Ids : n # minted' => \A m \in Browsers : n \in inbox'[m] => n \in inbox[m]
    BY <1>4
  <1>6. \A m, k \in Browsers : minted' \in inbox'[m] /\ minted' \in inbox'[k] => m = k
    <2>1. \A m \in Browsers : minted' \notin inbox[m]
      BY <1>0, <1>1 DEF Unminted
    <2> QED
      BY <1>0, <2>1
  <1>7. Unminted'
    <2> SUFFICES ASSUME NEW n \in Ids, n > minted'
                 PROVE  served'[n] = 0 /\ tickets'[n] = 0 /\ \A m \in Browsers : n \notin inbox'[m]
      BY DEF Unminted, Ids
    <2>1. n > minted /\ n # minted'
      BY <1>0, <1>1 DEF Ids
    <2> QED
      BY <1>1, <1>2, <1>5, <2>1 DEF Unminted
  <1>8. OneUse'
    <2> SUFFICES ASSUME NEW n \in Ids
                 PROVE  /\ served'[n] \in {0, 1} /\ (tickets'[n] # 0 => served'[n] = 0)
                        /\ \A m, k \in Browsers : n \in inbox'[m] /\ n \in inbox'[k] => m = k
      BY DEF OneUse, Ids
    <2>1. CASE n = minted'
      <3>1. n > minted
        BY <1>0, <1>1, <2>1
      <3> QED
        BY <1>1, <1>6, <2>1, <3>1 DEF Unminted
    <2>2. CASE n # minted'
      BY <1>1, <1>2, <1>5, <2>2 DEF OneUse
    <2> QED
      BY <2>1, <2>2
  <1>9. inbox' \in [Browsers -> SUBSET Ids]
    BY <1>0, <1>1
  <1> QED
    BY <1>0, <1>1, <1>3, <1>7, <1>8, <1>9

LEMMA ClaimIsOnce ==
    ASSUME FileTypeOK, Unminted, OneUse, NEW n \in Ids, Claim(n), inbox' = inbox
    PROVE  /\ Unminted' /\ OneUse' /\ clock' = clock /\ minted' = minted
           /\ tickets' \in [Ids -> 0..LastTime + TicketTTL] /\ served' \in [Ids -> Nat]
  <1>0. /\ MaxTickets \in Nat /\ TicketTTL \in Nat /\ LastTime \in Nat /\ minted \in Nat
        /\ tickets \in [Ids -> 0..LastTime + TicketTTL] /\ served \in [Ids -> Nat]
    BY FileConstants DEF FileTypeOK
  <1>1. /\ tickets[n] # 0 /\ clock' = clock /\ minted' = minted
        /\ tickets' = [tickets EXCEPT ![n] = 0] /\ served' \in {served, [served EXCEPT ![n] = @ + 1]}
    BY DEF Claim, Live
  <1>2. served[n] = 0 /\ ~ n > minted
    BY <1>1 DEF OneUse, Unminted
  <1>3. /\ tickets'[n] = 0 /\ served'[n] \in {0, 1}
        /\ \A k \in Ids \ {n} : tickets'[k] = tickets[k] /\ served'[k] = served[k]
    BY <1>0, <1>1, <1>2
  <1>4. Unminted'
    BY <1>1, <1>2, <1>3 DEF Unminted, Ids
  <1>5. OneUse'
    BY <1>3 DEF OneUse, Ids
  <1>6. tickets' \in [Ids -> 0..LastTime + TicketTTL] /\ served' \in [Ids -> Nat]
    BY <1>0, <1>1
  <1> QED
    BY <1>1, <1>4, <1>5, <1>6

\* The tickets are not of the tree.
LEMMA TreeStepTypes ==
    ASSUME TicketInv, TreeInv, TreeNext, TreeInv'
    PROVE  TicketInv'
  <1>1. /\ UNCHANGED <<clock, minted, tickets, served, seats, driver, online, inbox, handing>>
    BY DEF TreeNext, ticketVars, roomVars
  <1>2. FileTypeOK'
    BY <1>1 DEF TicketInv, TreeInv, FileTypeOK, Ids, Members
  <1>3. Unminted' /\ OneUse' /\ IsFiniteSet(seats') /\ IsFiniteSet(handing.todo)'
    BY <1>1 DEF TicketInv, Unminted, OneUse
  <1> QED
    BY <1>2, <1>3 DEF TicketInv

\* The room as Deliver finds it.
RoomFits ==
    /\ seats \subseteq Members /\ driver \in seats \cup {Nobody} /\ online \subseteq seats
    /\ IsFiniteSet(seats)

LEMMA RoomMovesKeeps == ASSUME TicketInv, RoomMoves PROVE TicketInv'
  <1>0. RoomFits
    BY DEF TicketInv, FileTypeOK, RoomFits
  <1>1. UNCHANGED <<clock, minted, tickets, served, tree, edits, upload, inbox, handing>>
    BY DEF RoomMoves, ticketVars, treeVars
  <1>2. RoomFits'
    <2>1. ASSUME NEW m \in Members \ seats, seats' = seats \cup {m}, UNCHANGED <<driver, online>>
          PROVE  RoomFits'
      <3>1. IsFiniteSet(seats \cup {m})
        BY <1>0, FS_AddElement DEF RoomFits
      <3> QED
        BY <1>0, <2>1, <3>1 DEF RoomFits
    <2>2. ASSUME NEW m \in seats, seats' = seats \ {m}, online' = online \ {m},
                 driver' = IF driver = m THEN Nobody ELSE driver
          PROVE  RoomFits'
      <3>1. IsFiniteSet(seats \ {m})
        BY <1>0, FS_RemoveElement DEF RoomFits
      <3> QED
        BY <1>0, <2>2, <3>1 DEF RoomFits
    <2>3. ASSUME NEW m \in seats \cup {Nobody}, driver' = m, UNCHANGED <<seats, online>>
          PROVE  RoomFits'
      BY <1>0, <2>3 DEF RoomFits
    <2>4. ASSUME NEW m \in seats \cap Browsers, online' \in {online \cup {m}, online \ {m}},
                 UNCHANGED <<seats, driver>>
          PROVE  RoomFits'
      BY <1>0, <2>4 DEF RoomFits
    <2> QED
      BY <2>1, <2>2, <2>3, <2>4 DEF RoomMoves
  <1>3. FileTypeOK'
    BY <1>1, <1>2 DEF TicketInv, FileTypeOK, RoomFits, Ids, Members
  <1>4. Unminted' /\ OneUse' /\ IsFiniteSet(handing.todo)'
    BY <1>1 DEF TicketInv, Unminted, OneUse
  <1> QED
    BY <1>2, <1>3, <1>4 DEF TicketInv, RoomFits

\* Deliver counts whom it has to tell.
LEMMA StartDeliveryKeeps == ASSUME TicketInv, StartDelivery PROVE TicketInv'
  <1>1. /\ UNCHANGED <<clock, minted, tickets, served, tree, edits, upload, seats, driver, online, inbox>>
        /\ handing' = [todo |-> Targets, sent |-> 0, of |-> Cardinality(Targets)]
    BY DEF StartDelivery, ticketVars, treeVars, roomVars
  <1>2. Targets \subseteq Browsers /\ Targets \subseteq seats
    BY DEF Targets
  <1>3. IsFiniteSet(Targets) /\ Cardinality(Targets) \in Nat
    BY <1>2, FS_Subset, FS_CardinalityType DEF TicketInv
  <1>4. /\ handing' \in [todo : SUBSET Browsers, sent : Nat, of : Nat]
        /\ handing'.sent + Cardinality(handing'.todo) = handing'.of /\ IsFiniteSet(handing.todo)'
    BY <1>1, <1>2, <1>3
  <1>5. FileTypeOK'
    BY <1>1, <1>4 DEF TicketInv, FileTypeOK, Ids, Members
  <1>6. Unminted' /\ OneUse' /\ IsFiniteSet(seats')
    BY <1>1 DEF TicketInv, Unminted, OneUse
  <1> QED
    BY <1>4, <1>5, <1>6 DEF TicketInv

\* One recipient: one ticket more, one still to be told fewer.
LEMMA HandKeeps == ASSUME TicketInv, NEW m \in Browsers, Hand(m) PROVE TicketInv'
  <1>0. /\ FileTypeOK /\ Unminted /\ OneUse /\ IsFiniteSet(handing.todo)
        /\ handing \in [todo : SUBSET Browsers, sent : Nat, of : Nat]
        /\ handing.sent + Cardinality(handing.todo) = handing.of
    BY DEF TicketInv, FileTypeOK
  <1>1. /\ UNCHANGED <<tree, edits, upload, seats, driver, online>> /\ Mint /\ m \in handing.todo
        /\ handing' = [handing EXCEPT !.todo = @ \ {m}, !.sent = @ + 1]
        /\ inbox' = IF m \in online THEN [inbox EXCEPT ![m] = @ \cup {minted'}] ELSE inbox
    BY DEF Hand, treeVars, roomVars
  <1>2. /\ Unminted' /\ OneUse' /\ clock' \in 1..LastTime /\ minted' \in 0..MaxTickets
        /\ tickets' \in [Ids -> 0..LastTime + TicketTTL] /\ served' \in [Ids -> Nat]
        /\ inbox' \in [Browsers -> SUBSET Ids]
    <2>1. inbox' = inbox \/ \E k \in Browsers : inbox' = [inbox EXCEPT ![k] = @ \cup {minted'}]
      BY <1>1
    <2> QED
      BY <1>0, <1>1, <2>1, MintKeeps
  <1>3. /\ handing' \in [todo : SUBSET Browsers, sent : Nat, of : Nat]
        /\ handing'.todo = handing.todo \ {m} /\ handing'.sent = handing.sent + 1 /\ handing'.of = handing.of
    <2>1. handing \in [todo : SUBSET Browsers, sent : Nat, of : Nat]
      BY <1>0
    <2>2. handing' = [todo |-> handing.todo \ {m}, sent |-> handing.sent + 1, of |-> handing.of]
      BY <1>1, <2>1
    <2>3. handing.todo \ {m} \in SUBSET Browsers /\ handing.sent + 1 \in Nat /\ handing.of \in Nat
      BY <2>1
    <2> QED
      BY <2>2, <2>3
  <1>4. /\ IsFiniteSet(handing.todo \ {m}) /\ Cardinality(handing.todo) \in Nat
        /\ Cardinality(handing.todo \ {m}) = Cardinality(handing.todo) - 1
    BY <1>0, <1>1, FS_RemoveElement, FS_CardinalityType
  <1>5. handing'.sent + Cardinality(handing'.todo) = handing'.of
    BY <1>0, <1>3, <1>4
  <1>6. FileTypeOK'
    BY <1>1, <1>2, <1>3, <1>5 DEF TicketInv, FileTypeOK, Ids, Members
  <1> QED
    BY <1>1, <1>2, <1>3, <1>4, <1>6 DEF TicketInv

LEMMA TicketStep == ASSUME TicketInv, TicketNext PROVE TicketInv'
  <1>1. CASE AskTicket
    <2>1. /\ UNCHANGED <<tree, edits, upload, seats, driver, online, inbox, handing>> /\ Mint
          /\ FileTypeOK /\ Unminted /\ OneUse
      BY <1>1 DEF AskTicket, treeVars, roomVars, TicketInv
    <2>2. /\ Unminted' /\ OneUse' /\ clock' \in 1..LastTime /\ minted' \in 0..MaxTickets
          /\ tickets' \in [Ids -> 0..LastTime + TicketTTL] /\ served' \in [Ids -> Nat]
          /\ inbox' \in [Browsers -> SUBSET Ids]
      BY <2>1, MintKeeps
    <2>3. FileTypeOK'
      BY <2>1, <2>2 DEF FileTypeOK, Ids, Members
    <2> QED
      BY <2>1, <2>2, <2>3 DEF TicketInv
  <1>2. ASSUME NEW n \in Ids, Download(n) PROVE TicketInv'
    <2>1. /\ UNCHANGED <<tree, edits, upload, seats, driver, online, inbox, handing>> /\ Claim(n)
          /\ FileTypeOK /\ Unminted /\ OneUse
      BY <1>2 DEF Download, treeVars, roomVars, TicketInv
    <2>2. /\ Unminted' /\ OneUse' /\ clock' = clock /\ minted' = minted
          /\ tickets' \in [Ids -> 0..LastTime + TicketTTL] /\ served' \in [Ids -> Nat]
      BY <2>1, ClaimIsOnce
    <2>3. FileTypeOK'
      BY <2>1, <2>2 DEF FileTypeOK, Ids, Members
    <2> QED
      BY <2>1, <2>2, <2>3 DEF TicketInv
  <1>3. CASE Wait
    <2>1. /\ UNCHANGED <<minted, tickets, served, tree, edits, upload, seats, driver, online, inbox, handing>>
          /\ clock < LastTime /\ clock' = clock + 1
      BY <1>3 DEF Wait, treeVars, roomVars
    <2>2. clock' \in 1..LastTime
      BY <2>1, FileConstants DEF TicketInv, FileTypeOK
    <2>3. FileTypeOK'
      BY <2>1, <2>2 DEF TicketInv, FileTypeOK, Ids, Members
    <2>4. Unminted' /\ OneUse' /\ IsFiniteSet(seats') /\ IsFiniteSet(handing.todo)'
      BY <2>1 DEF TicketInv, Unminted, OneUse
    <2> QED
      BY <2>3, <2>4 DEF TicketInv
  <1> QED
    BY <1>1, <1>2, <1>3, RoomMovesKeeps, StartDeliveryKeeps, HandKeeps DEF TicketNext

LEMMA TicketStart == FileInit => TicketInv
  <1> SUFFICES ASSUME FileInit PROVE TicketInv
    OBVIOUS
  <1>1. /\ clock = 1 /\ minted = 0 /\ tickets = [n \in Ids |-> 0] /\ served = [n \in Ids |-> 0]
        /\ inbox = [m \in Browsers |-> {}] /\ edits = 0 /\ upload = [u \in Uploads |-> Nowhere]
        /\ seats = {} /\ driver = Nobody /\ online = {}
        /\ handing = [todo |-> {}, sent |-> 0, of |-> 0]
    BY DEF FileInit, Idle
  <1>2. IsFiniteSet({}) /\ Cardinality({}) = 0
    BY FS_EmptySet
  <1>3. Unminted /\ OneUse
    BY <1>1 DEF Unminted, OneUse
  <1>4. tree \in [Paths -> Nodes]
    BY TreesStand DEF FileInit
  <1>5. MaxTickets \in Nat /\ MaxEdits \in Nat /\ TicketTTL \in Nat /\ LastTime \in Nat /\ LastTime >= 1
    BY FileConstants
  <1>6. tickets \in [Ids -> 0..LastTime + TicketTTL]
    BY <1>1, <1>5
  <1>7. FileTypeOK
    BY <1>1, <1>2, <1>4, <1>5, <1>6 DEF FileTypeOK
  <1> QED
    BY <1>1, <1>2, <1>3, <1>7 DEF TicketInv

\* At most one browser is told of a number.
LEMMA ToldOnce ==
    ASSUME OneUse, NEW n \in Ids
    PROVE  Cardinality({m \in Browsers : n \in inbox[m]}) <= 1
  <1> DEFINE told == {m \in Browsers : n \in inbox[m]}
  <1>1. CASE told = {}
    BY <1>1, FS_EmptySet
  <1>2. CASE told # {}
    <2>1. PICK m \in told : TRUE
      BY <1>2
    <2>2. told = {m}
      BY <2>1 DEF OneUse
    <2>3. Cardinality({m}) = 1
      BY FS_Singleton
    <2> QED
      BY <2>2, <2>3
  <1> QED
    BY <1>1, <1>2

\* A ticket is good for one download and for one browser, in whatever order
\* requests, deliveries, claims and the clock come (claimTicket, Deliver).
THEOREM DownloadsAreSafe == FileSpec => []FileTypeOK /\ []OneDownloadEach
  <1>1. FileInit => TicketInv /\ TreeInv
    BY TicketStart, TreeStart
  <1>2. TicketInv /\ TreeInv /\ [FileNext]_fileVars => (TicketInv /\ TreeInv)'
    <2> SUFFICES ASSUME TicketInv, TreeInv, [FileNext]_fileVars PROVE TicketInv' /\ TreeInv'
      OBVIOUS
    <2>1. TreeInv'
      BY TreeStep
    <2>2. CASE TreeNext
      BY <2>1, <2>2, TreeStepTypes
    <2>3. CASE TicketNext
      BY <2>1, <2>3, TicketStep
    <2>4. CASE UNCHANGED fileVars
      <3>1. UNCHANGED <<clock, minted, tickets, served, tree, edits, upload, seats, driver, online, inbox, handing>>
        BY <2>4 DEF fileVars, ticketVars, treeVars, roomVars
      <3>2. FileTypeOK'
        BY <3>1 DEF TicketInv, FileTypeOK, Ids, Members
      <3> QED
        BY <2>1, <3>1, <3>2 DEF TicketInv, Unminted, OneUse
    <2> QED
      BY <2>2, <2>3, <2>4 DEF FileNext
  <1>3. TicketInv => FileTypeOK /\ OneDownloadEach
    <2> SUFFICES ASSUME TicketInv PROVE OneDownloadEach
      BY DEF TicketInv
    <2>1. \A n \in Ids : Cardinality({m \in Browsers : n \in inbox[m]}) <= 1
      BY ToldOnce DEF TicketInv
    <2>2. minted \in Nat
      BY FileConstants DEF TicketInv, FileTypeOK
    <2>3. \A n \in Ids : served[n] <= 1 /\ (n \in Live => served[n] = 0 /\ n <= minted)
      BY <2>2 DEF TicketInv, Unminted, OneUse, Live, Ids
    <2> QED
      BY <2>1, <2>3 DEF OneDownloadEach
  <1> QED
    BY <1>1, <1>2, <1>3, PTL DEF FileSpec

-----------------------------------------------------------------------------
(***************************************************************************)
(* The feeds.  Of what is on its way only the last thing counts.           *)
(***************************************************************************)

LEMMA LastAppended ==
    ASSUME NEW S, NEW q \in Seq(S), NEW e \in S
    PROVE  Append(q, e) \in Seq(S) /\ Append(q, e) # <<>> /\ Last(Append(q, e)) = e
           /\ Len(Append(q, e)) = Len(q) + 1
  BY DEF Last

LEMMA LastOfTail ==
    ASSUME NEW S, NEW q \in Seq(S), q # <<>>
    PROVE  /\ Tail(q) \in Seq(S) /\ Head(q) \in S /\ Len(Tail(q)) <= Len(q)
           /\ Tail(q) # <<>> => Last(Tail(q)) = Last(q)
           /\ Tail(q) = <<>> => Last(q) = Head(q)
  <1>1. Len(q) \in Nat /\ Len(q) # 0
    BY EmptySeq, LenProperties
  <1>2. Tail(q) \in Seq(S) /\ Head(q) \in S /\ Len(Tail(q)) = Len(q) - 1
        /\ \A i \in 1 .. Len(Tail(q)) : Tail(q)[i] = q[i + 1]
    BY HeadTailProperties
  <1>3. ASSUME Tail(q) # <<>> PROVE Last(Tail(q)) = Last(q)
    <2>1. Len(Tail(q)) \in 1 .. Len(Tail(q))
      BY <1>1, <1>2, <1>3, EmptySeq
    <2> QED
      BY <1>1, <1>2, <2>1 DEF Last
  <1>4. ASSUME Tail(q) = <<>> PROVE Last(q) = Head(q)
    <2>1. Len(Tail(q)) = 0 /\ Len(Tail(q)) = Len(q) - 1
      BY <1>2, <1>4, EmptySeq
    <2> DEFINE n == Len(q)
    <2>2. n \in Nat /\ n - 1 = 0
      BY <1>1, <2>1
    <2> HIDE DEF n
    <2>3. n = 1
      BY <2>2
    <2>4. Head(q) = q[1]
      OBVIOUS
    <2> QED
      BY <2>3, <2>4 DEF Last, n
  <1> QED
    BY <1>1, <1>2, <1>3, <1>4

\* A message reached the page: each event on its way has crossed it.
LEMMA AllCrossed ==
    ASSUME NEW q \in Seq(Clips), NEW r, r = [i \in DOMAIN q |-> [q[i] EXCEPT !.crossed = TRUE]]
    PROVE  r \in Seq(Clips) /\ (r = <<>> => q = <<>>) /\ (r # <<>> => Last(r).crossed)
  <1>1. Len(q) \in Nat /\ DOMAIN q = 1 .. Len(q)
    BY LenProperties
  <1>2. \A i \in DOMAIN q : q[i] \in Clips
    BY ElementOfSeq, <1>1
  <1>3. \A i \in DOMAIN q : r[i] \in Clips /\ r[i].crossed
    BY <1>2 DEF Clips
  <1>4. r \in [1 .. Len(q) -> Clips]
    BY <1>1, <1>3
  <1>5. r \in Seq(Clips)
    BY <1>1, <1>4
  <1>6. Len(r) = Len(q)
    BY <1>1, <1>4, <1>5, LenProperties
  <1>7. r # <<>> => Last(r).crossed
    <2> SUFFICES ASSUME r # <<>> PROVE Last(r).crossed
      OBVIOUS
    <2>1. Len(r) # 0
      BY <1>5, EmptySeq
    <2>2. Len(r) \in DOMAIN q
      BY <1>1, <1>6, <2>1
    <2> QED
      BY <1>3, <2>2 DEF Last
  <1> QED
    BY <1>1, <1>5, <1>6, <1>7, EmptySeq

\* What the two sides were told last.  The newest event on its way carries what
\* the page remembers, unless a message has reached the page since; and unless
\* the sides came apart, the newest message carries what the session remembers,
\* and once it has arrived that is what the page does.
Tells(p) ==
    /\ fromPage[p] # <<>> => Last(fromPage[p]).crossed \/ pageLast[p] = Last(fromPage[p]).text
    /\ ~ apart[p] =>
          IF watch[p].pc = "send" THEN watch[p].got = lastClip[p]
          ELSE IF toPage[p] # <<>> THEN Last(toPage[p]) = lastClip[p]
          ELSE fromPage[p] = <<>> /\ lastClip[p] # NoText => pageLast[p] = lastClip[p]

WatchState == [pc : {"new", "keep", "tick", "compare", "remember", "send"}, got : Words]

ClipTypes ==
    /\ clip \in Words /\ copies \in 0 .. MaxCopies
    /\ lastClip \in [Pages -> Words] /\ handling \in [Pages -> Words]
    /\ pageClip \in [Pages -> Words] /\ pageLast \in [Pages -> Words]
    /\ watch \in [Pages -> WatchState]
    /\ toPage \in [Pages -> Seq(Words)] /\ fromPage \in [Pages -> Seq(Clips)]
    /\ apart \in [Pages -> BOOLEAN]

ClipInv == ClipTypes /\ \A p \in Pages : Tells(p)

LEMMA ClipStart == ClipInit => ClipInv
  BY FeedConstants DEF ClipInit, ClipInv, ClipTypes, Words, WatchState, Tells

\* The sessions of the other pages are not touched.
ClipApart(p) ==
    \A q \in Pages \ {p} :
        /\ fromPage'[q] = fromPage[q] /\ pageLast'[q] = pageLast[q] /\ apart'[q] = apart[q]
        /\ watch'[q] = watch[q] /\ toPage'[q] = toPage[q] /\ lastClip'[q] = lastClip[q]

LEMMA ClipOnePage ==
    ASSUME ClipInv, NEW p \in Pages, ClipApart(p), ClipTypes', Tells(p)'
    PROVE  ClipInv'
  BY DEF ClipInv, ClipApart, Tells

\* A step of the watcher that sends nothing and takes nothing in.
LEMMA WatchIs ==
    ASSUME ClipTypes, NEW p \in Pages, NEW pc \in {"new", "keep", "tick", "compare", "remember", "send"},
           NEW got \in Words, WatchAt(p, pc, got)
    PROVE  /\ watch' \in [Pages -> WatchState]
           /\ watch'[p].pc = pc /\ watch'[p].got = got
           /\ \A q \in Pages \ {p} : watch'[q] = watch[q]
  <1>1. [pc |-> pc, got |-> got] \in WatchState
    BY DEF WatchState
  <1>2. watch' = [watch EXCEPT ![p] = [pc |-> pc, got |-> got]]
    BY DEF WatchAt
  <1> QED
    BY <1>1, <1>2 DEF ClipTypes

LEMMA CopyKeeps ==
    ASSUME ClipInv, NEW v \in Texts, CopyThere(v) \/ \E p \in Pages : CopyHere(p, v)
    PROVE  ClipInv'
  <1>1. UNCHANGED <<lastClip, watch, handling, toPage, fromPage, pageLast, apart>>
    BY DEF CopyThere, CopyHere
  <1>2. copies' \in 0 .. MaxCopies
    BY FeedConstants DEF CopyThere, CopyHere, Counted, ClipInv, ClipTypes
  <1>3. clip' \in Words /\ pageClip' \in [Pages -> Words]
    BY DEF CopyThere, CopyHere, ClipInv, ClipTypes, Words
  <1>4. ClipTypes'
    BY <1>1, <1>2, <1>3 DEF ClipInv, ClipTypes
  <1> QED
    BY <1>1, <1>4 DEF ClipInv, Tells

LEMMA FocusKeeps == ASSUME ClipInv, NEW p \in Pages, Focus(p) PROVE ClipInv'
  <1> DEFINE e == [text |-> pageClip[p], crossed |-> FALSE]
  <1>1. e \in Clips /\ e.text = pageClip[p]
    BY DEF ClipInv, ClipTypes, Clips
  <1>2. /\ fromPage' = [fromPage EXCEPT ![p] = Append(fromPage[p], e)]
        /\ pageLast' = [pageLast EXCEPT ![p] = pageClip[p]] /\ copies' \in 0 .. MaxCopies
        /\ UNCHANGED <<clip, lastClip, watch, handling, toPage, pageClip, apart>>
    BY FeedConstants DEF Focus, Counted, ClipInv, ClipTypes
  <1> HIDE DEF e
  <1>3. fromPage[p] \in Seq(Clips)
    BY DEF ClipInv, ClipTypes
  <1>4. Append(fromPage[p], e) \in Seq(Clips) /\ Append(fromPage[p], e) # <<>>
        /\ Last(Append(fromPage[p], e)) = e
    BY <1>1, <1>3, LastAppended
  <1>5. fromPage'[p] = Append(fromPage[p], e) /\ pageLast'[p] = pageClip[p]
    BY <1>2 DEF ClipInv, ClipTypes
  <1>6. ClipTypes'
    BY <1>2, <1>4 DEF ClipInv, ClipTypes
  <1>7. Tells(p)'
    BY <1>1, <1>2, <1>4, <1>5 DEF ClipInv, Tells
  <1>8. ClipApart(p)
    BY <1>2 DEF ClipInv, ClipTypes, ClipApart
  <1> QED
    BY <1>6, <1>7, <1>8, ClipOnePage

LEMMA ReceiveKeeps == ASSUME ClipInv, NEW p \in Pages, Receive(p) PROVE ClipInv'
  <1> DEFINE r == [i \in DOMAIN fromPage[p] |-> [fromPage[p][i] EXCEPT !.crossed = TRUE]]
  <1>1. /\ fromPage' = [fromPage EXCEPT ![p] = r]
        /\ toPage' = [toPage EXCEPT ![p] = Tail(toPage[p])]
        /\ pageLast' = [pageLast EXCEPT ![p] = Head(toPage[p])]
        /\ UNCHANGED <<clip, lastClip, watch, handling, apart, copies>>
        /\ toPage[p] # <<>>
    BY DEF Receive
  <1>2. pageClip' \in {pageClip, [pageClip EXCEPT ![p] = Head(toPage[p])]}
    BY DEF Receive
  <1>3. fromPage[p] \in Seq(Clips) /\ toPage[p] \in Seq(Words)
    BY DEF ClipInv, ClipTypes
  <1>4. r \in Seq(Clips) /\ (r = <<>> => fromPage[p] = <<>>) /\ (r # <<>> => Last(r).crossed)
    BY <1>3, AllCrossed
  <1> HIDE DEF r
  <1>5. /\ Tail(toPage[p]) \in Seq(Words) /\ Head(toPage[p]) \in Words
        /\ Tail(toPage[p]) # <<>> => Last(Tail(toPage[p])) = Last(toPage[p])
        /\ Tail(toPage[p]) = <<>> => Last(toPage[p]) = Head(toPage[p])
    BY <1>1, <1>3, LastOfTail
  <1>6. fromPage'[p] = r /\ toPage'[p] = Tail(toPage[p]) /\ pageLast'[p] = Head(toPage[p])
    BY <1>1 DEF ClipInv, ClipTypes
  <1>7. pageClip' \in [Pages -> Words]
    BY <1>2, <1>5 DEF ClipInv, ClipTypes
  <1>8. ClipTypes'
    BY <1>1, <1>4, <1>5, <1>7 DEF ClipInv, ClipTypes
  <1>9. Tells(p)'
    BY <1>1, <1>4, <1>5, <1>6 DEF ClipInv, Tells
  <1>10. ClipApart(p)
    BY <1>1 DEF ClipInv, ClipTypes, ClipApart
  <1> QED
    BY <1>8, <1>9, <1>10, ClipOnePage

\* An event that met nothing on its way is what both sides hold.
LEMMA TakeClipKeeps == ASSUME ClipInv, NEW p \in Pages, TakeClip(p) PROVE ClipInv'
  <1>1. /\ fromPage' = [fromPage EXCEPT ![p] = Tail(fromPage[p])] /\ fromPage[p] # <<>>
        /\ UNCHANGED <<clip, watch, toPage, pageClip, pageLast, copies>>
    BY DEF TakeClip
  <1>2. fromPage[p] \in Seq(Clips)
    BY DEF ClipInv, ClipTypes
  <1>3. /\ Tail(fromPage[p]) \in Seq(Clips) /\ Head(fromPage[p]) \in Clips
        /\ Tail(fromPage[p]) # <<>> => Last(Tail(fromPage[p])) = Last(fromPage[p])
        /\ Tail(fromPage[p]) = <<>> => Last(fromPage[p]) = Head(fromPage[p])
    BY <1>1, <1>2, LastOfTail
  <1>4. Head(fromPage[p]).text \in Words /\ Head(fromPage[p]).crossed \in BOOLEAN
    BY <1>3 DEF Clips
  <1>5. fromPage'[p] = Tail(fromPage[p])
    BY <1>1 DEF ClipInv, ClipTypes
  <1>6. /\ lastClip' \in [Pages -> Words] /\ handling' \in [Pages -> Words]
        /\ apart' \in [Pages -> BOOLEAN]
        /\ \A q \in Pages \ {p} : lastClip'[q] = lastClip[q] /\ apart'[q] = apart[q]
        /\ ~ apart'[p] => /\ lastClip'[p] = Head(fromPage[p]).text
                          /\ ~ Head(fromPage[p]).crossed /\ toPage[p] = <<>>
                          /\ watch[p].pc # "send"
    <2>1. CASE /\ lastClip' = [lastClip EXCEPT ![p] = Head(fromPage[p]).text]
               /\ handling' = [handling EXCEPT ![p] = Head(fromPage[p]).text]
               /\ apart' = [apart EXCEPT ![p] = Head(fromPage[p]).crossed \/ toPage[p] # <<>>
                                                \/ watch[p].pc = "send"]
      BY <1>4, <2>1 DEF ClipInv, ClipTypes
    <2>2. CASE apart' = [apart EXCEPT ![p] = TRUE] /\ UNCHANGED <<lastClip, handling>>
      BY <2>2 DEF ClipInv, ClipTypes
    <2> QED
      BY <2>1, <2>2 DEF TakeClip
  <1>7. ClipTypes'
    BY <1>1, <1>3, <1>6 DEF ClipInv, ClipTypes
  <1>8. Tells(p)'
    BY <1>1, <1>3, <1>5, <1>6 DEF ClipInv, Tells
  <1>9. ClipApart(p)
    BY <1>1, <1>6 DEF ClipInv, ClipTypes, ClipApart
  <1> QED
    BY <1>7, <1>8, <1>9, ClipOnePage

LEMMA SetClipKeeps == ASSUME ClipInv, NEW p \in Pages, SetClip(p) PROVE ClipInv'
  <1>1. UNCHANGED <<lastClip, watch, toPage, fromPage, pageClip, pageLast, apart, copies>>
    BY DEF SetClip
  <1>2. clip' \in Words /\ handling' \in [Pages -> Words]
    BY DEF SetClip, ClipInv, ClipTypes, Words
  <1>3. ClipTypes'
    BY <1>1, <1>2 DEF ClipInv, ClipTypes
  <1> QED
    BY <1>1, <1>3 DEF ClipInv, Tells

\* Neither of these sends, nor changes what is remembered.
LEMMA WatchLooksKeeps ==
    ASSUME ClipInv, NEW p \in Pages, WatchStarts(p) \/ GetClip(p)
    PROVE  ClipInv'
  <1>1. UNCHANGED <<clip, lastClip, handling, toPage, fromPage, pageClip, pageLast, apart, copies>>
    BY DEF WatchStarts, GetClip
  <1>2. PICK pc \in {"keep", "tick", "compare"} : WatchAt(p, pc, clip)
    BY DEF WatchStarts, GetClip
  <1>3. watch[p].pc # "send"
    BY DEF WatchStarts, GetClip
  <1>4. /\ watch' \in [Pages -> WatchState] /\ watch'[p].pc = pc
        /\ \A q \in Pages \ {p} : watch'[q] = watch[q]
    BY <1>2, WatchIs DEF ClipInv, ClipTypes
  <1>5. ClipTypes'
    BY <1>1, <1>4 DEF ClipInv, ClipTypes
  <1>6. Tells(p)'
    BY <1>1, <1>3, <1>4 DEF ClipInv, Tells
  <1>7. ClipApart(p)
    BY <1>1, <1>4 DEF ClipApart
  <1> QED
    BY <1>5, <1>6, <1>7, ClipOnePage

LEMMA KeepFirstKeeps == ASSUME ClipInv, NEW p \in Pages, KeepFirst(p) PROVE ClipInv'
  <1>1. /\ WatchAt(p, "tick", NoText)
        /\ lastClip' = [lastClip EXCEPT ![p] = watch[p].got]
        /\ apart' = [apart EXCEPT ![p] = TRUE]
        /\ UNCHANGED <<clip, handling, toPage, fromPage, pageClip, pageLast, copies>>
    BY DEF KeepFirst
  <1>2. watch' \in [Pages -> WatchState] /\ \A q \in Pages \ {p} : watch'[q] = watch[q]
    BY <1>1, WatchIs DEF ClipInv, Words
  <1>3. watch[p].got \in Words
    BY DEF ClipInv, ClipTypes, WatchState
  <1>4. ClipTypes'
    BY <1>1, <1>2, <1>3 DEF ClipInv, ClipTypes
  <1>5. apart'[p]
    BY <1>1 DEF ClipInv, ClipTypes
  <1>6. Tells(p)'
    BY <1>1, <1>5 DEF ClipInv, Tells
  <1>7. ClipApart(p)
    BY <1>1, <1>2 DEF ClipInv, ClipTypes, ClipApart
  <1> QED
    BY <1>4, <1>6, <1>7, ClipOnePage

LEMMA CompareKeeps == ASSUME ClipInv, NEW p \in Pages, Compare(p) PROVE ClipInv'
  <1>1. UNCHANGED <<clip, lastClip, handling, toPage, fromPage, pageClip, pageLast, apart, copies>>
        /\ watch[p].pc = "compare"
    BY DEF Compare
  <1>2. watch[p].got \in Words /\ NoText \in Words
    BY DEF ClipInv, ClipTypes, WatchState, Words
  <1>3. PICK pc \in {"tick", "remember"}, got \in Words : WatchAt(p, pc, got)
    BY <1>2 DEF Compare
  <1>4. /\ watch' \in [Pages -> WatchState] /\ watch'[p].pc = pc
        /\ \A q \in Pages \ {p} : watch'[q] = watch[q]
    BY <1>3, WatchIs DEF ClipInv
  <1>5. ClipTypes'
    BY <1>1, <1>4 DEF ClipInv, ClipTypes
  <1>6. Tells(p)'
    BY <1>1, <1>4 DEF ClipInv, Tells
  <1>7. ClipApart(p)
    BY <1>1, <1>4 DEF ClipApart
  <1> QED
    BY <1>5, <1>6, <1>7, ClipOnePage

LEMMA RememberKeeps == ASSUME ClipInv, NEW p \in Pages, Remember(p) PROVE ClipInv'
  <1>1. /\ WatchAt(p, "send", watch[p].got)
        /\ lastClip' = [lastClip EXCEPT ![p] = watch[p].got]
        /\ apart' = [apart EXCEPT ![p] = FALSE]
        /\ UNCHANGED <<clip, handling, toPage, fromPage, pageClip, pageLast, copies>>
    BY DEF Remember
  <1>2. watch[p].got \in Words
    BY DEF ClipInv, ClipTypes, WatchState
  <1>3. /\ watch' \in [Pages -> WatchState]
        /\ watch'[p].pc = "send" /\ watch'[p].got = watch[p].got
        /\ \A q \in Pages \ {p} : watch'[q] = watch[q]
    BY <1>1, <1>2, WatchIs DEF ClipInv
  <1>4. ClipTypes'
    BY <1>1, <1>2, <1>3 DEF ClipInv, ClipTypes
  <1>5. lastClip'[p] = watch[p].got
    BY <1>1 DEF ClipInv, ClipTypes
  <1>6. Tells(p)'
    BY <1>1, <1>3, <1>5 DEF ClipInv, Tells
  <1>7. ClipApart(p)
    BY <1>1, <1>3 DEF ClipInv, ClipTypes, ClipApart
  <1> QED
    BY <1>4, <1>6, <1>7, ClipOnePage

LEMMA SendClipKeeps == ASSUME ClipInv, NEW p \in Pages, SendClip(p) PROVE ClipInv'
  <1>1. /\ WatchAt(p, "tick", NoText) /\ watch[p].pc = "send"
        /\ toPage' = [toPage EXCEPT ![p] = Append(toPage[p], watch[p].got)]
        /\ UNCHANGED <<clip, lastClip, handling, fromPage, pageClip, pageLast, apart, copies>>
    BY DEF SendClip
  <1>2. watch[p].got \in Words /\ toPage[p] \in Seq(Words)
    BY DEF ClipInv, ClipTypes, WatchState
  <1>3. /\ Append(toPage[p], watch[p].got) \in Seq(Words)
        /\ Append(toPage[p], watch[p].got) # <<>>
        /\ Last(Append(toPage[p], watch[p].got)) = watch[p].got
    BY <1>2, LastAppended
  <1>4. /\ watch' \in [Pages -> WatchState] /\ watch'[p].pc = "tick"
        /\ \A q \in Pages \ {p} : watch'[q] = watch[q]
    BY <1>1, WatchIs DEF ClipInv, Words
  <1>5. ClipTypes'
    BY <1>1, <1>3, <1>4 DEF ClipInv, ClipTypes
  <1>6. toPage'[p] = Append(toPage[p], watch[p].got)
    BY <1>1 DEF ClipInv, ClipTypes
  <1>7. Tells(p)'
    BY <1>1, <1>3, <1>4, <1>6 DEF ClipInv, Tells
  <1>8. ClipApart(p)
    BY <1>1, <1>4 DEF ClipInv, ClipTypes, ClipApart
  <1> QED
    BY <1>5, <1>7, <1>8, ClipOnePage

LEMMA ClipStep == ClipInv /\ ClipNext => ClipInv'
  BY CopyKeeps, FocusKeeps, ReceiveKeeps, TakeClipKeeps, SetClipKeeps, WatchLooksKeeps,
     KeepFirstKeeps, CompareKeeps, RememberKeeps, SendClipKeeps DEF ClipNext


-----------------------------------------------------------------------------
Openings == {"new", "subscribed", "kept", "following", "over"}
OpeningState == [pc : Openings, first : Shapes \cup {NoShape}]

CursorTypes ==
    /\ shape \in Shapes \cup {NoShape} /\ changes \in 0 .. MaxShapes
    /\ updates \in [Pages -> Seq(Shapes)] /\ \A p \in Pages : Len(updates[p]) <= ShapeBuffer
    /\ shown \in [Pages -> Shapes \cup {NoShape}] /\ opening \in [Pages -> OpeningState]
    /\ leaving \in [Pages -> {"open", "done", "looked"}]
    /\ subs \subseteq Pages /\ missed \subseteq Pages /\ leaked \subseteq Pages

\* The latest shape is the last one in the channel; with nothing in it, the one
\* that was found on subscribing, and then the one that is drawn.
Latest(p) ==
    IF updates[p] # <<>> THEN Last(updates[p]) = shape
    ELSE /\ opening[p].pc \in {"subscribed", "kept"} => opening[p].first = shape
         /\ opening[p].pc = "following" => shown[p] = shape

Abreast(p) ==
    /\ opening[p].pc = "new" => p \notin subs /\ updates[p] = <<>>
    /\ opening[p].pc \in {"new", "subscribed", "kept"} => shown[p] = NoShape
    /\ leaving[p] = "open" => /\ opening[p].pc # "new" => p \in subs
                              /\ p \in missed \/ Latest(p)
    /\ p \in subs /\ leaving[p] = "looked" => p \in leaked

CursorInv == CursorTypes /\ \A p \in Pages : Abreast(p)

LEMMA CursorStart == CursorInit => CursorInv
  <1> SUFFICES ASSUME CursorInit PROVE CursorInv
    OBVIOUS
  <1>1. Len(<<>>) = 0
    BY EmptySeq
  <1>2. updates \in [Pages -> Seq(Shapes)] /\ \A p \in Pages : Len(updates[p]) <= ShapeBuffer
    BY <1>1, FeedConstants DEF CursorInit
  <1>3. CursorTypes
    BY <1>2, FeedConstants DEF CursorInit, CursorTypes, OpeningState, Openings
  <1>4. \A p \in Pages : Abreast(p)
    BY DEF CursorInit, Abreast, Latest
  <1> QED
    BY <1>3, <1>4 DEF CursorInv

\* The channels of the other pages are not touched.
CursorApart(p) ==
    \A q \in Pages \ {p} :
        /\ updates'[q] = updates[q] /\ opening'[q] = opening[q] /\ shown'[q] = shown[q]
        /\ leaving'[q] = leaving[q] /\ (q \in subs' <=> q \in subs)
        /\ (q \in missed' <=> q \in missed) /\ (q \in leaked' <=> q \in leaked)

LEMMA CursorOnePage ==
    ASSUME CursorInv, NEW p \in Pages, shape' = shape, CursorApart(p), CursorTypes', Abreast(p)'
    PROVE  CursorInv'
  <1>1. ASSUME NEW q \in Pages \ {p} PROVE Abreast(q)'
    BY <1>1 DEF CursorInv, CursorApart, Abreast, Latest
  <1> QED
    BY <1>1 DEF CursorInv

\* One opening goes on.
LEMMA OpeningGoes ==
    ASSUME CursorTypes, NEW p \in Pages, NEW pc \in Openings,
           opening' = [opening EXCEPT ![p].pc = pc]
    PROVE  /\ opening' \in [Pages -> OpeningState]
           /\ opening'[p].pc = pc /\ opening'[p].first = opening[p].first
           /\ \A q \in Pages \ {p} : opening'[q] = opening[q]
  <1>1. opening[p] \in OpeningState
    BY DEF CursorTypes
  <1> DEFINE r == [opening[p] EXCEPT !.pc = pc]
  <1>2. r \in OpeningState /\ r.pc = pc /\ r.first = opening[p].first
    BY <1>1 DEF OpeningState
  <1>3. opening' = [opening EXCEPT ![p] = r]
    OBVIOUS
  <1> HIDE DEF r
  <1> QED
    BY <1>2, <1>3 DEF CursorTypes

\* Whoever is subscribed is offered the new shape, or counted as missing it.
LEMMA RefreshKeeps == ASSUME CursorInv, NEW v \in Shapes, Refresh(v) PROVE CursorInv'
  <1>1. /\ shape' = v /\ UNCHANGED <<subs, opening, leaving, shown, leaked>>
        /\ updates' = [p \in Pages |-> IF p \in subs /\ Roomy(p) THEN Append(updates[p], v)
                                                              ELSE updates[p]]
        /\ missed' = {p \in Pages : IF p \in subs THEN ~Roomy(p) ELSE p \in missed}
    BY DEF Refresh
  <1>2. changes' \in 0 .. MaxShapes
    BY FeedConstants DEF Refresh, CursorInv, CursorTypes
  <1>3. \A p \in Pages : updates'[p] = IF p \in subs /\ Roomy(p) THEN Append(updates[p], v)
                                                               ELSE updates[p]
    BY <1>1
  <1>4. ASSUME NEW p \in Pages
        PROVE  updates'[p] \in Seq(Shapes) /\ Len(updates'[p]) <= ShapeBuffer
    <2>1. updates[p] \in Seq(Shapes) /\ Len(updates[p]) <= ShapeBuffer
      BY DEF CursorInv, CursorTypes
    <2>2. CASE p \in subs /\ Roomy(p)
      <3>1. Append(updates[p], v) \in Seq(Shapes) /\ Len(Append(updates[p], v)) = Len(updates[p]) + 1
        BY <2>1, LastAppended
      <3>2. Len(updates[p]) \in Nat /\ Len(updates[p]) < ShapeBuffer
        BY <2>1, <2>2, LenProperties DEF Roomy
      <3>3. updates'[p] = Append(updates[p], v)
        BY <1>3, <2>2
      <3>4. Len(updates[p]) + 1 <= ShapeBuffer
        BY <3>2, FeedConstants
      <3> QED
        BY <3>1, <3>3, <3>4
    <2>3. CASE ~ (p \in subs /\ Roomy(p))
      BY <1>3, <2>1, <2>3
    <2> QED
      BY <2>2, <2>3
  <1>5. updates' \in [Pages -> Seq(Shapes)]
    <2>1. updates' = [p \in Pages |-> updates'[p]]
      BY <1>1
    <2> QED
      BY <1>4, <2>1
  <1>6. CursorTypes'
    BY <1>1, <1>2, <1>4, <1>5 DEF CursorInv, CursorTypes
  <1>7. ASSUME NEW p \in Pages PROVE Abreast(p)'
    <2>1. Abreast(p) /\ updates[p] \in Seq(Shapes)
      BY DEF CursorInv, CursorTypes
    <2>2. CASE p \in subs /\ Roomy(p)
      <3>0. updates'[p] = Append(updates[p], v)
        BY <1>3, <2>2
      <3>1. updates'[p] # <<>> /\ Last(updates'[p]) = v
        BY <2>1, <3>0, LastAppended
      <3>2. Latest(p)'
        BY <1>1, <3>1 DEF Latest
      <3> QED
        BY <1>1, <2>1, <2>2, <3>2 DEF Abreast
    <2>3. CASE p \in subs /\ ~ Roomy(p)
      <3>1. p \in missed' /\ updates'[p] = updates[p]
        BY <1>1, <1>3, <2>3
      <3> QED
        BY <1>1, <2>1, <2>3, <3>1 DEF Abreast
    <2>4. CASE p \notin subs
      <3>1. updates'[p] = updates[p] /\ (p \in missed' <=> p \in missed)
        BY <1>1, <1>3, <2>4
      <3>2. leaving[p] = "open" => opening[p].pc = "new" /\ updates[p] = <<>>
        BY <2>1, <2>4 DEF Abreast
      <3>3. leaving[p] = "open" => Latest(p)'
        BY <1>1, <3>1, <3>2 DEF Latest
      <3> QED
        BY <1>1, <2>1, <2>4, <3>1, <3>3 DEF Abreast
    <2> QED
      BY <2>2, <2>3, <2>4
  <1> QED
    BY <1>6, <1>7 DEF CursorInv

LEMMA JoinedIs ==
    ASSUME CursorTypes, NEW p \in Pages, Joined(p)
    PROVE  /\ leaked' \subseteq Pages /\ (leaving[p] = "looked" => p \in leaked')
           /\ \A q \in Pages \ {p} : q \in leaked' <=> q \in leaked
  BY DEF Joined, CursorTypes

LEMMA SubscribeShapeKeeps == ASSUME CursorInv, NEW p \in Pages, SubscribeShape(p) PROVE CursorInv'
  <1>1. /\ opening' = [opening EXCEPT ![p] = [pc |-> "subscribed", first |-> shape]]
        /\ opening[p].pc = "new" /\ subs' = subs \cup {p} /\ Joined(p)
        /\ UNCHANGED <<shape, updates, leaving, shown, missed, changes>>
    BY DEF SubscribeShape
  <1>2. /\ leaked' \subseteq Pages /\ (leaving[p] = "looked" => p \in leaked')
        /\ \A q \in Pages \ {p} : q \in leaked' <=> q \in leaked
    BY <1>1, JoinedIs DEF CursorInv
  <1>3. [pc |-> "subscribed", first |-> shape] \in OpeningState
    BY DEF CursorInv, CursorTypes, OpeningState, Openings
  <1>4. /\ opening' \in [Pages -> OpeningState]
        /\ opening'[p].pc = "subscribed" /\ opening'[p].first = shape
        /\ \A q \in Pages \ {p} : opening'[q] = opening[q]
    BY <1>1, <1>3 DEF CursorInv, CursorTypes
  <1>5. CursorTypes'
    BY <1>1, <1>2, <1>4 DEF CursorInv, CursorTypes
  <1>6. Abreast(p)
    BY DEF CursorInv
  <1>7. Abreast(p)'
    BY <1>1, <1>2, <1>4, <1>6 DEF Abreast, Latest
  <1>8. CursorApart(p)
    BY <1>1, <1>2, <1>4 DEF CursorApart
  <1> QED
    BY <1>1, <1>5, <1>7, <1>8, CursorOnePage

LEMMA KeepChannelKeeps == ASSUME CursorInv, NEW p \in Pages, KeepChannel(p) PROVE CursorInv'
  <1>1. /\ opening' = [opening EXCEPT ![p].pc = "kept"] /\ opening[p].pc = "subscribed" /\ Joined(p)
        /\ UNCHANGED <<shape, subs, updates, leaving, shown, missed, changes>>
    BY DEF KeepChannel
  <1>2. /\ leaked' \subseteq Pages /\ (leaving[p] = "looked" => p \in leaked')
        /\ \A q \in Pages \ {p} : q \in leaked' <=> q \in leaked
    BY <1>1, JoinedIs DEF CursorInv
  <1>3. /\ opening' \in [Pages -> OpeningState]
        /\ opening'[p].pc = "kept" /\ opening'[p].first = opening[p].first
        /\ \A q \in Pages \ {p} : opening'[q] = opening[q]
    BY <1>1, OpeningGoes DEF CursorInv, Openings
  <1>4. CursorTypes'
    BY <1>1, <1>2, <1>3 DEF CursorInv, CursorTypes
  <1>5. Abreast(p)
    BY DEF CursorInv
  <1>6. Abreast(p)'
    BY <1>1, <1>2, <1>3, <1>5 DEF Abreast, Latest
  <1>7. CursorApart(p)
    BY <1>1, <1>2, <1>3 DEF CursorApart
  <1> QED
    BY <1>1, <1>4, <1>6, <1>7, CursorOnePage

LEMMA SendFirstKeeps == ASSUME CursorInv, NEW p \in Pages, SendFirst(p) PROVE CursorInv'
  <1> DEFINE new == IF opening[p].first = NoShape THEN shown[p] ELSE opening[p].first
  <1>1. /\ opening' = [opening EXCEPT ![p].pc = "following"] /\ opening[p].pc = "kept"
        /\ shown' = [shown EXCEPT ![p] = new]
        /\ UNCHANGED <<shape, subs, updates, leaving, missed, leaked, changes>>
    BY DEF SendFirst
  <1>2. /\ opening' \in [Pages -> OpeningState]
        /\ opening'[p].pc = "following" /\ opening'[p].first = opening[p].first
        /\ \A q \in Pages \ {p} : opening'[q] = opening[q]
    BY <1>1, OpeningGoes DEF CursorInv, Openings
  <1>3. new \in Shapes \cup {NoShape}
    BY DEF CursorInv, CursorTypes, OpeningState
  <1>4. Abreast(p)
    BY DEF CursorInv
  <1>5. new = opening[p].first
    BY <1>1, <1>4 DEF Abreast
  <1> HIDE DEF new
  <1>6. shown' \in [Pages -> Shapes \cup {NoShape}] /\ shown'[p] = new
        /\ \A q \in Pages \ {p} : shown'[q] = shown[q]
    BY <1>1, <1>3 DEF CursorInv, CursorTypes
  <1>7. CursorTypes'
    BY <1>1, <1>2, <1>6 DEF CursorInv, CursorTypes
  <1>8. Abreast(p)'
    BY <1>1, <1>2, <1>4, <1>5, <1>6 DEF Abreast, Latest
  <1>9. CursorApart(p)
    BY <1>1, <1>2, <1>6 DEF CursorApart
  <1> QED
    BY <1>1, <1>7, <1>8, <1>9, CursorOnePage

LEMMA ForwardShapeKeeps == ASSUME CursorInv, NEW p \in Pages, ForwardShape(p) PROVE CursorInv'
  <1>1. /\ opening[p].pc = "following" /\ updates[p] # <<>>
        /\ shown' = [shown EXCEPT ![p] = Head(updates[p])]
        /\ updates' = [updates EXCEPT ![p] = Tail(updates[p])]
        /\ UNCHANGED <<shape, subs, opening, leaving, missed, leaked, changes>>
    BY DEF ForwardShape
  <1>2. updates[p] \in Seq(Shapes) /\ Len(updates[p]) <= ShapeBuffer
    BY DEF CursorInv, CursorTypes
  <1>3. /\ Tail(updates[p]) \in Seq(Shapes) /\ Head(updates[p]) \in Shapes
        /\ Len(Tail(updates[p])) <= Len(updates[p])
        /\ Tail(updates[p]) # <<>> => Last(Tail(updates[p])) = Last(updates[p])
        /\ Tail(updates[p]) = <<>> => Last(updates[p]) = Head(updates[p])
    BY <1>1, <1>2, LastOfTail
  <1>4. Len(Tail(updates[p])) \in Nat /\ Len(updates[p]) \in Nat
    BY <1>2, <1>3, LenProperties
  <1>5. Len(Tail(updates[p])) <= ShapeBuffer
    BY <1>2, <1>3, <1>4, FeedConstants
  <1>6. updates'[p] = Tail(updates[p]) /\ shown'[p] = Head(updates[p])
        /\ \A q \in Pages \ {p} : updates'[q] = updates[q] /\ shown'[q] = shown[q]
    BY <1>1 DEF CursorInv, CursorTypes
  <1>7. updates' \in [Pages -> Seq(Shapes)] /\ shown' \in [Pages -> Shapes \cup {NoShape}]
    BY <1>1, <1>3 DEF CursorInv, CursorTypes
  <1>8. \A q \in Pages : Len(updates'[q]) <= ShapeBuffer
    BY <1>5, <1>6 DEF CursorInv, CursorTypes
  <1>9. CursorTypes'
    BY <1>1, <1>7, <1>8 DEF CursorInv, CursorTypes
  <1>10. Abreast(p)
    BY DEF CursorInv
  <1>11. Abreast(p)'
    BY <1>1, <1>3, <1>6, <1>10 DEF Abreast, Latest
  <1>12. CursorApart(p)
    BY <1>1, <1>6 DEF CursorApart
  <1> QED
    BY <1>1, <1>9, <1>11, <1>12, CursorOnePage

LEMMA StopFollowingKeeps == ASSUME CursorInv, NEW p \in Pages, StopFollowing(p) PROVE CursorInv'
  <1>1. /\ opening' = [opening EXCEPT ![p].pc = "over"] /\ opening[p].pc = "following"
        /\ leaving[p] # "open"
        /\ UNCHANGED <<shape, subs, updates, leaving, shown, missed, leaked, changes>>
    BY DEF StopFollowing
  <1>2. /\ opening' \in [Pages -> OpeningState]
        /\ opening'[p].pc = "over" /\ opening'[p].first = opening[p].first
        /\ \A q \in Pages \ {p} : opening'[q] = opening[q]
    BY <1>1, OpeningGoes DEF CursorInv, Openings
  <1>3. CursorTypes'
    BY <1>1, <1>2 DEF CursorInv, CursorTypes
  <1>4. Abreast(p)'
    BY <1>1, <1>2 DEF CursorInv, Abreast
  <1>5. CursorApart(p)
    BY <1>1, <1>2 DEF CursorApart
  <1> QED
    BY <1>1, <1>3, <1>4, <1>5, CursorOnePage

\* Close takes a channel that is known to it off the list; one that is not
\* known, and is on it, is kept for good.
LEMMA ClosingKeeps ==
    ASSUME CursorInv, NEW p \in Pages, CloseDone(p) \/ CloseLooks(p)
    PROVE  CursorInv'
  <1>1. UNCHANGED <<shape, updates, opening, shown, missed, changes>>
    BY DEF CloseDone, CloseLooks
  <1>2. /\ leaving' \in [Pages -> {"open", "done", "looked"}] /\ leaving'[p] # "open"
        /\ \A q \in Pages \ {p} : leaving'[q] = leaving[q]
    BY DEF CloseDone, CloseLooks, CursorInv, CursorTypes
  <1>3. /\ subs' \subseteq subs /\ leaked' \subseteq Pages
        /\ \A q \in Pages \ {p} : (q \in subs' <=> q \in subs) /\ (q \in leaked' <=> q \in leaked)
    BY DEF CloseDone, CloseLooks, CursorInv, CursorTypes
  <1>4. p \in subs' /\ leaving'[p] = "looked" => p \in leaked'
    BY DEF CloseDone, CloseLooks, CursorInv, CursorTypes
  <1>5. CursorTypes'
    BY <1>1, <1>2, <1>3 DEF CursorInv, CursorTypes
  <1>6. Abreast(p)
    BY DEF CursorInv
  <1>7. Abreast(p)'
    BY <1>1, <1>2, <1>3, <1>4, <1>6 DEF Abreast
  <1>8. CursorApart(p)
    BY <1>1, <1>2, <1>3 DEF CursorApart
  <1> QED
    BY <1>1, <1>5, <1>7, <1>8, CursorOnePage

LEMMA CursorStep == CursorInv /\ CursorNext => CursorInv'
  BY RefreshKeeps, SubscribeShapeKeeps, KeepChannelKeeps, SendFirstKeeps, ForwardShapeKeeps,
     StopFollowingKeeps, ClosingKeeps DEF CursorNext

LEMMA CaughtUp == ASSUME ClipInv, CursorInv PROVE PagesCatchUp
  <1>1. \A p \in Pages : AtRest(p) /\ clip # NoText => pageClip[p] = clip \/ apart[p]
    BY DEF ClipInv, AtRest, Tells
  <1>2. \A p \in Pages : opening[p].pc = "following" /\ leaving[p] = "open" /\ updates[p] = <<>> =>
                              shown[p] = shape \/ p \in missed
    BY DEF CursorInv, Abreast, Latest
  <1>3. \A p \in subs : leaving[p] = "looked" => p \in leaked
    BY DEF CursorInv, CursorTypes, Abreast
  <1> QED
    BY <1>1, <1>2, <1>3 DEF PagesCatchUp

\* A page at rest pastes what the desktop would, and draws the pointer it has,
\* whatever the watcher, the handler and Close do meanwhile (watchClipboard,
\* handleInput, CursorTracker, Session.Close).
THEOREM FeedsCatchUp == FeedSpec => []FeedTypeOK /\ []PagesCatchUp
  <1>1. FeedInit => ClipInv /\ CursorInv
    BY ClipStart, CursorStart DEF FeedInit
  <1>2. ClipInv /\ CursorInv /\ [FeedNext]_feedVars => (ClipInv /\ CursorInv)'
    <2> SUFFICES ASSUME ClipInv, CursorInv, [FeedNext]_feedVars PROVE ClipInv' /\ CursorInv'
      OBVIOUS
    <2>1. ASSUME UNCHANGED clipVars PROVE ClipInv'
      BY <2>1 DEF clipVars, ClipInv, ClipTypes, Tells
    <2>2. ASSUME UNCHANGED cursorVars PROVE CursorInv'
      BY <2>2 DEF cursorVars, CursorInv, CursorTypes, Abreast, Latest
    <2> QED
      BY <2>1, <2>2, ClipStep, CursorStep DEF FeedNext, feedVars
  <1>3. ClipInv /\ CursorInv => FeedTypeOK /\ PagesCatchUp
    BY CaughtUp DEF ClipInv, CursorInv, ClipTypes, CursorTypes, FeedTypeOK, WatchState,
                    OpeningState, Openings
  <1> QED
    BY <1>1, <1>2, <1>3, PTL DEF FeedSpec

-----------------------------------------------------------------------------
(***************************************************************************)
(* The browser tools.                                                      *)
(*                                                                         *)
(* A request is with the browser, or its reply is on the socket, or its    *)
(* call is about to send another; so the reply a call reads is that to its *)
(* last request, and what the reply said of the page still holds when the  *)
(* next request is handled, unless the page was changed under the call.    *)
(***************************************************************************)

IsReply(m) == m.t = "reply"

\* What a call may find on its socket, by where it is.
Wire(c) ==
    LET s == socket[c] IN
    /\ call[c].tool = "none" <=> call[c].pc = "away"
    /\ call[c].tool # "none" => call[c].at <= Len(Requests[call[c].tool])
    /\ call[c].answer # "none" <=> call[c].pc = "over"
    /\ call[c].pc = "event" => call[c].tool = "browser_goto" /\ call[c].at = 2
    /\ c \in asked => call[c].pc = "await" \/ (call[c].pc = "over" /\ call[c].answer = "failed")
    /\ (call[c].pc \in {"away", "send", "event"} \/ (call[c].pc = "await" /\ c \in asked)) =>
         \A i \in DOMAIN s : ~IsReply(s[i])
    /\ call[c].pc = "await" => \A i, j \in DOMAIN s : IsReply(s[i]) /\ IsReply(s[j]) => i = j

\* What the measuring told is what it found, and the focusing has few answers.
Measured(c) ==
    call[c].at = 1 /\ call[c].pc = "await" =>
        \A i \in DOMAIN socket[c] : IsReply(socket[c][i]) =>
            /\ call[c].tool = "browser_click" => socket[c][i].says \in {"refused", looked[c]}
            /\ call[c].tool = "browser_type" => socket[c][i].says \in {"ok", "refused", "gone"}

Looks(c) ==
    call[c].tool = "browser_click" =>
        IF call[c].at = 1 THEN landed[c] = "nothing" ELSE looked[c] \in {"target", "void"}

\* Where a text would go is where the focusing found.
Aims(c) == looked[c] = IF tab.focus = c THEN "target" ELSE "other"

\* What a call has found still holds, if nothing was changed under it.
Holds(c) ==
    LET s == socket[c] IN
    c \notin moved =>
    /\ c \in Resting("browser_click", 1) =>
         looked[c] = tab.spot \/ (call[c].at = 1 /\ \A i \in DOMAIN s : IsReply(s[i]) => s[i].says = "refused")
    /\ c \in Resting("browser_type", 1) =>
         Aims(c) \/ (call[c].at = 1 /\ \A i \in DOMAIN s : IsReply(s[i]) => s[i].says # "ok")
    /\ c \in Resting("browser_goto", 2) =>
         IF call[c].pc = "event"
         THEN looked[c] = "target" /\ committed[c] = tab.doc /\ \A i \in DOMAIN s : s[i].doc = tab.doc
         ELSE \A i \in DOMAIN s : IsReply(s[i]) /\ s[i].says # "refused" =>
                looked[c] = "target" /\ committed[c] = tab.doc /\ \A j \in DOMAIN s : i < j => s[j].doc = tab.doc

\* A call that has acted, or says so; and one that may have.
Done(c) ==
    \/ call[c].tool = "browser_click" /\ call[c].pc \in {"send", "await"} /\ call[c].at = 4
    \/ call[c].answer \in {"clicked", "typed", "loaded"}

Doing(c) ==
    /\ call[c].pc = "await" /\ c \notin asked
    /\ \/ call[c].tool = "browser_click" /\ call[c].at = 3
       \/ call[c].tool = "browser_type" /\ call[c].at = 2

OnTarget(c) ==
    /\ Done(c) => landed[c] # "nothing"
    /\ Doing(c) => \A i \in DOMAIN socket[c] : IsReply(socket[c][i]) /\ socket[c][i].says # "refused" =>
                       landed[c] # "nothing"
    /\ call[c].pc # "over" /\ ~Done(c) /\ ~Doing(c) => landed[c] = "nothing"
    /\ (call[c].pc # "over" \/ Done(c)) /\ c \notin moved /\ landed[c] # "nothing" => landed[c] = looked[c]

\* The button is down between the press and the release of a click.
Pressing(c) ==
    c \in down =>
       \/ call[c].tool = "browser_click" /\ call[c].pc = "await" /\ call[c].at = 3 /\ c \notin asked
       \/ call[c].tool = "browser_click" /\ call[c].pc = "send" /\ call[c].at = 4
       \/ /\ call[c].tool = "browser_click" /\ call[c].pc = "await" /\ call[c].at = 4
          /\ \A i \in DOMAIN socket[c] : IsReply(socket[c][i]) => socket[c][i].says = "refused"
       \/ call[c].answer = "failed"

CallInv(c) == Wire(c) /\ Measured(c) /\ Looks(c) /\ Holds(c) /\ OnTarget(c) /\ Pressing(c)

BrowserInv == BrowserTypeOK /\ \A c \in Calls : CallInv(c)


-----------------------------------------------------------------------------
\* The tables of the model, spelled out.
Steps ==
    /\ DOMAIN Requests = {"browser_click", "browser_type", "browser_goto", "browser_eval", "browser_wait_for"}
    /\ Requests["browser_click"] = <<"measure", "move", "press", "release">>
    /\ Requests["browser_type"] = <<"focus", "insert">>
    /\ Requests["browser_goto"] = <<"enable", "navigate">>
    /\ Requests["browser_eval"] = <<"evaluate">>
    /\ Requests["browser_wait_for"] = <<"observe">>

LEMMA StepsAreThese == Steps
  BY DEF Steps, Requests

\* Which request a call is at says which tool it is of, and where it is in it.
LEMMA RequestSays ==
    ASSUME BrowserTypeOK, NEW c \in Calls, Wire(c), call[c].tool # "none"
    PROVE  /\ Request(c) = "measure"  <=> call[c].tool = "browser_click" /\ call[c].at = 1
           /\ Request(c) = "move"     <=> call[c].tool = "browser_click" /\ call[c].at = 2
           /\ Request(c) = "press"    <=> call[c].tool = "browser_click" /\ call[c].at = 3
           /\ Request(c) = "release"  <=> call[c].tool = "browser_click" /\ call[c].at = 4
           /\ Request(c) = "focus"    <=> call[c].tool = "browser_type" /\ call[c].at = 1
           /\ Request(c) = "insert"   <=> call[c].tool = "browser_type" /\ call[c].at = 2
           /\ Request(c) = "enable"   <=> call[c].tool = "browser_goto" /\ call[c].at = 1
           /\ Request(c) = "navigate" <=> call[c].tool = "browser_goto" /\ call[c].at = 2
           /\ Request(c) = "evaluate" <=> call[c].tool = "browser_eval" /\ call[c].at = 1
           /\ Request(c) = "observe"  <=> call[c].tool = "browser_wait_for" /\ call[c].at = 1
  <1>1. call[c].tool \in DOMAIN Requests /\ call[c].at \in 1..4 /\ call[c].at <= Len(Requests[call[c].tool])
    BY DEF BrowserTypeOK, Wire
  <1>2. Request(c) = Requests[call[c].tool][call[c].at]
    BY DEF Request
  <1>3. CASE call[c].tool = "browser_click"
    BY <1>1, <1>2, <1>3, StepsAreThese DEF Steps
  <1>4. CASE call[c].tool = "browser_type"
    BY <1>1, <1>2, <1>4, StepsAreThese DEF Steps
  <1>5. CASE call[c].tool = "browser_goto"
    BY <1>1, <1>2, <1>5, StepsAreThese DEF Steps
  <1>6. CASE call[c].tool = "browser_eval"
    BY <1>1, <1>2, <1>6, StepsAreThese DEF Steps
  <1>7. CASE call[c].tool = "browser_wait_for"
    BY <1>1, <1>2, <1>7, StepsAreThese DEF Steps
  <1> QED BY <1>1, <1>3, <1>4, <1>5, <1>6, <1>7, StepsAreThese DEF Steps

LEMMA BrowserStarts == BrowserInit => BrowserInv
  <1> SUFFICES ASSUME BrowserInit PROVE BrowserInv
    OBVIOUS
  <1>1. BrowserTypeOK
    <2>1. tab \in [open : BOOLEAN, doc : Nat, loading : BOOLEAN, spot : Spots,
                  focus : Calls \cup {NoCall}]
      BY DEF BrowserInit, Spots
    <2>2. /\ asked = {} /\ listening = {} /\ down = {} /\ moved = {} /\ fuss = 0
          /\ looked \in [Calls -> {"nothing"}] /\ landed \in [Calls -> {"nothing"}] /\ committed \in [Calls -> {0}]
      BY DEF BrowserInit
    <2>3. socket \in [Calls -> Seq(Messages)]
      BY EmptySeq DEF BrowserInit
    <2> DEFINE fresh == [tool |-> "none", pc |-> "away", at |-> 1, answer |-> "none"]
    <2>4. fresh \in [tool : DOMAIN Requests \cup {"none"}, pc : {"away", "send", "await", "event", "over"},
                    at : 1..4, answer : {"none", "failed", "clicked", "typed", "value", "appeared",
                                         "loaded", "stopped", "not loaded"}]
      OBVIOUS
    <2>5. call = [c \in Calls |-> fresh]
      BY DEF BrowserInit
    <2> HIDE DEF fresh
    <2>6. call \in [Calls -> [tool : DOMAIN Requests \cup {"none"}, pc : {"away", "send", "await", "event", "over"},
                             at : 1..4, answer : {"none", "failed", "clicked", "typed", "value", "appeared",
                                                  "loaded", "stopped", "not loaded"}]]
      BY <2>4, <2>5
    <2>7. /\ looked \in [Calls -> Spots \cup {"nothing"}] /\ landed \in [Calls -> Spots \cup {"nothing"}]
          /\ committed \in [Calls -> Nat]
      BY <2>2
    <2> QED BY <2>1, <2>2, <2>3, <2>6, <2>7 DEF BrowserTypeOK
  <1>2. ASSUME NEW c \in Calls PROVE CallInv(c)
    <2>1. /\ call[c] = [tool |-> "none", pc |-> "away", at |-> 1, answer |-> "none"]
          /\ c \notin asked /\ c \notin down /\ c \notin moved
          /\ socket[c] = <<>> /\ landed[c] = "nothing"
      BY <1>2 DEF BrowserInit
    <2>2. DOMAIN socket[c] = {}
      BY <2>1
    <2>3. Wire(c)
      BY <2>1, <2>2 DEF Wire
    <2>4. c \notin Resting("browser_click", 1) /\ c \notin Resting("browser_type", 1) /\ c \notin Resting("browser_goto", 2)
      BY <2>1 DEF Resting
    <2> QED BY <2>1, <2>3, <2>4 DEF CallInv, Measured, Looks, Holds, OnTarget, Done, Doing, Pressing
  <1> QED BY <1>1, <1>2 DEF BrowserInv

\* What a call goes by when others move: its own things are as they were, its
\* socket has at most heard of events, and who rested on what changed is told.
Heard(s, t, doc) ==
    /\ Len(s) <= Len(t)
    /\ \A i \in 1..Len(s) : t[i] = s[i]
    /\ \A i \in 1..Len(t) : Len(s) < i => ~IsReply(t[i]) /\ t[i].doc = doc

LEMMA Bystander ==
    ASSUME BrowserInv, BrowserTypeOK', NEW d \in Calls,
           call'[d] = call[d], looked'[d] = looked[d], landed'[d] = landed[d], committed'[d] = committed[d],
           d \in asked' <=> d \in asked, d \in down' => d \in down, d \in moved => d \in moved',
           tab'.spot = tab.spot \/ (d \in Resting("browser_click", 1) => d \in moved'),
           tab'.focus = tab.focus \/ (d \in Resting("browser_type", 1) => d \in moved'),
           tab'.doc = tab.doc \/ (d \in Resting("browser_goto", 2) => d \in moved'),
           Heard(socket[d], socket'[d], tab.doc)
    PROVE  CallInv(d)'
  <1>1. CallInv(d)
    BY DEF BrowserInv
  <1>2. /\ socket[d] \in Seq(Messages) /\ socket'[d] \in Seq(Messages)
        /\ DOMAIN socket[d] = 1..Len(socket[d]) /\ Len(socket[d]) \in Nat
        /\ DOMAIN socket'[d] = 1..Len(socket'[d]) /\ Len(socket'[d]) \in Nat
    <2>1. socket[d] \in Seq(Messages) /\ socket'[d] \in Seq(Messages)
      BY DEF BrowserInv, BrowserTypeOK
    <2> QED BY <2>1, LenProperties
  <1>3. \A i \in DOMAIN socket'[d] : IsReply(socket'[d][i]) => i \in DOMAIN socket[d] /\ socket'[d][i] = socket[d][i]
    BY <1>2 DEF Heard
  <1>4. \A i \in DOMAIN socket'[d] : (i \in DOMAIN socket[d] /\ socket'[d][i] = socket[d][i]) \/ socket'[d][i].doc = tab.doc
    BY <1>2 DEF Heard
  <1>5. Wire(d)'
    BY <1>1, <1>3 DEF CallInv, Wire
  <1>6. \A tool : \A step \in 1..2 : d \in Resting(tool, step)' <=> d \in Resting(tool, step)
    BY DEF Resting
  <1>7. Holds(d)'
    <2> SUFFICES ASSUME d \notin moved' PROVE Holds(d)'
      BY DEF Holds
    <2>1. Holds(d) /\ d \notin moved
      BY <1>1 DEF CallInv
    <2>2. ASSUME d \in Resting("browser_click", 1)'
          PROVE  looked'[d] = tab'.spot \/ (call'[d].at = 1 /\ \A i \in DOMAIN socket'[d] : IsReply(socket'[d][i]) =>
                                                                     socket'[d][i].says = "refused")
      <3>1. d \in Resting("browser_click", 1) /\ tab'.spot = tab.spot
        BY <1>6, <2>2
      <3> QED BY <1>3, <2>1, <3>1 DEF Holds
    <2>3. ASSUME d \in Resting("browser_type", 1)'
          PROVE  Aims(d)' \/ (call'[d].at = 1 /\ \A i \in DOMAIN socket'[d] : IsReply(socket'[d][i]) =>
                                                       socket'[d][i].says # "ok")
      <3>1. d \in Resting("browser_type", 1) /\ tab'.focus = tab.focus
        BY <1>6, <2>3
      <3> QED BY <1>3, <2>1, <3>1 DEF Holds, Aims
    <2>4. ASSUME d \in Resting("browser_goto", 2)'
          PROVE  IF call'[d].pc = "event"
                 THEN looked'[d] = "target" /\ committed'[d] = tab'.doc
                      /\ \A i \in DOMAIN socket'[d] : socket'[d][i].doc = tab'.doc
                 ELSE \A i \in DOMAIN socket'[d] : IsReply(socket'[d][i]) /\ socket'[d][i].says # "refused" =>
                        looked'[d] = "target" /\ committed'[d] = tab'.doc
                        /\ \A j \in DOMAIN socket'[d] : i < j => socket'[d][j].doc = tab'.doc
      <3>1. d \in Resting("browser_goto", 2) /\ tab'.doc = tab.doc
        BY <1>6, <2>4
      <3>2. CASE call[d].pc = "event"
        BY <1>4, <2>1, <3>1, <3>2 DEF Holds
      <3>3. CASE call[d].pc # "event"
        <4>1. \A i \in DOMAIN socket[d] : IsReply(socket[d][i]) /\ socket[d][i].says # "refused" =>
                looked[d] = "target" /\ committed[d] = tab.doc /\ \A j \in DOMAIN socket[d] : i < j => socket[d][j].doc = tab.doc
          BY <2>1, <3>1, <3>3 DEF Holds
        <4> QED BY <1>3, <1>4, <3>1, <3>3, <4>1
      <3> QED BY <3>2, <3>3
    <2> QED BY <2>2, <2>3, <2>4 DEF Holds
  <1>7a. Measured(d)' /\ Looks(d)'
    <2>1. Measured(d)'
      BY <1>1, <1>3 DEF CallInv, Measured
    <2> QED BY <1>1, <2>1 DEF CallInv, Looks
  <1>8. OnTarget(d)'
    <2>1. (Done(d)' <=> Done(d)) /\ (Doing(d)' <=> Doing(d))
      BY DEF Done, Doing
    <2> QED BY <1>1, <1>3, <2>1 DEF CallInv, OnTarget
  <1>9. Pressing(d)'
    BY <1>1, <1>3 DEF CallInv, Pressing
  <1> QED BY <1>5, <1>7, <1>7a, <1>8, <1>9 DEF CallInv

-----------------------------------------------------------------------------
(* What the page does. *)

LEMMA NothingHeard ==
    ASSUME NEW s \in Seq(Messages), NEW doc PROVE Heard(s, s, doc)
  <1>1. Len(s) \in Nat
    BY LenProperties
  <1> QED BY <1>1 DEF Heard

LEMMA EventsHeard ==
    ASSUME NEW s \in Seq(Messages), NEW events \in Seq(Messages), NEW doc,
           \A i \in 1..Len(events) : events[i].t = "event" /\ events[i].doc = doc
    PROVE  s \o events \in Seq(Messages) /\ Heard(s, s \o events, doc)
  <1> DEFINE t == s \o events
             m == Len(s)
             n == Len(events)
  <1>1. m \in Nat /\ n \in Nat
    BY LenProperties
  <1>2. t \in Seq(Messages) /\ Len(t) = m + n /\ \A i \in 1 .. m + n : t[i] = IF i <= m THEN s[i] ELSE events[i - m]
    BY ConcatProperties
  <1>3. \A i \in 1..n : events[i].t = "event" /\ events[i].doc = doc
    OBVIOUS
  <1> HIDE DEF t, m, n
  <1>4. \A i \in 1..m : t[i] = s[i]
    BY <1>1, <1>2
  <1>5. ASSUME NEW i \in 1 .. m + n, m < i PROVE ~IsReply(t[i]) /\ t[i].doc = doc
    <2> DEFINE k == i - m
    <2>1. k \in 1..n /\ t[i] = events[k]
      BY <1>1, <1>2, <1>5
    <2> QED BY <1>3, <2>1 DEF IsReply
  <1>6. m <= Len(t)
    BY <1>1, <1>2
  <1> QED BY <1>2, <1>4, <1>5, <1>6 DEF Heard, t, m

LEMMA TellHeard ==
    ASSUME BrowserInv, NEW events \in Seq(Messages), Tell(events),
           \A i \in 1..Len(events) : events[i].t = "event" /\ events[i].doc = tab.doc
    PROVE  /\ socket' \in [Calls -> Seq(Messages)]
           /\ \A d \in Calls : Heard(socket[d], socket'[d], tab.doc)
  <1>1. socket \in [Calls -> Seq(Messages)]
    BY DEF BrowserInv, BrowserTypeOK
  <1>2. socket' = [c \in Calls |-> IF c \in listening THEN socket[c] \o events ELSE socket[c]]
    BY DEF Tell
  <1>3. ASSUME NEW d \in Calls PROVE socket'[d] \in Seq(Messages) /\ Heard(socket[d], socket'[d], tab.doc)
    <2>1. CASE d \in listening
      <3>1. socket'[d] = socket[d] \o events
        BY <1>2, <2>1
      <3> QED BY <1>1, <3>1, EventsHeard
    <2>2. CASE d \notin listening
      <3>1. socket'[d] = socket[d]
        BY <1>2, <2>2
      <3> QED BY <1>1, <3>1, NothingHeard
    <2> QED BY <2>1, <2>2
  <1> QED BY <1>2, <1>3

\* A step of the page, given what it may change.
LEMMA PageStep ==
    ASSUME BrowserInv, UNCHANGED <<call, asked, listening, down, history>>,
           moved \subseteq moved', moved' \subseteq Calls, fuss' \in Nat,
           tab' \in [open : BOOLEAN, doc : Nat, loading : BOOLEAN, spot : Spots,
                     focus : Calls \cup {NoCall}],
           tab'.doc = tab.doc,
           tab'.spot = tab.spot \/ Resting("browser_click", 1) \subseteq moved',
           tab'.focus = tab.focus \/ Resting("browser_type", 1) \subseteq moved',
           socket' \in [Calls -> Seq(Messages)], \A d \in Calls : Heard(socket[d], socket'[d], tab.doc)
    PROVE  BrowserInv'
  <1>1. BrowserTypeOK'
    BY DEF BrowserInv, BrowserTypeOK, history
  <1>2. ASSUME NEW d \in Calls PROVE CallInv(d)'
    BY <1>1, Bystander DEF history
  <1> QED BY <1>1, <1>2 DEF BrowserInv

LEMMA PageSteps ==
    ASSUME BrowserInv, Shift \/ Blur \/ LoadEnds \/ FrameStops \/ TabCloses \/ TabOpens
    PROVE  BrowserInv'
  <1> DEFINE Tabs == [open : BOOLEAN, doc : Nat, loading : BOOLEAN, spot : Spots,
                      focus : Calls \cup {NoCall}]
  <1>1. /\ tab \in Tabs /\ moved \subseteq Calls /\ fuss \in Nat /\ tab.doc \in Nat
        /\ socket \in [Calls -> Seq(Messages)]
        /\ \A d \in Calls : Heard(socket[d], socket[d], tab.doc)
    BY NothingHeard DEF BrowserInv, BrowserTypeOK
  <1>2. \A tool : Resting(tool, 1) \subseteq Calls
    BY DEF Resting
  <1>3. Fuss => fuss' \in Nat
    BY <1>1 DEF Fuss
  <1>4. \A what \in {"load", "stopped"} : Event(what) \in Messages /\ Event(what).t = "event" /\ Event(what).doc = tab.doc
    BY <1>1 DEF Event, Messages
  <1>5. CASE Shift
    <2>1. PICK spot \in Spots : tab' = [tab EXCEPT !.spot = spot]
      BY <1>5 DEF Shift
    <2>2. tab' \in Tabs /\ tab'.doc = tab.doc /\ tab'.focus = tab.focus
      BY <1>1, <2>1
    <2>3. /\ UNCHANGED <<call, asked, socket, listening, down, history>> /\ fuss' \in Nat
          /\ moved' = moved \cup Resting("browser_click", 1)
      BY <1>3, <1>5 DEF Shift
    <2> QED BY <1>1, <1>2, <2>2, <2>3, PageStep
  <1>6. CASE Blur
    <2>1. tab' \in Tabs /\ tab'.doc = tab.doc /\ tab'.spot = tab.spot
      BY <1>1, <1>6 DEF Blur
    <2>2. /\ UNCHANGED <<call, asked, socket, listening, down, history>> /\ fuss' \in Nat
          /\ moved' = moved \cup Resting("browser_type", 1)
      BY <1>3, <1>6 DEF Blur
    <2> QED BY <1>1, <1>2, <2>1, <2>2, PageStep
  <1>7. CASE LoadEnds
    <2>1. tab' \in Tabs /\ tab'.doc = tab.doc /\ tab'.spot = tab.spot /\ tab'.focus = tab.focus
      BY <1>1, <1>7 DEF LoadEnds
    <2> DEFINE events == <<Event("load"), Event("stopped")>>
    <2>2. UNCHANGED <<call, asked, listening, down, history, moved, fuss>> /\ Tell(events)
      BY <1>7 DEF LoadEnds
    <2>3. events \in Seq(Messages) /\ \A i \in 1..Len(events) : events[i].t = "event" /\ events[i].doc = tab.doc
      BY <1>4
    <2>4. socket' \in [Calls -> Seq(Messages)] /\ \A d \in Calls : Heard(socket[d], socket'[d], tab.doc)
      <3> HIDE DEF events
      <3> QED BY <2>2, <2>3, TellHeard
    <2> QED BY <1>1, <2>1, <2>2, <2>4, PageStep
  <1>8. CASE FrameStops
    <2>1. tab' \in Tabs /\ tab'.doc = tab.doc /\ tab'.spot = tab.spot /\ tab'.focus = tab.focus
      BY <1>1, <1>8 DEF FrameStops
    <2> DEFINE events == <<Event("stopped")>>
    <2>2. UNCHANGED <<call, asked, listening, down, history, moved>> /\ fuss' \in Nat /\ Tell(events)
      BY <1>3, <1>8 DEF FrameStops
    <2>3. events \in Seq(Messages) /\ \A i \in 1..Len(events) : events[i].t = "event" /\ events[i].doc = tab.doc
      BY <1>4
    <2>4. socket' \in [Calls -> Seq(Messages)] /\ \A d \in Calls : Heard(socket[d], socket'[d], tab.doc)
      <3> HIDE DEF events
      <3> QED BY <2>2, <2>3, TellHeard
    <2> QED BY <1>1, <2>1, <2>2, <2>4, PageStep
  <1>9. CASE TabCloses \/ TabOpens
    <2>1. tab' \in Tabs /\ tab'.doc = tab.doc /\ tab'.spot = tab.spot /\ tab'.focus = tab.focus
      BY <1>1, <1>9 DEF TabCloses, TabOpens
    <2>2. UNCHANGED <<call, asked, socket, listening, down, history, moved>> /\ fuss' \in Nat
      BY <1>3, <1>9 DEF TabCloses, TabOpens
    <2> QED BY <1>1, <2>1, <2>2, PageStep
  <1> QED BY <1>5, <1>6, <1>7, <1>8, <1>9

-----------------------------------------------------------------------------
(* What the browser handles. *)

Sayings == {"ok", "refused", "target", "other", "void", "gone", "found", "timeout", "destroyed"}

\* A reply comes to a call that waits for it, or has given up.
LEMMA Replied ==
    ASSUME BrowserInv, NEW c \in Calls, c \in asked, c \notin asked', call'[c] = call[c],
           NEW says \in Sayings, socket'[c] = Append(socket[c], Reply(says))
    PROVE  /\ socket'[c] \in Seq(Messages) /\ Wire(c)'
           /\ call[c].pc = "over" => Measured(c)' /\ Holds(c)' /\ OnTarget(c)' /\ Pressing(c)'
           /\ call[c].pc # "over" =>
                /\ call[c].pc = "await" /\ call[c].answer = "none"
                /\ \A i \in DOMAIN socket'[c] : IsReply(socket'[c][i]) =>
                     socket'[c][i].says = says /\ ~(\E j \in DOMAIN socket'[c] : i < j)
  <1> DEFINE s == socket[c]
             t == Append(s, Reply(says))
  <1>1. CallInv(c) /\ s \in Seq(Messages) /\ call[c].answer \in {"none", "failed", "clicked", "typed", "value", "appeared",
                                                "loaded", "stopped", "not loaded"}
    BY DEF BrowserInv, BrowserTypeOK
  <1>2. Reply(says) \in Messages /\ Reply(says).says = says
    BY DEF Reply, Messages, Sayings
  <1>3. /\ t \in Seq(Messages) /\ DOMAIN s = 1..Len(s) /\ Len(s) \in Nat /\ DOMAIN t = 1 .. Len(s) + 1
        /\ \A i \in 1..Len(s) : t[i] = s[i]
        /\ t[Len(s) + 1] = Reply(says)
    <2>1. /\ t \in Seq(Messages) /\ Len(t) = Len(s) + 1
          /\ \A i \in 1..Len(s) : t[i] = s[i]
          /\ t[Len(s) + 1] = Reply(says)
      <3> HIDE DEF s
      <3> DEFINE m == Reply(says)
      <3>1. s \in Seq(Messages) /\ m \in Messages /\ t = Append(s, m)
        BY <1>1, <1>2
      <3> HIDE DEF t, m
      <3>2. /\ t \in Seq(Messages) /\ Len(t) = Len(s) + 1
            /\ \A i \in 1..Len(s) : t[i] = s[i]
            /\ t[Len(s) + 1] = m
        BY <3>1, AppendProperties
      <3> QED BY <3>2 DEF m
    <2> HIDE DEF s, t
    <2> QED BY <1>1, <2>1, LenProperties
  <1>4. call[c].pc = "await" \/ (call[c].pc = "over" /\ call[c].answer = "failed")
    BY <1>1 DEF CallInv, Wire
  <1>5. ASSUME call[c].pc = "await", NEW i \in DOMAIN t, IsReply(t[i])
        PROVE  i = Len(s) + 1 /\ t[i].says = says /\ ~(\E j \in DOMAIN t : i < j)
    <2>1. \A j \in DOMAIN s : ~IsReply(s[j])
      BY <1>1, <1>5 DEF CallInv, Wire
    <2> HIDE DEF s, t
    <2> QED BY <1>2, <1>3, <1>5, <2>1
  <1>6. socket'[c] = t
    OBVIOUS
  <1>7. Wire(c)'
    <2> HIDE DEF s, t
    <2> QED BY <1>1, <1>4, <1>5, <1>6 DEF CallInv, Wire
  <1>8. ASSUME call[c].pc = "over" PROVE Measured(c)' /\ Holds(c)' /\ OnTarget(c)' /\ Pressing(c)'
    <2>1. call[c].answer = "failed"
      BY <1>4, <1>8
    <2>2. \A tool : \A step \in 1..2 : c \notin Resting(tool, step)'
      BY <1>8 DEF Resting
    <2>3. Holds(c)'
      BY <2>2 DEF Holds
    <2>4. Measured(c)' /\ OnTarget(c)' /\ Pressing(c)'
      BY <1>8, <2>1 DEF Measured, OnTarget, Done, Doing, Pressing
    <2> QED BY <2>3, <2>4
  <1>9. call[c].pc # "over" => call[c].pc = "await" /\ call[c].answer = "none"
    BY <1>1, <1>4 DEF CallInv, Wire
  <1> HIDE DEF t
  <1> QED BY <1>3, <1>4, <1>5, <1>6, <1>7, <1>8, <1>9

\* A request is handled, for all but what it does to its own call.
LEMMA HandledStep ==
    ASSUME BrowserInv, NEW c \in Calls, Handled(c), NEW says \in Sayings, Answers(c, says),
           UNCHANGED <<call, committed, fuss>>,
           listening' \subseteq Calls, down' \subseteq down \cup {c}, moved \subseteq moved', moved' \subseteq Calls,
           landed' \in [Calls -> Spots \cup {"nothing"}],
           looked' \in [Calls -> Spots \cup {"nothing"}],
           \A d \in Calls \ {c} : landed'[d] = landed[d] /\ looked'[d] = looked[d],
           tab' \in [open : BOOLEAN, doc : Nat, loading : BOOLEAN, spot : Spots,
                     focus : Calls \cup {NoCall}],
           tab'.doc = tab.doc, tab'.spot = tab.spot,
           tab'.focus = tab.focus \/ Resting("browser_type", 1) \ {c} \subseteq moved',
           (/\ call[c].pc = "await" /\ CallInv(c) /\ Wire(c)'
            /\ \A i \in DOMAIN socket'[c] : IsReply(socket'[c][i]) =>
                 socket'[c][i].says = says /\ ~(\E j \in DOMAIN socket'[c] : i < j))
              => Measured(c)' /\ Holds(c)' /\ OnTarget(c)' /\ Pressing(c)',
           Looks(c)'
    PROVE  BrowserInv'
  <1>1. c \in asked /\ asked' = asked \ {c} /\ socket' = [socket EXCEPT ![c] = Append(@, Reply(says))]
    BY DEF Handled, Answers
  <1>2. /\ socket'[c] = Append(socket[c], Reply(says)) /\ \A d \in Calls \ {c} : socket'[d] = socket[d]
        /\ socket \in [Calls -> Seq(Messages)]
    BY <1>1 DEF BrowserInv, BrowserTypeOK
  <1>3. /\ socket'[c] \in Seq(Messages) /\ Wire(c)'
        /\ call[c].pc = "over" => Measured(c)' /\ Holds(c)' /\ OnTarget(c)' /\ Pressing(c)'
        /\ call[c].pc # "over" =>
             /\ call[c].pc = "await"
             /\ \A i \in DOMAIN socket'[c] : IsReply(socket'[c][i]) =>
                  socket'[c][i].says = says /\ ~(\E j \in DOMAIN socket'[c] : i < j)
    BY <1>1, <1>2, Replied
  <1>4. socket' \in [Calls -> Seq(Messages)]
    BY <1>1, <1>2, <1>3
  <1>5. BrowserTypeOK'
    BY <1>1, <1>4 DEF BrowserInv, BrowserTypeOK
  <1>6. ASSUME NEW d \in Calls \ {c} PROVE CallInv(d)'
    <2>1. Heard(socket[d], socket'[d], tab.doc)
      BY <1>2, NothingHeard
    <2> QED BY <1>1, <1>5, <1>6, <2>1, Bystander
  <1>7. CallInv(c)'
    <2>1. CASE call[c].pc = "over"
      BY <1>3, <2>1 DEF CallInv
    <2>2. CASE call[c].pc # "over"
      BY <1>3, <2>2 DEF BrowserInv, CallInv
    <2> QED BY <2>1, <2>2
  <1> QED BY <1>5, <1>6, <1>7 DEF BrowserInv

\* The requests that leave tab, button and text alone.
LEMMA QuietRequests ==
    ASSUME BrowserInv, NEW c \in Calls, call[c].tool # "none",
           Measure(c) \/ EnableEvents(c) \/ Evaluate(c) \/ WaitInPage(c) \/ Refuse(c)
    PROVE  BrowserInv'
  <1>1. PICK says \in Sayings :
            /\ Handled(c) /\ Answers(c, says)
            /\ \/ Request(c) = "measure" /\ says = tab.spot /\ looked' = [looked EXCEPT ![c] = tab.spot]
               \/ Request(c) \in {"enable", "evaluate", "observe"} /\ UNCHANGED looked
               \/ says = "refused" /\ UNCHANGED looked
    <2>1. CASE Measure(c)
      BY <2>1 DEF Measure, Finds, Sayings, Spots, BrowserInv, BrowserTypeOK
    <2>2. CASE EnableEvents(c)
      BY <2>2 DEF EnableEvents, Sayings, history
    <2>3. CASE Evaluate(c)
      BY <2>3 DEF Evaluate, Sayings, history
    <2>4. CASE WaitInPage(c)
      BY <2>4 DEF WaitInPage, Sayings, history
    <2>5. CASE Refuse(c)
      BY <2>5 DEF Refuse, Sayings, history
    <2> QED BY <2>1, <2>2, <2>3, <2>4, <2>5
  <1>2. UNCHANGED <<tab, call, down, landed, committed, moved, fuss>> /\ listening' \subseteq Calls
    BY DEF Measure, EnableEvents, Evaluate, WaitInPage, Refuse, history, BrowserInv, BrowserTypeOK
  <1>3. BrowserTypeOK /\ CallInv(c) /\ c \in asked /\ c \notin asked'
    BY <1>1 DEF BrowserInv, Handled
  <1>4. /\ Request(c) = "measure" => call[c].tool = "browser_click" /\ call[c].at = 1
        /\ Request(c) \in {"enable", "evaluate", "observe"} =>
             \/ call[c].tool = "browser_goto" /\ call[c].at = 1
             \/ call[c].tool \in {"browser_eval", "browser_wait_for"}
    BY <1>3, RequestSays DEF CallInv
  <1>5. /\ looked' \in [Calls -> Spots \cup {"nothing"}] /\ \A d \in Calls \ {c} : looked'[d] = looked[d]
        /\ Request(c) = "measure" /\ says # "refused" => looked'[c] = tab.spot
        /\ ~(call[c].tool = "browser_click" /\ call[c].at = 1) => looked'[c] = looked[c]
        /\ says \in {"refused", looked'[c]} \/ ~(call[c].tool = "browser_click" /\ call[c].at = 1)
        /\ says = "refused" \/ ~(call[c].tool = "browser_type" /\ call[c].at = 1)
    <2>1. looked \in [Calls -> Spots \cup {"nothing"}] /\ tab.spot \in Spots
      BY <1>3 DEF BrowserTypeOK
    <2> QED BY <1>1, <1>4, <2>1
  <1>6. Looks(c)'
    BY <1>2, <1>3, <1>5 DEF CallInv, Looks
  <1>7. ASSUME call[c].pc = "await", \A i \in DOMAIN socket'[c] : IsReply(socket'[c][i]) => socket'[c][i].says = says
        PROVE  Measured(c)' /\ Holds(c)' /\ OnTarget(c)' /\ Pressing(c)'
    <2>1. call[c].answer = "none"
      BY <1>3, <1>7 DEF CallInv, Wire, BrowserTypeOK
    <2>2. Measured(c)'
      BY <1>2, <1>5, <1>7 DEF Measured
    <2>3. Holds(c)'
      <3>1. ASSUME c \notin moved, c \in Resting("browser_click", 1)'
            PROVE  looked'[c] = tab.spot \/ (call[c].at = 1 /\ says = "refused")
        <4>1. call[c].tool = "browser_click" /\ call[c].at \in 1..4 /\ landed[c] = "nothing"
          BY <1>2, <1>3, <3>1 DEF Resting, BrowserTypeOK
        <4>2. CASE call[c].at = 1
          BY <1>1, <1>3, <1>4, <1>5, <4>1, <4>2
        <4>3. CASE call[c].at # 1
          <5>1. c \in Resting("browser_click", 1)
            BY <1>7, <4>1, <4>3 DEF Resting
          <5> QED BY <1>3, <1>5, <3>1, <4>3, <5>1 DEF CallInv, Holds
        <4> QED BY <4>2, <4>3
      <3>2. ASSUME c \notin moved, c \in Resting("browser_type", 1)'
            PROVE  Aims(c)' \/ (call[c].at = 1 /\ says # "ok")
        <4>1. call[c].tool = "browser_type" /\ call[c].at \in 1..4 /\ landed[c] = "nothing"
          BY <1>2, <1>3, <3>2 DEF Resting, BrowserTypeOK
        <4>2. says = "refused" /\ looked'[c] = looked[c]
          BY <1>1, <1>4, <1>5, <4>1
        <4>3. CASE call[c].at # 1
          <5>1. c \in Resting("browser_type", 1)
            BY <1>7, <4>1, <4>3 DEF Resting
          <5> QED BY <1>2, <1>3, <3>2, <4>2, <4>3, <5>1 DEF CallInv, Holds, Aims
        <4> QED BY <4>2, <4>3
      <3>3. c \in Resting("browser_goto", 2)' => says = "refused" /\ call[c].pc # "event"
        BY <1>1, <1>2, <1>4, <1>7 DEF Resting
      <3> QED BY <1>2, <1>7, <3>1, <3>2, <3>3 DEF Holds
    <2>4. Pressing(c)'
      BY <1>1, <1>2, <1>3, <1>4, <1>7, <2>1 DEF CallInv, Pressing
    <2>5. OnTarget(c)'
      BY <1>1, <1>2, <1>3, <1>4, <1>7, <2>1 DEF CallInv, OnTarget, Done, Doing
    <2> QED BY <2>2, <2>3, <2>4, <2>5
  <1> QED BY <1>1, <1>2, <1>5, <1>6, <1>7, HandledStep DEF BrowserInv, BrowserTypeOK

\* The field has the focus, or it is known that it has not.
LEMMA FocusStep ==
    ASSUME BrowserInv, NEW c \in Calls, call[c].tool # "none", FocusField(c)
    PROVE  BrowserInv'
  <1>1. /\ Handled(c) /\ UNCHANGED <<call, listening, down, landed, committed, fuss>>
        /\ tab' \in {tab, [tab EXCEPT !.focus = c]}
        /\ moved' = IF tab' = tab THEN moved ELSE moved \cup (Resting("browser_type", 1) \ {c})
    BY DEF FocusField
  <1>2. PICK says \in {"ok", "refused", "gone"}, what \in Spots :
            /\ Answers(c, says) /\ looked' = [looked EXCEPT ![c] = what]
            /\ says = "ok" => what = IF tab'.focus = c THEN "target" ELSE "other"
    BY DEF FocusField, Finds, Spots
  <1>3. BrowserTypeOK /\ CallInv(c) /\ c \in asked /\ c \notin asked'
    BY <1>1 DEF BrowserInv, Handled
  <1>4. call[c].tool = "browser_type" /\ call[c].at = 1
    BY <1>3, RequestSays DEF CallInv, FocusField
  <1>5. /\ tab' \in [open : BOOLEAN, doc : Nat, loading : BOOLEAN, spot : Spots, focus : Calls \cup {NoCall}]
        /\ tab'.doc = tab.doc /\ tab'.spot = tab.spot
        /\ looked' \in [Calls -> Spots \cup {"nothing"}] /\ looked'[c] = what
        /\ \A d \in Calls \ {c} : looked'[d] = looked[d]
    BY <1>1, <1>2, <1>3 DEF BrowserTypeOK
  <1>6. ASSUME call[c].pc = "await", \A i \in DOMAIN socket'[c] : IsReply(socket'[c][i]) => socket'[c][i].says = says
        PROVE  Measured(c)' /\ Holds(c)' /\ OnTarget(c)' /\ Pressing(c)'
    <2>1. call[c].answer = "none"
      BY <1>3, <1>6 DEF CallInv, Wire, BrowserTypeOK
    <2>2. Pressing(c)' /\ OnTarget(c)' /\ Measured(c)'
      BY <1>1, <1>3, <1>4, <1>6, <2>1 DEF CallInv, Pressing, OnTarget, Done, Doing, Measured
    <2>3. c \notin Resting("browser_click", 1)' /\ c \notin Resting("browser_goto", 2)'
      BY <1>1, <1>4 DEF Resting
    <2>4. says = "ok" => Aims(c)'
      BY <1>2, <1>5 DEF Aims
    <2> QED BY <1>1, <1>4, <1>6, <2>2, <2>3, <2>4 DEF Holds
  <1>7. moved \subseteq moved' /\ moved' \subseteq Calls
        /\ (tab'.focus = tab.focus \/ Resting("browser_type", 1) \ {c} \subseteq moved')
    BY <1>1, <1>3 DEF BrowserTypeOK, Resting
  <1>8. says \in Sayings /\ listening' \subseteq Calls /\ down' \subseteq down \cup {c}
        /\ landed' \in [Calls -> Spots \cup {"nothing"}]
    BY <1>1, <1>2, <1>3 DEF Sayings, BrowserTypeOK
  <1>9. Looks(c)'
    BY <1>1, <1>4 DEF Looks
  <1>10. \A d \in Calls \ {c} : landed'[d] = landed[d]
    BY <1>1
  <1> QED BY <1>1, <1>2, <1>5, <1>6, <1>7, <1>8, <1>9, <1>10, HandledStep

\* A press and a text come to what the last look found, if nothing moved.
LEMMA DispatchStep ==
    ASSUME BrowserInv, NEW c \in Calls, call[c].tool # "none", Dispatch(c)
    PROVE  BrowserInv'
  <1>1. /\ Handled(c) /\ Answers(c, "ok") /\ Request(c) \in {"move", "press", "release", "insert"}
        /\ UNCHANGED <<tab, call, listening, looked, committed, moved, fuss>>
    BY DEF Dispatch
  <1>2. BrowserTypeOK /\ CallInv(c) /\ c \in asked /\ c \notin asked'
    BY <1>1 DEF BrowserInv, Handled
  <1>3. /\ down' = CASE Request(c) = "press"   -> down \cup {c}
                     [] Request(c) = "release" -> down \ {c}
                     [] OTHER                  -> down
        /\ landed' = [landed EXCEPT ![c] = CASE Request(c) = "press"  -> tab.spot
                                             [] Request(c) = "insert" -> IF tab.focus = c THEN "target" ELSE "other"
                                             [] OTHER -> landed[c]]
    BY DEF Dispatch
  <1>4. down' \subseteq down \cup {c} /\ (Request(c) # "press" => down' \subseteq down)
        /\ (Request(c) = "release" => c \notin down')
    BY <1>3
  <1>5. /\ landed' \in [Calls -> Spots \cup {"nothing"}]
        /\ \A d \in Calls \ {c} : landed'[d] = landed[d]
        /\ Request(c) = "press" => landed'[c] = tab.spot /\ landed'[c] # "nothing"
        /\ Request(c) = "insert" => landed'[c] = IF tab.focus = c THEN "target" ELSE "other"
        /\ Request(c) \in {"move", "release"} => landed'[c] = landed[c]
    <2>1. landed \in [Calls -> Spots \cup {"nothing"}] /\ tab.spot \in Spots
      BY <1>2 DEF BrowserTypeOK
    <2>2. tab.spot # "nothing" /\ "target" \in Spots /\ "other" \in Spots
      BY <2>1 DEF Spots
    <2> QED BY <1>1, <1>3, <2>1, <2>2
  <1>6. \/ call[c].tool = "browser_click" /\ call[c].at = 2 /\ Request(c) = "move"
        \/ call[c].tool = "browser_click" /\ call[c].at = 3 /\ Request(c) = "press"
        \/ call[c].tool = "browser_click" /\ call[c].at = 4 /\ Request(c) = "release"
        \/ call[c].tool = "browser_type" /\ call[c].at = 2 /\ Request(c) = "insert"
    BY <1>1, <1>2, RequestSays DEF CallInv
  <1>7. ASSUME call[c].pc = "await" PROVE Measured(c)' /\ Holds(c)' /\ OnTarget(c)' /\ Pressing(c)'
    <2>1. call[c].answer = "none"
      BY <1>2, <1>7 DEF CallInv, Wire, BrowserTypeOK
    <2>2. Request(c) \in {"move", "press", "insert"} => landed[c] = "nothing"
      BY <1>2, <1>6, <1>7, <2>1 DEF CallInv, OnTarget, Done, Doing
    <2>3. landed[c] = "nothing" =>
             /\ call[c].tool = "browser_click" => c \in Resting("browser_click", 1)
             /\ call[c].tool = "browser_type" => c \in Resting("browser_type", 1)
      BY <1>6, <1>7 DEF Resting
    <2>4. c \notin moved /\ landed[c] = "nothing" =>
             /\ call[c].tool = "browser_click" => tab.spot = looked[c]
             /\ call[c].tool = "browser_type" => Aims(c)
      BY <1>2, <1>6, <2>3 DEF CallInv, Holds
    <2>5. Holds(c)'
      <3>1. /\ c \in Resting("browser_click", 1)' => call[c].tool = "browser_click" /\ Request(c) \in {"move", "release"}
            /\ c \notin Resting("browser_type", 1)'
            /\ c \notin Resting("browser_goto", 2)'
        BY <1>1, <1>5, <1>6 DEF Resting
      <3>2. c \in Resting("browser_click", 1)' => landed[c] = "nothing"
        BY <1>5, <3>1 DEF Resting
      <3> QED BY <1>1, <2>4, <3>1, <3>2 DEF Holds
    <2>6. Pressing(c)'
      BY <1>1, <1>2, <1>4, <1>6, <1>7, <2>1 DEF CallInv, Pressing
    <2>7. OnTarget(c)'
      <3>1. CASE Request(c) = "press"
        BY <1>1, <1>2, <1>5, <1>6, <1>7, <2>1, <2>2, <2>4, <3>1 DEF OnTarget, Done, Doing
      <3>2. CASE Request(c) = "insert"
        BY <1>1, <1>2, <1>5, <1>6, <1>7, <2>2, <2>4, <3>2 DEF OnTarget, Done, Doing, Aims
      <3>3. CASE Request(c) = "release"
        BY <1>1, <1>2, <1>5, <1>6, <1>7, <3>3 DEF CallInv, OnTarget, Done, Doing
      <3>4. CASE Request(c) = "move"
        BY <1>1, <1>2, <1>5, <1>6, <2>1, <2>2, <3>4 DEF OnTarget, Done, Doing
      <3> QED BY <1>1, <3>1, <3>2, <3>3, <3>4
    <2>8. Measured(c)'
      BY <1>1, <1>6 DEF Measured
    <2> QED BY <2>5, <2>6, <2>7, <2>8
  <1>8. "ok" \in Sayings /\ listening' \subseteq Calls /\ moved' \subseteq Calls
        /\ looked' \in [Calls -> Spots \cup {"nothing"}]
    BY <1>1, <1>2 DEF Sayings, BrowserTypeOK
  <1>9. tab \in [open : BOOLEAN, doc : Nat, loading : BOOLEAN, spot : Spots, focus : Calls \cup {NoCall}]
    BY <1>2 DEF BrowserTypeOK
  <1>10. Looks(c)'
    BY <1>1, <1>2, <1>6 DEF CallInv, Looks
  <1> QED BY <1>1, <1>4, <1>5, <1>7, <1>8, <1>9, <1>10, HandledStep

\* A navigation moves the ground under everybody but the call that asked for it.
LEMMA CommitStep ==
    ASSUME BrowserInv, NEW c \in Calls, call[c].tool # "none", Commit(c)
    PROVE  BrowserInv'
  <1> DEFINE waits == {w \in asked : Request(w) = "observe"}
  <1>1. /\ Request(c) = "navigate" /\ c \in asked /\ asked' = asked \ ({c} \cup waits)
        /\ tab' = [tab EXCEPT !.doc = @ + 1, !.loading = TRUE, !.spot = "gone", !.focus = NoCall]
        /\ committed' = [committed EXCEPT ![c] = tab.doc + 1] /\ looked' = [looked EXCEPT ![c] = "target"]
        /\ socket' = [w \in Calls |-> IF w = c THEN Append(socket[w], Reply("ok"))
                                      ELSE IF w \in waits THEN Append(socket[w], Reply("destroyed"))
                                      ELSE socket[w]]
        /\ moved' = moved \cup Resting("browser_click", 1) \cup Resting("browser_type", 1)
                          \cup (Resting("browser_goto", 2) \ {c})
        /\ UNCHANGED <<call, listening, down, landed, fuss>>
    BY DEF Commit, Finds
  <1>2. BrowserTypeOK /\ (\A d \in Calls : CallInv(d)) /\ asked \subseteq Calls
    BY DEF BrowserInv, BrowserTypeOK
  <1>3. call[c].tool = "browser_goto" /\ call[c].at = 2
    BY <1>1, <1>2, RequestSays DEF CallInv
  <1>4. \A w \in waits : /\ w \in Calls /\ w \in asked /\ w \notin asked'
                         /\ w # c => socket'[w] = Append(socket[w], Reply("destroyed"))
                         /\ call[w].tool = "browser_wait_for"
    <2> TAKE w \in waits
    <2>1. w \in Calls /\ w \in asked /\ Request(w) = "observe"
      BY <1>2
    <2>2. call[w].tool # "none"
      BY <1>2, <2>1 DEF CallInv, Wire
    <2>3. call[w].tool = "browser_wait_for"
      BY <1>2, <2>1, <2>2, RequestSays DEF CallInv
    <2> QED BY <1>1, <2>1, <2>3
  <1> HIDE DEF waits
  <1>5. socket'[c] = Append(socket[c], Reply("ok")) /\ c \notin asked' /\ c \notin waits
    BY <1>1, <1>3, <1>4
  <1>6. \A d \in Calls \ {c} : d \notin waits => socket'[d] = socket[d] /\ (d \in asked' <=> d \in asked)
    BY <1>1
  <1>7. /\ tab' \in [open : BOOLEAN, doc : Nat, loading : BOOLEAN, spot : Spots,
                     focus : Calls \cup {NoCall}]
        /\ tab'.doc = tab.doc + 1 /\ committed' \in [Calls -> Nat] /\ committed'[c] = tab'.doc
        /\ looked' \in [Calls -> Spots \cup {"nothing"}] /\ looked'[c] = "target"
        /\ \A d \in Calls \ {c} : committed'[d] = committed[d] /\ looked'[d] = looked[d]
    <2>1. tab \in [open : BOOLEAN, doc : Nat, loading : BOOLEAN, spot : Spots,
                  focus : Calls \cup {NoCall}]
      BY <1>2 DEF BrowserTypeOK
    <2>2. tab.doc \in Nat /\ tab.doc + 1 \in Nat
      BY <2>1
    <2>3. /\ tab' \in [open : BOOLEAN, doc : Nat, loading : BOOLEAN, spot : Spots,
                       focus : Calls \cup {NoCall}]
          /\ tab'.doc = tab.doc + 1
      BY <1>1, <2>1, <2>2 DEF Spots
    <2>4. committed \in [Calls -> Nat] /\ looked \in [Calls -> Spots \cup {"nothing"}]
      BY <1>2 DEF BrowserTypeOK
    <2> QED BY <1>1, <2>2, <2>3, <2>4 DEF Spots
  <1>8. moved \subseteq moved' /\ moved' \subseteq Calls
    BY <1>1, <1>2 DEF BrowserTypeOK, Resting
  <1>9. "ok" \in Sayings /\ "destroyed" \in Sayings
    BY DEF Sayings
  <1>10. /\ socket'[c] \in Seq(Messages) /\ Wire(c)'
         /\ call[c].pc = "over" => Measured(c)' /\ Holds(c)' /\ OnTarget(c)' /\ Pressing(c)'
         /\ call[c].pc # "over" =>
              /\ call[c].pc = "await" /\ call[c].answer = "none"
              /\ \A i \in DOMAIN socket'[c] : IsReply(socket'[c][i]) => ~(\E j \in DOMAIN socket'[c] : i < j)
    BY <1>1, <1>5, <1>9, Replied
  <1>11. ASSUME NEW d \in waits PROVE socket'[d] \in Seq(Messages) /\ CallInv(d)'
    <2>1. /\ socket'[d] \in Seq(Messages) /\ Wire(d)'
          /\ call[d].pc = "over" => Measured(d)' /\ Holds(d)' /\ OnTarget(d)' /\ Pressing(d)'
          /\ call[d].pc # "over" => call[d].answer = "none"
      BY <1>1, <1>4, <1>5, <1>9, Replied
    <2>2. call'[d] = call[d] /\ call[d].tool = "browser_wait_for" /\ d \in Calls
      BY <1>1, <1>4
    <2>3. Holds(d)'
      BY <2>2 DEF Holds, Resting
    <2>4. ASSUME call[d].answer = "none" PROVE OnTarget(d)' /\ Pressing(d)'
      BY <1>1, <1>2, <2>2, <2>4 DEF CallInv, OnTarget, Done, Doing, Pressing
    <2>5. Measured(d)' /\ Looks(d)'
      BY <2>2 DEF Measured, Looks
    <2> QED BY <2>1, <2>3, <2>4, <2>5 DEF CallInv
  <1>12. socket' \in [Calls -> Seq(Messages)]
    <2>1. \A d \in Calls : socket'[d] \in Seq(Messages)
      BY <1>2, <1>6, <1>10, <1>11 DEF BrowserTypeOK
    <2> QED BY <1>1, <2>1
  <1>13. BrowserTypeOK'
    BY <1>1, <1>2, <1>7, <1>8, <1>12 DEF BrowserTypeOK
  <1>14. ASSUME NEW d \in Calls \ {c}, d \notin waits PROVE CallInv(d)'
    <2>1. Heard(socket[d], socket'[d], tab.doc)
      BY <1>2, <1>6, <1>14, NothingHeard DEF BrowserTypeOK
    <2>2. /\ d \in Resting("browser_click", 1) => d \in moved'
          /\ d \in Resting("browser_type", 1) => d \in moved'
          /\ d \in Resting("browser_goto", 2) => d \in moved'
      BY <1>1, <1>14
    <2>3. /\ call'[d] = call[d] /\ looked'[d] = looked[d] /\ landed'[d] = landed[d] /\ committed'[d] = committed[d]
          /\ d \in asked' <=> d \in asked
          /\ d \in down' => d \in down
          /\ d \in moved => d \in moved'
      BY <1>1, <1>6, <1>7, <1>8, <1>14
    <2> QED BY <1>13, <1>14, <2>1, <2>2, <2>3, Bystander
  <1>15. CallInv(c)'
    <2>0. Looks(c)' /\ Measured(c)'
      BY <1>1, <1>3 DEF Looks, Measured
    <2>1. CASE call[c].pc = "over"
      BY <1>10, <2>0, <2>1 DEF CallInv
    <2>2. CASE call[c].pc # "over"
      <3>1. Pressing(c)' /\ OnTarget(c)'
        BY <1>1, <1>2, <1>3, <1>10, <2>2 DEF CallInv, Pressing, OnTarget, Done, Doing
      <3>2. /\ c \notin Resting("browser_click", 1)' /\ c \notin Resting("browser_type", 1)'
            /\ call'[c].pc = "await"
        BY <1>1, <1>3, <1>10, <2>2 DEF Resting
      <3> QED BY <1>7, <1>10, <2>0, <2>2, <3>1, <3>2 DEF CallInv, Holds
    <2> QED BY <2>1, <2>2
  <1> QED BY <1>11, <1>13, <1>14, <1>15 DEF BrowserInv

-----------------------------------------------------------------------------
(* What a call does. *)

\* A call that moves leaves the others where they are.
LEMMA OtherCallsStay ==
    ASSUME BrowserInv, BrowserTypeOK', NEW c \in Calls, UNCHANGED <<tab, looked, committed, moved>>, down' \subseteq down,
           \A d \in Calls \ {c} : call'[d] = call[d] /\ landed'[d] = landed[d] /\ socket'[d] = socket[d]
                                    /\ (d \in asked' <=> d \in asked),
           CallInv(c)'
    PROVE  BrowserInv'
  <1>1. ASSUME NEW d \in Calls \ {c} PROVE CallInv(d)'
    <2>1. Heard(socket[d], socket'[d], tab.doc)
      BY <1>1, NothingHeard DEF BrowserInv, BrowserTypeOK
    <2> QED BY <1>1, <2>1, Bystander
  <1> QED BY <1>1 DEF BrowserInv

Called ==
    [tool : DOMAIN Requests \cup {"none"}, pc : {"away", "send", "await", "event", "over"}, at : 1..4,
     answer : {"none", "failed", "clicked", "typed", "value", "appeared", "loaded", "stopped", "not loaded"}]

LEMMA CallKinds ==
    ASSUME BrowserTypeOK, NEW c \in Calls, Wire(c), call[c].tool # "none"
    PROVE  /\ call[c].tool = "browser_click" => Len(Requests[call[c].tool]) = 4
           /\ call[c].tool \in {"browser_type", "browser_goto"} => Len(Requests[call[c].tool]) = 2
           /\ call[c].tool \in {"browser_eval", "browser_wait_for"} => Len(Requests[call[c].tool]) = 1
           /\ call[c].tool \in {"browser_click", "browser_type", "browser_goto", "browser_eval", "browser_wait_for"}
           /\ call[c].at \in 1 .. Len(Requests[call[c].tool])
  <1>1. call[c].tool \in DOMAIN Requests /\ call[c].at \in 1..4 /\ call[c].at <= Len(Requests[call[c].tool])
    BY DEF BrowserTypeOK, Wire
  <1>2. /\ call[c].tool = "browser_click" => Len(Requests[call[c].tool]) = 4
        /\ call[c].tool \in {"browser_type", "browser_goto"} => Len(Requests[call[c].tool]) = 2
        /\ call[c].tool \in {"browser_eval", "browser_wait_for"} => Len(Requests[call[c].tool]) = 1
    BY StepsAreThese DEF Steps
  <1>3. call[c].tool \in {"browser_click", "browser_type", "browser_goto", "browser_eval", "browser_wait_for"}
    BY <1>1, StepsAreThese DEF Steps
  <1> QED BY <1>1, <1>2, <1>3

LEMMA OpenStep ==
    ASSUME BrowserInv, NEW c \in Calls, NEW tool \in DOMAIN Requests, OpenSocket(c, tool)
    PROVE  BrowserInv'
  <1> DEFINE next == [tool |-> tool, pc |-> IF tab.open THEN "send" ELSE "over", at |-> 1,
                      answer |-> IF tab.open THEN "none" ELSE "failed"]
  <1>1. /\ call[c].pc = "away" /\ call' = [call EXCEPT ![c] = next]
        /\ UNCHANGED <<tab, asked, socket, listening, down, history, moved, fuss>>
    BY DEF OpenSocket
  <1>2. BrowserTypeOK /\ CallInv(c) /\ call \in [Calls -> Called]
    BY DEF BrowserInv, BrowserTypeOK, Called, history
  <1>3. /\ next \in Called /\ next.tool = tool /\ next.at = 1
        /\ \/ next.pc = "send" /\ next.answer = "none"
           \/ next.pc = "over" /\ next.answer = "failed"
    BY DEF Called
  <1> HIDE DEF next
  <1>4. call' \in [Calls -> Called] /\ call'[c] = next /\ \A d \in Calls \ {c} : call'[d] = call[d]
    BY <1>1, <1>2, <1>3
  <1>5. BrowserTypeOK'
    BY <1>1, <1>2, <1>4 DEF BrowserTypeOK, Called, history
  <1>6. tool # "none" /\ 1 <= Len(Requests[tool])
    BY StepsAreThese DEF Steps
  <1>7. c \notin asked /\ c \notin down /\ call[c].answer = "none" /\ \A i \in DOMAIN socket[c] : ~IsReply(socket[c][i])
    BY <1>1, <1>2 DEF CallInv, Wire, Pressing, BrowserTypeOK
  <1>8. Wire(c)'
    BY <1>1, <1>3, <1>4, <1>6, <1>7 DEF Wire
  <1>9. Holds(c)'
    <2>1. call'[c].at = 1 /\ call'[c].pc \in {"send", "over"}
      BY <1>3, <1>4
    <2>2. \A t : \A step \in 1..2 : c \notin Resting(t, step)'
      BY <2>1 DEF Resting
    <2> QED BY <2>2 DEF Holds
  <1>10. OnTarget(c)' /\ Pressing(c)' /\ Measured(c)' /\ Looks(c)'
    <2>1. landed[c] = "nothing" /\ landed' = landed
      BY <1>1, <1>2, <1>7 DEF CallInv, OnTarget, Done, Doing, history
    <2> QED BY <1>1, <1>3, <1>4, <1>7, <2>1 DEF OnTarget, Done, Doing, Pressing, Measured, Looks
  <1>11. CallInv(c)'
    BY <1>8, <1>9, <1>10 DEF CallInv
  <1> QED BY <1>1, <1>4, <1>5, <1>11, OtherCallsStay DEF history

LEMMA SendStep ==
    ASSUME BrowserInv, NEW c \in Calls, SendRequest(c)
    PROVE  BrowserInv'
  <1> DEFINE next == [call[c] EXCEPT !.pc = "await"]
  <1>1. /\ call[c].pc = "send" /\ call' = [call EXCEPT ![c] = next] /\ asked' = asked \cup {c}
        /\ UNCHANGED <<tab, socket, listening, down, history, moved, fuss>>
    BY DEF SendRequest, CallAt
  <1>2. BrowserTypeOK /\ CallInv(c) /\ call \in [Calls -> Called]
    BY DEF BrowserInv, BrowserTypeOK, Called, history
  <1>3. /\ next \in Called /\ next.pc = "await"
        /\ next.tool = call[c].tool /\ next.at = call[c].at /\ next.answer = call[c].answer
    BY <1>2 DEF Called
  <1> HIDE DEF next
  <1>4. call' \in [Calls -> Called] /\ call'[c] = next /\ \A d \in Calls \ {c} : call'[d] = call[d]
    BY <1>1, <1>2, <1>3
  <1>5. BrowserTypeOK'
    <2>1. asked' \subseteq Calls
      BY <1>1, <1>2 DEF BrowserTypeOK
    <2>2. UNCHANGED <<tab, socket, listening, down, history, moved, fuss>>
      BY <1>1
    <2> QED BY <1>2, <1>4, <2>1, <2>2 DEF BrowserTypeOK, Called, history
  <1>6. call[c].tool # "none" /\ call[c].answer = "none" /\ \A i \in DOMAIN socket[c] : ~IsReply(socket[c][i])
    BY <1>1, <1>2 DEF CallInv, Wire, BrowserTypeOK
  <1>7. Wire(c)'
    BY <1>1, <1>2, <1>3, <1>4, <1>6 DEF CallInv, Wire
  <1>8. call[c].tool = "browser_goto" => call[c].at \in 1..2
    BY <1>2, <1>6, CallKinds DEF CallInv
  <1>9. Holds(c)'
    <2>1. /\ c \in Resting("browser_click", 1)' => c \in Resting("browser_click", 1) /\ call[c].at # 1
          /\ c \in Resting("browser_type", 1)' => c \in Resting("browser_type", 1) /\ call[c].at # 1
          /\ c \notin Resting("browser_goto", 2)'
      BY <1>1, <1>3, <1>4, <1>8 DEF Resting, history
    <2> QED BY <1>1, <1>2, <1>3, <1>4, <2>1 DEF CallInv, Holds, Aims, history
  <1>10. OnTarget(c)' /\ Measured(c)' /\ Looks(c)'
    BY <1>1, <1>2, <1>3, <1>4, <1>6 DEF CallInv, OnTarget, Done, Doing, Measured, Looks, history
  <1>11. Pressing(c)'
    BY <1>1, <1>2, <1>3, <1>4, <1>6 DEF CallInv, Pressing
  <1>12. CallInv(c)'
    BY <1>7, <1>9, <1>10, <1>11 DEF CallInv
  <1> QED BY <1>1, <1>4, <1>5, <1>12, OtherCallsStay DEF history

LEMMA GiveUpStep ==
    ASSUME BrowserInv, NEW c \in Calls, GivesUp(c)
    PROVE  BrowserInv'
  <1> DEFINE says == IF call[c].pc = "event" THEN "not loaded" ELSE "failed"
             next == [call[c] EXCEPT !.pc = "over", !.answer = says]
  <1>1. /\ call[c].pc \in {"send", "await", "event"}
        /\ UNCHANGED <<tab, asked, socket, listening, down, history, moved, fuss>>
    BY DEF GivesUp
  <1>2. call' = [call EXCEPT ![c] = next]
    BY DEF GivesUp, Ends
  <1>3. BrowserTypeOK /\ CallInv(c) /\ call \in [Calls -> Called]
    BY DEF BrowserInv, BrowserTypeOK, Called, history
  <1>4. says \in {"failed", "not loaded"} /\ (call[c].pc # "event" => says = "failed")
    OBVIOUS
  <1> HIDE DEF says
  <1>5. /\ next \in Called /\ next.pc = "over" /\ next.answer = says
        /\ next.tool = call[c].tool /\ next.at = call[c].at
    BY <1>3, <1>4 DEF Called
  <1> HIDE DEF next
  <1>6. call' \in [Calls -> Called] /\ call'[c] = next /\ \A d \in Calls \ {c} : call'[d] = call[d]
    BY <1>2, <1>3, <1>5
  <1>7. BrowserTypeOK'
    BY <1>1, <1>3, <1>6 DEF BrowserTypeOK, Called, history
  <1>8. call[c].tool # "none" /\ call[c].answer = "none" /\ (c \in asked => call[c].pc = "await")
    BY <1>1, <1>3 DEF CallInv, Wire, BrowserTypeOK
  <1>9. Wire(c)'
    BY <1>1, <1>3, <1>4, <1>5, <1>6, <1>8 DEF CallInv, Wire
  <1>10. Holds(c)'
    BY <1>5, <1>6 DEF Holds, Resting
  <1>11. OnTarget(c)' /\ Measured(c)' /\ Looks(c)'
    BY <1>1, <1>3, <1>4, <1>5, <1>6 DEF CallInv, OnTarget, Done, Doing, Measured, Looks, history
  <1>12. Pressing(c)'
    BY <1>1, <1>3, <1>4, <1>5, <1>6, <1>8 DEF CallInv, Pressing
  <1>13. CallInv(c)'
    BY <1>9, <1>10, <1>11, <1>12 DEF CallInv
  <1> QED BY <1>1, <1>6, <1>7, <1>13, OtherCallsStay DEF history

LEMMA FirstRead ==
    ASSUME NEW s \in Seq(Messages), s # <<>>
    PROVE  /\ Tail(s) \in Seq(Messages) /\ Head(s) = s[1] /\ 1 \in DOMAIN s
           /\ \A i \in DOMAIN Tail(s) : i \in Nat /\ 1 < i + 1 /\ i + 1 \in DOMAIN s /\ Tail(s)[i] = s[i + 1]
  <1> DEFINE t == Tail(s)
             n == Len(s)
  <1>1. n \in Nat /\ n # 0 /\ DOMAIN s = 1..n
    BY LenProperties, EmptySeq
  <1>2. t \in Seq(Messages) /\ Len(t) = n - 1 /\ \A i \in 1..Len(t) : t[i] = s[i + 1]
    BY HeadTailProperties
  <1>3. Head(s) = s[1]
    OBVIOUS
  <1>4. DOMAIN t = 1 .. Len(t)
    BY <1>2, LenProperties
  <1> HIDE DEF t, n
  <1>5. \A i \in DOMAIN t : i \in Nat /\ 1 < i + 1 /\ i + 1 \in DOMAIN s /\ t[i] = s[i + 1]
    BY <1>1, <1>2, <1>4
  <1> QED BY <1>1, <1>2, <1>3, <1>5 DEF t

\* What is left to read after a reply is no reply, and comes after it.
LEMMA ReadReplyStep ==
    ASSUME BrowserInv, NEW c \in Calls, ReadReply(c)
    PROVE  BrowserInv'
  <1> DEFINE s == socket[c]
             t == Tail(s)
             m == Head(s)
             tool == call[c].tool
             onward == [call[c] EXCEPT !.pc = "send", !.at = @ + 1]
             waiting == [call[c] EXCEPT !.pc = "event"]
             over(says) == [call[c] EXCEPT !.pc = "over", !.answer = says]
  <1>1. /\ call[c].pc = "await" /\ s # <<>> /\ socket' = [socket EXCEPT ![c] = t]
        /\ \/ m.t = "event" /\ call' = call
           \/ m.t = "reply" /\ RefusesToGoOn(m.says) /\ call' = [call EXCEPT ![c] = over("failed")]
           \/ /\ m.t = "reply" /\ ~RefusesToGoOn(m.says)
              /\ \/ call[c].at < Len(Requests[tool]) /\ call' = [call EXCEPT ![c] = onward]
                 \/ /\ ~(call[c].at < Len(Requests[tool]))
                    /\ \/ tool = "browser_goto" /\ call' = [call EXCEPT ![c] = waiting]
                       \/ tool # "browser_goto" /\ call' = [call EXCEPT ![c] = over(Said[tool])]
        /\ UNCHANGED <<tab, asked, listening, down, looked, landed, committed, moved, fuss>>
    <2>1. s \in Seq(Messages)
      BY DEF BrowserInv, BrowserTypeOK
    <2>2. call[c].pc = "await" /\ s # <<>>
      BY DEF ReadReply
    <2>3. m \in Messages
      BY <2>1, <2>2, HeadTailProperties
    <2>4. m.t = "event" \/ (m.t = "reply" /\ RefusesToGoOn(m.says)) \/ (m.t = "reply" /\ ~RefusesToGoOn(m.says))
      BY <2>3 DEF Messages
    <2> QED BY <2>2, <2>4 DEF ReadReply, Ends, CallAt, history
  <1>2. BrowserTypeOK /\ CallInv(c) /\ call \in [Calls -> Called] /\ s \in Seq(Messages)
    BY DEF BrowserInv, BrowserTypeOK, Called, history
  <1>3. /\ t \in Seq(Messages) /\ m = s[1] /\ 1 \in DOMAIN s
        /\ \A i \in DOMAIN t : i \in Nat /\ 1 < i + 1 /\ i + 1 \in DOMAIN s /\ t[i] = s[i + 1]
    BY <1>1, <1>2, FirstRead
  <1>4. /\ tool # "none" /\ call[c].answer = "none" /\ call[c].at \in 1 .. Len(Requests[tool])
        /\ tool = "browser_click" => Len(Requests[tool]) = 4
        /\ tool \in {"browser_type", "browser_goto"} => Len(Requests[tool]) = 2
        /\ tool \in {"browser_eval", "browser_wait_for"} => Len(Requests[tool]) = 1
        /\ tool \in {"browser_click", "browser_type", "browser_goto", "browser_eval", "browser_wait_for"}
    <2>1. tool # "none" /\ call[c].answer = "none"
      BY <1>1, <1>2 DEF CallInv, Wire, BrowserTypeOK
    <2> QED BY <1>2, <2>1, CallKinds DEF CallInv
  \* Where the call is in its requests, before and after the last.
  <1>4a. /\ call[c].at < Len(Requests[tool]) =>
              /\ call[c].at + 1 \in 1..4 /\ call[c].at + 1 # 1 /\ call[c].at + 1 <= Len(Requests[tool])
              /\ tool \in {"browser_type", "browser_goto"} => call[c].at = 1
              /\ tool = "browser_click" => call[c].at \in 1..3
         /\ ~(call[c].at < Len(Requests[tool])) =>
              /\ tool = "browser_click" => call[c].at = 4
              /\ tool \in {"browser_type", "browser_goto"} => call[c].at = 2
    <2> DEFINE n == Len(Requests[tool])
               k == call[c].at
    <2>1. k \in 1..n /\ n \in {1, 2, 4}
      BY <1>4
    <2>2. (tool = "browser_click" => n = 4) /\ (tool \in {"browser_type", "browser_goto"} => n = 2)
      BY <1>4
    <2> HIDE DEF n, k, tool
    <2>3. /\ k < n => k + 1 \in 1..4 /\ k + 1 # 1 /\ k + 1 <= n
          /\ k < n /\ n = 2 => k = 1
          /\ k < n /\ n = 4 => k \in 1..3
          /\ ~(k < n) => k = n
      BY <2>1
    <2> QED BY <2>2, <2>3 DEF n, k
  <1>5. socket'[c] = t /\ (\A d \in Calls \ {c} : socket'[d] = socket[d]) /\ socket' \in [Calls -> Seq(Messages)]
    BY <1>1, <1>2, <1>3 DEF BrowserTypeOK
  <1> HIDE DEF s, t, m
  \* Whatever becomes of the call, it is left to prove that its own invariant holds.
  <1>6. ASSUME NEW next \in Called, call' = [call EXCEPT ![c] = next], CallInv(c)' PROVE BrowserInv'
    <2>1. call' \in [Calls -> Called] /\ \A d \in Calls \ {c} : call'[d] = call[d]
      BY <1>2, <1>6
    <2>2. BrowserTypeOK'
      BY <1>1, <1>2, <1>5, <2>1 DEF BrowserTypeOK, Called, history
    <2> QED BY <1>1, <1>5, <1>6, <2>1, <2>2, OtherCallsStay
  <1>7. CASE m.t = "event"
    <2>1. call' = call /\ call' = [call EXCEPT ![c] = call[c]] /\ call[c] \in Called
      BY <1>1, <1>2, <1>7
    <2>2. Wire(c)'
      <3>1. \A i \in DOMAIN t : IsReply(t[i]) => IsReply(s[i + 1])
        BY <1>3
      <3>2. c \in asked => \A i \in DOMAIN t : ~IsReply(t[i])
        BY <1>1, <1>2, <1>3, <3>1 DEF CallInv, Wire, s
      <3>3. \A i, j \in DOMAIN t : IsReply(t[i]) /\ IsReply(t[j]) => i = j
        <4> SUFFICES ASSUME NEW i \in DOMAIN t, NEW j \in DOMAIN t, IsReply(t[i]), IsReply(t[j]) PROVE i = j
          OBVIOUS
        <4>1. i + 1 = j + 1
          BY <1>1, <1>2, <1>3, <3>1 DEF CallInv, Wire, s
        <4> QED BY <1>3, <4>1
      <3> QED BY <1>1, <1>2, <1>5, <2>1, <3>2, <3>3 DEF CallInv, Wire
    <2>3. \A tl : \A step \in 1..2 : c \in Resting(tl, step)' <=> c \in Resting(tl, step)
      BY <1>1, <2>1 DEF Resting
    <2>4. Holds(c)'
      <3> SUFFICES ASSUME c \notin moved PROVE Holds(c)'
        BY <1>1 DEF Holds
      <3>1. Holds(c)
        BY <1>2 DEF CallInv
      <3>2. /\ c \in Resting("browser_click", 1) =>
                 looked[c] = tab.spot \/ (call[c].at = 1 /\ \A i \in DOMAIN t : IsReply(t[i]) => t[i].says = "refused")
            /\ c \in Resting("browser_type", 1) =>
                 Aims(c) \/ (call[c].at = 1 /\ \A i \in DOMAIN t : IsReply(t[i]) => t[i].says # "ok")
        BY <1>3, <3>1 DEF Holds, s
      <3>3. ASSUME c \in Resting("browser_goto", 2), NEW i \in DOMAIN t, IsReply(t[i]), t[i].says # "refused"
            PROVE  looked[c] = "target" /\ committed[c] = tab.doc /\ \A j \in DOMAIN t : i < j => t[j].doc = tab.doc
        <4>1. i + 1 \in DOMAIN s /\ IsReply(s[i + 1]) /\ s[i + 1].says # "refused"
          BY <1>3, <3>3
        <4>2. looked[c] = "target" /\ committed[c] = tab.doc /\ \A j \in DOMAIN s : i + 1 < j => s[j].doc = tab.doc
          BY <1>1, <3>1, <3>3, <4>1 DEF Holds, s
        <4>3. ASSUME NEW j \in DOMAIN t, i < j PROVE t[j].doc = tab.doc
          <5>1. i + 1 < j + 1 /\ j + 1 \in DOMAIN s /\ t[j] = s[j + 1]
            BY <1>3, <4>3
          <5> QED BY <4>2, <5>1
        <4> QED BY <4>2, <4>3
      <3> QED BY <1>1, <1>5, <2>1, <2>3, <3>1, <3>2, <3>3 DEF Holds, Aims
    <2>5. OnTarget(c)' /\ Pressing(c)' /\ Measured(c)' /\ Looks(c)'
      <3>1. \A i \in DOMAIN t : IsReply(t[i]) => i + 1 \in DOMAIN s /\ IsReply(s[i + 1]) /\ t[i].says = s[i + 1].says
        BY <1>3
      <3>2. OnTarget(c)'
        <4>1. (Done(c)' <=> Done(c)) /\ (Doing(c)' <=> Doing(c))
          BY <1>1, <2>1 DEF Done, Doing
        <4> QED BY <1>1, <1>2, <1>5, <2>1, <3>1, <4>1 DEF CallInv, OnTarget, s
      <3>3. Pressing(c)'
        BY <1>1, <1>2, <1>5, <2>1, <3>1 DEF CallInv, Pressing, s
      <3>4. Measured(c)'
        BY <1>1, <1>2, <1>5, <2>1, <3>1 DEF CallInv, Measured, s
      <3>5. Looks(c)'
        BY <1>1, <1>2, <2>1 DEF CallInv, Looks
      <3> QED BY <3>2, <3>3, <3>4, <3>5
    <2> QED BY <1>6, <2>1, <2>2, <2>4, <2>5 DEF CallInv
  <1>8. ASSUME m.t = "reply"
        PROVE  c \notin asked /\ \A i \in DOMAIN t : ~IsReply(t[i])
    <2>1. IsReply(s[1]) /\ c \notin asked
      BY <1>1, <1>2, <1>3, <1>8 DEF CallInv, Wire, IsReply, s
    <2>2. ASSUME NEW i \in DOMAIN t, IsReply(t[i]) PROVE FALSE
      <3>1. i + 1 = 1
        BY <1>1, <1>2, <1>3, <2>1, <2>2 DEF CallInv, Wire, s
      <3> QED BY <1>3, <3>1, <2>2
    <2> QED BY <2>1, <2>2
  \* A call that is over rests on nothing.
  <1>9. ASSUME m.t = "reply", NEW says \in {"failed", "clicked", "typed", "value", "appeared"},
               call' = [call EXCEPT ![c] = over(says)],
               says \in {"clicked", "typed"} => landed[c] # "nothing", says # "failed" => c \notin down
        PROVE  BrowserInv'
    <2> DEFINE next == over(says)
    <2>1. next \in Called /\ next.pc = "over" /\ next.answer = says /\ next.tool = tool /\ next.at = call[c].at
      BY <1>2 DEF Called
    <2> HIDE DEF next
    <2>2. call' = [call EXCEPT ![c] = next] /\ call'[c] = next
      BY <1>2, <1>9 DEF next
    <2>3. Wire(c)'
      BY <1>1, <1>2, <1>4, <1>8, <1>9, <2>1, <2>2 DEF CallInv, Wire
    <2>4. Holds(c)'
      BY <2>1, <2>2 DEF Holds, Resting
    <2>5. OnTarget(c)'
      BY <1>1, <1>2, <1>9, <2>1, <2>2 DEF CallInv, OnTarget, Done, Doing
    <2>6. Pressing(c)' /\ Measured(c)' /\ Looks(c)'
      BY <1>1, <1>2, <1>9, <2>1, <2>2 DEF CallInv, Pressing, Measured, Looks
    <2> QED BY <1>6, <2>1, <2>2, <2>3, <2>4, <2>5, <2>6 DEF CallInv
  <1>10. CASE m.t = "reply" /\ RefusesToGoOn(m.says)
    BY <1>1, <1>9, <1>10
  <1>11. CASE m.t = "reply" /\ ~RefusesToGoOn(m.says) /\ call[c].at < Len(Requests[tool])
    <2> DEFINE next == onward
    <2>1. next \in Called /\ next.pc = "send" /\ next.at = call[c].at + 1 /\ next.tool = tool /\ next.answer = "none"
      <3>1. call[c].at + 1 \in 1..4
        BY <1>11, <1>4a
      <3> HIDE DEF tool
      <3> QED BY <1>2, <1>4, <3>1 DEF Called, tool
    <2> HIDE DEF next
    <2>2. call' = [call EXCEPT ![c] = next] /\ call'[c] = next
      BY <1>1, <1>2, <1>11 DEF next
    <2>3. Wire(c)'
      BY <1>1, <1>4, <1>5, <1>8, <1>11, <2>1, <2>2 DEF Wire
    <2>4. Holds(c)'
      <3>0. call[c].at \in 1..3 \/ tool # "browser_click"
        BY <1>11, <1>4a
      <3>1. /\ c \in Resting("browser_click", 1)' => c \in Resting("browser_click", 1)
            /\ c \in Resting("browser_type", 1)' => c \in Resting("browser_type", 1) /\ call[c].at = 1
            /\ c \notin Resting("browser_goto", 2)'
        <4>1. /\ call'[c].pc = "send" /\ call'[c].tool = tool /\ call'[c].at = call[c].at + 1 /\ call'[c].at # 1
              /\ call[c].pc = "await" /\ c \notin asked /\ landed' = landed
          BY <1>1, <1>8, <1>11, <1>4a, <2>1, <2>2
        <4>2. landed[c] = "nothing" =>
                 /\ tool = "browser_click" => c \in Resting("browser_click", 1)
                 /\ tool = "browser_type" => c \in Resting("browser_type", 1) /\ call[c].at = 1
          BY <1>11, <1>4a, <3>0, <4>1 DEF Resting
        <4>3. tool = "browser_goto" => call'[c].at = 2
          BY <1>11, <1>4a, <4>1
        <4> QED BY <4>1, <4>2, <4>3 DEF Resting
      <3>2. IsReply(s[1]) /\ s[1].says = m.says /\ m.says # "refused"
        BY <1>3, <1>11 DEF IsReply, RefusesToGoOn
      <3>3. ASSUME c \notin moved, c \in Resting("browser_click", 1) PROVE looked[c] = tab.spot
        BY <1>2, <1>3, <3>2, <3>3 DEF CallInv, Holds, s
      <3>4. ASSUME c \notin moved, c \in Resting("browser_type", 1), call[c].at = 1 PROVE Aims(c)
        <4>1. m.says = "ok" => Aims(c)
          BY <1>2, <1>3, <3>2, <3>4 DEF CallInv, Holds, s
        <4>2. m.says \in {"ok", "refused", "gone"}
          BY <1>1, <1>2, <1>3, <3>2, <3>4 DEF CallInv, Measured, Resting, s
        <4> QED BY <1>11, <4>1, <4>2 DEF RefusesToGoOn
      <3> QED BY <1>1, <3>1, <3>3, <3>4 DEF Holds, Aims
    <2>5. OnTarget(c)'
      <3>1. Done(c)' => call[c].at = 3 /\ tool = "browser_click" /\ Doing(c)
        BY <1>1, <1>4, <1>8, <1>11, <2>1, <2>2 DEF Done, Doing
      <3>2. Doing(c) => landed[c] # "nothing" /\ Done(c)'
        <4>1. IsReply(s[1]) /\ s[1].says # "refused"
          BY <1>3, <1>11 DEF IsReply, RefusesToGoOn
        <4>2. Doing(c) => landed[c] # "nothing"
          BY <1>2, <1>3, <4>1 DEF CallInv, OnTarget, s
        <4>3. Doing(c) => Done(c)'
          BY <1>1, <1>4, <1>4a, <1>11, <2>1, <2>2 DEF Done, Doing
        <4> QED BY <4>2, <4>3
      <3>3. ~Done(c) /\ ~Doing(c)'
        BY <1>1, <1>4, <1>4a, <1>11, <2>1, <2>2 DEF Done, Doing
      <3> QED BY <1>1, <1>2, <2>1, <2>2, <3>1, <3>2, <3>3 DEF CallInv, OnTarget
    <2>6. Pressing(c)' /\ Measured(c)'
      BY <1>1, <1>2, <1>4, <1>4a, <1>8, <1>11, <2>1, <2>2 DEF CallInv, Pressing, Measured
    <2>7. Looks(c)'
      <3>1. CASE tool = "browser_click" /\ call[c].at = 1
        <4>1. m \in Messages /\ IsReply(s[1]) /\ m = s[1]
          BY <1>2, <1>3, <1>11 DEF IsReply
        <4>2. m.says = looked[c]
          BY <1>1, <1>2, <1>3, <1>11, <3>1, <4>1 DEF CallInv, Measured, RefusesToGoOn, s
        <4>3. m.says \in {"target", "void"}
          BY <1>2, <1>11, <4>1, <4>2 DEF BrowserTypeOK, Spots, Messages, RefusesToGoOn
        <4> QED BY <1>1, <1>11, <1>4a, <2>1, <2>2, <4>2, <4>3 DEF Looks
      <3>2. CASE ~(tool = "browser_click" /\ call[c].at = 1)
        BY <1>1, <1>2, <1>11, <1>4a, <2>1, <2>2, <3>2 DEF CallInv, Looks
      <3> QED BY <3>1, <3>2
    <2> QED BY <1>6, <2>1, <2>2, <2>3, <2>4, <2>5, <2>6, <2>7 DEF CallInv
  <1>12. CASE m.t = "reply" /\ ~RefusesToGoOn(m.says) /\ ~(call[c].at < Len(Requests[tool])) /\ tool = "browser_goto"
    <2> DEFINE next == waiting
    <2>1. next \in Called /\ next.pc = "event" /\ next.at = call[c].at /\ next.tool = tool /\ next.answer = "none"
      BY <1>2, <1>4 DEF Called
    <2> HIDE DEF next
    <2>2. call' = [call EXCEPT ![c] = next] /\ call'[c] = next
      BY <1>1, <1>2, <1>12 DEF next
    <2>3. call[c].at = 2
      BY <1>12, <1>4a
    <2>4. Wire(c)'
      BY <1>1, <1>4, <1>5, <1>8, <1>12, <2>1, <2>2, <2>3 DEF Wire
    <2>5. Holds(c)'
      <3>1. c \in Resting("browser_goto", 2) /\ c \notin Resting("browser_click", 1)' /\ c \notin Resting("browser_type", 1)'
        BY <1>1, <1>2, <1>4, <1>8, <1>12, <2>1, <2>2, <2>3 DEF CallInv, OnTarget, Done, Doing, Resting
      <3>2. ASSUME c \notin moved
            PROVE  looked[c] = "target" /\ committed[c] = tab.doc /\ \A j \in DOMAIN t : t[j].doc = tab.doc
        <4>1. IsReply(s[1]) /\ s[1].says # "refused"
          BY <1>3, <1>12 DEF IsReply, RefusesToGoOn
        <4>2. looked[c] = "target" /\ committed[c] = tab.doc /\ \A j \in DOMAIN s : 1 < j => s[j].doc = tab.doc
          BY <1>1, <1>2, <1>3, <3>1, <3>2, <4>1 DEF CallInv, Holds, s
        <4> QED BY <1>3, <4>2
      <3> QED BY <1>1, <1>5, <2>1, <2>2, <3>1, <3>2 DEF Holds
    <2>6. OnTarget(c)' /\ Pressing(c)' /\ Measured(c)' /\ Looks(c)'
      BY <1>1, <1>2, <1>4, <1>12, <2>1, <2>2 DEF CallInv, OnTarget, Done, Doing, Pressing, Measured, Looks
    <2> QED BY <1>6, <2>1, <2>2, <2>4, <2>5, <2>6 DEF CallInv
  <1>13. CASE m.t = "reply" /\ ~RefusesToGoOn(m.says) /\ ~(call[c].at < Len(Requests[tool])) /\ tool # "browser_goto"
    <2>1. /\ tool = "browser_click" => Said[tool] = "clicked" /\ call[c].at = 4
          /\ tool = "browser_type" => Said[tool] = "typed" /\ call[c].at = 2
          /\ tool = "browser_eval" => Said[tool] = "value"
          /\ tool = "browser_wait_for" => Said[tool] = "appeared"
      <3>1. /\ tool = "browser_click" => call[c].at = 4
            /\ tool = "browser_type" => call[c].at = 2
        BY <1>13, <1>4a
      <3> QED BY <3>1 DEF Said
    <2>2. Said[tool] \in {"failed", "clicked", "typed", "value", "appeared"}
      BY <1>4, <1>13, <2>1
    <2>0. IsReply(s[1]) /\ s[1].says # "refused" /\ 1 \in DOMAIN s
      BY <1>3, <1>13 DEF IsReply, RefusesToGoOn
    <2>3. Said[tool] \in {"clicked", "typed"} => landed[c] # "nothing"
      <3>1. Said[tool] \in {"clicked", "typed"} => Done(c) \/ Doing(c)
        BY <1>1, <1>4, <1>8, <1>13, <2>1 DEF Done, Doing
      <3> QED BY <1>2, <2>0, <3>1 DEF CallInv, OnTarget, s
    <2>4. c \notin down
      BY <1>1, <1>2, <1>4, <1>8, <1>13, <2>0, <2>1 DEF CallInv, Pressing, s
    <2> QED BY <1>1, <1>9, <1>13, <2>2, <2>3, <2>4
  <1> QED BY <1>1, <1>7, <1>10, <1>11, <1>12, <1>13

LEMMA ReadEventStep ==
    ASSUME BrowserInv, NEW c \in Calls, ReadEvent(c)
    PROVE  BrowserInv'
  <1> DEFINE s == socket[c]
             t == Tail(s)
             says == IF Head(s).says = "load" THEN "loaded" ELSE "stopped"
             next == [call[c] EXCEPT !.pc = "over", !.answer = says]
             came == IF Head(s).doc = committed[c] THEN "target" ELSE "other"
  <1>1. /\ call[c].pc = "event" /\ s # <<>> /\ socket' = [socket EXCEPT ![c] = t]
        /\ call' = [call EXCEPT ![c] = next] /\ landed' = [landed EXCEPT ![c] = came]
        /\ UNCHANGED <<tab, asked, listening, down, looked, committed, moved, fuss>>
    BY DEF ReadEvent, Ends
  <1>2. BrowserTypeOK /\ CallInv(c) /\ call \in [Calls -> Called] /\ s \in Seq(Messages)
    BY DEF BrowserInv, BrowserTypeOK, Called, history
  <1>3. t \in Seq(Messages) /\ Head(s) = s[1] /\ 1 \in DOMAIN s
    BY <1>1, <1>2, FirstRead
  <1>4. c \notin moved => came = "target" /\ looked[c] = "target"
    <2>1. call[c].tool = "browser_goto" /\ call[c].at = 2 /\ c \notin asked
      BY <1>1, <1>2 DEF CallInv, Wire
    <2>1a. landed[c] = "nothing"
      BY <1>1, <1>2, <2>1 DEF CallInv, Wire, OnTarget, Done, Doing, BrowserTypeOK
    <2>2. c \in Resting("browser_goto", 2)
      BY <1>1, <2>1, <2>1a DEF Resting
    <2> QED BY <1>1, <1>2, <1>3, <2>2 DEF CallInv, Holds
  <1>5. says \in {"loaded", "stopped"} /\ came \in {"target", "other"}
    OBVIOUS
  <1> HIDE DEF says, came, s, t
  <1>6. next \in Called /\ next.pc = "over" /\ next.answer = says /\ next.tool = call[c].tool /\ next.at = call[c].at
    BY <1>2, <1>5 DEF Called
  <1> HIDE DEF next
  <1>7. call' \in [Calls -> Called] /\ call'[c] = next /\ \A d \in Calls \ {c} : call'[d] = call[d]
    BY <1>1, <1>2, <1>6
  <1>8. /\ landed' \in [Calls -> Spots \cup {"nothing"}] /\ landed'[c] = came
        /\ \A d \in Calls \ {c} : landed'[d] = landed[d]
    BY <1>1, <1>2, <1>5 DEF BrowserTypeOK, Spots
  <1>9. socket' \in [Calls -> Seq(Messages)] /\ \A d \in Calls \ {c} : socket'[d] = socket[d]
    BY <1>1, <1>2, <1>3 DEF BrowserTypeOK
  <1>10. BrowserTypeOK'
    BY <1>1, <1>2, <1>7, <1>8, <1>9 DEF BrowserTypeOK, Called, history
  <1>11. call[c].answer = "none" /\ c \notin asked /\ call[c].tool = "browser_goto"
    BY <1>1, <1>2 DEF CallInv, Wire, BrowserTypeOK
  <1>12. c \notin down
    BY <1>1, <1>2, <1>11 DEF CallInv, Pressing
  <1>13. Wire(c)'
    BY <1>1, <1>2, <1>5, <1>6, <1>7, <1>11 DEF CallInv, Wire
  <1>14. Holds(c)'
    BY <1>6, <1>7 DEF Holds, Resting
  <1>15. OnTarget(c)' /\ Pressing(c)' /\ Measured(c)' /\ Looks(c)'
    BY <1>1, <1>4, <1>5, <1>6, <1>7, <1>8, <1>11, <1>12 DEF OnTarget, Done, Doing, Pressing, Measured, Looks
  <1>16. CallInv(c)'
    BY <1>13, <1>14, <1>15 DEF CallInv
  <1> QED BY <1>1, <1>7, <1>8, <1>9, <1>10, <1>16, OtherCallsStay

\* A browser tool's report is true, for any number of calls and whatever the
\* page does, but for what was changed under a call after it had looked.
THEOREM ReportsHold == BrowserSpec => []ReportsAreTrue
  <1>1. BrowserInv /\ [BrowserNext]_browserVars => BrowserInv'
    <2> SUFFICES ASSUME BrowserInv, [BrowserNext]_browserVars PROVE BrowserInv'
      OBVIOUS
    <2>1. CASE UNCHANGED browserVars
      <3>1. BrowserTypeOK'
        BY <2>1 DEF browserVars, history, BrowserInv, BrowserTypeOK
      <3>2. ASSUME NEW d \in Calls PROVE CallInv(d)'
        <4>1. Heard(socket[d], socket'[d], tab.doc)
          BY <2>1, NothingHeard DEF browserVars, BrowserInv, BrowserTypeOK
        <4> QED BY <2>1, <3>1, <4>1, Bystander DEF browserVars, history
      <3> QED BY <3>1, <3>2 DEF BrowserInv
    <2>2. CASE Shift \/ Blur \/ LoadEnds \/ FrameStops \/ TabCloses \/ TabOpens
      BY <2>2, PageSteps
    <2>3. ASSUME NEW c \in Calls, NEW tool \in DOMAIN Requests, OpenSocket(c, tool) PROVE BrowserInv'
      BY <2>3, OpenStep
    <2>4. ASSUME NEW c \in Calls, call[c].tool # "none",
                 \/ Measure(c) \/ FocusField(c) \/ Dispatch(c) \/ EnableEvents(c)
                 \/ Evaluate(c) \/ WaitInPage(c) \/ Commit(c) \/ Refuse(c)
          PROVE  BrowserInv'
      BY <2>4, QuietRequests, FocusStep, DispatchStep, CommitStep
    <2>5. ASSUME NEW c \in Calls, SendRequest(c) \/ ReadReply(c) \/ ReadEvent(c) \/ GivesUp(c) PROVE BrowserInv'
      BY <2>5, SendStep, ReadReplyStep, ReadEventStep, GiveUpStep
    <2> QED BY <2>1, <2>2, <2>3, <2>4, <2>5 DEF BrowserNext
  <1>2. BrowserInv => ReportsAreTrue
    <2> SUFFICES ASSUME BrowserInv, NEW c \in Calls
                 PROVE  /\ call[c].answer \in {"clicked", "typed", "loaded"} =>
                             landed[c] # "nothing" /\ (c \notin moved => landed[c] = looked[c])
                        /\ call[c].tool = "browser_click" /\ landed[c] # "nothing" => looked[c] \in {"target", "void"}
                        /\ c \in down => call[c].pc \in {"send", "await"} \/ call[c].answer = "failed"
      BY DEF ReportsAreTrue, BrowserInv, BrowserTypeOK
    <2>1. Wire(c) /\ OnTarget(c) /\ Looks(c) /\ Pressing(c)
      BY DEF BrowserInv, CallInv
    <2> QED BY <2>1 DEF OnTarget, Looks, Done, Pressing
  <1> QED BY BrowserStarts, <1>1, <1>2, PTL DEF BrowserSpec
=============================================================================
