----------------------------- MODULE RoomProofs -----------------------------
(***************************************************************************)
(* What TLC shows of Room on two sessions and two calls, proved for every  *)
(* finite set of sessions, every set of calls and every MaxViewers.        *)
(***************************************************************************)
EXTENDS Room, FiniteSetTheorems, WellFoundedInduction, TLAPS

(***************************************************************************)
(* Arithmetic and sets.                                                    *)
(***************************************************************************)

\* The least-number principle, in the form the room needs: Join's loop over
\* "Viewer 1", "Viewer 2", ... stops at the first free one.
LEMMA LeastNatural ==
    ASSUME NEW T \in SUBSET Nat, T # {}
    PROVE  \E n \in T : \A m \in T : n <= m
  <1> DEFINE R == {ss \in Nat \X Nat : ss[1] < ss[2]}
  <1>1. OpToRel(<, Nat) = R
    BY DEF OpToRel
  <1>2. IsWellFoundedOn(R, Nat)
    BY <1>1, NatLessThanWellFounded
  <1>3. PICK n \in T : \A m \in T : ~ (<<m, n>> \in R)
    BY <1>2, WFMin
  <1>4. \A m \in T : ~ (m < n)
    BY <1>3
  <1> QED
    BY <1>3, <1>4

LEMMA IdsFinite == IsFiniteSet(Ids)
  BY IdsAssumption, FS_Singleton, FS_Union DEF Ids

\* Fewer viewers than seats leave a seat number free: the pigeonhole argument
\* behind Room.Join's numbering loop, whose bound is never reached.
LEMMA LowestFreeIsASeat ==
    ASSUME NEW stay \in SUBSET Ids, ~ Full(stay),
           slot \in [Sessions -> Slots \cup {NoSlot}]
    PROVE  /\ LowestFree(stay) \in Slots
           /\ LowestFree(stay) <= MaxViewers
           /\ \A s \in stay \cap Sessions : slot[s] # LowestFree(stay)
  <1> DEFINE Viewers == stay \cap Sessions
             Worn    == {slot[s] : s \in Viewers}
             Seats   == 1..MaxViewers
             Free    == Seats \ Worn
  <1>1. /\ IsFiniteSet(Viewers)
        /\ Cardinality(Viewers) \in Nat
        /\ Cardinality(Viewers) < MaxViewers
    <2>1. IsFiniteSet(stay) /\ Cardinality(stay) \in Nat
      BY IdsFinite, FS_Subset, FS_CardinalityType
    <2>2. IsFiniteSet(Viewers) /\ Cardinality(Viewers) <= Cardinality(stay)
      BY <2>1, FS_Intersection
    <2>3. Cardinality(Viewers) \in Nat
      BY <2>2, FS_CardinalityType
    <2> QED
      BY <2>1, <2>2, <2>3, BoundsAssumption DEF Full
  <1>2. /\ IsFiniteSet(Worn)
        /\ Cardinality(Worn) \in Nat
        /\ Cardinality(Worn) <= Cardinality(Viewers)
    <2> DEFINE f == [s \in Viewers |-> slot[s]]
    <2>1. f \in Surjection(Viewers, Worn)
      BY DEF Surjection
    <2>2. IsFiniteSet(Worn) /\ Cardinality(Worn) <= Cardinality(Viewers)
      BY <1>1, <2>1, FS_Surjection
    <2> QED
      BY <2>2, FS_CardinalityType
  <1>3. IsFiniteSet(Seats) /\ Cardinality(Seats) = MaxViewers
    BY FS_Interval, BoundsAssumption
  <1>4. Free # {}
    <2> SUFFICES ASSUME Seats \subseteq Worn PROVE FALSE
      OBVIOUS
    <2>1. Cardinality(Seats) <= Cardinality(Worn)
      BY <1>2, FS_Subset
    <2> QED
      BY <1>1, <1>2, <1>3, <2>1, BoundsAssumption
  <1>5. PICK n \in Free : \A m \in Free : n <= m
    <2>1. Free \in SUBSET Nat
      BY BoundsAssumption
    <2> QED
      BY <1>4, <2>1, LeastNatural
  <1>6. /\ n \in Slots /\ n <= MaxViewers
        /\ \A s \in Viewers : slot[s] # n
        /\ \A m \in Slots : m < n => \E s \in Viewers : slot[s] = m
    BY <1>5, BoundsAssumption DEF Slots
  <1>7. LowestFree(stay) \in Slots
        /\ (\A s \in Viewers : slot[s] # LowestFree(stay))
        /\ (\A m \in Slots : m < LowestFree(stay) => \E s \in Viewers : slot[s] = m)
    BY <1>6 DEF LowestFree
  <1>8. ~ (n < LowestFree(stay))
    BY <1>6, <1>7
  <1> QED
    BY <1>6, <1>7, <1>8, BoundsAssumption DEF Slots

(***************************************************************************)
(* The state keeps its type.                                               *)
(***************************************************************************)

LEMMA SeatTypes ==
    ASSUME TypeOK, NEW s \in Sessions
    PROVE  /\ members \ Dead \in SUBSET Ids
           /\ slot \in [Sessions -> Slots \cup {NoSlot}]
           /\ \A gone : /\ ControllerWithout(gone) \in Ids \cup {ControlFree}
                        /\ SlotsWithout(gone) \in [Sessions -> Slots \cup {NoSlot}]
           /\ s \in Ids
  BY DEF TypeOK, ControllerWithout, SlotsWithout, Ids

\* What the steps of a call do to its record keeps the record's type.
LEMMA CallTypes ==
    ASSUME NEW r \in CallState
    PROVE  /\ Idle \in CallState
           /\ \A v \in CallPcs : [r EXCEPT !.pc = v] \in CallState
           /\ \A v \in CallPcs, w \in Whys : [r EXCEPT !.pc = v, !.why = w] \in CallState
           /\ \A v \in CallPcs, w \in Whys :
                 [r EXCEPT !.pc = v, !.box = "empty", !.why = w] \in CallState
           /\ \A k \in Kinds, p \in Prompts :
                 [Idle EXCEPT !.pc = "waiting", !.kind = k, !.prompt = p] \in CallState
           /\ \A a \in Answers : Answered(r, a) \in CallState
  <1> USE DEF CallState
  <1>1. Idle \in CallState
    BY DEF Idle, CallPcs, Kinds, Whys, NoPrompt
  <1>2. \A v \in CallPcs : [r EXCEPT !.pc = v] \in CallState
    OBVIOUS
  <1>3. \A v \in CallPcs, w \in Whys : [r EXCEPT !.pc = v, !.why = w] \in CallState
    OBVIOUS
  <1>4. \A v \in CallPcs, w \in Whys :
           [r EXCEPT !.pc = v, !.box = "empty", !.why = w] \in CallState
    OBVIOUS
  <1>5. \A k \in Kinds, p \in Prompts :
           [Idle EXCEPT !.pc = "waiting", !.kind = k, !.prompt = p] \in CallState
    BY <1>1 DEF CallPcs
  <1>6. ASSUME NEW a \in Answers PROVE Answered(r, a) \in CallState
    <2>1. (IF r.box = "empty" THEN a ELSE r.box) \in Answers \cup {"empty"}
      OBVIOUS
    <2>2. (IF r.first = "none" THEN a ELSE r.first) \in Answers \cup {"none"}
      OBVIOUS
    <2> QED
      BY <2>1, <2>2 DEF Answered
  <1> QED
    BY <1>1, <1>2, <1>3, <1>4, <1>5, <1>6

LEMMA StepTypes ==
    ASSUME call \in [Calls -> CallState], NEW c \in Calls, NEW r \in CallState, Step(c, r)
    PROVE  call' \in [Calls -> CallState]
  BY DEF Step

LEMMA StepIsLocal ==
    ASSUME call \in [Calls -> CallState], NEW c \in Calls, NEW r, Step(c, r)
    PROVE  call'[c] = r /\ \A d \in Calls \ {c} : call'[d] = call[d]
  BY DEF Step

\* Every variable stays in its set: in particular a viewer number is never
\* beyond the seats, and a prompt's number never beyond those posted.
THEOREM Typing == Spec => []TypeOK
  <1>1. Init => TypeOK
    BY BoundsAssumption DEF Init, TypeOK, CallState, Idle, NoHand, Ids, NoSlot, NoPrompt,
          Kinds, CallPcs, Whys, Answers
  <1>2. TypeOK /\ [Next]_vars => TypeOK'
    <2> SUFFICES ASSUME TypeOK, [Next]_vars PROVE TypeOK'
      OBVIOUS
    <2> USE BoundsAssumption
    <2>1. ASSUME NEW s \in Sessions, Admit(s) PROVE TypeOK'
      <3>1. LowestFree(members \ Dead) \in Slots
        BY <2>1, SeatTypes, LowestFreeIsASeat DEF Admit
      <3>2. /\ members' \in SUBSET Ids
            /\ controller' \in Ids \cup {ControlFree}
            /\ slot' \in [Sessions -> Slots \cup {NoSlot}]
        BY <2>1, <3>1, SeatTypes DEF Admit
      <3> QED
        BY <2>1, <3>2 DEF Admit, TypeOK, promptVars
    <2>2. ASSUME NEW s \in Sessions, Refuse(s) PROVE TypeOK'
      BY <2>2, SeatTypes DEF Refuse, TypeOK, promptVars
    <2>3. ASSUME NEW s \in Sessions, Leave(s) PROVE TypeOK'
      BY <2>3, SeatTypes DEF Leave, TypeOK, promptVars
    <2>4. ASSUME NEW s \in Sessions,
                 Disconnect(s) \/ Reconnect(s) \/ AbandonSeat(s)
                   \/ TakeControl(s) \/ ReleaseControl(s)
          PROVE  TypeOK'
      BY <2>4 DEF TypeOK, Ids, Disconnect, Reconnect, AbandonSeat, TakeControl, ReleaseControl,
            seatVars, connVars, promptVars
    <2>5. ASSUME NEW s \in Sessions, NEW k \in Kinds, NEW p \in Prompts, NEW a \in Answers,
                 PickUp(s, k, p, a)
          PROVE  TypeOK'
      BY <2>5 DEF TypeOK, PickUp, seatVars, connVars
    <2>6. ASSUME NEW s \in Sessions, Deliver(s) PROVE TypeOK'
      BY <2>6, CallTypes DEF TypeOK, Deliver, NoHand, NoPrompt, Answers, seatVars, connVars
    <2>7. CASE AgentStep
      BY <2>7, SeatTypes DEF AgentStep, TypeOK, JoinAgent, LeaveAgent, AgentReleases,
            ControllerWithout, Ids, connVars, promptVars
    <2>8. ASSUME NEW c \in Calls, CallStep(c) PROVE TypeOK'
      <3> DEFINE Rest == /\ members' \in SUBSET Ids
                         /\ controller' \in Ids \cup {ControlFree}
                         /\ pending' \in [Kinds -> Prompts \cup {NoPrompt}]
                         /\ posted' \in 0..MaxPrompts
                         /\ UNCHANGED <<slot, connVars, hand>>
                 Typed == \E r \in CallState : Step(c, r)
      <3> SUFFICES Rest /\ Typed
        BY StepTypes DEF TypeOK, connVars
      <3> USE DEF Finish, seatVars, connVars
      <3>0. /\ call[c] \in CallState /\ Idle \in CallState
            /\ call[c].prompt \in Prompts \cup {NoPrompt}
            /\ CallPcs = {"idle", "joined", "ask", "waiting", "answered", "seize"}
            /\ Whys = {"none", "alone", "free", "granted", "refused"}
        <4>1. call[c] \in CallState
          BY DEF TypeOK
        <4> QED
          BY <4>1, CallTypes DEF CallPcs, Whys, CallState
      <3>1. CASE RequestControl(c)
        <4>1. [Idle EXCEPT !.pc = "joined"] \in CallState
          BY <3>0, CallTypes
        <4> QED
          BY <3>1, <4>1 DEF RequestControl, TypeOK, Ids
      <3>2. CASE LookForHumans(c)
        BY <3>0, <3>2, CallTypes DEF LookForHumans, TypeOK
      <3>3. CASE AskTurnedAway(c)
        BY <3>0, <3>3 DEF AskTurnedAway, TypeOK
      <3>4. CASE AskFindsFree(c)
        <4>1. [call[c] EXCEPT !.pc = "seize", !.why = "free"] \in CallState
          BY <3>0, CallTypes
        <4> QED
          BY <3>4, <4>1 DEF AskFindsFree, TypeOK
      <3>5. ASSUME NEW k \in Kinds, Post(c, k) PROVE Rest /\ Typed
        <4>1. posted + 1 \in Prompts
          BY <3>5 DEF Post, TypeOK, Prompts
        <4>2. [Idle EXCEPT !.pc = "waiting", !.kind = k, !.prompt = posted + 1] \in CallState
          BY <3>0, <4>1, CallTypes
        <4>3. Typed
          BY <3>5, <4>2 DEF Post
        <4> QED
          BY <3>5, <4>1, <4>3 DEF Post, TypeOK, Prompts
      <3>6. CASE AskPosts(c) \/ AskHuman(c)
        BY <3>5, <3>6 DEF AskPosts, AskHuman, Kinds
      <3>7. CASE Receive(c)
        BY <3>0, <3>7, CallTypes DEF Receive, TypeOK
      <3>8. CASE Timeout(c)
        BY <3>0, <3>8, CallTypes DEF Timeout, TypeOK
      <3>9. CASE TakeDown(c)
        <4>1. Typed
          <5>1. [call[c] EXCEPT !.pc = "seize"] \in CallState
            BY <3>0, CallTypes
          <5> QED
            BY <3>0, <3>9, <5>1 DEF TakeDown
        <4> QED
          BY <3>9, <4>1 DEF TakeDown, TypeOK
      <3>10. CASE Seize(c)
        BY <3>0, <3>10 DEF Seize, TypeOK, Ids
      <3> QED
        BY <2>8, <3>1, <3>2, <3>3, <3>4, <3>6, <3>7, <3>8, <3>9, <3>10 DEF CallStep
    <2>9. CASE UNCHANGED vars
      BY <2>9 DEF TypeOK, vars, seatVars, connVars, promptVars
    <2> QED
      BY <2>1, <2>2, <2>3, <2>4, <2>5, <2>6, <2>7, <2>8, <2>9 DEF Next, SessionStep, PeopleStep
  <1> QED
    BY <1>1, <1>2, PTL DEF Spec

(***************************************************************************)
(* Seats.                                                                  *)
(***************************************************************************)

\* The steps that change who is a member, or a number: everything else leaves
\* the seats alone, and can be skipped by every argument about them.
SeatStep(s) == Admit(s) \/ Refuse(s) \/ Leave(s)

LEMMA OtherStepsKeepSeats ==
    ASSUME TypeOK, [Next]_vars, \A s \in Sessions : ~ SeatStep(s)
    PROVE  /\ members' \cap Sessions = members \cap Sessions
           /\ slot' = slot
  <1> USE DEF seatVars, connVars, promptVars
  <1>1. ASSUME NEW s \in Sessions, SessionStep(s)
        PROVE  members' = members /\ slot' = slot
    BY <1>1 DEF SeatStep, SessionStep, PeopleStep, Disconnect, Reconnect, AbandonSeat, TakeControl,
          ReleaseControl, PickUp, Deliver
  <1>2. ASSUME NEW c \in Calls, CallStep(c)
        PROVE  members' \in {members, members \cup {Agent}} /\ slot' = slot
    BY <1>2 DEF CallStep, RequestControl, LookForHumans, AskTurnedAway, AskFindsFree, AskPosts,
          AskHuman, Post, Receive, Timeout, TakeDown, Seize
  <1>3. CASE AgentStep
    BY <1>3, IdsAssumption DEF AgentStep, JoinAgent, LeaveAgent, AgentReleases
  <1>4. CASE UNCHANGED vars
    BY <1>4 DEF vars
  <1> QED
    BY <1>1, <1>2, <1>3, <1>4, IdsAssumption DEF Next

\* Two people in the room never carry the same "Viewer n", and no number runs
\* past the seats: of Room.Join's numbering, for every number of connections.
THEOREM Numbering == Spec => []NumbersFitTheSeats
  <1>1. Init => NumbersFitTheSeats
    BY DEF Init, NumbersFitTheSeats
  <1>2. TypeOK /\ NumbersFitTheSeats /\ [Next]_vars => NumbersFitTheSeats'
    <2> SUFFICES ASSUME TypeOK, NumbersFitTheSeats, [Next]_vars PROVE NumbersFitTheSeats'
      OBVIOUS
    <2>1. ASSUME NEW s \in Sessions, Admit(s) PROVE NumbersFitTheSeats'
      <3> DEFINE stay == members \ Dead
                 n    == LowestFree(stay)
      <3>1. /\ n \in Slots /\ n <= MaxViewers
            /\ \A t \in stay \cap Sessions : slot[t] # n
        BY <2>1, SeatTypes, LowestFreeIsASeat DEF Admit
      <3>2. /\ members' = stay \cup {s}
            /\ slot' = [SlotsWithout(Dead) EXCEPT ![s] = n]
            /\ n # NoSlot
        BY <2>1, <3>1 DEF Admit, Slots, NoSlot
      <3>3. \A t \in Sessions \ {s} :
               slot'[t] = IF t \in stay THEN slot[t] ELSE NoSlot
        BY <3>2 DEF SlotsWithout, NumbersFitTheSeats
      <3>4. slot'[s] = n
        BY <3>2 DEF SlotsWithout
      <3> QED
        BY <3>1, <3>2, <3>3, <3>4 DEF NumbersFitTheSeats
    <2>2. ASSUME NEW s \in Sessions, Refuse(s) \/ Leave(s) PROVE NumbersFitTheSeats'
      BY <2>2 DEF Refuse, Leave, NumbersFitTheSeats, SlotsWithout, Dead
    <2>3. CASE \A s \in Sessions : ~ SeatStep(s)
      BY <2>3, OtherStepsKeepSeats DEF NumbersFitTheSeats
    <2> QED
      BY <2>1, <2>2, <2>3 DEF SeatStep
  <1> QED
    BY <1>1, <1>2, Typing, PTL DEF Spec

\* The room never holds more browsers than cfg.MaxViewers: Join counts and
\* inserts in one critical section, and nobody else inserts a browser.
THEOREM Capacity == Spec => []NotOverfull
  <1>1. Init => NotOverfull
    BY BoundsAssumption, FS_EmptySet DEF Init, NotOverfull
  <1>2. TypeOK /\ NotOverfull /\ [Next]_vars => NotOverfull'
    <2> SUFFICES ASSUME TypeOK, NotOverfull, [Next]_vars PROVE NotOverfull'
      OBVIOUS
    <2> DEFINE viewers == members \cap Sessions
    <2>1. IsFiniteSet(members) /\ IsFiniteSet(viewers) /\ Cardinality(viewers) \in Nat
      BY IdsFinite, FS_Subset, FS_CardinalityType DEF TypeOK
    <2>2. ASSUME NEW s \in Sessions, Admit(s) PROVE NotOverfull'
      <3> DEFINE stay == members \ Dead
      <3>1. /\ IsFiniteSet(stay) /\ Cardinality(stay) \in Nat
            /\ Cardinality(stay) < MaxViewers
        <4>1. IsFiniteSet(stay)
          BY <2>1, FS_Difference
        <4> QED
          BY <2>2, <4>1, FS_CardinalityType, BoundsAssumption DEF Admit, Full
      <3>2. IsFiniteSet(stay \cup {s}) /\ Cardinality(stay \cup {s}) <= MaxViewers
        BY <3>1, FS_AddElement, BoundsAssumption
      <3>3. Cardinality((stay \cup {s}) \cap Sessions) <= Cardinality(stay \cup {s})
        BY <3>2, FS_Intersection
      <3>4. /\ Cardinality((stay \cup {s}) \cap Sessions) \in Nat
            /\ Cardinality(stay \cup {s}) \in Nat
        BY <3>2, FS_Intersection, FS_CardinalityType
      <3> QED
        BY <2>2, <3>2, <3>3, <3>4, BoundsAssumption DEF Admit, NotOverfull
    <2>3. ASSUME NEW s \in Sessions, Refuse(s) \/ Leave(s) PROVE NotOverfull'
      <3>1. members' \cap Sessions \in SUBSET viewers
        BY <2>3 DEF Refuse, Leave
      <3>2. /\ Cardinality(members' \cap Sessions) \in Nat
            /\ Cardinality(members' \cap Sessions) <= Cardinality(viewers)
        BY <2>1, <3>1, FS_Subset, FS_CardinalityType
      <3> QED
        BY <2>1, <3>2, BoundsAssumption DEF NotOverfull
    <2>4. CASE \A s \in Sessions : ~ SeatStep(s)
      BY <2>4, OtherStepsKeepSeats DEF NotOverfull
    <2> QED
      BY <2>2, <2>3, <2>4 DEF SeatStep
  <1> QED
    BY <1>1, <1>2, Typing, PTL DEF Spec

(***************************************************************************)
(* The controls.                                                           *)
(***************************************************************************)

\* Nobody who left, was evicted or was never admitted drives the desktop.
THEOREM OnlyMembersDrive == Spec => []ControllerIsPresent
  <1>1. Init => ControllerIsPresent
    BY DEF Init, ControllerIsPresent
  <1>2. ControllerIsPresent /\ [Next]_vars => ControllerIsPresent'
    <2> SUFFICES ASSUME ControllerIsPresent, [Next]_vars PROVE ControllerIsPresent'
      OBVIOUS
    <2> USE DEF ControllerIsPresent, seatVars, connVars, promptVars
    <2>1. ASSUME NEW s \in Sessions, SessionStep(s) PROVE ControllerIsPresent'
      BY <2>1 DEF SessionStep, PeopleStep, Admit, Refuse, Leave, ControllerWithout, Disconnect, Reconnect,
            AbandonSeat, TakeControl, ReleaseControl, PickUp, Deliver
    <2>2. ASSUME NEW c \in Calls, CallStep(c) PROVE ControllerIsPresent'
      BY <2>2 DEF CallStep, RequestControl, LookForHumans, AskTurnedAway, AskFindsFree,
            AskPosts, AskHuman, Post, Receive, Timeout, TakeDown, Seize
    <2>3. CASE AgentStep
      BY <2>3 DEF AgentStep, JoinAgent, LeaveAgent, AgentReleases, ControllerWithout
    <2>4. CASE UNCHANGED vars
      BY <2>4 DEF vars
    <2> QED
      BY <2>1, <2>2, <2>3, <2>4 DEF Next
  <1> QED
    BY <1>1, <1>2, PTL DEF Spec

\* A session that has not joined is nobody's member: ids are never reused.
NewIsOutside == \A s \in Sessions : sess[s] = "new" => s \notin members

LEMMA NewcomersAreNew == Spec => []NewIsOutside
  <1>1. Init => NewIsOutside
    BY DEF Init, NewIsOutside
  <1>2. TypeOK /\ NewIsOutside /\ [Next]_vars => NewIsOutside'
    <2> SUFFICES ASSUME TypeOK, NewIsOutside, [Next]_vars PROVE NewIsOutside'
      OBVIOUS
    <2> USE DEF NewIsOutside, TypeOK, seatVars, connVars, promptVars
    <2>1. ASSUME NEW s \in Sessions, SessionStep(s) PROVE NewIsOutside'
      BY <2>1 DEF SessionStep, PeopleStep, Admit, Refuse, Leave, Disconnect, Reconnect,
            AbandonSeat, TakeControl, ReleaseControl, PickUp, Deliver
    <2>2. ASSUME NEW c \in Calls, CallStep(c) PROVE NewIsOutside'
      BY <2>2, IdsAssumption DEF CallStep, RequestControl, LookForHumans, AskTurnedAway,
            AskFindsFree, AskPosts, AskHuman, Post, Receive, Timeout, TakeDown, Seize
    <2>3. CASE AgentStep
      BY <2>3, IdsAssumption DEF AgentStep, JoinAgent, LeaveAgent, AgentReleases
    <2>4. CASE UNCHANGED vars
      BY <2>4 DEF vars
    <2> QED
      BY <2>1, <2>2, <2>3, <2>4 DEF Next
  <1> QED
    BY <1>1, <1>2, Typing, PTL DEF Spec

\* Walking in takes nothing from anybody alive, and hands nothing to the
\* newcomer: of Room.Join, whose eviction is the only way it moves the controls.
THEOREM Arrival == Spec => ArrivalTakesNothing
  <1> DEFINE Entry(s) == s \in members' \ members =>
                 /\ controller' \in {controller, ControlFree}
                 /\ controller' \in Sessions => conn[controller'] = "up"
  <1>1. ASSUME TypeOK, ControllerIsPresent, [Next]_vars, NEW t \in Sessions
        PROVE  Entry(t)
    <2>1. ASSUME NEW s \in Sessions, Admit(s) PROVE Entry(t)
      <3>1. controller' = IF controller \in Dead THEN ControlFree ELSE controller
        BY <2>1 DEF Admit, ControllerWithout
      <3>2. controller' \in Sessions => controller' \in members /\ controller' \notin Dead
        BY <1>1, <3>1, IdsAssumption DEF ControllerIsPresent
      <3> QED
        BY <3>1, <3>2 DEF Dead
    <2>2. ASSUME NEW s \in Sessions, Refuse(s) \/ Leave(s) PROVE Entry(t)
      BY <2>2 DEF Refuse, Leave
    <2>3. CASE \A s \in Sessions : ~ SeatStep(s)
      BY <1>1, <2>3, OtherStepsKeepSeats
    <2> QED
      BY <2>1, <2>2, <2>3 DEF SeatStep
  <1>2. TypeOK /\ ControllerIsPresent /\ [Next]_vars => [\A s \in Sessions : Entry(s)]_vars
    BY <1>1
  <1> QED
    BY <1>2, Typing, OnlyMembersDrive, PTL DEF Spec, ArrivalTakesNothing

\* The room implements the token of ControlToken: one holder at most, always
\* somebody present, and put down rather than handed on when the holder goes.
THEOREM RoomImplementsToken == Spec => ImplementsToken
  <1>1. Init => Token!Init
    BY DEF Init, Token!Init
  <1>2. ASSUME TypeOK, ControllerIsPresent, NewIsOutside, [Next]_vars
        PROVE  [Token!Next]_<<members, controller>>
    <2> USE DEF seatVars, connVars, promptVars
    <2>0. ControlFree \notin Ids
      BY IdsAssumption DEF Ids
    <2>1. ASSUME NEW s \in Sessions, Admit(s) \/ Refuse(s) \/ Leave(s)
          PROVE  Token!ComeAndGo
      <3>1. PICK gone \in SUBSET members :
               /\ members' \in {members \ gone, (members \ gone) \cup {s}}
               /\ controller' = ControllerWithout(gone)
               /\ s \notin gone \/ members' = members \ gone
        BY <1>2, <2>1 DEF Admit, Refuse, Leave, Dead, NewIsOutside
      <3>2. members' \in SUBSET Ids
        BY <1>2, <3>1 DEF TypeOK, Ids
      <3>3. controller' = IF controller \in members' THEN controller ELSE ControlFree
        BY <1>2, <2>0, <2>1, <3>1, <3>2
           DEF ControllerWithout, ControllerIsPresent, Admit, Refuse, Leave, Dead, NewIsOutside
      <3> QED
        BY <3>2, <3>3 DEF Token!ComeAndGo
    <2>2. ASSUME NEW s \in Sessions, SessionStep(s), ~ SeatStep(s)
          PROVE  [Token!Next]_<<members, controller>>
      BY <2>2 DEF SessionStep, PeopleStep, SeatStep, Disconnect, Reconnect, AbandonSeat, TakeControl,
            ReleaseControl, PickUp, Deliver, Token!Next, Token!Claim, Token!PutDown
    <2>3. ASSUME NEW c \in Calls, RequestControl(c) PROVE Token!ComeAndGo
      BY <1>2, <2>0, <2>3 DEF RequestControl, Token!ComeAndGo, TypeOK, ControllerIsPresent, Ids
    <2>4. ASSUME NEW c \in Calls, CallStep(c), ~ RequestControl(c)
          PROVE  [Token!Next]_<<members, controller>>
      BY <2>4 DEF CallStep, LookForHumans, AskTurnedAway, AskFindsFree, AskPosts, AskHuman,
            Post, Receive, Timeout, TakeDown, Seize, Token!Next, Token!Claim
    <2>5. CASE AgentStep
      <3>1. CASE AgentReleases
        BY <3>1 DEF AgentReleases, Token!Next, Token!PutDown
      <3>2. CASE JoinAgent \/ LeaveAgent
        BY <1>2, <2>0, <3>2 DEF JoinAgent, LeaveAgent, ControllerWithout, Token!Next,
              Token!ComeAndGo, TypeOK, ControllerIsPresent, Ids
      <3> QED
        BY <2>5, <3>1, <3>2 DEF AgentStep
    <2>6. CASE UNCHANGED vars
      BY <2>6 DEF vars
    <2> QED
      BY <1>2, <2>1, <2>2, <2>3, <2>4, <2>5, <2>6 DEF Next, SeatStep, Token!Next
  <1> QED
    BY <1>1, <1>2, Typing, OnlyMembersDrive, NewcomersAreNew, PTL
       DEF Spec, ImplementsToken, Token!Spec

(***************************************************************************)
(* The prompts.                                                            *)
(***************************************************************************)

\* A call that waits has a number to wait for, so that a dialog that is not up
\* cannot be taken for its own.
WaitsHaveNumbers == \A k \in Kinds, c \in Calls : Waits(c, k) => call[c].prompt \in Prompts

DialogInv == DialogHasItsCall /\ WaitsHaveNumbers

\* A dialog is up exactly while one call is behind it: of AskForControl and
\* AskHuman, which post under one lock section and take down under another.
THEOREM Dialogs == Spec => []DialogHasItsCall
  <1>1. Init => DialogInv
    BY DEF Init, DialogInv, DialogHasItsCall, WaitsHaveNumbers, Waits, Idle
  <1>2. TypeOK /\ DialogInv /\ [Next]_vars => DialogInv'
    <2> SUFFICES ASSUME TypeOK, DialogInv, [Next]_vars PROVE DialogInv'
      OBVIOUS
    <2> USE DEF seatVars, connVars, promptVars
    <2>1. ASSUME pending' = pending,
                 \A d \in Calls, k \in Kinds :
                    /\ Waits(d, k)' <=> Waits(d, k)
                    /\ Waits(d, k) => call'[d].prompt = call[d].prompt
          PROVE  DialogInv'
      BY <2>1 DEF DialogInv, DialogHasItsCall, WaitsHaveNumbers
    <2>2. ASSUME NEW s \in Sessions, Deliver(s) PROVE DialogInv'
      <3>1. \A d \in Calls : /\ call'[d].pc = call[d].pc
                             /\ call'[d].kind = call[d].kind
                             /\ call'[d].prompt = call[d].prompt
        BY <2>2 DEF Deliver, Answered, TypeOK, CallState
      <3> QED
        BY <2>1, <2>2, <3>1 DEF Deliver, Waits
    <2>3. ASSUME pending' = pending, call' = call PROVE DialogInv'
      BY <2>1, <2>3 DEF Waits
    <2>4. ASSUME NEW s \in Sessions, SessionStep(s), ~ Deliver(s) PROVE DialogInv'
      BY <2>3, <2>4 DEF SessionStep, PeopleStep, Admit, Refuse, Leave, Disconnect, Reconnect,
            AbandonSeat, TakeControl, ReleaseControl, PickUp
    <2>5. CASE AgentStep \/ UNCHANGED vars
      BY <2>3, <2>5 DEF AgentStep, JoinAgent, LeaveAgent, AgentReleases, vars
    <2>6. ASSUME NEW c \in Calls, CallStep(c) PROVE DialogInv'
      <3> DEFINE Others == \A d \in Calls \ {c} : call'[d] = call[d]
      <3>1. Others
        BY <2>6 DEF CallStep, RequestControl, LookForHumans, AskTurnedAway, AskFindsFree,
              AskPosts, AskHuman, Post, Receive, Timeout, TakeDown, Seize, Step, Finish, TypeOK
      <3>2. CASE \/ RequestControl(c) \/ LookForHumans(c) \/ AskTurnedAway(c)
                 \/ AskFindsFree(c) \/ Seize(c)
        <4>1. call[c].pc \notin {"waiting", "answered"} /\ call'[c].pc \notin {"waiting", "answered"}
          <5>1. call[c] \in CallState
            BY DEF TypeOK
          <5>2. CASE RequestControl(c) \/ AskTurnedAway(c) \/ Seize(c)
            BY <5>2, StepIsLocal DEF RequestControl, AskTurnedAway, Seize, Finish, Idle, TypeOK
          <5>3. CASE LookForHumans(c) \/ AskFindsFree(c)
            <6>1. /\ call[c].pc \in {"joined", "ask"}
                  /\ \/ call'[c] = [call[c] EXCEPT !.pc = "ask"]
                     \/ call'[c] = [call[c] EXCEPT !.pc = "seize", !.why = "alone"]
                     \/ call'[c] = [call[c] EXCEPT !.pc = "seize", !.why = "free"]
              BY <5>3, StepIsLocal DEF LookForHumans, AskFindsFree, TypeOK
            <6> QED
              BY <5>1, <6>1 DEF CallState
          <5> QED
            BY <3>2, <5>2, <5>3
        <4>2. pending' = pending
          BY <3>2 DEF RequestControl, LookForHumans, AskTurnedAway, AskFindsFree, Seize
        <4> QED
          BY <2>1, <3>1, <4>1, <4>2 DEF Waits
      <3>3. CASE Receive(c) \/ Timeout(c)
        <4>1. /\ call[c].pc \in {"waiting", "answered"} /\ call'[c].pc \in {"waiting", "answered"}
              /\ call'[c].kind = call[c].kind /\ call'[c].prompt = call[c].prompt
          <5>1. call[c] \in CallState
            BY DEF TypeOK
          <5>2. /\ call[c].pc = "waiting"
                /\ \E w \in Whys :
                      \/ call'[c] = [call[c] EXCEPT !.pc = "answered", !.box = "empty", !.why = w]
                      \/ call'[c] = [call[c] EXCEPT !.pc = "answered", !.why = w]
            BY <3>3, StepIsLocal DEF Receive, Timeout, TypeOK, Whys
          <5> QED
            BY <5>1, <5>2 DEF CallState
        <4>2. pending' = pending
          BY <3>3 DEF Receive, Timeout
        <4> QED
          BY <2>1, <3>1, <4>1, <4>2 DEF Waits
      <3>4. ASSUME NEW k \in Kinds, Post(c, k), call[c].pc \in {"idle", "ask"} PROVE DialogInv'
        <4>1. /\ call'[c].pc = "waiting" /\ call'[c].kind = k
              /\ call'[c].prompt = posted + 1 /\ posted + 1 \in Prompts
              /\ pending' = [pending EXCEPT ![k] = posted + 1]
          <5>1. call'[c] = [Idle EXCEPT !.pc = "waiting", !.kind = k, !.prompt = posted + 1]
            BY <3>4, StepIsLocal DEF Post, TypeOK
          <5>2. posted + 1 \in Prompts /\ pending' = [pending EXCEPT ![k] = posted + 1]
            BY <3>4, BoundsAssumption DEF Post, TypeOK, Prompts
          <5> QED
            BY <5>1, <5>2 DEF Idle
        <4>2. \A d \in Calls : ~ Waits(d, k)
          BY <3>4, BoundsAssumption
             DEF Post, DialogInv, DialogHasItsCall, WaitsHaveNumbers, Prompts, NoPrompt
        <4>3. ~ \E j \in Kinds : Waits(c, j)
          BY <3>4 DEF Waits
        <4>4. \A d \in Calls, j \in Kinds :
                 Waits(d, j)' <=> (Waits(d, j) \/ (d = c /\ j = k))
          BY <3>1, <4>1, <4>3 DEF Waits
        <4>5. /\ pending'[k] = posted + 1
              /\ \A j \in Kinds \ {k} : pending'[j] = pending[j]
          BY <4>1 DEF TypeOK
        <4>6. \A d \in Calls : d # c => call'[d].prompt = call[d].prompt
          BY <3>1
        <4> QED
          BY <4>1, <4>2, <4>3, <4>4, <4>5, <4>6 DEF DialogInv, DialogHasItsCall, WaitsHaveNumbers
      <3>5. CASE AskPosts(c) \/ AskHuman(c)
        BY <3>4, <3>5 DEF AskPosts, AskHuman, Kinds
      <3>6. CASE TakeDown(c)
        <4> DEFINE k == call[c].kind
        <4>1. k \in Kinds /\ Waits(c, k)
          BY <3>6 DEF TakeDown, Waits, TypeOK, CallState
        <4>2. call'[c].pc \in {"idle", "seize"}
          BY <3>6 DEF TakeDown, Step, Finish, Idle, TypeOK, CallState
        <4>3. pending' = [pending EXCEPT ![k] = NoPrompt]
          BY <3>6, <4>1 DEF TakeDown, DialogInv, DialogHasItsCall
        <4>4. \A d \in Calls, j \in Kinds : Waits(d, j)' <=> (Waits(d, j) /\ d # c)
          BY <3>1, <4>2 DEF Waits
        <4>5. \A d \in Calls : Waits(d, k) => d = c
          BY <4>1 DEF DialogInv, DialogHasItsCall
        <4>6. pending'[k] = NoPrompt /\ \A j \in Kinds \ {k} : pending'[j] = pending[j]
          BY <4>1, <4>3 DEF TypeOK
        <4>7. \A j \in Kinds : Waits(c, j) => j = k
          BY DEF Waits
        <4>8. \A d \in Calls : d # c => call'[d].prompt = call[d].prompt
          BY <3>1
        <4> QED
          BY <4>4, <4>5, <4>6, <4>7, <4>8 DEF DialogInv, DialogHasItsCall, WaitsHaveNumbers
      <3> QED
        BY <2>6, <3>2, <3>3, <3>5, <3>6 DEF CallStep
    <2> QED
      BY <2>2, <2>4, <2>5, <2>6 DEF Next
  <1> QED
    BY <1>1, <1>2, Typing, PTL DEF Spec, DialogInv

\* What a request's channel holds is the first answer that reached it, and a
\* grant read from it is that answer: the strengthening behind Grants.
FirstInBox ==
    \A c \in Calls :
        /\ call[c].pc = "waiting" => \/ call[c].box = "empty" /\ call[c].first = "none"
                                     \/ call[c].box # "empty" /\ call[c].first = call[c].box
        /\ call[c].pc \in {"answered", "seize"} /\ call[c].why = "granted"
              => call[c].first = "yes"

\* A call drives on somebody's word only if the first word on its own request
\* was yes: of the one-slot channel in AskForControl, and of its timer.
THEOREM Grants == Spec => []GrantNeedsFirstYes
  <1>1. Init => FirstInBox
    BY DEF Init, FirstInBox, Idle
  <1>2. TypeOK /\ FirstInBox /\ [Next]_vars => FirstInBox'
    <2> SUFFICES ASSUME TypeOK, FirstInBox, [Next]_vars PROVE FirstInBox'
      OBVIOUS
    <2> USE DEF seatVars, connVars, promptVars
    <2>1. ASSUME call' = call PROVE FirstInBox'
      BY <2>1 DEF FirstInBox
    <2>2. ASSUME NEW s \in Sessions, Deliver(s) PROVE FirstInBox'
      <3> SUFFICES ASSUME NEW c \in Calls, call'[c] # call[c]
                   PROVE  /\ call'[c].pc = "waiting"
                          /\ call'[c].box # "empty" /\ call'[c].first = call'[c].box
        BY DEF FirstInBox
      <3>1. /\ call[c].pc = "waiting" /\ hand[s].answer \in Answers
            /\ call'[c] = Answered(call[c], hand[s].answer)
        BY <2>2 DEF Deliver, TypeOK
      <3> QED
        BY <3>1 DEF Answered, Answers, FirstInBox, TypeOK, CallState
    <2>3. ASSUME NEW s \in Sessions, SessionStep(s), ~ Deliver(s) PROVE FirstInBox'
      BY <2>1, <2>3 DEF SessionStep, PeopleStep, Admit, Refuse, Leave, Disconnect, Reconnect,
            AbandonSeat, TakeControl, ReleaseControl, PickUp
    <2>4. CASE AgentStep \/ UNCHANGED vars
      BY <2>1, <2>4 DEF AgentStep, JoinAgent, LeaveAgent, AgentReleases, vars
    <2>5. ASSUME NEW c \in Calls, CallStep(c) PROVE FirstInBox'
      <3>0. call[c] \in CallState
        BY DEF TypeOK
      <3>1. \A d \in Calls \ {c} : call'[d] = call[d]
        BY <2>5 DEF CallStep, RequestControl, LookForHumans, AskTurnedAway, AskFindsFree,
              AskPosts, AskHuman, Post, Receive, Timeout, TakeDown, Seize, Step, Finish, TypeOK
      <3> SUFFICES
            /\ call'[c].pc = "waiting" => call'[c].box = "empty" /\ call'[c].first = "none"
            /\ call'[c].pc \in {"answered", "seize"} /\ call'[c].why = "granted"
                  => call'[c].first = "yes"
        BY <3>1 DEF FirstInBox
      <3>2. CASE RequestControl(c) \/ AskTurnedAway(c) \/ Seize(c)
        BY <3>2, StepIsLocal DEF RequestControl, AskTurnedAway, Seize, Finish, Idle, TypeOK
      <3>3. CASE LookForHumans(c) \/ AskFindsFree(c)
        <4>1. \/ call'[c].pc = "ask"
              \/ call'[c].pc = "seize" /\ call'[c].why \in {"alone", "free"}
          <5>1. \/ call'[c] = [call[c] EXCEPT !.pc = "ask"]
                \/ call'[c] = [call[c] EXCEPT !.pc = "seize", !.why = "alone"]
                \/ call'[c] = [call[c] EXCEPT !.pc = "seize", !.why = "free"]
            BY <3>3, StepIsLocal DEF LookForHumans, AskFindsFree, TypeOK
          <5> QED
            BY <3>0, <5>1 DEF CallState
        <4> QED
          BY <4>1
      <3>4. CASE AskPosts(c) \/ AskHuman(c)
        <4>1. \E k \in Kinds :
                 call'[c] = [Idle EXCEPT !.pc = "waiting", !.kind = k, !.prompt = posted + 1]
          BY <3>4, StepIsLocal DEF AskPosts, AskHuman, Post, Kinds, TypeOK
        <4> QED
          BY <4>1 DEF Idle
      <3>5. CASE Receive(c)
        <4>1. call'[c] = [call[c] EXCEPT !.pc = "answered", !.box = "empty",
                             !.why = IF call[c].box = "yes" THEN "granted" ELSE "refused"]
          BY <3>5, StepIsLocal DEF Receive, TypeOK
        <4> QED
          BY <3>0, <3>5, <4>1 DEF Receive, FirstInBox, CallState
      <3>6. CASE Timeout(c)
        <4>1. call'[c] = [call[c] EXCEPT !.pc = "answered", !.why = "refused"]
          BY <3>6, StepIsLocal DEF Timeout, TypeOK
        <4> QED
          BY <3>0, <4>1 DEF CallState
      <3>7. CASE TakeDown(c)
        <4>1. \/ call'[c] = Idle
              \/ call'[c] = [call[c] EXCEPT !.pc = "seize"] /\ call[c].pc = "answered"
          BY <3>7, StepIsLocal DEF TakeDown, Finish, TypeOK
        <4> QED
          BY <3>0, <4>1 DEF FirstInBox, Idle, CallState
      <3> QED
        BY <2>5, <3>2, <3>3, <3>4, <3>5, <3>6, <3>7 DEF CallStep
    <2> QED
      BY <2>2, <2>3, <2>4, <2>5 DEF Next
  <1>3. FirstInBox => GrantNeedsFirstYes
    BY DEF FirstInBox, GrantNeedsFirstYes
  <1> QED
    BY <1>1, <1>2, <1>3, Typing, PTL DEF Spec
=============================================================================
