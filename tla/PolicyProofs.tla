---------------------------- MODULE PolicyProofs ----------------------------
(***************************************************************************)
(* Proofs about the policy: what a restriction may add, and that what a    *)
(* connection gave up stays given up, for every catalogue, every daemon    *)
(* policy and every sequence of requests.                                  *)
(***************************************************************************)
EXTENDS Policy, TLAPS

USE DEF Patterns

-----------------------------------------------------------------------------
(***************************************************************************)
(* The operators.                                                          *)
(***************************************************************************)

\* Prefixes of prefixes are prefixes.
LEMMA PrefixTransitive ==
    ASSUME NEW n \in Seq(Words), NEW a \in Seq(Words), NEW b \in Seq(Words),
           StartsWith(n, a), StartsWith(a, b)
    PROVE  StartsWith(n, b)
  <1>1. Len(n) \in Nat /\ Len(a) \in Nat /\ Len(b) \in Nat
    OBVIOUS
  <1> QED BY <1>1 DEF StartsWith

LEMMA PrefixReflexive ==
    ASSUME NEW n \in Seq(Words)
    PROVE  StartsWith(n, n)
  BY DEF StartsWith

LEMMA EnvTyped ==
    ASSUME NEW env \in Envs
    PROVE  NewPolicy(env) \in PolicyState
  BY ListsAssumption DEF NewPolicy, PolicyState, Levels

LEMMA IntersectTyped ==
    ASSUME NEW base \in SUBSET Patterns, NEW req \in SUBSET Patterns
    PROVE  Intersect(base, req) \in SUBSET Patterns
  <1>1. {MatchesNothing} \in SUBSET Patterns
    <2>1. <<"\\x00none">> \in Seq(Words)
      BY WordsAssumption
    <2> QED BY <2>1 DEF MatchesNothing
  <1>2. Kept(base, req) \in SUBSET Patterns
    BY DEF Kept
  <1> QED BY <1>1, <1>2 DEF Intersect

LEMMA RestrictTyped ==
    ASSUME NEW p \in PolicyState, NEW r \in Requests
    PROVE  Restrict(p, r) \in PolicyState
  <1>1. /\ p.level \in Levels /\ p.deny \in SUBSET Patterns /\ p.allow \in SUBSET Patterns
        /\ r.deny \in SUBSET Patterns /\ r.allow \in SUBSET Patterns
    BY ListsAssumption DEF PolicyState
  <1>2. Intersect(p.allow, r.allow) \in SUBSET Patterns
    BY <1>1, IntersectTyped
  <1>3. (IF Stricter(r.level, p.level) THEN r.level ELSE p.level) \in Levels
    BY <1>1 DEF Stricter
  <1>4. p.deny \cup r.deny \in SUBSET Patterns
    BY <1>1
  <1> QED BY <1>2, <1>3, <1>4 DEF Restrict, PolicyState

\* The level only moves down, and reaches what was asked for.
LEMMA RestrictLowers ==
    ASSUME NEW p \in PolicyState, NEW r \in Requests
    PROVE  /\ Rank(Restrict(p, r).level) <= Rank(p.level)
           /\ r.level \in Levels => Rank(Restrict(p, r).level) <= Rank(r.level)
           /\ r.deny \subseteq Restrict(p, r).deny
           /\ p.deny \subseteq Restrict(p, r).deny
  <1>1. p.level \in Levels
    BY DEF PolicyState
  <1> QED BY <1>1 DEF Restrict, Stricter, Levels, Rank

\* A stricter level allows less, as long as nobody asks for root.
LEMMA StricterAllowsLess ==
    ASSUME NEW low \in Levels, NEW high \in Levels, Rank(low) <= Rank(high),
           NEW n, NEW root \in BOOLEAN, LevelAllows(low, n, root)
    PROVE  LevelAllows(high, n, FALSE)
  BY DEF Levels, Rank, LevelAllows

\* What an intersection lets through was let through before, or begins with a
\* name of the base.
LEMMA IntersectNarrows ==
    ASSUME NEW base \in SUBSET Patterns, NEW req \in SUBSET Patterns, base # {},
           NEW n \in Seq(Words), n # <<"\\x00none">>, Listed(Intersect(base, req), n)
    PROVE  Listed(base, n) \/ \E b \in base : ~ b.star /\ b.stem # n /\ StartsWith(n, b.stem)
  <1>1. CASE req = {}
    BY <1>1 DEF Intersect, Listed
  <1>2. CASE req # {}
    <2>1. ~ Matches(MatchesNothing, n)
      BY DEF Matches, MatchesNothing
    <2>2. PICK r \in Kept(base, req) : Matches(r, n)
      BY <1>2, <2>1 DEF Intersect, Listed
    <2>3. PICK b \in base : Matches(b, r.stem) \/ b = r
      BY <2>2 DEF Kept
    <2>4. CASE b = r
      BY <2>2, <2>4 DEF Listed
    <2>5. CASE Matches(b, r.stem)
      <3>0. r.stem \in Seq(Words) /\ b.stem \in Seq(Words) /\ r.star \in BOOLEAN /\ b.star \in BOOLEAN
        BY <2>2 DEF Kept
      <3>1. StartsWith(n, r.stem)
        BY <2>2, <3>0, PrefixReflexive DEF Matches
      <3>2. CASE b.star
        <4>1. StartsWith(n, b.stem)
          BY <2>5, <3>0, <3>1, <3>2, PrefixTransitive DEF Matches
        <4> QED BY <3>2, <4>1 DEF Listed, Matches
      <3>3. CASE ~ b.star
        BY <2>5, <3>1, <3>3 DEF Listed, Matches
      <3> QED BY <3>2, <3>3
    <2> QED BY <2>3, <2>4, <2>5
  <1> QED BY <1>1, <1>2

\* A restriction lets nothing new through, but in the two ways.
LEMMA RestrictNarrows ==
    ASSUME NEW p \in PolicyState, NEW r \in Requests, NEW n \in Seq(Words), NEW root \in BOOLEAN,
           n # <<"\\x00none">>, Allowed(Restrict(p, r), n, root)
    PROVE  Allowed(p, n, root) \/ TwoWaysToWiden(p, Restrict(p, r), n, root)
  <1> DEFINE q == Restrict(p, r)
  <1>0. /\ p.level \in Levels /\ p.deny \in SUBSET Patterns /\ p.allow \in SUBSET Patterns
        /\ r.allow \in SUBSET Patterns /\ q.level \in Levels
    BY ListsAssumption, RestrictTyped DEF PolicyState
  <1>1. SUFFICES ASSUME ~ TwoWaysToWiden(p, q, n, root)
                 PROVE  Allowed(p, n, root)
    OBVIOUS
  <1>2. ~ Listed(p.deny, n)
    BY RestrictLowers DEF Allowed, Listed
  <1>3. p.allow = {} \/ Listed(p.allow, n)
    <2>1. SUFFICES ASSUME p.allow # {}
                   PROVE  Listed(p.allow, n)
      OBVIOUS
    <2>2. q.allow = Intersect(p.allow, r.allow)
      BY DEF Restrict
    <2>3. Intersect(p.allow, r.allow) # {}
      BY <2>1 DEF Intersect
    <2>4. Listed(Intersect(p.allow, r.allow), n)
      BY <2>2, <2>3 DEF Allowed
    <2> QED BY <1>0, <1>1, <2>1, <2>4, IntersectNarrows DEF TwoWaysToWiden
  <1>4. LevelAllows(p.level, n, root)
    <2>1. LevelAllows(q.level, n, root) /\ Rank(q.level) <= Rank(p.level)
      BY RestrictLowers DEF Allowed
    <2>2. ~ (root /\ p.level = "safe" /\ q.level = "readonly")
      BY <1>1 DEF TwoWaysToWiden
    <2> QED BY <1>0, <2>1, <2>2 DEF LevelAllows, Levels, Rank
  <1> QED BY <1>2, <1>3, <1>4 DEF Allowed

-----------------------------------------------------------------------------
(***************************************************************************)
(* Types.                                                                  *)
(***************************************************************************)

LEMMA NoCallTyped == NoCall \in CallState
  <1>1. NewPolicy([level |-> "full", deny |-> {}, allow |-> {}]) \in PolicyState
    BY DEF NewPolicy, PolicyState, Levels
  <1>2. (CHOOSE l \in Links : TRUE) \in Links
    BY PolicyBounds
  <1>3. <<>> \in Seq(Requests)
    OBVIOUS
  <1> QED BY <1>1, <1>2, <1>3 DEF NoCall, CallState, Verdicts

\* Every variable of the plane stays in its set, and a call has its line in the
\* action log exactly when it is over.
THEOREM PolicyTyping == PolicySpec => []PolicyTypeOK
  <1>1. PolicyInit => PolicyTypeOK
    <2> SUFFICES ASSUME PolicyInit PROVE PolicyTypeOK
      OBVIOUS
    <2>1. daemon \in PolicyState
      BY EnvTyped DEF PolicyInit
    <2>2. call \in [Calls -> CallState] /\ \A c \in Calls : call[c].pc = "none"
      BY NoCallTyped DEF PolicyInit, NoCall
    <2>3. asked \in [Links -> Seq(Requests)]
      BY DEF PolicyInit
    <2> QED BY <2>1, <2>2, <2>3 DEF PolicyInit, PolicyTypeOK
  <1>2. PolicyTypeOK /\ [PolicyNext]_policyVars => PolicyTypeOK'
    <2> SUFFICES ASSUME PolicyTypeOK, [PolicyNext]_policyVars PROVE PolicyTypeOK'
      OBVIOUS
    <2> USE DEF PolicyTypeOK
    <2>1. ASSUME NEW l \in Links, NEW r \in Requests, RestrictSelf(l, r) PROVE PolicyTypeOK'
      <3>1. Restrict(policy[l], r) \in PolicyState
        BY RestrictTyped
      <3>2. Append(asked[l], r) \in Seq(Requests)
        OBVIOUS
      <3> QED BY <2>1, <3>1, <3>2 DEF RestrictSelf
    <2>2. ASSUME NEW l \in Links, NEW c \in Calls, NEW n \in Attempts, NEW args \in Args,
                 ReadToolCall(l, c, n, args)
          PROVE PolicyTypeOK'
      <3>1. [pc |-> "checks", link |-> l, tool |-> n, args |-> args, policy |-> policy[l],
             asked |-> asked[l], verdict |-> "none"] \in CallState
        BY DEF CallState, Verdicts
      <3> QED BY <2>2, <3>1 DEF ReadToolCall
    <2>3. ASSUME NEW l \in Links, HaltConnection(l) \/ ResumeConnection(l) PROVE PolicyTypeOK'
      BY <2>3 DEF HaltConnection, ResumeConnection
    <2>4. ASSUME NEW c \in Calls, NEW v \in Verdicts, call[c].pc # "done", Finish(c, v)
          PROVE PolicyTypeOK'
      <3>1. [call[c] EXCEPT !.pc = "done", !.verdict = v] \in CallState
        BY DEF CallState
      <3>2. logged[c] = 0
        BY <2>4
      <3>3. call' = [call EXCEPT ![c] = [call[c] EXCEPT !.pc = "done", !.verdict = v]]
        BY <2>4 DEF Finish
      <3>4. call' \in [Calls -> CallState]
        BY <3>1, <3>3
      <3>5. logged' \in [Calls -> 0..1]
        BY <2>4, <3>2 DEF Finish
      <3>6. \A d \in Calls : logged'[d] = 1 <=> call'[d].pc = "done"
        <4> TAKE d \in Calls
        <4>1. CASE d = c
          <5>1. call'[c].pc = "done"
            BY <3>3, <3>1 DEF CallState
          <5>2. logged'[c] = 1
            BY <2>4, <3>2 DEF Finish
          <5> QED BY <4>1, <5>1, <5>2
        <4>2. CASE d # c
          BY <2>4, <3>3, <4>2 DEF Finish
        <4> QED BY <4>1, <4>2
      <3> QED BY <2>4, <3>4, <3>5, <3>6 DEF Finish
    <2>5. ASSUME NEW c \in Calls, NEW pc \in {"gate", "running"}, call[c].pc # "done", Goes(c, pc)
          PROVE PolicyTypeOK'
      <3>1. [call[c] EXCEPT !.pc = pc] \in CallState
        BY DEF CallState
      <3>2. call' = [call EXCEPT ![c] = [call[c] EXCEPT !.pc = pc]]
        BY <2>5 DEF Goes
      <3>3. \A d \in Calls : logged[d] = 1 <=> call'[d].pc = "done"
        <4> TAKE d \in Calls
        <4>1. CASE d = c
          <5>1. call'[c].pc # "done"
            BY <3>2, <3>1 DEF CallState
          <5>2. logged[c] # 1
            BY <2>5
          <5> QED BY <4>1, <5>1, <5>2
        <4>2. CASE d # c
          BY <3>2, <4>2
        <4> QED BY <4>1, <4>2
      <3> QED BY <2>5, <3>1, <3>2, <3>3 DEF Goes
    <2>6. ASSUME NEW c \in Calls, Handles(c) PROVE PolicyTypeOK'
      <3>1. CASE Refuse(c)
        <4>1. Checked(call[c]) \in Verdicts
          BY DEF Checked, Verdicts
        <4> QED BY <3>1, <4>1, <2>4 DEF Refuse
      <3>2. CASE Pass(c)
        BY <3>2, <2>5 DEF Pass
      <3>3. CASE AtTheGate(c)
        BY <3>3, <2>4, <2>5 DEF AtTheGate, Verdicts
      <3>4. CASE Return(c)
        BY <3>4, <2>4 DEF Return, Verdicts
      <3> QED BY <2>6, <3>1, <3>2, <3>3, <3>4 DEF Handles
    <2>7. CASE UNCHANGED policyVars
      BY <2>7 DEF policyVars
    <2> QED BY <2>1, <2>2, <2>3, <2>6, <2>7 DEF PolicyNext
  <1> QED BY <1>1, <1>2, PTL DEF PolicySpec

-----------------------------------------------------------------------------
(***************************************************************************)
(* Given up for good.                                                      *)
(***************************************************************************)

\* Policy p has everything in it that the requests rs asked to give up.
Honours(p, rs) ==
    \A i \in 1..Len(rs) :
        /\ rs[i].deny \subseteq p.deny
        /\ rs[i].level \in Levels => Rank(p.level) <= Rank(rs[i].level)

\* The connection honours its own requests, a call those made before it was
\* read, and whatever is past the checks was allowed by the call's policy.
GivenUpInv ==
    /\ \A l \in Links : Honours(policy[l], asked[l])
    /\ \A c \in Calls :
         /\ Honours(call[c].policy, call[c].asked)
         /\ call[c].pc \in {"gate", "running"} \/ Runs(c)
              => Allowed(call[c].policy, call[c].tool, "as_root" \in call[c].args)

LEMMA HonoursMore ==
    ASSUME NEW p \in PolicyState, NEW rs \in Seq(Requests), NEW r \in Requests, Honours(p, rs)
    PROVE  Honours(Restrict(p, r), Append(rs, r))
  <1> DEFINE q == Restrict(p, r)
             ss == Append(rs, r)
  <1>1. q \in PolicyState
    BY RestrictTyped
  <1>2. /\ Rank(q.level) <= Rank(p.level) /\ p.deny \subseteq q.deny /\ r.deny \subseteq q.deny
        /\ r.level \in Levels => Rank(q.level) <= Rank(r.level)
    BY RestrictLowers
  <1>3. SUFFICES ASSUME NEW i \in 1..Len(ss)
                 PROVE  /\ ss[i].deny \subseteq q.deny
                        /\ ss[i].level \in Levels => Rank(q.level) <= Rank(ss[i].level)
    BY DEF Honours
  <1>4. CASE i = Len(rs) + 1
    <2>1. ss[i] = r
      BY <1>4
    <2> QED BY <1>2, <2>1
  <1>5. CASE i # Len(rs) + 1
    <2>1. i \in 1..Len(rs) /\ ss[i] = rs[i]
      BY <1>5
    <2>2. rs[i].deny \subseteq p.deny /\ (rs[i].level \in Levels => Rank(p.level) <= Rank(rs[i].level))
      BY <2>1 DEF Honours
    <2>3. \A level : Rank(level) \in 0..2
      BY DEF Rank
    <2>4. Rank(q.level) \in Nat /\ Rank(p.level) \in Nat /\ Rank(rs[i].level) \in Nat
      BY <2>3
    <2> HIDE DEF q, ss
    <2> QED BY <1>2, <2>1, <2>2, <2>4
  <1> QED BY <1>4, <1>5

LEMMA GivenUpHolds == PolicySpec => []GivenUpInv
  <1>1. PolicyInit => GivenUpInv
    BY DEF PolicyInit, GivenUpInv, Honours, Runs, NoCall
  <1>2. PolicyTypeOK /\ GivenUpInv /\ [PolicyNext]_policyVars => GivenUpInv'
    <2> SUFFICES ASSUME PolicyTypeOK, GivenUpInv, [PolicyNext]_policyVars PROVE GivenUpInv'
      OBVIOUS
    <2>0. /\ policy \in [Links -> PolicyState] /\ asked \in [Links -> Seq(Requests)]
          /\ call \in [Calls -> CallState]
      BY DEF PolicyTypeOK
    <2>1. ASSUME NEW l \in Links, NEW r \in Requests, RestrictSelf(l, r) PROVE GivenUpInv'
      <3>1. Honours(Restrict(policy[l], r), Append(asked[l], r))
        BY <2>0, HonoursMore DEF GivenUpInv
      <3>2. ASSUME NEW m \in Links PROVE Honours(policy'[m], asked'[m])
        <4>1. CASE m = l
          BY <2>0, <2>1, <3>1, <4>1 DEF RestrictSelf
        <4>2. CASE m # l
          BY <2>0, <2>1, <4>2 DEF RestrictSelf, GivenUpInv
        <4> QED BY <4>1, <4>2
      <3> QED BY <2>1, <3>2 DEF RestrictSelf, GivenUpInv, Runs
    <2>2. ASSUME NEW l \in Links, NEW c \in Calls, NEW n \in Attempts, NEW args \in Args,
                 ReadToolCall(l, c, n, args)
          PROVE GivenUpInv'
      BY <2>0, <2>2 DEF ReadToolCall, GivenUpInv, Runs
    <2>3. ASSUME NEW l \in Links, HaltConnection(l) \/ ResumeConnection(l) PROVE GivenUpInv'
      BY <2>3 DEF HaltConnection, ResumeConnection, GivenUpInv, Runs
    <2>4. ASSUME NEW c \in Calls, Handles(c) PROVE GivenUpInv'
      <3>1. ASSUME NEW d \in Calls
            PROVE  /\ Honours(call'[d].policy, call'[d].asked)
                   /\ call'[d].pc \in {"gate", "running"} \/ Runs(d)'
                        => Allowed(call'[d].policy, call'[d].tool, "as_root" \in call'[d].args)
        <4>0. /\ Honours(call[d].policy, call[d].asked)
              /\ call[d].pc \in {"gate", "running"} \/ Runs(d)
                   => Allowed(call[d].policy, call[d].tool, "as_root" \in call[d].args)
          BY DEF GivenUpInv
        <4>1. /\ call'[d].policy = call[d].policy /\ call'[d].asked = call[d].asked
              /\ call'[d].tool = call[d].tool /\ call'[d].args = call[d].args
          <5>1. (\E v \in Verdicts : Finish(c, v)) \/ (\E pc \in {"gate", "running"} : Goes(c, pc))
            BY <2>4 DEF Handles, Refuse, Pass, AtTheGate, Return, Checked, Verdicts
          <5>2. ASSUME NEW v \in Verdicts, Finish(c, v)
                PROVE  /\ call'[d].policy = call[d].policy /\ call'[d].asked = call[d].asked
                       /\ call'[d].tool = call[d].tool /\ call'[d].args = call[d].args
            BY <2>0, <5>2 DEF Finish, CallState
          <5>3. ASSUME NEW pc \in {"gate", "running"}, Goes(c, pc)
                PROVE  /\ call'[d].policy = call[d].policy /\ call'[d].asked = call[d].asked
                       /\ call'[d].tool = call[d].tool /\ call'[d].args = call[d].args
            BY <2>0, <5>3 DEF Goes, CallState
          <5> QED BY <5>1, <5>2, <5>3
        <4>2. call'[d].pc \in {"gate", "running"} \/ Runs(d)'
                => \/ call[d].pc \in {"gate", "running"} \/ Runs(d)
                   \/ Checked(call[d]) = "ok"
          <5>1. CASE d # c
            BY <2>0, <2>4, <5>1 DEF Handles, Refuse, Pass, AtTheGate, Return, Finish, Goes, Runs
          <5>2. CASE d = c
            <6>1. CASE Refuse(c)
              BY <2>0, <5>2, <6>1 DEF Refuse, Finish, Runs, Checked, CallState
            <6>2. CASE Pass(c)
              BY <5>2, <6>2 DEF Pass
            <6>3. CASE AtTheGate(c)
              BY <5>2, <6>3 DEF AtTheGate
            <6>4. CASE Return(c)
              BY <5>2, <6>4 DEF Return
            <6> QED BY <2>4, <6>1, <6>2, <6>3, <6>4 DEF Handles
          <5> QED BY <5>1, <5>2
        <4>3. Checked(call[d]) = "ok" => Allowed(call[d].policy, call[d].tool, "as_root" \in call[d].args)
          BY DEF Checked
        <4> QED BY <4>0, <4>1, <4>2, <4>3
      <3>2. policy' = policy /\ asked' = asked
        BY <2>4 DEF Handles, Refuse, Pass, AtTheGate, Return, Finish, Goes
      <3> QED BY <3>1, <3>2 DEF GivenUpInv
    <2>5. CASE UNCHANGED policyVars
      BY <2>5 DEF policyVars, GivenUpInv, Runs
    <2> QED BY <2>1, <2>2, <2>3, <2>4, <2>5 DEF PolicyNext
  <1> QED BY <1>1, <1>2, PolicyTyping, PTL DEF PolicySpec

\* No call runs a tool that its connection denied itself before the call was
\* read, or whose risk it asked a level against, whatever it asked for since.
THEOREM GivenUpForGood == PolicySpec => []GivenUpStaysGivenUp
  <1>1. PolicyTypeOK /\ GivenUpInv => GivenUpStaysGivenUp
    <2> SUFFICES ASSUME PolicyTypeOK, GivenUpInv, NEW c \in Calls, Runs(c),
                        NEW i \in 1..Len(call[c].asked)
                 PROVE  /\ ~ Listed(call[c].asked[i].deny, call[c].tool)
                        /\ call[c].asked[i].level \in Levels
                             => LevelAllows(call[c].asked[i].level, call[c].tool, FALSE)
      BY DEF GivenUpStaysGivenUp
    <2> DEFINE p == call[c].policy
               r == call[c].asked[i]
    <2>1. p.level \in Levels
      BY DEF PolicyTypeOK, CallState, PolicyState
    <2>2. Allowed(p, call[c].tool, "as_root" \in call[c].args)
      BY DEF GivenUpInv
    <2>3. r.deny \subseteq p.deny /\ (r.level \in Levels => Rank(p.level) <= Rank(r.level))
      BY DEF GivenUpInv, Honours
    <2>4. ~ Listed(r.deny, call[c].tool)
      BY <2>2, <2>3 DEF Allowed, Listed
    <2>5. ASSUME r.level \in Levels PROVE LevelAllows(r.level, call[c].tool, FALSE)
      <3>1. LevelAllows(p.level, call[c].tool, "as_root" \in call[c].args)
        BY <2>2 DEF Allowed
      <3>2. ("as_root" \in call[c].args) \in BOOLEAN
        OBVIOUS
      <3> HIDE DEF p, r
      <3> QED BY <2>1, <2>3, <2>5, <3>1, <3>2, StricterAllowsLess
    <2> QED BY <2>4, <2>5
  <1> QED BY <1>1, PolicyTyping, GivenUpHolds, PTL

\* A restriction adds nothing to what a connection may call, but for as_root
\* when safe becomes readonly and for wildcards behind an exact name.
THEOREM Narrowing == PolicySpec => NarrowsButForTwoWays
  <1>1. PolicyTypeOK /\ [PolicyNext]_policyVars =>
          [\A l \in Links : policy'[l] # policy[l] =>
             \A n \in Names, root \in BOOLEAN :
                Allowed(policy'[l], n, root) =>
                   \/ Allowed(policy[l], n, root)
                   \/ TwoWaysToWiden(policy[l], policy'[l], n, root)]_policyVars
    <2> SUFFICES ASSUME PolicyTypeOK, PolicyNext, NEW l \in Links, policy'[l] # policy[l],
                        NEW n \in Names, NEW root \in BOOLEAN, Allowed(policy'[l], n, root)
                 PROVE  \/ Allowed(policy[l], n, root)
                        \/ TwoWaysToWiden(policy[l], policy'[l], n, root)
      OBVIOUS
    <2>1. PICK m \in Links, r \in Requests : RestrictSelf(m, r)
      BY DEF PolicyNext, ReadToolCall, HaltConnection, ResumeConnection, Handles, Refuse, Pass,
             AtTheGate, Return, Finish, Goes
    <2>2. policy \in [Links -> PolicyState]
      BY DEF PolicyTypeOK
    <2>3. policy'[l] = Restrict(policy[l], r)
      BY <2>1, <2>2 DEF RestrictSelf
    <2>4. n \in Seq(Words) /\ n # <<"\\x00none">>
      BY CatalogueAssumption DEF Names
    <2> QED BY <2>2, <2>3, <2>4, RestrictNarrows
  <1> QED BY <1>1, PolicyTyping, PTL DEF PolicySpec, NarrowsButForTwoWays

\* The short cut of Filter leaves out nothing: what it shows is what the policy
\* allows without as_root, and search goes over all of it but itself.
LEMMA FilterIsAllowed ==
    ASSUME NEW p \in PolicyState, NEW u \in Tools
    PROVE  u \in Filter(p) <=> Allowed(p, u.name, FALSE)
  BY DEF Filter, Allowed, Listed, LevelAllows

\* Whatever the connections restrict, tools/list and tool_search together show
\* what can be called, and nothing else.
THEOREM ShownCanBeCalled == PolicySpec => []ShownIsCallable
  <1>1. PolicyTypeOK => ShownIsCallable
    <2> SUFFICES ASSUME PolicyTypeOK, NEW l \in Links, NEW u \in Tools, u.name # <<"tool", "search">>
                 PROVE  u \in ListedTools(policy[l]) \cup SearchPool(policy[l])
                          <=> Allowed(policy[l], u.name, FALSE)
      BY DEF ShownIsCallable
    <2>1. policy[l] \in PolicyState
      BY DEF PolicyTypeOK
    <2>2. u \in Filter(policy[l]) <=> Allowed(policy[l], u.name, FALSE)
      BY <2>1, FilterIsAllowed
    <2>3. u \in SearchPool(policy[l]) <=> u \in Filter(policy[l])
      BY DEF SearchPool
    <2>4. u \in ListedTools(policy[l]) => u \in Filter(policy[l])
      BY DEF ListedTools
    <2> QED
      BY <2>2, <2>3, <2>4
  <1> QED BY <1>1, PolicyTyping, PTL

=============================================================================
