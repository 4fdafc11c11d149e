------------------------------- MODULE Policy -------------------------------
(***************************************************************************)
(* What an MCP connection may call (internal/mcp/mcppolicy.go, the filters *)
(* of registry.go, and the refusals of mcp.go: serve, handleToolCall).     *)
(*                                                                         *)
(* Every connection starts from the daemon's policy and may restrict       *)
(* itself; its reader does that inline and hands each tool call the policy *)
(* it had when it read the call.  The handler of the call runs on its own  *)
(* goroutine: whether the connection is halted, whether the tool exists,   *)
(* whether the policy allows it, whether it takes these arguments, whether *)
(* the agent may inject, in that order; then the tool; then one line in    *)
(* the action log.                                                         *)
(*                                                                         *)
(* Deny and allow lists are sets: their order only chooses the wording of  *)
(* a refusal.  A pattern's star comes after a whole word.                  *)
(***************************************************************************)
EXTENDS Naturals, Sequences

CONSTANTS
    Words,      \* what names are made of
    Tools,      \* the catalogue: toolDefs as in module Catalogue
    Core,       \* coreTools, the names discovery leaves in tools/list
    Discovery,  \* MCP_DISCOVERY
    Envs,       \* what MCP_POLICY, MCP_DENY and MCP_ALLOW may say
    Requests,   \* what clients may ask for with sentineldesk/policy
    Links,      \* connections
    Calls,      \* tool calls
    Attempts,   \* what they may name: tools, and names that are no tool
    Args,       \* the arguments they may carry: sets of argument names
    MaxRequests \* bound: restrictions one connection asks for

Names  == {t.name : t \in Tools}
Risks  == {"read", "write", "danger"}
Levels == {"full", "safe", "readonly"}

\* One entry of a list: a name, or with star every name that begins with stem.
Patterns == [stem : Seq(Words), star : BOOLEAN]

ASSUME WordsAssumption == "\\x00none" \in Words
ASSUME CatalogueAssumption ==
    \A t \in Tools : t.name \in Seq(Words) \ {<<"\\x00none">>} /\ t.risk \in Risks
ASSUME ListsAssumption ==
    \A r \in Requests \cup Envs : r.deny \in SUBSET Patterns /\ r.allow \in SUBSET Patterns
ASSUME NamesAssumption == \A t, u \in Tools : t.name = u.name => t = u
ASSUME PolicyBounds == Links # {} /\ MaxRequests \in Nat /\ Discovery \in BOOLEAN

\* riskIndex, controlIndex, nameIndex: the catalogue keyed by name.
Tool == [n \in Names |-> CHOOSE t \in Tools : t.name = n]

VARIABLES
    daemon,   \* Server.policy
    policy,   \* connPolicy of each connection
    asked,    \* history: the requests each connection has made, in order
    halted,   \* Server.halted
    call,     \* each tool call
    logged    \* history: lines each call has put into the action log

policyVars == <<daemon, policy, asked, halted, call, logged>>

-----------------------------------------------------------------------------
(***************************************************************************)
(* The policy.                                                             *)
(***************************************************************************)

StartsWith(n, stem) == Len(stem) <= Len(n) /\ \A i \in 1..Len(stem) : n[i] = stem[i]

\* matchPattern
Matches(pat, n) == IF pat.star THEN StartsWith(n, pat.stem) ELSE pat.stem = n

\* "\x00none": nothing has that name.
MatchesNothing == [stem |-> <<"\\x00none">>, star |-> FALSE]

Listed(pats, n) == \E pat \in pats : Matches(pat, n)

\* The part of Allowed that asks about risk. A name outside the catalogue is
\* refused below full.
LevelAllows(level, n, root) ==
    \/ level = "full"
    \/ level = "readonly" /\ n \in Names /\ Tool[n].risk = "read"
    \/ level = "safe" /\ n \in Names /\ Tool[n].risk # "danger" /\ ~ root

\* Allowed: root says that the call carries as_root: true.
Allowed(p, n, root) ==
    /\ ~ Listed(p.deny, n)
    /\ p.allow = {} \/ Listed(p.allow, n)
    /\ LevelAllows(p.level, n, root)

\* NewPolicy: an unknown level is full.
NewPolicy(env) ==
    [level |-> IF env.level \in Levels THEN env.level ELSE "full",
     deny |-> env.deny, allow |-> env.allow]

Rank(level) == CASE level = "full" -> 2 [] level = "safe" -> 1 [] OTHER -> 0

Stricter(level, current) == level \in Levels /\ Rank(level) < Rank(current)

\* The requested patterns that survive a list: those whose stem the list
\* matches, and those that are in it.
Kept(base, req) == {r \in req : \E b \in base : Matches(b, r.stem) \/ b = r}

\* Slip: a list that has nothing in common with the daemon's is empty, and an
\* empty list allows everything.
IntersectToEmpty(base, req) ==
    IF base = {} THEN req ELSE IF req = {} THEN base ELSE Kept(base, req)

Intersect(base, req) ==
    IF base = {} THEN req
    ELSE IF req = {} THEN base
    ELSE IF Kept(base, req) = {} THEN {MatchesNothing} ELSE Kept(base, req)

Restrict(p, r) ==
    [level |-> IF Stricter(r.level, p.level) THEN r.level ELSE p.level,
     deny |-> p.deny \cup r.deny,
     allow |-> Intersect(p.allow, r.allow)]

\* Slip: the short cut forgets the deny list.
FilterForgetsDeny(p) ==
    IF p.level = "full" /\ p.allow = {} THEN Tools
    ELSE {t \in Tools : Allowed(p, t.name, FALSE)}

\* Filter: what tools/list and tool_search may show.
Filter(p) ==
    IF p.level = "full" /\ p.deny = {} /\ p.allow = {} THEN Tools
    ELSE {t \in Tools : Allowed(p, t.name, FALSE)}

ListedTools(p) == IF Discovery THEN {t \in Filter(p) : t.name \in Core} ELSE Filter(p)

\* dispatchRegistry: a search goes over everything the policy leaves.
SearchPool(p) == {t \in Filter(p) : t.name # <<"tool", "search">>}

-----------------------------------------------------------------------------
(***************************************************************************)
(* Connections and calls.                                                  *)
(***************************************************************************)

Verdicts == {"none", "emergency", "unknown_tool", "policy", "bad_arguments", "room",
             "tool_error", "cancelled", "ok"}

NoCall == [pc |-> "none", link |-> CHOOSE l \in Links : TRUE, tool |-> <<>>, args |-> {},
           policy |-> NewPolicy([level |-> "full", deny |-> {}, allow |-> {}]),
           asked |-> <<>>, verdict |-> "none"]

PolicyInit ==
    /\ \E env \in Envs : daemon = NewPolicy(env)
    /\ policy = [l \in Links |-> daemon]
    /\ asked = [l \in Links |-> <<>>]
    /\ halted = {}
    /\ call = [c \in Calls |-> NoCall]
    /\ logged = [c \in Calls |-> 0]

\* sentineldesk/policy, read and applied by the reader before it reads on.
\* Slip: every request starts again from the daemon's policy.
RestrictFromTheTop(l, r) ==
    /\ Len(asked[l]) < MaxRequests
    /\ policy' = [policy EXCEPT ![l] = Restrict(daemon, r)]
    /\ asked' = [asked EXCEPT ![l] = Append(@, r)]
    /\ UNCHANGED <<daemon, halted, call, logged>>

RestrictSelf(l, r) ==
    /\ Len(asked[l]) < MaxRequests
    /\ policy' = [policy EXCEPT ![l] = Restrict(@, r)]
    /\ asked' = [asked EXCEPT ![l] = Append(@, r)]
    /\ UNCHANGED <<daemon, halted, call, logged>>

\* A tools/call, with the policy of this moment.
ReadToolCall(l, c, n, args) ==
    /\ call[c].pc = "none"
    /\ call' = [call EXCEPT ![c] = [pc |-> "checks", link |-> l, tool |-> n, args |-> args,
                                    policy |-> policy[l], asked |-> asked[l],
                                    verdict |-> "none"]]
    /\ UNCHANGED <<daemon, policy, asked, halted, logged>>

HaltConnection(l) ==
    /\ halted' = halted \cup {l}
    /\ UNCHANGED <<daemon, policy, asked, call, logged>>

ResumeConnection(l) ==
    /\ halted' = halted \ {l}
    /\ UNCHANGED <<daemon, policy, asked, call, logged>>

\* unknownArgs: as_root is the one argument some tools take and others do not.
UnknownArgs(k) == k.args \ (IF Tool[k.tool].root THEN {"as_root"} ELSE {})

\* What the checks of handleToolCall come to, in their order.
Checked(k) ==
    CASE k.link \in halted                                -> "emergency"
      [] k.link \notin halted /\ k.tool \notin Names      -> "unknown_tool"
      [] k.link \notin halted /\ k.tool \in Names
           /\ ~ Allowed(k.policy, k.tool, "as_root" \in k.args) -> "policy"
      [] OTHER -> IF UnknownArgs(k) # {} THEN "bad_arguments" ELSE "ok"

\* One line in the log, and the reply.
Finish(c, verdict) ==
    /\ call' = [call EXCEPT ![c].pc = "done", ![c].verdict = verdict]
    /\ logged' = [logged EXCEPT ![c] = @ + 1]
    /\ UNCHANGED <<daemon, policy, asked, halted>>

Refuse(c) ==
    /\ call[c].pc = "checks" /\ Checked(call[c]) # "ok"
    /\ Finish(c, Checked(call[c]))

Goes(c, pc) ==
    /\ call' = [call EXCEPT ![c].pc = pc]
    /\ UNCHANGED <<daemon, policy, asked, halted, logged>>

\* A tool that needs the controls goes to the room first (mayInject).
Pass(c) ==
    /\ call[c].pc = "checks" /\ Checked(call[c]) = "ok"
    /\ Goes(c, IF Tool[call[c].tool].control THEN "gate" ELSE "running")

AtTheGate(c) ==
    /\ call[c].pc = "gate"
    /\ Goes(c, "running") \/ Finish(c, "room")

Return(c) ==
    /\ call[c].pc = "running"
    /\ \E verdict \in {"ok", "tool_error", "cancelled"} : Finish(c, verdict)

Handles(c) == Refuse(c) \/ Pass(c) \/ AtTheGate(c) \/ Return(c)

PolicyNext ==
    \/ \E l \in Links :
         \/ \E r \in Requests : RestrictSelf(l, r)
         \/ \E c \in Calls, n \in Attempts, args \in Args : ReadToolCall(l, c, n, args)
         \/ HaltConnection(l) \/ ResumeConnection(l)
    \/ \E c \in Calls : Handles(c)

PolicySpec == PolicyInit /\ [][PolicyNext]_policyVars

-----------------------------------------------------------------------------
(***************************************************************************)
(* Properties.                                                             *)
(***************************************************************************)

PolicyState == [level : Levels, deny : SUBSET Patterns, allow : SUBSET Patterns]

CallState == [pc : {"none", "checks", "gate", "running", "done"}, link : Links,
              tool : Attempts \cup {<<>>}, args : Args \cup {{}}, policy : PolicyState,
              asked : Seq(Requests), verdict : Verdicts]

PolicyTypeOK ==
    /\ daemon \in PolicyState
    /\ policy \in [Links -> PolicyState]
    /\ asked \in [Links -> Seq(Requests)]
    /\ halted \in SUBSET Links
    /\ call \in [Calls -> CallState]
    /\ logged \in [Calls -> 0..1]
    /\ \A c \in Calls : logged[c] = 1 <=> call[c].pc = "done"

Runs(c) == call[c].pc = "running" \/ call[c].verdict \in {"ok", "tool_error", "cancelled"}

\* Once a connection has denied itself a tool, or asked for a level that rules
\* the tool's risk out, no call it sends afterwards runs that tool, whatever it
\* asks for later: "a connection that had dropped itself to readonly could ask
\* for full and get it -- the one thing this method promises cannot happen".
GivenUpStaysGivenUp ==
    \A c \in Calls : Runs(c) => \A i \in 1..Len(call[c].asked) :
        LET r == call[c].asked[i] IN
        /\ ~ Listed(r.deny, call[c].tool)
        /\ r.level \in Levels => LevelAllows(r.level, call[c].tool, FALSE)

\* What a step may add to what a connection may call comes from one of two
\* corners of Restrict: as_root under safe, which readonly does not look at, and
\* a wildcard that was let in by an exact name.
TwoWaysToWiden(p, q, n, root) ==
    \/ root /\ p.level = "safe" /\ q.level = "readonly"
    \/ \E b \in p.allow : ~ b.star /\ b.stem # n /\ StartsWith(n, b.stem)

NarrowsButForTwoWays ==
    [][\A l \in Links : policy'[l] # policy[l] =>
         \A n \in Names, root \in BOOLEAN :
            Allowed(policy'[l], n, root) =>
               \/ Allowed(policy[l], n, root)
               \/ TwoWaysToWiden(policy[l], policy'[l], n, root)]_policyVars

\* tools/list and tool_search show nothing that would be refused, and hide
\* nothing but for discovery.
ShownIsCallable ==
    \A l \in Links :
        LET shown == ListedTools(policy[l]) \cup SearchPool(policy[l]) IN
        \A t \in Tools : t.name # <<"tool", "search">> =>
            (t \in shown <=> Allowed(policy[l], t.name, FALSE))

(***************************************************************************)
(* What the comments say and the code does not do.                         *)
(***************************************************************************)

\* mcppolicy.go: "Restrict returns a policy equal to or STRICTER than the
\* current one, never more permissive". As a property of the run policy it is
\* violated; NarrowsButForTwoWays is what is true.
NeverMorePermissive ==
    [][\A l \in Links : policy'[l] # policy[l] =>
         \A n \in Names, root \in BOOLEAN :
            Allowed(policy'[l], n, root) => Allowed(policy[l], n, root)]_policyVars
=============================================================================
