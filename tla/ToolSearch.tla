----------------------------- MODULE ToolSearch -----------------------------
(***************************************************************************)
(* The tools a run of the agent shows its model: those it starts with      *)
(* (agent/internal/loop/selection.go), ranked by the search the server     *)
(* shares (internal/toolsearch), and those added when the model searches   *)
(* for more (loop.go).                                                     *)
(*                                                                         *)
(* A query is what each tool has to show for it: the phrases it contains,  *)
(* and for each of its terms how that meets the tool's name, category and  *)
(* description.                                                            *)
(***************************************************************************)
EXTENDS Integers, Sequences, FiniteSets

CONSTANTS
    Offerable,   \* the catalogue the run was given by tools/list
    Searchable,  \* what the server's tool_search goes over
    Steady,      \* coreTools
    SearchTool,  \* tool_search
    Skills,      \* whether there are skills to read
    Goals,       \* goals a run may have, as queries
    Queries,     \* what the model may search for
    Limits,      \* --tools
    MaxSearches  \* bound

ASSUME SearchAssumption ==
    /\ SearchTool \in Steady /\ Skills \in BOOLEAN
    /\ Limits \subseteq Nat /\ MaxSearches \in Nat

\* What a tool may have to show, and that no two have one name to be sorted by.
Evidence ==
    [phrases : Nat,
     terms : Seq([name : {"whole", "keyword", "word", "inside", "no"},
                  category : BOOLEAN, described : BOOLEAN, long : BOOLEAN])]

ASSUME OfferAssumption ==
    /\ IsFiniteSet(Offerable) /\ IsFiniteSet(Steady)
    /\ \A q \in Goals : \A t \in Offerable :
         /\ q[t].shows \in Evidence /\ q[t].place \in Nat
         /\ \A u \in Offerable : q[t].place = q[u].place => t = u

VARIABLES
    offered,    \* the tools of the next request
    skillRead,  \* whether skill_read is one of them
    started,    \* history: what the run was started with, and why
    found,      \* history: what searches have told the model of
    searches

searchVars == <<offered, skillRead, started, found, searches>>

-----------------------------------------------------------------------------
(* The ranking. *)

\* Terms that the name, a keyword or the category has: evidence of the tool.
Evident(ev) == {i \in DOMAIN ev.terms : ev.terms[i].name # "no" \/ ev.terms[i].category}
Strong(ev)  == ev.phrases + Cardinality(Evident(ev))

\* Terms of at least four letters that only the description has.
Weak(ev) == Cardinality({i \in DOMAIN ev.terms \ Evident(ev) : ev.terms[i].described /\ ev.terms[i].long})

\* How many terms the name or a keyword meets in one of its ways.
ByName(ev, way) == Cardinality({i \in DOMAIN ev.terms : ev.terms[i].name = way})

Score(ev) ==
    IF Strong(ev) = 0 THEN Weak(ev)
    ELSE 10 * ev.phrases + 3 * Strong(ev)
           + 12 * ByName(ev, "whole") + 9 * ByName(ev, "keyword")
           + 8 * ByName(ev, "word") + 6 * ByName(ev, "inside")
           + 4 * Cardinality({i \in DOMAIN ev.terms : ev.terms[i].category})
           + Cardinality({i \in DOMAIN ev.terms : ev.terms[i].described})

Answering(q, pool) == {t \in pool \ {SearchTool} : Strong(q[t].shows) > 0 \/ Weak(q[t].shows) >= 2}

\* Ties go by name.
Before(q, t, u) ==
    \/ Score(q[t].shows) > Score(q[u].shows)
    \/ Score(q[t].shows) = Score(q[u].shows) /\ q[t].place < q[u].place

FirstOf(q, tools, n) == {t \in tools : Cardinality({u \in tools : Before(q, u, t)}) < n}

RankTools(q, pool, limit) == FirstOf(q, Answering(q, pool), IF limit <= 0 THEN 10 ELSE limit)

-----------------------------------------------------------------------------
(* The selection. *)

CoreOffered == Steady \cap Offerable

\* Slip: the tools that are offered anyway take the places of others.
RankedCrowded(q, limit) == RankTools(q, Offerable, limit) \ CoreOffered

Ranked(q, limit) ==
    FirstOf(q, RankTools(q, Offerable, limit + Cardinality(Steady)) \ CoreOffered, limit)

Select(q, limit, capped) ==
    CASE limit <= 0                               -> Offerable
      [] limit > 0 /\ Ranked(q, limit) # {}       -> CoreOffered \cup Ranked(q, limit)
      [] limit > 0 /\ Ranked(q, limit) = {}       -> IF capped THEN CoreOffered ELSE Offerable

RankingFailed(q, limit) == limit > 0 /\ Ranked(q, limit) = {}

SearchInit ==
    \E q \in Goals, limit \in Limits, capped \in BOOLEAN :
        /\ offered = Select(q, limit, capped) /\ skillRead = Skills
        /\ started = [tools |-> offered, limit |-> limit, failed |-> RankingFailed(q, limit),
                      fitting |-> Cardinality(Answering(q, Offerable) \ CoreOffered)]
        /\ found = {} /\ searches = 0

\* The model searches, and what its result names is added from then on.  The
\* list for the provider is built again from what is offered.
Widen(q, limit) ==
    LET hits  == RankTools(q, Searchable, limit)
        extra == (hits \cap Offerable) \ offered
    IN  /\ SearchTool \in offered /\ searches < MaxSearches /\ searches' = searches + 1
        /\ offered' = offered \cup extra
        /\ skillRead' = (skillRead /\ extra = {})
        /\ found' = found \cup hits
        /\ UNCHANGED started

SearchNext == \E q \in Queries, limit \in Limits : Widen(q, limit)

SearchSpec == SearchInit /\ [][SearchNext]_searchVars

-----------------------------------------------------------------------------
(* Properties. *)

\* Every tool stays in the model's reach.  A run starts with the core and as
\* many others as the goal matches, up to the number asked for: tools that are
\* offered anyway take nobody's place.  What a search has named can be called
\* from then on, if tools/list knew of it.  And nothing that was offered goes
\* but skill_read, which is not in the list that a widening builds again.
ToolsStayInReach ==
    /\ CoreOffered \subseteq offered
    /\ started.limit > 0 /\ ~started.failed =>
         Cardinality(started.tools \ CoreOffered)
             = (IF started.fitting < started.limit THEN started.fitting ELSE started.limit)
    /\ (found \cap Offerable) \cup started.tools \subseteq offered
    /\ Skills /\ ~skillRead => offered # started.tools
=============================================================================
