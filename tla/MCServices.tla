------------------------------ MODULE MCServices ------------------------------
(* The services around a graph context for TLC, each part on its own: the pages and    *)
(* agents of an exploration, the artifacts of a context, and the chain of precomputed  *)
(* graphs.                                                                              *)
EXTENDS Explorations, Sequences

CONSTANTS Requests, Names, Owner, Writers, Superusers, None

VARIABLES
    part,      \* which of the parts this behaviour is about
    exists, presets, entries, task, history,         \* of Artifacts
    ask, reply                                       \* of Precomputed

-------------------------------------------------------------------------------

\* A writable provider before one that a nightly job of the organization fills.
MCChain == << [claims |-> {CHOOSE n \in Names : TRUE}, writable |-> TRUE],
              [claims |-> Names, writable |-> FALSE] >>

Context == INSTANCE Artifacts WITH Cap <- 1, Chain <- MCChain, request <- task

-------------------------------------------------------------------------------

Param(name, required, default, values) ==
    [name |-> name, required |-> required, default |-> default, values |-> values]

\* A required argument, one with a default, the first again without being required, and one
\* that no registration accepts.
Seed == Param("seed", TRUE, "none", {"", "1", "2"})
Hops == Param("hops", FALSE, "1", {"1"})
Kind == Param("seed", FALSE, "none", {"", "1"})
Bad == Param("hops", TRUE, "1", {"1"})

ParamLists == {<<>>, <<Seed>>, <<Hops>>, <<Kind>>, <<Seed, Hops>>, <<Hops, Kind>>, <<Bad>>}

Providers(name, claiming) ==
    {[name |-> name, claims |-> claimed, params |-> params, save |-> write, delete |-> write] :
        claimed \in claiming, params \in ParamLists, write \in BOOLEAN}

Items == {"seed", "hops", "other"} \X {"", "1", "2"}

MCAsks ==
    [chain : Providers("p", BOOLEAN) \X Providers("q", {TRUE}),
     items : {<<>>, << <<"seed", "1">>, <<"hops", "1">>, <<"other", "1">> >>}
             \cup {<<i>> : i \in Items} \cup (Items \X Items),
     holders : {{"p", "q"}, {"q"}}]

NoAsk == [chain |-> <<>>]

Graph == INSTANCE Precomputed WITH MaxParams <- 2, Asks <- MCAsks, request <- ask

-------------------------------------------------------------------------------

exploring == vars
context == <<exists, presets, entries, task, history>>
graph == <<ask, reply>>

all == <<exploring, context, graph, part>>

\* The parts a behaviour is not about are at rest.
MCInit ==
    /\ part \in {"pages", "context", "graph"}
    /\ Init /\ (part # "pages" => file = NoFile /\ ~row.hasSnapshot)
    /\ Context!Init /\ (part # "context" => Context!Stored = {})
    /\ IF part = "graph" THEN Graph!Init ELSE ask = NoAsk /\ reply = Graph!Pending

MCNext ==
    \/ part = "pages" /\ Next /\ UNCHANGED <<context, graph, part>>
    \/ part = "context" /\ Context!Next /\ UNCHANGED <<exploring, graph, part>>
    \/ part = "graph" /\ Graph!Next /\ UNCHANGED <<exploring, context, part>>
    \/ ~exists /\ UNCHANGED all
    \/ reply # Graph!Pending /\ UNCHANGED all

\* What FairSpec of Explorations asks for.
MCFairness ==
    /\ \A a \in Agents : WF_vars(AgentStep(a))
    /\ \A p \in Pages : WF_vars(Answers(p)) /\ WF_vars(Polls(p))
    /\ WF_vars(DeleteFile)

MCSpec == MCInit /\ [][MCNext]_all /\ MCFairness

-------------------------------------------------------------------------------
(* Properties *)

\* What has to hold of each part at any time: presets are bounded and a deleted context
\* leaves nothing behind, and a precomputed graph is read where it is written, with the
\* arguments its provider declares.
ServicesStand ==
    /\ part = "context" => Context!TypeOK /\ Context!ArtifactsStand
    /\ part = "graph" => Graph!GraphsResolve

\* What the parts may not do, and what they must at last: a page ends up with what is
\* stored, and presets go by their creators.
ServicesKeep ==
    /\ Converges
    /\ [][ServicesStand']_all
    /\ Context!CreatorDecides
===============================================================================
