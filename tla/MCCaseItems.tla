------------------------------ MODULE MCCaseItems ------------------------------
(* The material of a case for TLC, and apart from it the types cases are made from:    *)
(* their scenarios, and interchangeable requests and contents.                          *)
EXTENDS CaseItems, TLC

CONSTANTS
    People, Superusers, Specs, Seeded, None,  \* of CaseCatalog
    Openings                                  \* its scenarios

ASSUME CatalogAssumption ==
    /\ Superusers \subseteq People
    /\ None \notin Specs /\ \A spec \in Specs : spec.starters \in 0 .. 2
    /\ \A s \in Openings : s.cases \in Nat /\ s.people \subseteq People /\ s.kinds \subseteq {"general", "typed"}

VARIABLES
    part,                                     \* which of the two this behaviour is about
    type, doc, cases, call, history, asked    \* of CaseCatalog

Scenario(atOnce, some, labels, ops) ==
    [atOnce |-> atOnce, items |-> some, labels |-> labels, ops |-> ops]

\* One request at a time, every operation: over two items that may be the brief, and
\* over one that is pinned with either label.  Two at once on a document or on a live
\* reference, with the deletion of the case.
MCScenarios ==
    {Scenario(1, Briefs, {label}, Ops) : label \in Labels} \cup
    {Scenario(1, {b}, Labels, Ops) : b \in Briefs} \cup
    {Scenario(2, some, {label}, {"create", "add", "remove", "pin", "close", "delete"}) :
        some \in {Reports, References}, label \in Labels}

-------------------------------------------------------------------------------

MCSpecs ==
    {[fields |-> {"f"}, required |-> {"f"}, playbook |-> TRUE, starters |-> 1],
     [fields |-> {"f", "g"}, required |-> {}, playbook |-> FALSE, starters |-> 0]}

\* Everything one after the other; an alert twice, one after the other and at once, while
\* access is given and taken; a case opened or changed while its type is deleted.
MCCatalogScenarios ==
    LET Asked(atOnce, most, ops, people, kinds) ==
            [atOnce |-> atOnce, cases |-> most, ops |-> ops, people |-> people, kinds |-> kinds]
        someone == People \ Superusers
        kinds == {"general", "typed"}
    IN  {Asked(1, 1, {"doc", "put type", "drop type", "create", "change"}, someone, kinds),
         Asked(2, 2, {"create", "access"}, People, {"general"}),
         Asked(2, 1, {"create", "drop type", "change"}, someone, kinds)}

Catalog == INSTANCE CaseCatalog WITH Scenarios <- Openings, request <- call, scenario <- asked

catalog == <<type, doc, cases, call, history, asked>>

-------------------------------------------------------------------------------

\* The part a behaviour is not about is at rest.
MCInit ==
    /\ Init /\ Catalog!Init
    /\ \/ part = "material" /\ type = None /\ asked = CHOOSE s \in Openings : TRUE
       \/ part = "catalog" /\ scenario = CHOOSE s \in Scenarios : s.labels = Labels

MCNext ==
    \/ part = "material" /\ Next /\ UNCHANGED <<catalog, part>>
    \/ part = "catalog" /\ Catalog!Next /\ UNCHANGED <<vars, part>>

MCSpec == MCInit /\ [][MCNext]_<<vars, catalog, part>>

Symmetry == Permutations(Requests) \cup Permutations(Contents) \cup Permutations(Labels)

-------------------------------------------------------------------------------
(* Properties *)

\* What has to hold of the types, their cases and the alerts at any time.
CatalogStands == Catalog!TypeOK /\ Catalog!CatalogStands
===============================================================================
