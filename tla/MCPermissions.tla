----------------------------- MODULE MCPermissions -----------------------------
(* Permissions for TLC: the scenarios of its run, and interchangeable ids.      *)
EXTENDS Permissions, TLC

CONSTANTS p1, p2, n1, ana

Scenario(store, atOnce, catalog, names, members, views, ops) ==
    [store |-> store, atOnce |-> atOnce, catalog |-> catalog, names |-> names,
     members |-> members, views |-> views, ops |-> ops]

\* One administrator and every rule over two permissions; two administrators at once, over
\* the groups and over the rules; an administrator changes the groups or the rules while
\* somebody is checked, on the database and in memory.
MCScenarios ==
    {Scenario("database", 1, {p1, p2}, Names, {ana, Workspace}, 0, {"create", "set"}),
     Scenario("database", 2, {}, Names, {ana, Workspace}, 0, {"create", "update", "delete"}),
     Scenario("database", 2, {p1}, Names, {}, 0, {"create", "delete", "set"}),
     Scenario("database", 2, {p1}, Names, {ana}, 2, {"create", "set", "check"}),
     Scenario("database", 2, {p1}, {n1}, {ana, Workspace}, 3,
              {"create", "update", "set", "check"}),
     Scenario("memory", 2, {p1}, {n1}, {ana, Workspace}, 2,
              {"create", "update", "delete", "set", "check"})}

Symmetry == Permutations(Requests) \cup Permutations(Groups)
================================================================================
