------------------------------- MODULE MCSharing -------------------------------
(* Sharing for TLC: the scenarios of its run, and interchangeable ids.          *)
EXTENDS Sharing, TLC

Scenario(stores, atOnce, maxRows, ops) ==
    [store : stores, atOnce : {atOnce}, maxRows : {maxRows}, ops : {ops}]
Both == {"database", "memory"}

\* One request at a time: whom things are shared with and who owns them; the life of an
\* exploration; templates.  Two at once: what is created in or said of something that
\* goes away, and, in memory, an update that waits for the warehouse.
MCScenarios ==
    Scenario(Both, 1, 2, {"context", "create", "share", "share context", "transfer context"})
    \cup Scenario(Both, 1, 1, {"context", "create", "rename", "share", "transfer", "delete",
                               "delete context"})
    \cup Scenario(Both, 1, 1, {"context", "share context", "template", "delete context"})
    \cup Scenario({"database"}, 2, 1, {"context", "create", "rename", "share", "delete context"})
    \cup Scenario({"memory"}, 2, 1, {"context", "settings", "share context", "delete context"})

Symmetry == Permutations(Requests) \cup Permutations(Explorations) \cup Permutations(Titles)
================================================================================
