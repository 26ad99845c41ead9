------------------------------- MODULE MCAgents --------------------------------
(* Agents for TLC: the scenarios of its run, and interchangeable ids.            *)
EXTENDS Agents, TLC

CONSTANTS ana, bob

Scenario(stores, databricks, atOnce, number, time, owners, cases, ops) ==
    [store : stores, databricks : {databricks}, atOnce : {atOnce}, tokens : {number},
     time : {time}, owners : {owners}, cases : {cases}, ops : {ops}]

\* Two calls of a token at once, against the clock; tokens, permissions and people on the
\* request changing; an agent in the cases while they are shared and closed, and in the
\* explorations while people attach and remove them.
MCScenarios ==
    Scenario({"database", "memory"}, FALSE, 2, 1, MaxTime, {ana}, {}, {"mint", "clock", "tool"})
    \cup Scenario({"database"}, TRUE, 1, 1, 3, {ana, bob}, {},
                  {"mint", "revoke", "clock", "holders", "case"})
    \cup Scenario({"database"}, FALSE, 1, 1, 0, {ana}, Cases,
                  {"mint", "access", "close", "case", "people", "tool", "elsewhere"})
    \cup Scenario({"database"}, FALSE, 2, 1, 0, {ana}, Cases,
                  {"mint", "close", "access", "create", "edit", "exploration"})
    \cup Scenario({"database"}, FALSE, 2, 1, 0, {ana}, Cases,
                  {"mint", "items", "edit"})

Symmetry == Permutations(Requests) \cup Permutations(Tokens) \cup Permutations(Cases)
            \cup Permutations(Explorations)
================================================================================
