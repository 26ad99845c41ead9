---------------------------- MODULE MCCaseAnalyses -----------------------------
(* CaseAnalyses for TLC: its scenarios.                                          *)
EXTENDS CaseAnalyses

CONSTANTS r1, r2, r3

NoDwell == 99

Scenario(stores, atOnce, who, again, on, ops, pairs, contents, asks) ==
    [store : stores, atOnce : {atOnce}, who : {who}, again : {again}, on : {on}, ops : {ops}, pairs : {pairs},
     contents : {contents}, asks : {asks}]

Presence == {[kind |-> "presence"]}
Graph == {[kind |-> "graph"]}

\* an account with an identity key and two nodes without; one of its edges dangles
Accounts == [unified |-> FALSE, nodes |-> {[id |-> 1, key |-> 5], [id |-> 2, key |-> 0]},
             edges |-> {[id |-> 1, source |-> 1, target |-> 2, amount |-> 0, t |-> 0],
                        [id |-> 2, source |-> 1, target |-> 3, amount |-> 0, t |-> 0]}]
People == [unified |-> FALSE, nodes |-> {[id |-> 2, key |-> 5], [id |-> 3, key |-> 0]},
           edges |-> {[id |-> 1, source |-> 2, target |-> 3, amount |-> 0, t |-> 0]}]
Derived == [unified |-> TRUE, nodes |-> {[id |-> 12, key |-> 0], [id |-> 23, key |-> 0]},
            edges |-> {[id |-> 1, source |-> 12, target |-> 23, amount |-> 0, t |-> 0]}]

\* four nodes, and the edges a case may hold of them
Pool ==
    {[id |-> 1, source |-> 1, target |-> 2, amount |-> 2, t |-> 1],
     [id |-> 2, source |-> 1, target |-> 2, amount |-> 4, t |-> 3],
     [id |-> 3, source |-> 1, target |-> 3, amount |-> 2, t |-> 3],
     [id |-> 4, source |-> 2, target |-> 3, amount |-> 3, t |-> 4],
     [id |-> 5, source |-> 3, target |-> 2, amount |-> 3, t |-> 3],
     [id |-> 6, source |-> 2, target |-> 4, amount |-> 2, t |-> 5],
     [id |-> 7, source |-> 3, target |-> 4, amount |-> 3, t |-> 5],
     [id |-> 8, source |-> 1, target |-> 4, amount |-> 1, t |-> 2]}
Network(edges) == [unified |-> TRUE, nodes |-> {[id |-> n, key |-> 0] : n \in 1..4}, edges |-> edges]
Networks(n) == {Network(E) : E \in {X \in SUBSET Pool : Cardinality(X) \in 1..n}}

TraceAsks ==
    {[kind |-> "trace", source |-> from[1], direction |-> from[2], allocation |-> rule,
      hops |-> hops, dwell |-> dwell, min |-> min, noDwell |-> NoDwell, day |-> NoDwell] :
        from \in {<<1, "forward">>, <<4, "backward">>},
        rule \in {"fifo", "lifo", "proportional", "libr", "total"},
        hops \in {1, 2}, dwell \in {1, NoDwell}, min \in {0, 2}}
PathAsks ==
    [kind : {"paths"}, source : {1}, target : {4, 2}, mode : {"shortest", "weighted", "k-shortest"},
     directed : BOOLEAN, weight : {"hops", "inverse-amount"}, k : {3}, from : {0}, dwell : {NoDwell}, noDwell : {NoDwell}]
    \cup
    [kind : {"paths"}, source : {1}, target : {4, 2}, mode : {"earliest"},
     directed : {TRUE}, weight : {"hops"}, k : {1}, from : {0, 2}, dwell : {1, NoDwell}, noDwell : {NoDwell}]

MCScenarios ==
    Scenario({"database"}, 1, {r1, r3}, TRUE, {1, 2}, {"judge", "alias"}, {<<11, 12>>}, {Accounts}, Presence)
    \cup Scenario({"memory"}, 1, {r1, r3}, TRUE, {1, 2}, {"version", "keys"}, {}, {Accounts, People}, Presence)
    \cup Scenario({"database"}, 2, {r1, r2}, TRUE, {1}, {"judge", "alias"}, {<<11, 12>>}, {Accounts}, Presence)
    \cup Scenario({"database"}, 2, {r1, r2}, TRUE, {1, 2}, {"judge"}, {}, {Accounts}, Presence)
    \cup Scenario({"database"}, 1, {r1}, TRUE, {1, 2}, {"version"}, {}, {Accounts, Unreadable}, Presence)
    \cup Scenario({"memory"}, 1, {r1}, TRUE, {1}, {"explore"}, {}, {Accounts, People}, Presence \cup Graph)
    \cup Scenario({"database", "memory"}, 1, {r1}, FALSE, {1, 2}, {"alias", "keys"}, {<<5, 12>>, <<23, 5>>},
                  {Accounts, People, Derived}, Graph)
    \cup Scenario({"memory"}, 1, {r1}, FALSE, {1}, {}, {}, Networks(4), TraceAsks)
    \cup Scenario({"memory"}, 1, {r1}, FALSE, {1}, {}, {}, Networks(8), PathAsks)

MCHidden == [r \in Readers |-> IF r = r3 THEN {2} ELSE {}]
MCContextOf == [i \in Items |-> i]
================================================================================
