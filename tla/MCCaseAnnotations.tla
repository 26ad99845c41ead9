--------------------------- MODULE MCCaseAnnotations ---------------------------
(* CaseAnnotations for TLC: its scenarios, and interchangeable ids.             *)
EXTENDS CaseAnnotations, TLC

Scenario(atOnce, kinds, words, ops) ==
    [atOnce |-> atOnce, kinds |-> kinds, words |-> words, ops |-> ops]

\* One request at a time, every operation but the edit of a target, on every kind;
\* two at once where one of them judges what the other writes (whichever the word).
MCScenarios ==
    {Scenario(1, Kinds, Words, Ops \ {"retarget"})} \cup
    {Scenario(2, {"role", "hypothesis", "hypothesis_status"}, {w},
              {"create", "agent_edit", "remove", "judge", "judge_many", "reopen"}) : w \in Words}

Symmetry == Permutations(Requests) \cup Permutations(Words) \cup Permutations(Entities)
===============================================================================
