---------------------------- MODULE MCCaseRecord ----------------------------
(* CaseRecord for TLC: its scenarios, and interchangeable request slots.     *)
EXTENDS CaseRecord, TLC

\* One request at a time, everything the documents promise of decisions: with the
\* proposals of the assistant, then with the case changing hands.  Two at once: what
\* survives without a lock.
MCScenarios ==
    { [atOnce |-> 1, ops |-> Ops \ {"share", "unshare", "transfer"}, proposals |-> Proposals],
      [atOnce |-> 1, ops |-> Ops \ {"assign", "content", "status"}, proposals |-> {}],
      [atOnce |-> 2, ops |-> {"record", "review", "reopen"}, proposals |-> {}] }

SlotSymmetry == Permutations(Requests)
=============================================================================
