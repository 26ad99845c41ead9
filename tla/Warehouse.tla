------------------------------- MODULE Warehouse -------------------------------
(***************************************************************************)
(* What the server expects of a SQL warehouse (the Databricks statements   *)
(* API): a statement is started by a POST, ends once, by itself or because *)
(* somebody asked for it to be stopped, and stays as it ended.  That it    *)
(* ever ends is not expected.                                              *)
(***************************************************************************)

CONSTANT Ids

VARIABLE statement    \* what the warehouse does with every statement

Ended == {"finished", "failed", "canceled"}

TypeOK == statement \in [Ids -> {"none", "running"} \cup Ended]

Init == statement = [s \in Ids |-> "none"]

Becomes(s, from, to) ==
    /\ statement[s] = from
    /\ statement' = [statement EXCEPT ![s] = to]

\* A short statement has ended when its POST answers.
Starts(s) == \E to \in {"running", "finished", "failed"} : Becomes(s, "none", to)

Ends(s) == \E to \in {"finished", "failed"} : Becomes(s, "running", to)

Stops(s) == Becomes(s, "running", "canceled")

Next == \E s \in Ids : Starts(s) \/ Ends(s) \/ Stops(s)

Spec == Init /\ [][Next]_statement

================================================================================
