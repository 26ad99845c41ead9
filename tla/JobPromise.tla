------------------------------ MODULE JobPromise ------------------------------
(***************************************************************************)
(* What a query job promises to whoever polls it                          *)
(* (api/graphlagoon/services/async_job.py, routers/graph.py): it is running *)
(* until it succeeds, fails or is canceled, at most once; a partial result *)
(* is shown only while it runs; the progress shown only moves forward; and *)
(* it does not run for ever.                                               *)
(***************************************************************************)
EXTENDS Naturals

CONSTANT Jobs

VARIABLES
    state,     \* the status a poll of every job shows, "none" before it is registered
    partial,   \* a partial result is shown
    progress   \* the progress shown: the phase, and the chunks done in it

shown == <<state, partial, progress>>

Nothing == <<0, 0>>

Terminal == {"succeeded", "failed", "canceled"}

TypeOK ==
    /\ state \in [Jobs -> {"none", "running"} \cup Terminal]
    /\ partial \in [Jobs -> BOOLEAN]
    /\ progress \in [Jobs -> Nat \X Nat]

Init ==
    /\ state = [j \in Jobs |-> "none"]
    /\ partial = [j \in Jobs |-> FALSE]
    /\ progress = [j \in Jobs |-> Nothing]

Open(j) ==
    /\ state[j] = "none"
    /\ state' = [state EXCEPT ![j] = "running"]
    /\ UNCHANGED <<partial, progress>>

Publish(j) ==
    /\ state[j] = "running" /\ ~partial[j]
    /\ partial' = [partial EXCEPT ![j] = TRUE]
    /\ UNCHANGED <<state, progress>>

\* A later phase, or more chunks of the same.
Beyond(p, q) == p[1] > q[1] \/ (p[1] = q[1] /\ p[2] > q[2])

Advance(j) ==
    /\ state[j] = "running" /\ Beyond(progress'[j], progress[j])
    /\ progress' = [progress EXCEPT ![j] = progress'[j]]
    /\ UNCHANGED <<state, partial>>

\* Only a success goes on showing how far the download came.
Ends(j, end) ==
    /\ state[j] = "running"
    /\ state' = [state EXCEPT ![j] = end]
    /\ partial' = [partial EXCEPT ![j] = FALSE]
    /\ progress' = [progress EXCEPT ![j] = IF end = "succeeded" THEN @ ELSE Nothing]

Finish(j) == \E end \in Terminal : Ends(j, end)

Next == \E j \in Jobs : Open(j) \/ Publish(j) \/ Advance(j) \/ Finish(j)

Spec == Init /\ [][Next]_shown /\ \A j \in Jobs : WF_shown(Finish(j))

===============================================================================
