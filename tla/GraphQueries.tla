------------------------------ MODULE GraphQueries ------------------------------
(***************************************************************************)
(* The graph view running its queries: executeGraphQuery and               *)
(* executeCypherQuery of stores/graph.ts over the submit - poll - cancel   *)
(* machine of composables/useCancellableQuery.ts, against jobs that keep   *)
(* JobPromise (QueryJobs shows that the server's do).                      *)
(*                                                                         *)
(* Every call of executeXQuery is an async function of its own: it owns    *)
(* its token and its job, and shares with the others the run token, the    *)
(* flags of the composable and of the store, the screen and the memory of  *)
(* what a partial has drawn.  A cypher call whose run ends with queryError *)
(* set runs once more, in CTE mode, in the same tick.                      *)
(***************************************************************************)
EXTENDS Naturals, FiniteSets

CONSTANTS
    MaxCalls,    \* bound: calls of executeGraphQuery and executeCypherQuery
    Cypher,      \* the calls that run cypher, retried in CTE mode when they fail
    NodeSets,    \* the sets of node ids an answer may cover
    NoNodes,     \* partialNodeIds is null
    Reliable,    \* no cancel request is lost
    OnlyWhenIdle \* queries start from the Run button only, disabled while `loading`

Calls == 1 .. MaxCalls
Jobs == Calls \X {1, 2}     \* the job of a call and that of its retry in CTE mode

NoJob == <<0, 0>>
Nobody == 0

VARIABLES
    state, partial,  \* the jobs, as JobPromise has them
    runToken,        \* useCancellableQuery: the token of the latest run or cancel
    cq,              \* its refs: loading, statementId (job), canceled
    ui,              \* the store: loading, and the call queryError comes from
    call,            \* [Calls -> where the call is, and its locals]
    screen,          \* the calls the edges and the nodes on screen come from
    partialNodeIds,  \* the nodes of the last partial drawn
    cancels,         \* cancel requests on their way, and who waits for them
    stopped          \* history: the jobs the user has pressed Cancel on

server == <<state, partial>>
client == <<runToken, cq, ui, call, screen, partialNodeIds, stopped>>
vars == <<server, client, cancels>>

\* The client shows the progress of a job in words and decides nothing by it.
Job == INSTANCE JobPromise WITH progress <- [j \in Jobs |-> <<0, 0>>]

Replies == {"none", "error", "running", "partial", "succeeded", "canceled"}

TypeOK ==
    /\ Job!TypeOK
    /\ runToken \in Nat
    /\ cq \in [loading : BOOLEAN, job : Jobs \cup {NoJob}, canceled : BOOLEAN]
    /\ ui \in [loading : BOOLEAN, error : Calls \cup {Nobody}]
    /\ call \in [Calls -> [pc : {"idle", "submitting", "submitted", "polling", "polled", "over"},
                           covers : NodeSets, attempt : {1, 2}, token : Nat, drawn : BOOLEAN, reply : Replies]]
    /\ screen \in [edges : Calls \cup {Nobody}, nodes : Calls \cup {Nobody}]
    /\ partialNodeIds \in NodeSets \cup {NoNodes}
    /\ cancels \subseteq [job : Jobs, stage : {"sent", "answered"}, awaited : BOOLEAN]
    /\ stopped \subseteq Jobs

Init ==
    /\ Job!Init
    /\ runToken = 0
    /\ cq = [loading |-> FALSE, job |-> NoJob, canceled |-> FALSE]
    /\ ui = [loading |-> FALSE, error |-> Nobody]
    /\ call \in [Calls -> [pc : {"idle"}, covers : NodeSets, attempt : {1}, token : {0},
                           drawn : {FALSE}, reply : {"none"}]]
    /\ screen = [edges |-> Nobody, nodes |-> Nobody]
    /\ partialNodeIds = NoNodes
    /\ cancels = {} /\ stopped = {}

JobOf(c) == <<c, call[c].attempt>>

\* mutant: the flag instead of the token
FreshByFlag(c) == call[c].pc # "idle" /\ cq.loading

\* The run of the call has been neither superseded nor cancelled.
Fresh(c) == call[c].token = runToken

-------------------------------------------------------------------------------
(* run() and what its caller does when it returns *)

\* run() up to its first await, for the first or the second attempt of a call.
StartsRun(c, attempt) ==
    /\ runToken' = runToken + 1
    /\ cq' = [loading |-> TRUE, job |-> NoJob, canceled |-> FALSE]
    /\ call' = [call EXCEPT ![c].pc = "submitting", ![c].attempt = attempt,
                            ![c].token = runToken + 1, ![c].drawn = FALSE,
                            ![c].reply = "none"]

\* mutant: no finally clause
SettledNever(c, refs) == refs

\* The finally clause of run() only touches the refs of its own run.
Settled(c, refs) ==
    IF Fresh(c) THEN [refs EXCEPT !.loading = FALSE, !.job = NoJob] ELSE refs

\* run() returns with the refs and queryError as given; in the same tick its
\* caller either retries or leaves through a finally clause of its own.
Returns(c, refs, error) ==
    LET settled == Settled(c, refs)
        retry == c \in Cypher /\ call[c].attempt = 1 /\ error # Nobody /\ ~settled.canceled
    IN  \/ /\ retry
           /\ StartsRun(c, 2)
           /\ ui' = [ui EXCEPT !.error = Nobody]
        \/ /\ ~retry
           /\ cq' = settled
           /\ ui' = [loading |-> FALSE, error |-> error]
           /\ call' = [call EXCEPT ![c].pc = "over", ![c].reply = "none"]
           /\ UNCHANGED runToken

\* executeGraphQuery or executeCypherQuery up to the first await.  The templates
\* and the restoring of an exploration call them whatever `loading` says.
Execute(c) ==
    /\ call[c].pc = "idle" /\ \A d \in Calls : d < c => call[d].pc # "idle"
    /\ OnlyWhenIdle => ~ui.loading
    /\ ui' = [loading |-> TRUE, error |-> Nobody]
    /\ StartsRun(c, 1)
    /\ UNCHANGED <<server, screen, partialNodeIds, cancels, stopped>>

\* The submit request reaches the API: a job, or an error status.
SubmitArrives(c) ==
    /\ call[c].pc = "submitting"
    /\ \/ Job!Open(JobOf(c)) /\ call' = [call EXCEPT ![c].pc = "submitted", ![c].reply = "running"]
       \/ call' = [call EXCEPT ![c].pc = "submitted", ![c].reply = "error"] /\ UNCHANGED server
    /\ UNCHANGED <<runToken, cq, ui, screen, partialNodeIds, cancels, stopped>>

\* mutant: the job of an abandoned run is left alone
AbandonsSilently(c) == UNCHANGED cancels

\* A run abandoned during its submit asks for its job to be canceled.
Abandons(c) ==
    cancels' = IF call[c].reply = "error" THEN cancels ELSE
        cancels \cup {[job |-> JobOf(c), stage |-> "sent", awaited |-> FALSE]}

\* The answer reaches run(): abandoned, failed, or the first of the polls.
SubmitReturns(c) ==
    /\ call[c].pc = "submitted"
    /\ \/ ~Fresh(c) /\ Abandons(c) /\ Returns(c, cq, ui.error)
       \/ /\ Fresh(c) /\ call[c].reply = "error"
          /\ Returns(c, cq, c)
          /\ UNCHANGED cancels
       \/ /\ Fresh(c) /\ call[c].reply = "running"
          /\ cq' = [cq EXCEPT !.job = JobOf(c)]
          /\ call' = [call EXCEPT ![c].pc = "polling", ![c].reply = "none"]
          /\ UNCHANGED <<runToken, ui, cancels>>
    /\ UNCHANGED <<server, screen, partialNodeIds, stopped>>

\* mutant: no poll ever fails, and a failed job is answered like any other
AnswerAlways(j) == {IF state[j] = "running" /\ partial[j] THEN "partial" ELSE state[j]}

\* What get_graph_query_job answers; a poll that fails on the way is an error too.
Answer(j) ==
    {"error"} \cup
    CASE state[j] = "running" -> {IF partial[j] THEN "partial" ELSE "running"}
      [] state[j] = "failed" -> {}
      [] OTHER -> {state[j]}

\* sleep() is over: leave if the run is no longer the latest, else ask.
Poll(c) ==
    /\ call[c].pc = "polling"
    /\ \/ ~Fresh(c) /\ Returns(c, cq, ui.error)
       \/ /\ Fresh(c)
          /\ \E reply \in Answer(JobOf(c)) :
                call' = [call EXCEPT ![c].pc = "polled", ![c].reply = reply]
          /\ UNCHANGED <<runToken, cq, ui>>
    /\ UNCHANGED <<server, screen, partialNodeIds, cancels, stopped>>

\* applyGraphResponse: a partial replaces the graph; a result replaces it too,
\* unless a partial drew the same nodes, whose properties it then patches.
Draws(c, isPartial) ==
    LET sameNodes == ~isPartial /\ partialNodeIds = call[c].covers
    IN  /\ screen' = [nodes |-> c, edges |-> IF sameNodes THEN screen.edges ELSE c]
        /\ partialNodeIds' = IF isPartial THEN call[c].covers ELSE NoNodes

\* The poll's answer reaches pollUntilDone.
PollReturns(c) ==
    /\ call[c].pc = "polled"
    /\ \/ ~Fresh(c) /\ Returns(c, cq, ui.error) /\ UNCHANGED <<screen, partialNodeIds>>
       \/ /\ Fresh(c) /\ call[c].reply = "error"
          /\ Returns(c, cq, c)
          /\ UNCHANGED <<screen, partialNodeIds>>
       \/ /\ Fresh(c) /\ call[c].reply \in {"running", "partial"}
          /\ IF call[c].reply = "partial" /\ ~call[c].drawn
             THEN Draws(c, TRUE) ELSE UNCHANGED <<screen, partialNodeIds>>
          /\ call' = [call EXCEPT ![c].pc = "polling", ![c].reply = "none",
                                  ![c].drawn = @ \/ call[c].reply = "partial"]
          /\ UNCHANGED <<runToken, cq, ui>>
       \/ /\ Fresh(c) /\ call[c].reply = "canceled"
          /\ Returns(c, [cq EXCEPT !.canceled = TRUE], ui.error)
          /\ UNCHANGED <<screen, partialNodeIds>>
       \/ /\ Fresh(c) /\ call[c].reply = "succeeded"
          /\ Draws(c, FALSE)
          /\ Returns(c, cq, ui.error)
    /\ UNCHANGED <<server, cancels, stopped>>

-------------------------------------------------------------------------------
(* Cancelling, and the server *)

\* The run the user sees, whose Cancel button they press.
Latest == CHOOSE c \in Calls : call[c].pc # "idle" /\ call[c].token = runToken

\* cancelGraphQuery up to its first await that lasts: with no id yet there is
\* none, and run() cancels the job when the submit answers.
CancelQuery ==
    /\ cq.loading
    /\ runToken' = runToken + 1
    /\ cq' = [loading |-> FALSE, job |-> NoJob, canceled |-> TRUE]
    /\ stopped' = stopped \cup {JobOf(Latest)}
    /\ \/ /\ cq.job = NoJob
          /\ ui' = [ui EXCEPT !.loading = FALSE]
          /\ UNCHANGED cancels
       \/ /\ cq.job # NoJob
          /\ cancels' = cancels \cup {[job |-> cq.job, stage |-> "sent", awaited |-> TRUE]}
          /\ UNCHANGED ui
    /\ UNCHANGED <<server, call, screen, partialNodeIds>>

\* The cancel request reaches cancel_job, or is lost on the way.
CancelArrives ==
    /\ \E m \in cancels :
          /\ m.stage = "sent"
          /\ \/ Job!Ends(m.job, "canceled")
             \/ (state[m.job] # "running" \/ ~Reliable) /\ UNCHANGED server
          /\ cancels' = (cancels \ {m}) \cup
                (IF m.awaited THEN {[m EXCEPT !.stage = "answered"]} ELSE {})
    /\ UNCHANGED client

\* cancelGraphQuery goes on: the overlay is taken down.
CancelReturns ==
    /\ \E m \in cancels : m.stage = "answered" /\ cancels' = cancels \ {m}
    /\ ui' = [ui EXCEPT !.loading = FALSE]
    /\ UNCHANGED <<server, runToken, cq, call, screen, partialNodeIds, stopped>>

\* A job goes on by itself; a statement of the Query Console, which runs the same
\* machine, may also be canceled on the warehouse.
Serve(j) ==
    /\ Job!Publish(j) \/ Job!Finish(j)
    /\ UNCHANGED <<client, cancels>>

Answers(c) == SubmitArrives(c) \/ SubmitReturns(c) \/ Poll(c) \/ PollReturns(c)

Next ==
    \/ \E c \in Calls : Execute(c) \/ Answers(c)
    \/ CancelQuery \/ CancelArrives \/ CancelReturns
    \/ \E j \in Jobs : Serve(j)

Spec == Init /\ [][Next]_vars

\* Requests are answered or fail, timers fire, and jobs end as JobPromise says.
Fairness ==
    /\ \A c \in Calls : WF_vars(Answers(c))
    /\ WF_vars(CancelArrives) /\ WF_vars(CancelReturns)
    /\ \A j \in Jobs : WF_vars(Serve(j) /\ state'[j] \in Job!Terminal)

FairSpec == Spec /\ Fairness

-------------------------------------------------------------------------------
(* Properties *)

\* Only the run started last may change the screen, and nothing does once it is
\* cancelled: the answers of superseded and cancelled runs arrive later than the
\* run token they carry (useCancellableQuery.ts:68-69).
OnlyTheLatestDraws ==
    screen' # screen =>
        /\ cq.loading
        /\ \A c \in Calls : call[c].token <= call[screen'.nodes].token

\* A job the user has cancelled is still running only while something is on its
\* way to stop it: the cancel request, or the answer of the submit, which is when
\* run() learns there is a job to cancel (useCancellableQuery.ts:90-97).
CancelReaches ==
    \A j \in stopped : state[j] = "running" =>
        \/ \E m \in cancels : m.job = j /\ m.stage = "sent"
        \/ JobOf(j[1]) = j /\ call[j[1]].pc \in {"submitting", "submitted"}

\* A superseded or cancelled run ends without a trace: on the screen, and in the
\* warehouse.
RunsStayApart == [][OnlyTheLatestDraws /\ CancelReaches']_vars

\* Once the user stops starting queries the overlay goes away for good, whatever
\* was cancelled, superseded, retried or lost (the finally clauses of run,
\* executeGraphQuery and executeCypherQuery).
Settles == <>[](~cq.loading /\ ~ui.loading)

\* graph.ts:1684-1685: the remembered node ids let "the final result tell 'same
\* graph, now with properties' from 'different graph'": edges and nodes on screen
\* come from one query.
OneQueryOnScreen == screen.edges = screen.nodes

\* graph.ts:1902-1903: "Cancellation is respected: the user stopped the query, so
\* no retry."
CancelRespected == \A c \in Calls : <<c, 1>> \in stopped => call[c].attempt = 1

\* graph.ts:1680-1682: "`loading` stays the general graph-loading flag", wrapped
\* around the run: it is up while a query of the view runs.
LoadingWhileRunning == cq.loading => ui.loading

===============================================================================
