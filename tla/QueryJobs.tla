------------------------------- MODULE QueryJobs -------------------------------
(***************************************************************************)
(* A cancellable graph query on the server: the job registry               *)
(* (services/async_job.py, routers/graph.py), the statements one job       *)
(* submits one after the other (services/graph_operations.py) and their    *)
(* way through the client of the warehouse (services/warehouse.py).        *)
(*                                                                         *)
(* The job is an asyncio task.  It asks for the edges, then, when the view *)
(* can draw an intermediate graph, for the types of the nodes, then for    *)
(* the nodes.  Every statement is a POST that answers with its id, polls   *)
(* until it ends, and either rows in the answer or chunks on an object     *)
(* store, fetched by tasks of their own under a semaphore.  task.cancel()  *)
(* only takes effect at the await the task is suspended in, and the cancel *)
(* handler itself suspends at every statement it stops.                    *)
(***************************************************************************)
EXTENDS Naturals, FiniteSets

CONSTANTS
    Jobs,
    Chunks,         \* the chunks a result may come in
    Concurrency     \* what warehouse_chunk_concurrency may be set to

Stages == {"edges", "types", "nodes"}

VARIABLES
    state, partial,   \* of the record of every job
    progress,         \* record["progress"]: the phase, and the chunks done in it
    asked,            \* cancel_requested
    sids,             \* statement_ids: the stages whose statement id is recorded
    task,             \* where the task of the job is suspended, and the slots its downloads
                      \* share: none when it asks for rows in the answer
    chunk,            \* [Jobs -> [Stages -> [Chunks -> what fetch_chunk does with it]]]
    stopping,         \* the statements a cancel handler has yet to stop
    statement,        \* [Jobs \X Stages -> what the warehouse does with it]
    told              \* history: the statements somebody asked the warehouse to stop

vars == <<state, partial, progress, asked, sids, task, chunk, stopping, statement, told>>

Warehouse == INSTANCE Warehouse WITH Ids <- Jobs \X Stages

\* A chunk that holds a slot of the semaphore: its link is asked for, is over and
\* renewed, is used, was refused and is renewed, is used for the last time.
UnderWay == {"asking", "expired", "getting", "refused", "again"}

Fetching == {"queued"} \cup UnderWay

TypeOK ==
    /\ state \in [Jobs -> {"none", "running", "succeeded", "failed", "canceled"}]
    /\ partial \in [Jobs -> BOOLEAN]
    /\ progress \in [Jobs -> (0 .. 2) \X (0 .. Cardinality(Chunks))]
    /\ asked \in [Jobs -> BOOLEAN]
    /\ sids \in [Jobs -> SUBSET Stages]
    /\ task \in [Jobs -> [stage : Stages, at : {"unborn", "post", "wait", "fetch", "over"},
                          cancelled : BOOLEAN, slots : {0} \cup Concurrency]]
    /\ chunk \in [Jobs -> [Stages -> [Chunks -> Fetching \cup {"none", "done", "failed", "dropped"}]]]
    /\ stopping \in [Jobs -> SUBSET Stages]
    /\ Warehouse!TypeOK
    /\ told \in [Jobs -> SUBSET Stages]

Init ==
    /\ state = [j \in Jobs |-> "none"]
    /\ partial = [j \in Jobs |-> FALSE]
    /\ progress = [j \in Jobs |-> <<0, 0>>]
    /\ asked = [j \in Jobs |-> FALSE]
    /\ sids = [j \in Jobs |-> {}]
    /\ task \in [Jobs -> [stage : {"edges"}, at : {"unborn"}, cancelled : {FALSE},
                      slots : {0} \cup Concurrency]]
    /\ chunk = [j \in Jobs |-> [s \in Stages |-> [c \in Chunks |-> "none"]]]
    /\ stopping = [j \in Jobs |-> {}]
    /\ Warehouse!Init
    /\ told = [j \in Jobs |-> {}]

-------------------------------------------------------------------------------
(* The task of a job *)

Goes(j, stage, at) == task' = [task EXCEPT ![j].stage = stage, ![j].at = at]

\* The statement the task is working on.
Current(j) == <<j, task[j].stage>>

\* The task is suspended in an await of the kind given and may go on.
Resumes(j, at) == task[j].at = at /\ ~task[j].cancelled

\* execute_prepared returned: runner() looks at cancel_requested once more.
Succeeds(j) ==
    /\ state' = [state EXCEPT ![j] = IF asked[j] THEN "canceled" ELSE "succeeded"]
    /\ Goes(j, task[j].stage, "over")

\* Something raised.  A partial that could not be fetched never fails the job;
\* anything else does.
Raises(j) ==
    IF task[j].stage = "types"
    THEN Goes(j, "nodes", "post") /\ UNCHANGED state
    ELSE /\ state' = [state EXCEPT ![j] = "failed"]
         /\ Goes(j, task[j].stage, "over")

\* The rows of a stage are there: the next stage, or the result.
Continues(j) ==
    CASE task[j].stage = "edges" ->
              \/ \E next \in {"types", "nodes"} : Goes(j, next, "post")
                 /\ UNCHANGED <<state, partial>>
              \/ Succeeds(j) /\ UNCHANGED partial    \* no rows, or every node harvested
         [] task[j].stage = "types" ->
              /\ partial' = [partial EXCEPT ![j] = TRUE]
              /\ Goes(j, "nodes", "post")
              /\ UNCHANGED state
         [] task[j].stage = "nodes" -> Succeeds(j) /\ UNCHANGED partial

\* mutant: the partial reports its download as that of the nodes
Phase_Types(s) == IF s = "edges" THEN 1 ELSE 2

\* _phase_progress: the types of the partial report to nobody.
Phase(s) == CASE s = "edges" -> 1 [] s = "nodes" -> 2 [] OTHER -> 0

Reports(j, s, done) ==
    progress' = [progress EXCEPT ![j] = IF Phase(s) = 0 THEN @ ELSE <<Phase(s), done>>]

\* create_job and start_job: the job is registered and its task created.
CreateJob(j) ==
    /\ state[j] = "none"
    /\ state' = [state EXCEPT ![j] = "running"]
    /\ Goes(j, "edges", "post")
    /\ UNCHANGED <<partial, progress, asked, sids, chunk, stopping, statement, told>>

\* The POST reaches the warehouse.  It answers only when the statement ends or the
\* wait window elapses.
PostArrives(j) ==
    /\ task[j].at = "post"
    /\ Warehouse!Starts(Current(j))
    /\ UNCHANGED <<state, partial, progress, asked, sids, task, chunk, stopping, told>>

\* The answer comes back: on_submit records the id and the polling begins.
PostReturns(j) ==
    /\ Resumes(j, "post") /\ statement[Current(j)] # "none"
    /\ sids' = [sids EXCEPT ![j] = @ \cup {task[j].stage}]
    /\ Goes(j, task[j].stage, "wait")
    /\ UNCHANGED <<state, partial, progress, asked, chunk, stopping, statement, told>>

\* The POST fails, or its answer is lost.
PostFails(j) ==
    /\ Resumes(j, "post")
    /\ Raises(j)
    /\ UNCHANGED <<partial, progress, asked, sids, chunk, stopping, statement, told>>

\* A poll finds the statement finished, and its rows in the answer.
InlineRows(j) ==
    /\ Resumes(j, "wait") /\ statement[Current(j)] = "finished" /\ task[j].slots = 0
    /\ Continues(j)
    /\ UNCHANGED <<progress, asked, sids, chunk, stopping, statement, told>>

\* A poll finds the statement finished, and links to the chunks of its rows: one
\* task for each, all of them awaited by gather().
BeginFetch(j) ==
    /\ Resumes(j, "wait") /\ statement[Current(j)] = "finished" /\ task[j].slots > 0
    /\ \E some \in SUBSET Chunks :
          chunk' = [chunk EXCEPT ![j][task[j].stage] =
                      [c \in Chunks |-> IF c \in some THEN "queued" ELSE "none"]]
    /\ Reports(j, task[j].stage, 0)
    /\ Goes(j, task[j].stage, "fetch")
    /\ UNCHANGED <<state, partial, asked, sids, stopping, statement, told>>

\* mutant: gather(return_exceptions=True)
AllHere_Settled(j) ==
    \A c \in Chunks : chunk[j][task[j].stage][c] \in {"none", "done", "failed"}

\* gather() returned: every chunk, in the order of the indices.
AllHere(j) == \A c \in Chunks : chunk[j][task[j].stage][c] \in {"none", "done"}

Fetched(j) ==
    /\ Resumes(j, "fetch") /\ AllHere(j)
    /\ Continues(j)
    /\ UNCHANGED <<progress, asked, sids, chunk, stopping, statement, told>>

OneFailed(j) == \E c \in Chunks : chunk[j][task[j].stage][c] = "failed"

\* gather() raises the first error and leaves the other chunks to themselves.
FetchFails(j) ==
    /\ Resumes(j, "fetch") /\ OneFailed(j)
    /\ Raises(j)
    /\ UNCHANGED <<partial, progress, asked, sids, chunk, stopping, statement, told>>

\* A poll finds the statement failed or canceled: parsing its result raises.
StatementFailed(j) ==
    /\ Resumes(j, "wait") /\ statement[Current(j)] \in {"failed", "canceled"}
    /\ Raises(j)
    /\ UNCHANGED <<partial, progress, asked, sids, chunk, stopping, statement, told>>

\* A poll fails, or finds the statement forgotten; nobody stops it.
PollFails(j) ==
    /\ Resumes(j, "wait")
    /\ Raises(j)
    /\ UNCHANGED <<partial, progress, asked, sids, chunk, stopping, statement, told>>

\* cancel_statement, best effort: the request may not get there.
AskToStop(j, s) ==
    /\ told' = [told EXCEPT ![j] = @ \cup {s}]
    /\ Warehouse!Stops(<<j, s>>) \/ UNCHANGED statement

\* max_poll_time is over: stop the statement, best effort, and give up.
TimesOut(j) ==
    /\ Resumes(j, "wait") /\ statement[Current(j)] = "running"
    /\ AskToStop(j, task[j].stage)
    /\ Raises(j)
    /\ UNCHANGED <<partial, progress, asked, sids, chunk, stopping>>

\* The await of a cancelled task raises CancelledError, which runner() re-raises.
TaskStops(j) ==
    /\ task[j].cancelled /\ task[j].at \in {"post", "wait", "fetch"}
    /\ state' = [state EXCEPT ![j] = "canceled"]
    /\ Goes(j, task[j].stage, "over")
    /\ UNCHANGED <<partial, progress, asked, sids, chunk, stopping, statement, told>>

Runner(j) ==
    \/ PostArrives(j) \/ PostReturns(j) \/ PostFails(j) \/ InlineRows(j) \/ BeginFetch(j)
    \/ Fetched(j) \/ FetchFails(j) \/ StatementFailed(j) \/ PollFails(j) \/ TimesOut(j)
    \/ TaskStops(j)

-------------------------------------------------------------------------------
(* The chunks *)

Turns(j, s, c, to) ==
    /\ chunk' = [chunk EXCEPT ![j][s][c] = to]
    /\ IF to = "done"
       THEN Reports(j, s, Cardinality({d \in Chunks : chunk[j][s][d] = "done"}) + 1)
       ELSE UNCHANGED progress
    /\ UNCHANGED <<state, partial, asked, sids, task, stopping, statement, told>>

SlotFree(j, s) == Cardinality({c \in Chunks : chunk[j][s][c] \in UnderWay}) < task[j].slots

\* fetch_chunk behind the semaphore: the link came with the result, and is over or
\* not, or it is asked for.
TakeChunk(j, s, c) ==
    /\ chunk[j][s][c] = "queued" /\ SlotFree(j, s)
    /\ \E to \in {"asking", "expired", "getting"} : Turns(j, s, c, to)

\* The manifest of the chunk; one without links is a chunk without rows.
LinkComes(j, s, c) ==
    /\ chunk[j][s][c] = "asking"
    /\ \E to \in {"expired", "getting", "done", "failed"} : Turns(j, s, c, to)

\* _refresh_chunk_url, before the first try and before the last.
LinkRenewed(j, s, c) ==
    \/ chunk[j][s][c] = "expired" /\ \E to \in {"getting", "failed"} : Turns(j, s, c, to)
    \/ chunk[j][s][c] = "refused" /\ \E to \in {"again", "failed"} : Turns(j, s, c, to)

\* The bytes are there, or a 403 says that the link is over after all.
ChunkComes(j, s, c) ==
    \/ chunk[j][s][c] = "getting" /\ \E to \in {"done", "refused", "failed"} : Turns(j, s, c, to)
    \/ chunk[j][s][c] = "again" /\ \E to \in {"done", "failed"} : Turns(j, s, c, to)

Downloads(j) ==
    \E s \in Stages, c \in Chunks :
        TakeChunk(j, s, c) \/ LinkComes(j, s, c) \/ LinkRenewed(j, s, c) \/ ChunkComes(j, s, c)

-------------------------------------------------------------------------------
(* The cancel handler and the warehouse *)

\* mutant: the tasks of the chunks are not children of the task that is cancelled
Dropped_None(j) == chunk[j]

\* Cancelling gather() cancels what it waits for; after its first error it waits for
\* nothing any more.
Dropped(j) ==
    IF task[j].at # "fetch" \/ OneFailed(j) THEN chunk[j]
    ELSE [chunk[j] EXCEPT ![task[j].stage] =
            [c \in Chunks |-> IF @[c] \in Fetching THEN "dropped" ELSE @[c]]]

\* mutant: the task is left running
CancelRecord(j) ==
    /\ state[j] # "none"
    /\ asked' = [asked EXCEPT ![j] = TRUE]
    /\ state' = [state EXCEPT ![j] = IF @ = "running" THEN "canceled" ELSE @]
    /\ stopping' = [stopping EXCEPT ![j] = @ \cup sids[j]]
    /\ UNCHANGED <<partial, progress, sids, task, chunk, statement, told>>

\* mutant: the word the warehouse uses for the same thing
CancelMisspelt(j) ==
    /\ state[j] = "running"
    /\ state' = [state EXCEPT ![j] = "cancelled"]
    /\ UNCHANGED <<partial, progress, asked, sids, task, chunk, stopping, statement, told>>

\* cancel_job up to its first await: flag, state, task, and a copy of the ids.
CancelJob(j) ==
    /\ state[j] # "none"
    /\ asked' = [asked EXCEPT ![j] = TRUE]
    /\ state' = [state EXCEPT ![j] = IF @ = "running" THEN "canceled" ELSE @]
    /\ task' = [task EXCEPT ![j].cancelled = @ \/ task[j].at # "over"]
    /\ chunk' = [chunk EXCEPT ![j] = Dropped(j)]
    /\ stopping' = [stopping EXCEPT ![j] = @ \cup sids[j]]
    /\ UNCHANGED <<partial, progress, sids, statement, told>>

\* One turn of its loop: canceler.cancel_statement(sid).
StopStatement(j) ==
    /\ \E s \in stopping[j] :
          /\ AskToStop(j, s)
          /\ stopping' = [stopping EXCEPT ![j] = @ \ {s}]
    /\ UNCHANGED <<state, partial, progress, asked, sids, task, chunk>>

\* The warehouse finishes a statement, or it fails there.
StatementEnds(j) ==
    /\ \E s \in Stages : Warehouse!Ends(<<j, s>>)
    /\ UNCHANGED <<state, partial, progress, asked, sids, task, chunk, stopping, told>>

Next ==
    \E j \in Jobs :
        \/ CreateJob(j) \/ Runner(j) \/ Downloads(j) \/ CancelJob(j) \/ StopStatement(j)
        \/ StatementEnds(j)

Spec == Init /\ [][Next]_vars

\* The event loop resumes a task whose await is over.  Every HTTP request of the
\* client has a timeout, so a POST and a chunk end too; nothing is assumed of the
\* warehouse.
Fairness == \A j \in Jobs : WF_vars(Runner(j)) /\ WF_vars(Downloads(j))

FairSpec == Spec /\ Fairness

-------------------------------------------------------------------------------
(* Properties *)

\* get_graph_query_job: what a poll shows of the record.
Shown(j) ==
    [partial |-> partial[j] /\ state[j] = "running",
     progress |-> IF state[j] \in {"running", "succeeded"} THEN progress[j] ELSE <<0, 0>>]

\* What the poller sees of a job is what JobPromise promises: one end and no way
\* out of it, whatever the task does after the cancel (async_job.py runner and
\* cancel_job both write record["state"]), no partial after the end, progress that
\* only moves forward over three downloads of which two report, whatever an abandoned
\* chunk still reports, and an end for every job even when the warehouse never
\* finishes a statement.
Promise == INSTANCE JobPromise WITH partial <- [j \in Jobs |-> Shown(j).partial],
                                    progress <- [j \in Jobs |-> Shown(j).progress]
ImplementsPromise == Promise!Spec

\* When the cancel handler is done with a job, the warehouse was asked to stop
\* every statement whose id the job has recorded and that still runs: the copy of
\* statement_ids it walks is complete although it suspends at every statement
\* (cancel_job, on_submit).
RecordedStopped ==
    \A j \in Jobs : \A s \in sids[j] :
        (state[j] = "canceled" /\ stopping[j] = {} /\ statement[<<j, s>>] = "running")
        => s \in told[j]

\* A job whose task is over downloads nothing any more, but for what another chunk of
\* the same statement left behind by failing (execute_statement_external, cancel_job).
DownloadsEnd ==
    \A j \in Jobs, s \in Stages :
        (task[j].at = "over" /\ \E c \in Chunks : chunk[j][s][c] \in Fetching)
        => \E c \in Chunks : chunk[j][s][c] = "failed"

\* No result is made of a download that misses a chunk.
ResultsWhole ==
    \A j \in Jobs : \A c \in Chunks : \A s \in {"edges", "nodes"} :
        state[j] = "succeeded" => chunk[j][s][c] \in {"none", "done"}

JobsStand == RecordedStopped /\ DownloadsEnd /\ ResultsWhole

\* No run: async_job.py:10-12, cancellation "cancels the underlying warehouse
\* statement(s) so the warehouse stops burning compute", and stops "API-side processing
\* and download".  A statement whose POST has not answered is told nothing; neither are
\* the chunks of a statement of which one has failed.
CancelStops ==
    \A j \in Jobs : \A s \in Stages :
        state[j] = "canceled" /\ stopping[j] = {} /\ task[j].at = "over" =>
            /\ statement[<<j, s>>] = "running" => s \in told[j]
            /\ \A c \in Chunks : chunk[j][s][c] \notin Fetching
===============================================================================
