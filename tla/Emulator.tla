-------------------------------- MODULE Emulator --------------------------------
(***************************************************************************)
(* The warehouse of a development machine                                  *)
(* (warehouse/src/routers/statements.py) and the query console that asks   *)
(* it (services/datasource/sql_warehouse.py, routers/graph.py).            *)
(*                                                                         *)
(* With async_inline_execution a statement is a record in a dict, run by   *)
(* an asyncio task of its own: it dwells as long as its sleep(n) says,     *)
(* then executes in a thread.  Cancelling sets a flag that the task looks  *)
(* at where it wakes up, and the state at once.  Without it, or with       *)
(* external links, the POST executes the statement itself.  The records of *)
(* statements that ended are dropped, oldest first, when there are too     *)
(* many.                                                                   *)
(***************************************************************************)
EXTENDS Naturals, FiniteSets

CONSTANTS
    Statements,    \* the ids uuid4 may give
    MaxRetained    \* _MAX_RETAINED_STATEMENTS

VARIABLES
    kept,      \* _statements: the turn in which a key was inserted, 0 when it is not there
    state,     \* record["state"]
    answer,    \* the status of record["response"]
    flagged,   \* record["cancel"] is set
    work,      \* where the task of the statement is, or that the POST did its work
    stored,    \* the keys of _chunk_store
    client     \* what the console knows: nothing, or what it was last told

vars == <<kept, state, answer, flagged, work, stored, client>>

Terminal == {"SUCCEEDED", "FAILED", "CANCELED"}

TypeOK ==
    /\ kept \in [Statements -> Nat]
    /\ state \in [Statements -> {"none", "PENDING", "RUNNING"} \cup Terminal]
    /\ answer \in [Statements -> {"none", "SUCCEEDED", "FAILED"}]
    /\ flagged \in [Statements -> BOOLEAN]
    /\ work \in [Statements -> {"none", "created", "dwells", "thread", "over"}]
    /\ stored \subseteq Statements
    /\ client \in [Statements -> {"nothing", "posting", "running", "succeeded", "canceled",
                                  "failed", "lost"}]

Init ==
    /\ kept = [s \in Statements |-> 0]
    /\ state = [s \in Statements |-> "none"]
    /\ answer = [s \in Statements |-> "none"]
    /\ flagged = [s \in Statements |-> FALSE]
    /\ work = [s \in Statements |-> "none"]
    /\ stored = {}
    /\ client = [s \in Statements |-> "nothing"]

Kept(s) == kept[s] # 0

Keys == {s \in Statements : Kept(s)}

Now(f, s, v) == [f EXCEPT ![s] = v]

-------------------------------------------------------------------------------
(* What the server makes of an answer *)

\* submit_table_query and get_table_query_status: anything that has ended and did not
\* succeed is an error, but a poll of a canceled statement says so.
Told(status) ==
    CASE status \in {"PENDING", "RUNNING"} -> "running"
      [] status = "SUCCEEDED" -> "succeeded"
      [] status = "CANCELED" -> "canceled"
      [] OTHER -> "failed"

\* get_statement_status, for a statement the store of chunks or the dict knows.
Status(s) == IF Kept(s) THEN IF answer[s] # "none" THEN answer[s] ELSE state[s] ELSE "SUCCEEDED"

-------------------------------------------------------------------------------
(* The statements *)

\* mutant: the oldest go, whatever they are doing
Dropped_Oldest(n) == {s \in Keys : Cardinality({t \in Keys : kept[t] <= kept[s]}) <= n}

\* the first n that ended, or all of them
Dropped(n) ==
    {s \in Keys : /\ state[s] \in Terminal
                  /\ Cardinality({t \in Keys : kept[t] <= kept[s] /\ state[t] \in Terminal}) <= n}

\* _reap_finished_statements: what it drops
Reaped ==
    IF Cardinality(Keys) <= MaxRetained THEN {} ELSE Dropped(Cardinality(Keys) - MaxRetained)

\* The turns of the statements are those in which they were posted.
Turn == 1 + Cardinality({s \in Statements : client[s] # "nothing"})

Inserted(s) ==
    [t \in Statements |-> IF t = s THEN Turn ELSE IF t \in Reaped THEN 0 ELSE kept[t]]

\* execute_statement, the asynchronous way: the record, and a task for it.
Post(s) ==
    /\ client[s] = "nothing"
    /\ kept' = Inserted(s)
    /\ state' = Now(state, s, "PENDING")
    /\ work' = Now(work, s, "created")
    /\ client' = Now(client, s, "posting")
    /\ UNCHANGED <<flagged, stored, answer>>

\* The synchronous way; external links are stored with the chunks of the result.
PostAndRun(s) ==
    /\ client[s] = "nothing"
    /\ \E end \in {"SUCCEEDED", "FAILED"}, external \in BOOLEAN :
          /\ state' = Now(state, s, end)
          /\ stored' = IF external /\ end = "SUCCEEDED" THEN stored \cup {s} ELSE stored
          /\ client' = Now(client, s, Told(end))
    /\ work' = Now(work, s, "over")
    /\ UNCHANGED <<kept, answer, flagged>>

\* _run_inline_statement where the task wakes up: it looks at the flag before every
\* sleep and before it hands the statement to a thread.
Goes(s) ==
    IF flagged[s]
    THEN state' = Now(state, s, "CANCELED") /\ work' = Now(work, s, "over")
    ELSE state' = Now(state, s, "RUNNING") /\ \E at \in {"dwells", "thread"} : work' = Now(work, s, at)

\* Its first step: _statements[statement_id].
TaskStarts(s) ==
    /\ work[s] = "created" /\ Kept(s)
    /\ Goes(s)
    /\ UNCHANGED <<kept, answer, flagged, stored, client>>

Dwells(s) ==
    /\ work[s] = "dwells"
    /\ Goes(s)
    /\ UNCHANGED <<kept, answer, flagged, stored, client>>

\* mutant: what the thread found is kept although somebody cancelled it
ThreadAnswers_Always(s, end) ==
    answer' = Now(answer, s, end) /\ state' = Now(state, s, end)

\* A cancel while the thread was executing is honoured.
ThreadAnswers(s, end) ==
    IF flagged[s]
    THEN state' = Now(state, s, "CANCELED") /\ UNCHANGED answer
    ELSE answer' = Now(answer, s, end) /\ state' = Now(state, s, end)

\* run_in_executor(_execute_query) came back; a failure is an answer too.
ThreadReturns(s) ==
    /\ work[s] = "thread"
    /\ \E end \in {"SUCCEEDED", "FAILED"} : ThreadAnswers(s, end)
    /\ work' = Now(work, s, "over")
    /\ UNCHANGED <<kept, flagged, stored, client>>

-------------------------------------------------------------------------------
(* The console *)

\* The wait window is over, or the statement is; the event loop ran the first step of the
\* task before the answer left.  submit_table_query raises for a canceled statement.
PostAnswers(s) ==
    /\ client[s] = "posting" /\ work[s] # "created"
    /\ client' = Now(client, s, IF Told(state[s]) = "canceled" THEN "failed" ELSE Told(state[s]))
    /\ UNCHANGED <<kept, state, answer, flagged, work, stored>>

\* get_statement_status: the dict first, then the store of chunks, or 404.
Poll(s) ==
    /\ client[s] \notin {"nothing", "posting"}
    /\ client' = Now(client, s, IF Kept(s) \/ s \in stored THEN Told(Status(s)) ELSE "lost")
    /\ UNCHANGED <<kept, state, answer, flagged, work, stored>>

\* mutant: cancelling replaces whatever the statement has come to
CancelledState_Any(s) == "CANCELED"

CancelledState(s) == IF state[s] \in {"PENDING", "RUNNING"} THEN "CANCELED" ELSE state[s]

\* cancel_statement: the flag, and the state at once.  What is unknown is ignored.
Cancel(s) ==
    /\ client[s] \notin {"nothing", "posting"} /\ Kept(s)
    /\ flagged' = Now(flagged, s, TRUE)
    /\ state' = Now(state, s, CancelledState(s))
    /\ UNCHANGED <<kept, answer, work, stored, client>>

Next ==
    \E s \in Statements :
        \/ Post(s) \/ PostAndRun(s) \/ TaskStarts(s) \/ Dwells(s) \/ ThreadReturns(s)
        \/ PostAnswers(s) \/ Poll(s) \/ Cancel(s)

Spec == Init /\ [][Next]_vars

-------------------------------------------------------------------------------
(* Properties *)

\* The emulator is a warehouse: a statement ends once and stays as it ended, although
\* its thread goes on after a cancel (cancel_statement against _run_inline_statement).
Behaves == INSTANCE Warehouse WITH
    Ids <- Statements,
    statement <- [s \in Statements |->
        CASE state[s] = "none" -> "none"
          [] state[s] \in {"PENDING", "RUNNING"} -> "running"
          [] state[s] = "SUCCEEDED" -> "finished"
          [] state[s] = "FAILED" -> "failed"
          [] OTHER -> "canceled"]
BehavesAsWarehouse == Behaves!Spec

\* What the console was told of a statement that ended is what it is told from then on,
\* until the statement is forgotten (get_statement_status prefers the response to the
\* state, which cancel_statement does not touch once there is one).
AnswersStand ==
    [][\A s \in Statements : client[s] \in {"succeeded", "canceled", "failed", "lost"} =>
            client'[s] \in {client[s], "lost"}]_vars

\* Reaping never takes the record of a statement its task still works on: a task finds its
\* record where it starts, and a cancel or a poll finds what runs.
KeptWhileItRuns ==
    /\ \A s \in Statements : state[s] \in {"PENDING", "RUNNING"} => Kept(s)
    /\ \A s \in Statements : work[s] = "created" => Kept(s)

\* No run: statements.py:363-366, a result is kept "long enough for the client to poll it
\* once".  It is dropped when enough others were posted, polled or not.
PolledOnce ==
    [][\A s \in Statements : client[s] = "running" => client'[s] # "lost"]_vars

================================================================================
