------------------------------- MODULE MCQueries -------------------------------
(* The queries of the server for TLC, each part on its own: the jobs, the warehouse of *)
(* a development machine, and what is made of the rows.                                 *)
EXTENDS Naturals, FiniteSets, Sequences

CONSTANTS
    Jobs, Chunks, Concurrency,   \* of QueryJobs
    Statements, MaxRetained,     \* of Emulator
    Asks                         \* of GraphRows

VARIABLES
    part,      \* which of the parts this behaviour is about
    state, partial, progress, cancelRequested, sids, task, chunk, stopping, statement, told,
               \* of QueryJobs
    kept, record, response, flagged, work, stored, client,   \* of Emulator
    query, graph                                             \* of GraphRows

Query == INSTANCE QueryJobs WITH asked <- cancelRequested
Dev == INSTANCE Emulator WITH state <- record, answer <- response
Data == INSTANCE GraphRows WITH ask <- query, answer <- graph

ASSUME JobsAssumption == IsFiniteSet(Chunks) /\ Concurrency \subseteq Nat \ {0}

ASSUME DevAssumption == IsFiniteSet(Statements)

\* Rows come in order and bring finitely many properties.
ASSUME RowsAssumption ==
    \A q \in Asks :
        /\ Data!Structs(q.rows, "edges") \subseteq Nat \X Nat
        /\ Data!Structs(q.rows, "nodes") \subseteq Nat \X Nat
        /\ IsFiniteSet(UNION {n.props : n \in Data!Found(q.rows, "nodes")})
        /\ q.types \in BOOLEAN

-------------------------------------------------------------------------------

Edge(id, src, dst) == [id |-> id, src |-> src, dst |-> dst, lacks |-> FALSE]
Node(id, props) == [id |-> id, props |-> props]

\* An edge, a second one, the first again with another end, an end that is NULL, and a
\* struct without the column of its source; a list of edges.
RowEdges ==
    {<<>>, <<Edge(1, 1, 2)>>, <<Edge(2, 2, 3)>>, <<Edge(1, 1, 3)>>, <<Edge(3, 2, 0)>>,
     <<[id |-> 4, src |-> 0, dst |-> 3, lacks |-> TRUE]>>, <<Edge(1, 1, 2), Edge(2, 2, 3)>>}
RowNodes ==
    {<<>>, <<Node(1, {"p"})>>, <<Node(2, {}), Node(2, {"p", "q"})>>, <<Node(3, {"q"}), Node(1, {})>>,
     <<Node(0, {"p"}), Node(2, {"p"})>>}
Rows == [edges : RowEdges, nodes : RowNodes]

Tables == {[i \in ids |-> {"p", "q"}] : ids \in {{}, {1}, {2, 3}, 1..3}}

MCAsks ==
    [rows : {<<>>} \cup {<<r>> : r \in Rows} \cup (Rows \X Rows), limit : {0, 2}, table : Tables,
     columns : {{"p"}, {"p", "q"}}, types : BOOLEAN, partial : {TRUE}]

NoQuery == [rows |-> <<>>]

\* The jobs of the parts that are not about them.
Quiet == \A j \in Jobs : task[j].slots = 0

-------------------------------------------------------------------------------

jobs == <<state, partial, progress, cancelRequested, sids, task, chunk, stopping, statement, told>>
dev == <<kept, record, response, flagged, work, stored, client>>
data == <<query, graph>>

MCInit ==
    /\ Query!Init /\ Dev!Init
    /\ \/ part = "jobs" /\ query = NoQuery /\ graph = Data!Pending
       \/ part = "dev" /\ Quiet /\ query = NoQuery /\ graph = Data!Pending
       \/ part = "data" /\ Quiet /\ Data!Init

MCNext ==
    \/ part = "jobs" /\ Query!Next /\ UNCHANGED <<dev, data, part>>
    \/ part = "dev" /\ Dev!Next /\ UNCHANGED <<jobs, data, part>>
    \/ part = "data" /\ Data!Next /\ UNCHANGED <<jobs, dev, part>>

MCSpec == MCInit /\ [][MCNext]_<<jobs, dev, data, part>> /\ Query!Fairness

-------------------------------------------------------------------------------
(* Properties *)

MCTypeOK == Query!TypeOK /\ Dev!TypeOK

\* What has to hold of each part at any time: no statement of a canceled job runs on
\* untold and no result misses a chunk (JobsStand), no statement's record is dropped
\* while its task needs it (KeptWhileItRuns), and a graph holds all its rows had
\* (RowsAnswered).
QueriesStand == Query!JobsStand /\ Dev!KeptWhileItRuns /\ Data!RowsAnswered

\* The jobs do what the poller is promised, the emulator does what is expected of a
\* warehouse, and what the console was told of a statement that ended stays.
QueriesKeepPromises == Query!ImplementsPromise /\ Dev!BehavesAsWarehouse /\ Dev!AnswersStand
===============================================================================
