-------------------------------- MODULE MCView --------------------------------
(* What the graph view works with, for TLC: the queries it runs and the workers that    *)
(* compute its metrics.  They share no variable; each has a specification here in which *)
(* the other is at rest.                                                                *)
EXTENDS Naturals, FiniteSets

CONSTANTS
    MaxCalls, Cypher, NodeSets, NoNodes, Reliable, OnlyWhenIdle,   \* of GraphQueries
    MaxTasks, Workers, Ranks, Limits, DefaultWorkers, KeepPanel, MaxEvents
                                                                   \* of WorkerPool

VARIABLES
    state, partial, runToken, cq, ui, call, screen, partialNodeIds, cancels, stopped,
                                                                   \* of GraphQueries
    pool, limit, config, tight, waits, shown, priority, calculator, events
                                                                   \* of WorkerPool

Q == INSTANCE GraphQueries
Pool == INSTANCE WorkerPool

ASSUME QueriesAssumption ==
    /\ MaxCalls \in Nat /\ Cypher \subseteq Nat
    /\ NoNodes \notin NodeSets
    /\ Reliable \in BOOLEAN /\ OnlyWhenIdle \in BOOLEAN

\* A user may type as many workers as there are slots, or none; the default has its slots.
ASSUME PoolAssumption ==
    /\ IsFiniteSet(Workers) /\ Workers # {}
    /\ Limits \subseteq 0 .. Cardinality(Workers)
    /\ DefaultWorkers \in 1 .. Cardinality(Workers)
    /\ Ranks \subseteq 0 .. 2 /\ Ranks # {}
    /\ KeepPanel \in BOOLEAN
    /\ {MaxTasks, MaxEvents} \subseteq Nat

-------------------------------------------------------------------------------

queries == <<state, partial, runToken, cq, ui, call, screen, partialNodeIds, cancels, stopped>>
workers == <<pool, limit, config, tight, waits, shown, priority, calculator, events>>

QueriesSpec ==
    /\ Q!Init /\ Pool!Init
    /\ [][Q!Next /\ UNCHANGED workers]_<<queries, workers>>
    /\ Q!Fairness

PoolSpec ==
    /\ Q!Init /\ Pool!Init
    /\ [][Pool!Next /\ UNCHANGED queries]_<<queries, workers>>
    /\ Pool!Fairness

-------------------------------------------------------------------------------
(* Properties *)

QueriesTypeOK == Q!TypeOK
PoolTypeOK == Pool!TypeOK

\* Only the run started last draws, and not once it is cancelled; and a job the user
\* stopped runs on only while something is on its way to stop it.
RunsStayApart == Q!RunsStayApart

\* The overlay goes away.
QueriesSettle == Q!Settles

\* An active computation is in one place of the pool, an ended one in none, and nobody
\* waits beside a worker that could take them.
PoolIsFair == Pool!PoolIsFair

\* A computation ends, but for the exceptions WorkerPool lists.
ComputationsEnd == Pool!Settles
===============================================================================
