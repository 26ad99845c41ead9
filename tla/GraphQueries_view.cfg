SPECIFICATION QueriesSpec
CONSTANTS
    MaxCalls = 2
    Cypher = {1}
    NodeSets = {n1}
    NoNodes = none
    Reliable = TRUE
    OnlyWhenIdle = FALSE
    MaxTasks = 1
    Workers = {w1}
    Ranks = {0}
    Limits = {1}
    DefaultWorkers = 1
    KeepPanel = FALSE
    MaxEvents = 0
INVARIANTS QueriesTypeOK
PROPERTIES RunsStayApart QueriesSettle
CHECK_DEADLOCK FALSE
