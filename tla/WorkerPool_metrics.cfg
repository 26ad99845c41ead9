SPECIFICATION PoolSpec
CONSTANTS
    MaxTasks = 3
    Workers = {w1, w2}
    Ranks = {0, 1}
    Limits = {0, 2}
    DefaultWorkers = 2
    KeepPanel = FALSE
    MaxEvents = 2
    MaxCalls = 1
    Cypher = {}
    NodeSets = {n1}
    NoNodes = none
    Reliable = TRUE
    OnlyWhenIdle = FALSE
INVARIANTS PoolTypeOK PoolIsFair
PROPERTIES ComputationsEnd
CHECK_DEADLOCK FALSE
