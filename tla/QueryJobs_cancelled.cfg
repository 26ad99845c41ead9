SPECIFICATION MCSpec
CONSTANTS
    Jobs = {j1}
    Chunks = {c1, c2}
    Concurrency = {1, 2}
    Statements = {s1, s2, s3}
    MaxRetained = 1
    Asks <- MCAsks
INVARIANTS MCTypeOK QueriesStand
PROPERTY QueriesKeepPromises
CHECK_DEADLOCK FALSE
