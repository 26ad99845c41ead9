SPECIFICATION Spec
CONSTANTS
    Items = {1, 2}
    ContextOf <- MCContextOf
    r1 = r1
    r2 = r2
    r3 = r3
    Readers = {r1, r2, r3}
    Hidden <- MCHidden
    Unreadable = Unreadable
    MaxVersions = 2
    MaxTouches = 1
    Scenarios <- MCScenarios
INVARIANTS
    TypeOK
    AnalysesHold
CHECK_DEADLOCK FALSE
