SPECIFICATION Spec
CONSTANTS
    ana = ana
    bob = bob
    People = {ana, bob}
    Tokens = {t1, t2}
    Cases = {c1, c2}
    Explorations = {x1, x2}
    Requests = {r1, r2}
    NoToken = NoToken
    Nobody = Nobody
    Limit = 2
    Window = 2
    MaxDays = 2
    MaxTime = 4
    Scenarios <- MCScenarios
SYMMETRY Symmetry
INVARIANTS
    TypeOK
    AgentsKeepBounds
    RateHolds
CHECK_DEADLOCK FALSE
