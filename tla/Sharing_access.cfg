\* Lists and checks agree, rows stand; a page each for one request and for two.
SPECIFICATION Spec
CONSTANTS
    ana = ana
    bob = bob
    eve = eve
    People = {ana, bob, eve}
    Superusers = {eve}
    Insiders = {ana, bob}
    Public = Public
    Domain = Domain
    Spelled = Spelled
    Foreign = Foreign
    c1 = c1
    e1 = e1
    e2 = e2
    t1 = t1
    Contexts = {c1}
    Explorations = {e1, e2}
    Templates = {t1}
    Titles = {x1, x2}
    Absent = Absent
    Gone = Gone
    NoRow = NoRow
    Requests = {r1, r2}
    MaxRows = 2
    Addresses = {bob, Domain, Public, Foreign}
    Scenarios <- MCScenarios
SYMMETRY Symmetry
INVARIANTS
    TypeOK
    SharesStand
PROPERTIES
    OwnersDecide
CHECK_DEADLOCK FALSE
