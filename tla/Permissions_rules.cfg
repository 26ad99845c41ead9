SPECIFICATION Spec
CONSTANTS
    People = {ana, eve}
    Superusers = {eve}
    Workspace = Workspace
    ana = ana
    Directory = {ana}
    Groups = {g1, g2}
    Names = {n1, n2}
    n1 = n1
    Absent = Absent
    Gone = Gone
    p1 = p1
    p2 = p2
    Catalog = {p1, p2}
    Requests = {r1, r2}
    Scenarios <- MCScenarios
SYMMETRY Symmetry
INVARIANTS
    TypeOK
    ConfigurationStands
    Justified
CHECK_DEADLOCK FALSE
