SPECIFICATION MCSpec
CONSTANTS
    Items = {b1, b2, d1, g1}
    Briefs = {b1, b2}
    References = {g1}
    Reports = {d1}
    Contents = {c1, c2}
    NoContent = NoContent
    Labels = {l1, l2}
    Unpinned = Unpinned
    Requests = {r1, r2}
    Scenarios <- MCScenarios
    Volume = FALSE
    MaxVersions = 2
    People = {p1, p2}
    Superusers = {p2}
    Specs <- MCSpecs
    Seeded = FALSE
    None = None
    Openings <- MCCatalogScenarios
SYMMETRY Symmetry
INVARIANTS
    TypeOK
    MaterialStands
    CatalogStands
PROPERTIES
    MadeOnce
CHECK_DEADLOCK FALSE
