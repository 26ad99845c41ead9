SPECIFICATION MCSpec
CONSTANTS
    Ids = {i1}
    Marks = {m1}
    Absent = Absent
    NoFile = NoFile
    Pages = {p1}
    Agents = {a1, a2}
    Memory = TRUE
    MaxWrites = 3
    MaxFaults = 1
    Traffic = {"agent", "save", "delete"}
    Requests = {r1, r2}
    Names = {x, y}
    Owner = ana
    Writers = {ana, bob, eve}
    Superusers = {eve}
    None = None
INVARIANTS TypeOK RevisionNamesGraph
PROPERTIES NoBlindSave ServicesKeep
