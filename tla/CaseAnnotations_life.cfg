SPECIFICATION Spec
CONSTANTS
    Notes = {n1, n2}
    Entities = {e1}
    Words = {w1, w2}
    Nothing = Nothing
    Kinds = {"role", "hypothesis", "hypothesis_status", "status_change", "task", "decision_proposal"}
    SuggestKinds = {"role", "hypothesis_status", "status_change", "task"}
    RolesMulti = FALSE
    Requests = {r1, r2}
    Memory = FALSE
    Scenarios <- MCScenarios
SYMMETRY Symmetry
INVARIANTS
    TypeOK
    ConfirmedStands
PROPERTIES
    EffectsAreVouched
    OnlyWhatSucceeds
CHECK_DEADLOCK FALSE
