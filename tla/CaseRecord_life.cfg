SPECIFICATION Spec
CONSTANTS
  ana = ana
  bob = bob
  NoOne = NoOne
  r1 = r1
  r2 = r2
  general = general
  eyes = eyes
  p1 = p1
  People = {ana, bob}
  Superusers = {bob}
  Editors = {bob}
  Requests = {r1, r2}
  CaseTypes = {general, eyes}
  FourEyesTypes = {eyes}
  Proposals = {p1}
  Memory = FALSE
  MaxLines = 4
  Scenarios <- MCScenarios
SYMMETRY SlotSymmetry
INVARIANTS
  TypeOK
  DecisionsStand
  ReviewRules
PROPERTIES
  DecisionBinds
  ImplementsBook
CHECK_DEADLOCK FALSE
