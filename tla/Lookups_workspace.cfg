CONSTANTS
  Requests = {r1, r2}
  Traffic = {{"identity"}, {"groups", "refresh"}}
  Ttl = 1
  StaleMax = 2
  Life = 3
  Lead = 2
  Patience = 1
  MaxTime = 3
SPECIFICATION MCSpec
INVARIANTS TypeOK AnswersAreGood
PROPERTIES LookupsKeep
