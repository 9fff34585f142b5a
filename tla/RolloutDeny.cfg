SPECIFICATION Spec
CONSTANTS
  Rules <- MCRules
  SelectorOf <- SelectorHere
  Covers <- CoversHere
  OperatorRules = {"wide"}
  InitialRules <- RulesHere
  OperatorRows = {"deny"}
  StagedRules = {"staged"}
  SafetyRules = {"safety"}
  Requests = {q}
  Workers = {w}
  Calls = {k}
  WorkerOf <- MCWorker
  Commands = {c}
  MaxStale = 1
  Lead = 1
  WorkerTtl = 1
  ProjectionTtl = 2
  MaxAudit = 2
  MaxNow = 2
INVARIANT EmergencyDenyAccepted
CHECK_DEADLOCK FALSE
