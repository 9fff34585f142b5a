SPECIFICATION BothSpec
CONSTANTS
  j1 = j1
  j2 = j2
  Job <- Jobs
  Workloads <- Route
  CobaltApproved <- OnCobalt
  CobaltLegacy <- OnCobaltLegacy
  CobaltCapabilities <- OnCobaltModes
  Production = TRUE
  MaxAttempts = 2
  MaxExtractions = 1
  RunBound = 2
  PollBound = 1
  Downloads = {1, 2}
  Links = {"x"}
  Offered <- MCOffered
  ByteLimit = 2
  HopLimit = 1
  PollLimit = 2
  ClientLimit = 2
  VisitLimit = 4
  InputLimit = 2
INVARIANTS
  CallsAreBounded
  RetriesCreateOneTask
  SavedIsBounded
  DeliveredAsReviewed
PROPERTIES
  FinalFailureEndsTheJob
  JobSettles
  WorkingEnds
CHECK_DEADLOCK FALSE
