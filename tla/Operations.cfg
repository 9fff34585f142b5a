SPECIFICATION OperationsSpec
SYMMETRY MCSymmetry
CONSTANTS
  a = a
  b = b
  d = d
  Runs = {a, b, d}
  Overlap <- ServiceOverlap
  StageOf <- RowStage
  LastStage = 2
  Lockable = {1}
  BatchSize = 1
  MaxBatches = 4
  FailureCap = 1
  FaultBound = 2
  ScriptRuns = {a, b}
  Commands <- ReleaseCommands
  ReleaseFiles <- BothReleases
  DataBound = 1
  Reviews = {a, b}
  FirstDay = 5
  LastDay = 7
  RebuildDays = 4
  Retention = 6
  MinimumSamples = 1
  Windows <- ProposedWindows
  ProposalBound = 2
  ObservationBound <- DayObservations
  RevisionBound <- DayRevisions
  ReviewBound = 2
  Evaluators = {a, b}
  Full = 2
  RollbackShare = 1
  StaleAction = "reduce"
  Rebuilt = {"missing", "breach", "sound"}
  CycleBound = 2
  EvidenceBound = 2
  GrantBound = 1
  GuardBound = 2
  Launchers = {a, b}
  Apps = 2
  Attempts = 1
  ExitBound = 1
  KillBound = 1
  EnvironmentOf <- InternalEnvironments
  Plan <- InternalPlan
  KnownProviders <- ListedProviders
  Manifest <- InternalManifests
  Day = 1
  SignalBound = 1
  EditBound = 1
  Tasks = {1}
  LastTick = 4
INVARIANTS
  ReleasesAreChecked
  CalibrationHolds
  RunsKeepTheirWord
  StopMeansStopped
  SharedLinksAreOnePage
  WorkStaysInWindow
PROPERTIES
  OnlyOperatorsRaise
  StartedAsReviewed
CHECK_DEADLOCK FALSE
