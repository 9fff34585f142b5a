SPECIFICATION Spec
SYMMETRY MCSymmetry
CONSTANTS
  t1 = t1
  t2 = t2
  f1 = f1
  f2 = f2
  None = None
  Tasks = {t1}
  Refreshers = {f1}
  Groups <- MCGroups
  ObservationWindow = 4
  MinimumDistinctTasks = 1
  MinimumFailures <- MCMinimumFailures
  OpenPercent <- MCOpenPercent
  BaseCooldown = 1
  MaximumCooldown = 2
  RecoverySuccesses = 1
  SnapshotTtl = 4
  ProbeLease = 2
  AggregationLease = 1
  RefreshDeadline = 2
  MaxRefresh = 1
  MaxCalls = 3
  MaxNow = 4
CHECK_DEADLOCK FALSE
PROPERTIES
  ProbeFaultReopens
