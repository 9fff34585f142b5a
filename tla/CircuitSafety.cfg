SPECIFICATION Spec
SYMMETRY MCSymmetry
CONSTANTS
  t1 = t1
  t2 = t2
  f1 = f1
  f2 = f2
  None = None
  Tasks = {t1, t2}
  Refreshers = {f1, f2}
  Groups <- MCGroups
  ObservationWindow = 1
  MinimumDistinctTasks = 1
  MinimumFailures <- MCMinimumFailures
  OpenPercent <- MCOpenPercent
  BaseCooldown = 1
  MaximumCooldown = 2
  RecoverySuccesses = 1
  SnapshotTtl = 2
  ProbeLease = 1
  AggregationLease = 1
  RefreshDeadline = 5
  MaxRefresh = 1
  MaxCalls = 3
  MaxNow = 3
CHECK_DEADLOCK FALSE
INVARIANTS
  OneLiveProbe
PROPERTIES
  FollowsDiagram
