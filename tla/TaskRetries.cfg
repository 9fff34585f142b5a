SPECIFICATION FairSpec
CONSTANTS
  r1 = r1
  r2 = r2
  r3 = r3
  s1 = s1
  s2 = s2
  k1 = k1
  w1 = w1
  w2 = w2
  None = None
  Requests = {r1}
  Sources = {s1}
  Keys = {k1}
  Workers = {w1, w2}
  SourceOf <- MCOneSource
  KeyOf <- MCOneKey
  MaxAttempts = 3
  MaxStalls = 1
  MaxFaults = 3
CHECK_DEADLOCK FALSE
INVARIANTS
  JobsMatchTasks
PROPERTIES
  PostProviderNeverRetried
  JobSettles
  QueuedTaskDecided
