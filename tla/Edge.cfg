SPECIFICATION EdgeSpec
SYMMETRY MCSymmetry
CONSTANTS
  r1 = r1
  r2 = r2
  r3 = r3
  c1 = c1
  c2 = c2
  p1 = p1
  p3 = p3
  None = None
  Requests = {r1, r2, r3}
  Clients = {c1, c2}
  Permits = {p1, p3}
  ClientOf <- MCClientOf
  PermitOf <- MCPermitOf
  ClientRequestLimit = 2
  GlobalRequestLimit = 3
  ClientActiveTaskLimit = 1
  GlobalActiveTaskLimit = 2
  MaxFaults = 1
  t1 = t1
  t2 = t2
  v1 = v1
  v2 = v2
  Nobody = Nobody
  Tickets = {t1, t2}
  Visits = {v1, v2}
  TaskExpiry = 3
  MaximumTtl = 2
  HardRetention = 1
  MaxNow = 4
  MaxCompletions = 2
  MaxLosses = 1
CHECK_DEADLOCK FALSE
INVARIANTS
  PermitsAreExact
  WorkWithinLimits
  ExpiryIsNested
  HandoffIsRecorded
PROPERTIES
  ReplayNotRefused
  ImplementsOneUse
  RedeemsCurrentCandidate
