SPECIFICATION Spec
CONSTANTS
  r1 = r1
  r2 = r2
  r3 = r3
  s1 = s1
  s2 = s2
  k1 = k1
  w1 = w1
  w2 = w2
  None = None
  Requests = {r1, r3}
  Sources = {s1, s2}
  Keys = {k1}
  Workers = {w1}
  SourceOf <- MCConflictSource
  KeyOf <- MCConflictKey
  MaxAttempts = 2
  MaxStalls = 1
  MaxFaults = 1
CHECK_DEADLOCK FALSE
INVARIANTS
  FreshTaskOwnsSource
  TerminalReleasesSource
  ReplayFaithful
