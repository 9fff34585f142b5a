SPECIFICATION Spec
CONSTANTS
  r1 = r1
  r2 = r2
  r3 = r3
  s1 = s1
  s2 = s2
  k1 = k1
  w1 = w1
  w2 = w2
  None = None
  Requests = {r1}
  Sources = {s1}
  Keys = {k1}
  Workers = {w1}
  SourceOf <- MCOneSource
  KeyOf <- MCOneKey
  MaxAttempts = 1
  MaxStalls = 1
  MaxFaults = 1
CHECK_DEADLOCK FALSE
PROPERTIES
  ExhaustionNeverOverwritesSuccess
