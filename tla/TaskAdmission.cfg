SPECIFICATION Spec
CONSTANTS
  r1 = r1
  r2 = r2
  r3 = r3
  s1 = s1
  s2 = s2
  k1 = k1
  w1 = w1
  w2 = w2
  None = None
  Requests = {r1, r2, r3}
  Sources = {s1}
  Keys = {k1}
  Workers = {w1}
  SourceOf <- MCPlainSource
  KeyOf <- MCPlainKey
  MaxAttempts = 1
  MaxStalls = 0
  MaxFaults = 0
SYMMETRY MCPlainSymmetry
CHECK_DEADLOCK FALSE
INVARIANTS
  TypeOK
PROPERTIES
  ImplementsPromise
