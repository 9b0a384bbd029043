SPECIFICATION ServiceSpec
CONSTANTS
  Saves = {s1, s2}
  Reads = {q1, q2, q3}
  Savings = {}
  Unit = 10
  TTL = 1
  Second = 2
  TokenTTLs = {3, 5}
  MaxTime = 3
SYMMETRY Symmetry
INVARIANTS
  ServiceTypeOK
  TokenLifetime
PROPERTIES
  StalenessBounded
  AnswersGoForward
