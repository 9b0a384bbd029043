SPECIFICATION Spec
CONSTANTS
  Calls = {c1, c2}
  Durations = {0, 900, 2100}
  Reads = {q1}
  Word = 16
INVARIANTS
  MissesNeverWrap
