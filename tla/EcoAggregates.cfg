SPECIFICATION HistorySpec
CONSTANTS
  Saves = {s1, s2, s3}
  Reads = {q1}
  Savings = {4, 10, 19}
  Unit = 10
INVARIANTS
  TypeOK
  CountersLeadTraces
  TruncationBounded
PROPERTIES
  SnapshotsGrow
  ImplementsStore
