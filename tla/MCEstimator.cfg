SPECIFICATION HistorySpec
CONSTANTS
  Calls = {c1, c2, c3}
  Durations = {0, 1900}
  Reads = {q1}
  Word = 16
SYMMETRY Symmetry
INVARIANTS
  TypeOK
  NothingLost
  HitsNeverLead
  BillingBounded
  ReportsBracketed
  RetriesPaid
