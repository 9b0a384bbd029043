SPECIFICATION FairSpec
CONSTANTS
  Payloads = {p1, p2, p3, p4}
  Workers = {w1, w2}
  BufferSize = 1
  NoPayload = none
INVARIANTS
  TypeOK
  ExactlyOnce
  StoredWasCounted
  LateSavesBounded
  StopDrains
  UncancelledStopSavesAll
PROPERTIES
  ImplementsLedger
  StopReturns
