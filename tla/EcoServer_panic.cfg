SPECIFICATION Spec
CONSTANTS
  Requests = {r1, r2}
  Workers = {w1, w2}
  BufferSize = 1
  NoPayload = none
  SampleRate = 100
INVARIANTS
  FullRateInstrumentsAll
