SPECIFICATION FairProcessSpec
CONSTANTS
  Requests = {r1, r2, r3}
  Workers = {w1, w2}
  BufferSize = 1
  NoPayload = none
  SampleRate = 50
  Unset = unset
  Malformed = malformed
  NaN = nan
INVARIANTS
  ProcessTypeOK
  NoSendOnClosed
  CleanExitAccounts
  HotPathNeverBlocks
  LayersAgree
  ReleaseDiscipline
PROPERTIES
  ShutdownTerminates
