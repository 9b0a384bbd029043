SPECIFICATION Spec
CONSTANTS
  Requests = {r1, r2, r3}
  Traces = {t1, t2, t3}
  Writers = {v1, v2, v3}
  Nobody = nobody
  Codes = {200, 404}
  SlowRequests = {}
  Background = {r1}
SYMMETRY Symmetry
INVARIANTS
  TypeOK
  ExclusiveOwnership
  PoolsClean
  PayloadFaithful
  ResponseFaithful
