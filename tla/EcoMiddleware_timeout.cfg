SPECIFICATION Spec
CONSTANTS
  Requests = {r1, r2}
  Traces = {t1, t2}
  Writers = {v1, v2}
  Nobody = nobody
  Codes = {200, 404}
  SlowRequests = {r1, r2}
  Background = {}
SYMMETRY Symmetry
INVARIANTS
  CountedStatusIsClients
