SPECIFICATION Spec
CONSTANTS
  Domains = {d1, d2, d3}
  Quota = 2
  Workers = {w1, w2}
  NoWorker = NoWorker
  Schedulers = {}
  Requests = {"add", "re-add", "delete"}
  BatchLimit = 1
  LeaseTicks = 2
  IntervalTicks = 1
  RetryTicks = 1
  Prompt = FALSE
  MaxFaults = 2
SYMMETRY Symmetry
INVARIANTS
  TypeOK
  ResultsMoveForward
  QuotaHeld
PROPERTIES
  LeaseRespected
