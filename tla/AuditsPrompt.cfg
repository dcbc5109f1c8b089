SPECIFICATION FairSpec
CONSTANTS
  Domains = {d1, d2}
  Quota = 2
  Workers = {w1, w2}
  NoWorker = NoWorker
  Schedulers = {w2}
  Requests = {"add", "re-audit"}
  BatchLimit = 2
  LeaseTicks = 2
  IntervalTicks = 1
  RetryTicks = 1
  Prompt = TRUE
  MaxFaults = 1
INVARIANTS
  DisjointAudits
PROPERTIES
  EventuallyAudited
