SPECIFICATION FairSpec
CONSTANTS
  Items = {1, 2}
  NoItem = NoItem
  Workers = {w1, w2}
  NoWorker = NoWorker
  BatchLimit = 2
  LeaseTicks = 1
  RetryTicks = 1
  MaxAttempts = 2
  MaxClaims = 5
  MaxFaults = 2
INVARIANTS
  TypeOK
  ExtrasNeedFaults
PROPERTIES
  TransientIsRetried
  LiveClaimUndisturbed
  EventuallySettled
