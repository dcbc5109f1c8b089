SPECIFICATION Spec
CONSTANTS
  Watched = 1
  Events = {1}
  NoEvent = NoEvent
  Workers = {w1, w2}
  NoWorker = NoWorker
  BatchLimit = 1
  LeaseTicks = 2
  RetryTicks = 1
  BackoffTicks = 1
  MaxAttempts = 2
  MaxCorrelation = 2
  DelayedRetry = TRUE
  ReportsRetryable = TRUE
  Prompt = FALSE
  MaxFaults = 2
INVARIANTS
  TypeOK
  ExclusiveDispatch
  AckedNeverRequeued
PROPERTIES
  LiveClaimUndisturbed
  ImplementsAlert
