SPECIFICATION FairSpec
CONSTANTS
  Events = {1, 2}
  NoEvent = NoEvent
  Workers = {w1, w2}
  NoWorker = NoWorker
  BatchLimit = 2
  LeaseTicks = 2
  RetryTicks = 0
  BackoffTicks = 0
  MaxAttempts = 2
  MaxCorrelation = 2
  DelayedRetry = TRUE
  ReportsRetryable = FALSE
  Prompt = TRUE
  MaxFaults = 1
INVARIANTS
  CorrelationBounded
PROPERTIES
  EventuallyDecided
