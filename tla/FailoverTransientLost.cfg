SPECIFICATION Spec
CONSTANTS
  Events = {1}
  NoEvent = NoEvent
  Workers = {w1, w2}
  NoWorker = NoWorker
  BatchLimit = 1
  LeaseTicks = 2
  RetryTicks = 1
  BackoffTicks = 1
  MaxAttempts = 2
  MaxCorrelation = 2
  DelayedRetry = TRUE
  ReportsRetryable = FALSE
  Prompt = FALSE
  MaxFaults = 2
SYMMETRY Symmetry
INVARIANTS
  TransientIsRetried
