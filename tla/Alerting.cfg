SPECIFICATION Spec
CONSTANTS
  Processes = {p1, p2}
  MaxFaults = 2
  RetryAfters <- MCRetryAfters
  Keys = {k1, k2}
  Saves = {1, 2, 3}
  Alerts = {1, 2}
  Limit = 1
  OwnLimit = 1
  OpsAlerts = {1, 2, 3}
  Fingerprints = {f1, f2}
  Scenarios <- MCScenarios
SYMMETRY Symmetry
INVARIANTS
  TypeOK
  CredentialKept
  SendsAccounted
  HeldBackWasTold
  NeverUnlimited
CHECK_DEADLOCK FALSE
