SPECIFICATION Spec
CONSTANTS
  Processes = {p1}
  MaxFaults = 0
  RetryAfters = {1}
  Keys = {k1}
  Saves = {1, 2}
  Alerts = {}
  Limit = 1
  OwnLimit = 1
  OpsAlerts = {}
  Fingerprints = {}
  Scenarios <- MCSaving
INVARIANT TokenReadable
CHECK_DEADLOCK FALSE
