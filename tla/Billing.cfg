SPECIFICATION Spec
CONSTANTS
  Servers = {s1, s2}
  Subs = {k1, k2}
  Charges = {c1}
  StatusDomain = {"trialing", "active", "past_due", "canceled", "expired"}
  ShopifyColumns = TRUE
  SecondTable = TRUE
  MaxInputs = 3
  MaxFaults = 1
SYMMETRY Symmetry
INVARIANTS
  TypeOK
  EntitlementFollowsPayment
  StoreFollowsInstallation
  ProcessedWasApplied
CHECK_DEADLOCK FALSE
