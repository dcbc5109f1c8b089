SPECIFICATION FairSpec
CONSTANTS
  t1 = t1
  t2 = t2
  m1 = m1
  Tenants = {t1, t2}
  Servers = {s1, s2}
  Mails = {m1}
  Deliveries <- MCDeliveries
  Imports <- MCImports
  Key <- MCKey
  TestMode = FALSE
  MaxRegistrations = 1
  MaxFaults = 1
INVARIANTS
  TypeOK
  AnsweredIsStored
  AlertsReachTheSender
PROPERTIES
  VerdictsFollowEvidence
  EventuallyAnswered
CHECK_DEADLOCK FALSE
