SPECIFICATION FairSpec
CONSTANTS
  a = a
  b = b
  Jobs = {j1, j2}
  Values = {a, b}
  Originals <- MCOriginals
  MaxRecords = 2
  MaxOps = 2
  MaxEdits = 1
  MaxFaults = 1
INVARIANTS
  TypeOK
  OriginalRecoverable
  ZoneFollowsLog
PROPERTIES
  ReleasedUnlessFault
CHECK_DEADLOCK FALSE
