SPECIFICATION Spec
CONSTANTS
  Requests = {r1, r2, r3, r4}
  SlotLimit = 2
  MonthlyLimit = 2
  Months = 2
  LeaseTicks = 2
  Prompt = TRUE
  MaxFaults = 2
  Templates <- MCTemplates
  Answers <- MCAnswers
  Count = 3
SYMMETRY Symmetry
INVARIANTS
  TypeOK
  ConcurrencyHeld
  SlotsReturned
  CreditsAccounted
