SPECIFICATION Spec
CONSTANTS
  MaxAttempts = 3
  Limit = 3
  MaxBody = 5
INVARIANTS
  ReturnedWhole
  GivesUpAfterAll
