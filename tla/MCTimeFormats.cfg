SPECIFICATION FormatsSpec
CONSTANTS
  Messages <- MCMessages
  Words = {0, 1, 2, 3, 4, 8, 12, 1000}
  MaxTail = 3
  Nonce = "n"
  Batches <- MCBatches
  MaxPath = 3
  MaxIndex = 9
  Minute = 2
  Hour = 4
  Day = 8
  U64 = 1000000
  LeapYears <- MCLeapYears
  LastYear = 2101
INVARIANTS
  NeverPanics
  DecodesMessage
  DateIsElapsed
  PathProvesNonce
