SPECIFICATION Spec
CONSTANTS
  NumServers = 3
  WithFallback = {1, 2}
  Honest = {1, 3}
  MaxSends = 2
  Floor = 1
  Second = 2
  Leaked = 0
  MaxTime = 2
  Word = 5
INVARIANTS
  TypeOK
  VotesAuthentic
  ClockCurrent
  ShutdownHasCause
PROPERTIES
  SyncEnds
  ImplementsTimeStep
