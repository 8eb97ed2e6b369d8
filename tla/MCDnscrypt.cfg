SPECIFICATION Spec
CONSTANTS
  Lookups = {"l1", "l2"}
  Domain <- MCDomain
  Certs <- MCCerts
  Forged <- MCForged
  Leaked <- MCLeaked
  SaneClock = 0
  Floor = 2
  MaxTime = 3
  MaxCerts = 2
  MaxSends = 2
  NoSession = NoSession
  NoLookup = NoLookup
INVARIANTS
  SessionCurrent
  LockHeldByEstablisher
  FailsAfterAll
PROPERTIES
  CacheStable
  ImplementsNameService
