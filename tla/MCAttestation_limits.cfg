SPECIFICATION Spec
CONSTANTS
  Conn = {c1, c2, c3}
  Prefix = {p, q, r}
  Host = {h}
  MaxRequests = 2
  Window = 1
  MaxConcurrent = 1
  MaxHardware = 2
  MaxBuffer = 1
  MaxChunk = 1
  MaxErrors = 1
  GcThreshold = 0
  MaxFds = 3
  MaxTime = 2
SYMMETRY Symmetry
INVARIANTS
  TypeOK
  LimiterCountsPermits
  ConcurrencyBounded
  RateBounded
  HardwareConserved
  SubnetHardwareShare
PROPERTIES
  RefusalsAreJustified
  MapBounded
