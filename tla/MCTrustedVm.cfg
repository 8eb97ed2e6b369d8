SPECIFICATION VmSpec
CONSTANTS
  v1 = v1
  rogue = rogue
  NoBinary = NoBinary
  Binary <- MCBinary
  Signed <- MCSigned
  Release <- MCSigned
  MaxAttempts = 1
  Floor = 1
  MaxTime = 1
  MaxOrphans = 0
  Conn = {c1, c2}
  Prefix = {p}
  Host = {h}
  MaxRequests = 2
  Window = 1
  MaxConcurrent = 1
  MaxHardware = 1
  MaxBuffer = 1
  MaxChunk = 1
  MaxErrors = 2
  GcThreshold = 0
  MaxFds = 1
  MaxInstant = 0
INVARIANTS
  ReportsVouchForImage
PROPERTIES
  ConnectionsEnd
  BrokenListenerStopsVm
