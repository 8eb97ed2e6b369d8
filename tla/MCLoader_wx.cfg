SPECIFICATION Spec
CONSTANTS
  v1 = v1
  v2 = v2
  rogue = rogue
  NoBinary = NoBinary
  Binary <- MCBinary
  Signed <- MCSigned
  Release <- MCSigned
  MaxAttempts = 2
  Floor = 1
  MaxTime = 2
  MaxOrphans = 1
INVARIANT
  NoWritableExecutablePaths
