SPECIFICATION Spec
CONSTANTS
  PathCount = 2
  SizeLimit = 2
  MaxLines = 1
  MaxBytes = 3
  MaxWritten = 4
  MaxRotations = 1
INVARIANTS TypeOK EveryLineOnce NoPathStarves
