SPECIFICATION FairCollectorSpec
CONSTANTS
  PathCount = 1
  SizeLimit = 2
  MaxLines = 2
  MaxBytes = 3
  MaxWritten = 4
  MaxRotations = 1
  MaxErrors = 1
INVARIANTS CollectorTypeOK NothingDropped
PROPERTY LinesArrive
\* run() is over after an error.
CHECK_DEADLOCK FALSE
