SPECIFICATION StreamSpec
CONSTANTS
  t1 = t1
  t2 = t2
  Threads = {t1, t2}
  MaxAttempts = 1
  MaxSessions = 2
  MaxTokens = 2
  MaxLogins = 3
  QueueSize = 1
  MaxEvents = 2
  MaxLapses = 1
SYMMETRY Symmetry
INVARIANTS StreamTypeOK OneAdministrator SessionsKept LoggedOutForGood Throttled OnlyOldestLost StreamStops
CHECK_DEADLOCK FALSE
