SPECIFICATION Spec
CONSTANTS
  Threads = {t1, t2}
  MaxAttempts = 1
  MaxSessions = 2
  MaxTokens = 2
  MaxLogins = 2
  MaxLapses = 0
INVARIANT LogoutInvalidates
CHECK_DEADLOCK FALSE
