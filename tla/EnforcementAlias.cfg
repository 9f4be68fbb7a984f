SPECIFICATION Spec
CONSTANTS
  Ips = {"a", "A"}
  Invalid = Invalid
  Canon <- CanonSame
  Workers = {w1, w2}
  Operators = {o1}
  Expiry = Expiry
  Free = Free
  Decisions = {"block"}
  Configs <- Enforcing
  Duration = 1
  DelMissingOk = TRUE
  MaxActions = 2
  MaxTime = 2
  MaxFaults = 1
PROPERTY KeepsLongestLease
