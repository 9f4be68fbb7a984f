SPECIFICATION Spec
CONSTANTS
  Ips = {"a", "A", "x"}
  Invalid = Invalid
  Canon <- CanonAliased
  Workers = {w1, w2}
  Operators = {o1}
  Expiry = Expiry
  Free = Free
  Decisions = {"block"}
  Configs <- Toggling
  Duration = 1
  DelMissingOk = FALSE
  MaxActions = 2
  MaxTime = 2
  MaxFaults = 1
INVARIANTS TypeOK NoOrphanBlock
PROPERTIES NoFalseClose NoResurrection ImplementsLeases
