SPECIFICATION Spec
CONSTANTS
  Subjects = {s1, s2}
  Requests = {q1, q2}
  Service = Service
  Risks = {20, 70, 90}
  MaxIncidents = 3
  MaxEvents = 3
  MaxPatches = 2
INVARIANTS TypeOK OneOpenIncident
PROPERTY ColumnsKept
\* The bounds on events and requests end every behaviour.
CHECK_DEADLOCK FALSE
