SPECIFICATION Spec
CONSTANTS
  Subjects = {s1}
  Requests = {q1}
  Service = Service
  Risks = {70}
  MaxIncidents = 1
  MaxEvents = 2
  MaxPatches = 1
PROPERTY TimelineAppendOnly
CHECK_DEADLOCK FALSE
