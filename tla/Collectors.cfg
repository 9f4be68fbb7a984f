SPECIFICATION Spec
CONSTANTS
  Settings = {{"haproxy", "integrity"}, {"haproxy", "haproxy_request"}, {"docker", "integrity"}}
  Keys = {k1, k2}
  Rows = {r1}
  MaxMemory = 1
  Waiting = 2
  Files = {f1}
  Containers = {c1}
  Contents = {a, b}
  Names = {n1}
  Images = {i1, i2}
  DockerCap = 2
  MaxChanges = 4
  MaxFailures = 1
INVARIANTS TypeOK HandedOnOnce RequestsInOrder ChangesAnnounced PortsTold
\* The bound on changes ends every behaviour.
CHECK_DEADLOCK FALSE
