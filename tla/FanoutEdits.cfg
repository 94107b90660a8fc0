SPECIFICATION Spec
CONSTANTS
  s1 = s1
  s2 = s2
  s3 = s3
  s4 = s4
  b1 = b1
  b2 = b2
  b3 = b3
  x = x
  y = y
  e1 = e1
  e2 = e2
  Servers = {s1, s2}
  Backends = {b1, b2}
  Backend <- OwnBackends
  Hosts = {b1, b2}
  Values = {x, y}
  Edits = {e1, e2}
  Operations <- KeepingOperations
SYMMETRY EditSymmetry
INVARIANTS PeerValuesSurvive
CHECK_DEADLOCK FALSE
