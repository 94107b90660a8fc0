SPECIFICATION Spec
CONSTANTS
  s1 = s1
  s2 = s2
  s3 = s3
  s4 = s4
  b1 = b1
  b2 = b2
  b3 = b3
  x = x
  y = y
  e1 = e1
  e2 = e2
  Servers = {s1, s2, s3, s4}
  Backends = {b1, b2, b3}
  Backend <- SharedBackend
  Hosts = {b1, b2}
  Values = {x, y}
  Edits = {e1}
  Operations <- AllOperations
INVARIANTS TypeOK PeersFollowPrimary ConfirmedIsKept SyncedStaySynced
CHECK_DEADLOCK FALSE
