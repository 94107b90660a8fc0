SPECIFICATION Spec
CONSTANTS
  s1 = s1
  s2 = s2
  s3 = s3
  s4 = s4
  b1 = b1
  b2 = b2
  b3 = b3
  x = x
  y = y
  e1 = e1
  e2 = e2
  Servers = {s1}
  Backends = {b1}
  Backend <- OwnBackends
  Hosts = {b1}
  Values = {x, y}
  Edits = {e1}
  Operations <- BulkOperations
INVARIANTS FailedMeansUnwritten
CHECK_DEADLOCK FALSE
