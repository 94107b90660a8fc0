SPECIFICATION BackendSpec
CONSTANTS
  Servers = {s1, s2}
  MayMiss = {s1}
  Updates = {p1, p2}
  Addresses = {"a", "b"}
  MoveBound = 1
  FaultBound = 2
  Readers = {r1, r2}
  CACHE_TTL = 2
  STALE_MAX = 3
  LIST_TIMEOUT = 1
  ChangeBound = 1
  ClockBound = 7
  Users = {u1, u2}
  Requests = {q1}
INVARIANTS BackendTypeOK DeviatingIsRemembered  AdminRemains
PROPERTIES RepairIsNoChange Converges LookUpsEnd EmergencyKept
CHECK_DEADLOCK FALSE
