SPECIFICATION Spec
CONSTANTS
  h1 = h1
  h2 = h2
  d1 = d1
  d2 = d2
  r1 = r1
  r2 = r2
  Hooks = {h1}
  Deliveries = {d1}
  HookOf <- ToOneHook
  Requests = {r1}
  MAX_ATTEMPTS = 2
  CLAIM_BATCH = 2
  MAX_PARALLEL = 1
  AttemptBound = 1
  SecretBound = 2
  FaultBound = 0
PROPERTIES RotationReachesOpenDeliveries
CHECK_DEADLOCK FALSE
