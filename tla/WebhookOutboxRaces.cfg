SPECIFICATION Spec
CONSTANTS
  h1 = h1
  h2 = h2
  d1 = d1
  d2 = d2
  r1 = r1
  r2 = r2
  Hooks = {h1}
  Deliveries = {d1}
  HookOf <- ToOneHook
  Requests = {r1, r2}
  MAX_ATTEMPTS = 2
  CLAIM_BATCH = 2
  MAX_PARALLEL = 1
  AttemptBound = 2
  SecretBound = 2
  FaultBound = 1
SYMMETRY RequestSymmetry
INVARIANTS TypeOK SuccessWasAccepted NoConcurrentSend
PROPERTIES CancelledIsFinal
CHECK_DEADLOCK FALSE
