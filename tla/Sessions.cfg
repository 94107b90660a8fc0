SPECIFICATION SessionsSpec
CONSTANTS
  c1 = c1
  c2 = c2
  Calls = {c1, c2}
  MaxAttempts = 2
  FailLimit = 1
  GenBound = 2
  LossBound = 1
  NetBound = 2
  TokenBound = 2
  Languages = {"en", "de", "hu"}
  Static = "en"
INVARIANTS SessionsTypeOK WaitersAreAsked OutcomeIsTrue EffectsAreConfirmed  CaptchaOnce 
PROPERTIES  DeadSessionLeaves
CHECK_DEADLOCK FALSE
