SPECIFICATION Spec
CONSTANTS
  s1 = s1
  s2 = s2
  t1 = t1
  t2 = t2
  NoSession = NoSession
  SessionIds <- MCSessionIds
  Tokens <- MCTokens
  MaxContext = 6
  MaxDrafts = 2
  ExecutorDrafts = 3
  ExecutorMtp = TRUE
INVARIANTS
  EngineTypeOK
  SessionAgreesWithExecutor
  PrefillStartsClean
  AdmissionCoversTheBlock
  UnloadedHoldsNothing
PROPERTIES
  UnloadedIsFinal
  PartialCallsLoseTheSession
  ImplementsContract
