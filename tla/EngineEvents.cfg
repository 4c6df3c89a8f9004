CONSTANTS
  Contents <- Results
  result = result
  other = other
  Broken = Broken
  MaxEvents = 3
  Capacity = 1
  None = None
SPECIFICATION Spec
INVARIANTS TypeOK AnswerMatchesEvents EngineInv
PROPERTIES HandlerReturns RunnerIsReleased
CHECK_DEADLOCK FALSE
