CONSTANTS
  Requests = {q1, q2}
  None = None
SPECIFICATION Spec
INVARIANTS TypeOK EndedIsDeregistered LifecycleInv
PROPERTIES ReadinessFollowsLease ShutdownEnds
CHECK_DEADLOCK FALSE
