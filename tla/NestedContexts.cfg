SPECIFICATION Spec
CONSTANTS
  Invocations = {i1, i2, i3}
  Lineages    = {l1}
  Roots      <- AllRoots
  Targets    <- AllTargets
  Correlating = {"runtime-a"}
  MaxRoots    = 1
  None        = None
CHECK_DEADLOCK FALSE
INVARIANT OnlyManagedCallsNest
PROPERTY EveryoneIsAnswered
