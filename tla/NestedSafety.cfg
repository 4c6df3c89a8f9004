SPECIFICATION Spec
CONSTANTS
  Invocations = {i1, i2, i3, i4}
  Lineages    = {l1, l2}
  Roots      <- NestingRoots
  Targets    <- LinkedTargets
  Correlating = {"runtime-a"}
  MaxRoots    = 2
  None        = None
CHECK_DEADLOCK FALSE
SYMMETRY Symmetry
INVARIANTS
  TypeOK
  AtMostOneChild
  AnswersAreTruthful
  LineageIsKept
  ChainsEnd
  CallTreeInv
