SPECIFICATION Spec
CONSTANTS
  Streams    = {s1}
  MessageIDs = {m1}
  Markers    = {k1}
  MaxCancels = 1
  None       = None
  scope1     = scope1
  scope2     = scope2
  inv1       = inv1
  inv2       = inv2
  Contexts  <- OneContext
INVARIANT StreamOpensWithWorkingTask
