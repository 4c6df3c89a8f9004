SPECIFICATION Spec
CONSTANTS
  Streams    = {s1, s2}
  MessageIDs = {m1}
  Markers    = {k1}
  MaxCancels = 2
  None       = None
  scope1     = scope1
  scope2     = scope2
  inv1       = inv1
  inv2       = inv2
  Contexts  <- AllCallers
INVARIANT FinalEventReadBack
PROPERTIES
  ImplementsContract
  StreamsEnd
  CanceledHoldIsTold
