SPECIFICATION Spec
CONSTANTS
  Streams    = {s1, s2}
  MessageIDs = {m1, m2}
  Markers    = {k1}
  MaxCancels = 2
  None       = None
  scope1     = scope1
  scope2     = scope2
  inv1       = inv1
  inv2       = inv2
  Contexts  <- OneScope
SYMMETRY Symmetry
INVARIANTS
  TypeOK
  RegistryInv
  StreamOwnsItsEntry
  CancelSignalMatchesStatus
  NoAbandonedWork
  AtMostOneContentAfterCancel
  CanceledTasksAreCounted
  EveryCancelIsObserved
PROPERTY TerminalIsForever
