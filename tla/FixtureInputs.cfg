CONSTANTS
  Messages <- AllMessages
  None = None
SPECIFICATION Spec
INVARIANTS OneMethodServes EchoesAgree NestedInputsAreUnderstood
CHECK_DEADLOCK FALSE
