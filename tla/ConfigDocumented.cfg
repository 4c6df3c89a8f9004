CONSTANTS
  Environments <- Mistakes
  MinLimit = 2
  MaxLimit = 6
  MaxPort = 4
  MaxInt = 9
  Absent = Absent
SPECIFICATION Spec
INVARIANTS DocumentedSettingsSuffice
CHECK_DEADLOCK FALSE
