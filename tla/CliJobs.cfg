SPECIFICATION Spec
CONSTANTS
  Caller = {c1}
  Runner = runner
  Monitor = monitor
  MaxOut = 1
  MaxFaults = 2
  None = none
CHECK_DEADLOCK FALSE
INVARIANT SettledIsFinal
PROPERTIES JobSpec Settles
