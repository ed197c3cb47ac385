SPECIFICATION Spec
CONSTANTS
  Caller = {c1}
  Runner = runner
  Monitor = monitor
  MaxOut = 0
  MaxFaults = 0
  None = none
CHECK_DEADLOCK FALSE
INVARIANT LeaseLossIsNoticed
