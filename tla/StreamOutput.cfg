SPECIFICATION Spec
CONSTANTS
  Call = {c1, c2}
  Sender = sender
  MaxLen = 2
  MaxRev = 3
  MaxPage = 2
  MaxFaults = 2
  None = none
CHECK_DEADLOCK FALSE
INVARIANTS NoGap CaughtUp
PROPERTIES PageIsTold
