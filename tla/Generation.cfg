SPECIFICATION Spec
CONSTANTS
  Slot = {a1, a2}
  MaxLen = 2
  MaxFaults = 2
  None = none
INVARIANTS ReplyKept LossIsReal
PROPERTIES ReplySpec NothingLeaks
