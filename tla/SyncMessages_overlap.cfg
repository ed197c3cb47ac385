SPECIFICATION Spec
CONSTANTS
  Batches <- TwoBatches
  Decisions <- MixedDecisions
  MaxStray = 0
  MaxGone = 0
INVARIANT HonestNeverOverlaps
