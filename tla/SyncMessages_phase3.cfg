SPECIFICATION Spec
CONSTANTS
  Batches <- TwoBatches
  Decisions <- MixedDecisions
  MaxStray = 1
  MaxGone = 1
INVARIANT CompletedMeansAligned
INVARIANT AnswerMeetsItsRequest
INVARIANT HashesRepaired
PROPERTY AnnouncedWhenDone
PROPERTY PushIsMerged
PROPERTY Termination
