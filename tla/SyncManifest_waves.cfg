SPECIFICATION Spec
CONSTANTS
  Plans <- SerialPlans
  CounterMod = 8
  MaxStray = 1
INVARIANTS PendingExact NoLostAdvance UndisturbedNeverFails FramesInOrder
PROPERTIES WaveBarrier DeletesAreToldFirst Termination
