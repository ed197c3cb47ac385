SPECIFICATION Spec
CONSTANTS
  Plans <- MixedPlans
  CounterMod = 8
  MaxStray = 0
PROPERTY WaveBarrier
