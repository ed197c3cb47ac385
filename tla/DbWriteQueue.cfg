SPECIFICATION Spec
CONSTANTS
  Caller = {c1, c2}
  Key = {"t1"}
  Msg = {"m1", "m2"}
  Content = {"a", "b"}
  Payloads <- Mixed
  Capacity = 2
  MaxTasks = 2
  MaxMessages = 3
  MaxLog = 3
  MaxFlush = 2
INVARIANTS OkHidesNothing BatchBound FlushIsBarrier
PROPERTIES IsALog FlushEnds
