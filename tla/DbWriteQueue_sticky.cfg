SPECIFICATION Spec
CONSTANTS
  Caller = {c1, c2}
  Key = {"t1"}
  Msg = {"m1"}
  Content = {"a", "b"}
  Payloads <- Rewrites
  Capacity = 2
  MaxTasks = 3
  MaxMessages = 3
  MaxLog = 2
  MaxFlush = 2
INVARIANT StaySticky
