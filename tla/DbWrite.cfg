SPECIFICATION Spec
CONSTANTS
  Writer = {w1, w2, w3}
  Conn = {c1, c2}
  None = none
INVARIANTS LeaseCoversTransaction PoolIsClean
PROPERTIES SerialSpec Served
