CONSTANTS
  Tasks = {t1, t2, t3}
  Batches = {b1}
  NoBatch = NoBatch
  Sessions = {s1, s2}
  Cap = 2
SPECIFICATION Spec
INVARIANTS NoStrandedBatch
CHECK_DEADLOCK FALSE
