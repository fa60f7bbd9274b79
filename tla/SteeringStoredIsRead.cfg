CONSTANTS
  m1 = m1
  m2 = m2
  m3 = m3
  retry = retry
  Deliveries = {m1, m2, m3}
  Original <- NoRetry
  MaxCrashes = 0
SPECIFICATION Spec
INVARIANT StoredIsRead
CHECK_DEADLOCK FALSE
