CONSTANTS
  m1 = m1
  m2 = m2
  m3 = m3
  retry = retry
  Deliveries = {m1, m2, m3}
  Original <- NoRetry
  MaxCrashes = 1
SPECIFICATION Spec
SYMMETRY Symmetry
INVARIANTS TypeOK RegistryIsRight AcceptedIsKept InArrivalOrder OverlapOnlyIfDirect
CHECK_DEADLOCK FALSE
