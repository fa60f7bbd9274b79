CONSTANTS
  Tasks = {t1, t2, t3}
  Batches = {b1}
  NoBatch = NoBatch
  Sessions = {s1, s2}
  Cap = 2
SPECIFICATION FairSpec
INVARIANTS TypeOK CountersAgree LiveIsReachable PermitsConserved AnnouncedIsComplete NothingDropped
           DroppedOnlyIfRaced
PROPERTIES EventuallyReported ImplementsContract
CHECK_DEADLOCK FALSE
