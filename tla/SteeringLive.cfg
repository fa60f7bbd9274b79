CONSTANTS
  m1 = m1
  m2 = m2
  m3 = m3
  retry = retry
  Deliveries = {m1, m2, retry}
  Original <- WithRetry
  MaxCrashes = 1
SPECIFICATION FairSpec
INVARIANT OneMorePlacePerCrash
PROPERTY EventuallyTaken
CHECK_DEADLOCK FALSE
