CONSTANTS
  Ids = {i1, i2, i3, i4}
  Calls = 2
  MaxCrashes = 2
SPECIFICATION FairSpec
INVARIANTS TypeOK SentinelMeansTold DroppedOnlyIfRaced OneGhostPerCrash
PROPERTY EventuallyTold
CHECK_DEADLOCK FALSE
