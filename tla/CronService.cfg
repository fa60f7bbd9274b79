CONSTANTS
  Jobs = {once, every}
  OneShots = {once}
  DeleteAfter = {once}
  NoJob = NoJob
  Lazy = {once}
  MaxAdded = 2
  MaxDeferred = 1
  MaxStops = 1
  MaxEdits = 1
  MaxTrouble = 1
SPECIFICATION FairSpec
INVARIANTS TypeOK TimerCovers DiskIsCurrent NoGhostRun RepeatsOnlyIfCut OneShotKept
PROPERTY DueIsServed
CHECK_DEADLOCK FALSE
