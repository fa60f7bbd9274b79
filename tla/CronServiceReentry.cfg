CONSTANTS
  Jobs = {lazy}
  OneShots = {}
  DeleteAfter = {}
  NoJob = NoJob
  MaxDeferred = 1
  Lazy = {lazy}
  MaxAdded = 2
  MaxStops = 0
  MaxEdits = 0
  MaxTrouble = 0
SPECIFICATION FairSpec
PROPERTY ReentryReturns
CHECK_DEADLOCK FALSE
