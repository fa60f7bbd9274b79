CONSTANTS
  Ids = {i1, i2, i3, i4}
  Calls = 3
  MaxCrashes = 1
SPECIFICATION Spec
SYMMETRY Symmetry
INVARIANTS CommittedIsStarted
CHECK_DEADLOCK FALSE
