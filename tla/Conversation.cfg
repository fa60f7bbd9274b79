CONSTANTS
  Window = 2
  CallShapes <- SilentOrTwo
  Legacy <- NewOrLegacy
  MaxMessages = 4
  MaxClears = 1
  MaxCrashes = 1
SPECIFICATION Spec
INVARIANTS TypeOK LeftOutOnlyByRepair ViewPairsUp RememberedUnlessOverlap
PROPERTY BackOnlyIfStale
CHECK_DEADLOCK FALSE
