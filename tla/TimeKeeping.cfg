SPECIFICATION FairTimeSpec
CONSTANTS
  HalFaults = TRUE
  Wide = 20
  Thousand = 3
  MaxTick = 8
INVARIANTS
  TypeOK
  ValidMeansSet
  RightUntilOverflow
  SyncedMeansTime
PROPERTIES
  CloudStarts
  EventuallyRight
