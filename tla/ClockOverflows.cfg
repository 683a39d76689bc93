SPECIFICATION TimeSpec
CONSTANTS
  HalFaults = FALSE
  Wide = 20
  Thousand = 3
  MaxTick = 8
INVARIANT NowIsInTime
