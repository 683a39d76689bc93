SPECIFICATION FairSpec
CONSTANTS
  W = 2
  SectorWords = 2
  Sectors = 2
  Images = {"a", "b"}
  Size <- SafeSizes
  Erased = Erased
  Garbled = Garbled
  TakesMisaligned = FALSE
  NoImage = NoImage
  Chunks = {3, 4, 6}
  BootFaults = FALSE
INVARIANTS
  AcceptedIsStored
  DoneMeansVerified
  NeverRunsPartial
PROPERTIES
  ImplementsAtomicUpdate
  EventuallyInstalled
