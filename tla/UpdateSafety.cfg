SPECIFICATION Spec
CONSTANTS
  W = 2
  SectorWords = 2
  Sectors = 2
  Images = {"a", "b", "big"}
  Size <- TailSizes
  Erased = Erased
  Garbled = Garbled
  TakesMisaligned = TRUE
  NoImage = NoImage
  Chunks = {3, 4}
  BootFaults = TRUE
INVARIANTS
  TypeOK
  Recoverable
PROPERTIES
  ImplementsTwoSlots
  ImplementsUpgradeControl
  StepsAdvance
