SPECIFICATION FairSpec
CONSTANTS
  Size = 5
  Word = 3
  MaxBody = 3
  Retry = 2
  StreamCap = 2
INVARIANTS
  TypeOK
  OneWriter
  OnlyTheFile
  NoOrphan
PROPERTIES
  ImplementsUpgradeControl
  RoundShrinks
  RoundEnds
