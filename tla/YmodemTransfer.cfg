SPECIFICATION FairSpec
CONSTANTS
  SeqMod = 4
  FilePackets = 3
  MaxSize = 3
  MaxErrors = 1
  MaxTries = 2
  ReplyCap = 3
INVARIANTS
  TypeOK
  StoredInOrder
  DoneIsWholeFile
PROPERTIES
  ImplementsUpgradeControl
  ImplementsLocalWindow
  SilenceEndsSession
