SPECIFICATION FairSpec
CONSTANTS
  Blocks = {b1, b2}
  NoBlock = NoBlock
  QueueLen = 1
  TopicCount = 4
  IdMod = 10
  NoValue = NoValue
  LineCap = 2
INVARIANTS
  TypeOK
  BlocksAccounted
  OnlineMeansSubscribed
  LedFollows
PROPERTIES
  ReportsKeepPlace
  ComesOnline
  LedSettles
