SPECIFICATION Spec
CONSTANTS
  SeqMod = 4
  FilePackets = 4
  MaxSize = 4
  MaxErrors = 1
  MaxTries = 2
  ReplyCap = 3
PROPERTY
  OnlyHeadStarts
