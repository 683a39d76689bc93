SPECIFICATION FairSpec
CONSTANTS
  Byte = {b1, b2}
  Size = 4
  PacketLen = 3
INVARIANTS
  TypeOK
  PoliteNeverLoses
PROPERTIES
  ImplementsFifo
  LoopEnds
