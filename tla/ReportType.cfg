SPECIFICATION Spec
CONSTANTS
  Blocks = {b1, b2, b3}
  NoBlock = NoBlock
  QueueLen = 2
  TopicCount = 1
  IdMod = 3
  NoValue = NoValue
  LineCap = 1
INVARIANTS
  RightTopic
