CONSTANTS
  Size = 2
  ConsumerCount = 1
  Pollers = {}
  Depth = 1
  Stage <- const_Stage
  Faulty = {}
  Limits = {}
  I64Max = 99
  MaxBatch = 3
  MaxSequence = 2
SPECIFICATION FairSpec
PROPERTIES
  PublishGetsSlots
