CONSTANTS
  Size = 2
  ConsumerCount = 3
  Pollers = {2}
  Depth = 2
  Stage <- const_Stage
  Faulty = {}
  Limits = {1}
  I64Max = 99
  MaxBatch = 2
  MaxSequence = 2
SPECIFICATION FairSpec
PROPERTIES
  PublishGetsSlots
  EventuallyReleased
  DropCompletes
