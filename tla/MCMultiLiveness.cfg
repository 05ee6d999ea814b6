CONSTANTS
  Size = 2
  ConsumerCount = 2
  Pollers = {}
  Depth = 2
  Stage <- const_Stage
  Faulty = {}
  Limits = {}
  I64Max = 99
  Producers = {p1, p2}
  FirstProducer = p1
  FaultyUpdates = {}
  WordBits = 1
  MaxBatch = 2
  MaxCalls = 2
SPECIFICATION FairSpec
PROPERTIES
  PublishGetsSlots
  EventuallyReleased
  DropCompletes
