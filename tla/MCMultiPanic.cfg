CONSTANTS
  Size = 2
  ConsumerCount = 1
  Pollers = {}
  Depth = 1
  Stage <- const_Stage
  Faulty = {}
  Limits = {}
  I64Max = 99
  Producers = {p1}
  FirstProducer = p1
  FaultyUpdates = {p1}
  WordBits = 1
  MaxBatch = 2
  MaxCalls = 3
SPECIFICATION FairSpec
PROPERTIES
  DropCompletes
