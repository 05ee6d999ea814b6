CONSTANTS
  Size = 4
  ConsumerCount = 1
  Pollers = {}
  Depth = 1
  Stage <- const_Stage
  Faulty = {}
  Limits = {}
  I64Max = 99
  Producers = {p1, p2}
  FirstProducer = p1
  FaultyUpdates = {}
  WordBits = 2
  MaxBatch = 3
  MaxCalls = 3
SPECIFICATION Spec
INVARIANTS
  BitsTellPublished
PROPERTIES
  KeepsPromise
