CONSTANTS
  Size = 2
  ConsumerCount = 2
  Pollers = {2}
  Depth = 2
  Stage <- const_Stage
  Faulty = {1}
  Limits = {0, 99}
  I64Max = 99
  Producers = {p1, p2}
  FirstProducer = p1
  FaultyUpdates = {p1}
  WordBits = 1
  MaxBatch = 2
  MaxCalls = 3
SPECIFICATION Spec
INVARIANTS
  TypeOK
  NoDataRace
  EventsIntact
  StagesOrdered
  BitsTellPublished
  IInv
PROPERTIES
  NoEventLost
  KeepsPromise
