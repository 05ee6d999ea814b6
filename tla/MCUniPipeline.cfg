CONSTANTS
  Size = 2
  ConsumerCount = 4
  Pollers = {2, 4}
  Depth = 2
  Stage <- const_Stage
  Faulty = {1}
  Limits = {0, 1, 99}
  I64Max = 99
  MaxBatch = 2
  MaxSequence = 3
SPECIFICATION Spec
INVARIANTS
  TypeOK
  NoDataRace
  EventsIntact
  StagesOrdered
  IInv
PROPERTIES
  NoEventLost
  KeepsPromise
