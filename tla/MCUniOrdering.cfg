CONSTANTS
  Size = 2
  ConsumerCount = 3
  Pollers = {2}
  Depth = 2
  Stage <- const_Stage
  Faulty = {1}
  Limits = {99}
  I64Max = 99
  MaxBatch = 2
  MaxSequence = 2
  Writers = {0}
  Words = {}
SPECIFICATION OrderedSpec
INVARIANTS
  RaceFree
  OrderedIInv
PROPERTIES
  KeepsPromise
