CONSTANTS
  Size = 2
  ConsumerCount = 1
  Pollers = {}
  Depth = 1
  Stage <- const_Stage
  Faulty = {1}
  Limits = {}
  I64Max = 99
  Producers = {p1, p2}
  FirstProducer = p1
  FaultyUpdates = {p1}
  WordBits = 2
  MaxBatch = 2
  MaxCalls = 3
  Writers = {p1, p2}
  Words = {0}
SPECIFICATION OrderedSpec
INVARIANTS
  RaceFree
  OrderedIInv
PROPERTIES
  KeepsPromise
