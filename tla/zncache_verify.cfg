SPECIFICATION Spec
CONSTANTS
  w1 = w1
  w2 = w2
  a = a
  b = b
  c = c
  Evictor = Evictor
  NoId = NoId
  NoCond = NoCond
  NoPair = NoPair
  NoZone = NoZone
  Workers <- MCTwoWorkers
  DataIds <- MCThreeIds
  WideIds <- NoIds
  NumZones = 2
  max_zone_chunks = 2
  max_nr_active_zones = 2
  HIGH = 0
  LOW = 1
  UInt = 8
  MaxQueries = 5
  ZNS = TRUE
  Faults <- NoFaults
  InitialReaders <- ZeroReaders
SYMMETRY Symmetry
INVARIANTS ReadValidates
