SPECIFICATION ChunkCacheSpec
CONSTANTS
  w1 = w1
  w2 = w2
  a = a
  b = b
  c = c
  d = d
  e = e
  Evictor = Evictor
  NoId = NoId
  NoCond = NoCond
  NoPair = NoPair
  NoZone = NoZone
  NoThread = NoThread
  Workers <- MCTwoWorkers
  DataIds <- MCFiveIds
  WideIds <- NoIds
  NumZones = 2
  max_zone_chunks = 2
  max_nr_active_zones = 2
  HIGH = 0
  LOW = 1
  HIGH_CHUNKS = 1
  LOW_CHUNKS = 3
  UInt = 8
  MaxQueries = 5
  ZNS = TRUE
  Faults <- NoFaults
  InitialReaders <- ZeroReaders
SYMMETRY Symmetry
INVARIANTS Migrates
CHECK_DEADLOCK FALSE
