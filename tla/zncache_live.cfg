SPECIFICATION FairSpec
CONSTANTS
  w1 = w1
  w2 = w2
  a = a
  b = b
  c = c
  Evictor = Evictor
  NoId = NoId
  NoCond = NoCond
  NoPair = NoPair
  NoZone = NoZone
  Workers <- MCTwoWorkers
  DataIds <- MCThreeIds
  WideIds <- NoIds
  NumZones = 2
  max_zone_chunks = 1
  max_nr_active_zones = 1
  HIGH = 0
  LOW = 1
  UInt = 8
  MaxQueries = 4
  ZNS = TRUE
  Faults <- NoFaults
  InitialReaders <- ZeroReaders
PROPERTIES Terminates
