SPECIFICATION FairSpec
CONSTANTS
  t1 = t1
  t2 = t2
  t3 = t3
  a = a
  b = b
  NoId = NoId
  NoCond = NoCond
  NoPair = NoPair
  Threads <- MCThreads
  DataIds <- MCIds
  WideIds <- NoIds
  NumZones = 2
  max_zone_chunks = 1
  InitialReaders <- ZeroReaders
INVARIANTS MapInv SingleWriter ReaderCountExact CopyStable
PROPERTIES SleepersWake ImplementsSingleFlight
