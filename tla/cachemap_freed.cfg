SPECIFICATION Spec
CONSTANTS
  t1 = t1
  t2 = t2
  t3 = t3
  a = a
  b = b
  NoId = NoId
  NoCond = NoCond
  NoPair = NoPair
  Threads <- MCThreads
  DataIds <- MCIds
  WideIds <- NoIds
  NumZones = 1
  max_zone_chunks = 1
  InitialReaders <- ZeroReaders
INVARIANTS NoFreedEntryRead
