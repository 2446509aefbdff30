SPECIFICATION Spec
CONSTANTS
  t1 = t1
  t2 = t2
  t3 = t3
  NoPair = NoPair
  NumZones = 5
  max_zone_chunks = 3
  max_nr_active_zones = 2
  Threads <- MCThreads
  Faults <- NoFaults
  MaxInvalid = 0
SYMMETRY Symmetry
INVARIANTS NoZoneLost DeviceActiveLimit NeverAborts
PROPERTIES SequentialFill
