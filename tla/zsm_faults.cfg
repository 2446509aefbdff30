SPECIFICATION Spec
CONSTANTS
  t1 = t1
  t2 = t2
  t3 = t3
  NoPair = NoPair
  NumZones = 3
  max_zone_chunks = 2
  max_nr_active_zones = 2
  Threads <- MCThreads
  Faults <- AllFaults
  MaxInvalid = 1
SYMMETRY Symmetry
INVARIANTS ZSMInv
PROPERTIES ImplementsLifecycle
CHECK_DEADLOCK FALSE
