SPECIFICATION Spec
CONSTANTS
  NumZones = 3
  max_zone_chunks = 2
  MaxUses = 7
INVARIANTS QueueIsFullZones LeastRecentlyUsedFirst
CHECK_DEADLOCK FALSE
