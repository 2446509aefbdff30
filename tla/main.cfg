CONSTANTS
  nr_threads = 2
  workload_max = 3
  FileSizes = {5, 12}
  ReadSizes = {2, 10, 12}
  PROFILING_METRICS = 2
  zn_profiler_metric_types <- MCTypes
  Recorded <- MCRecorded
  Samples <- MCSamples
SPECIFICATION FairSpec
INVARIANTS
  MainInv
  WorkloadIntact
  WorkloadServed
  StopsWhenServed
  NothingOutlivesMain
  ReportsAddUp
  AverageConsistent
PROPERTIES Returns
CHECK_DEADLOCK FALSE
