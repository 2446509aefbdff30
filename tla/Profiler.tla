------------------------------ MODULE Profiler ------------------------------
(***************************************************************************)
(* The profiler (src/src/znprofiler.c).  Tasks add samples to metrics,     *)
(* each under the profiler's lock; the main thread writes all metrics out  *)
(* now and then, and for each of them takes the lock twice: to read it and *)
(* to reset it.                                                            *)
(*                                                                         *)
(* A sample is the request that gave it.  A sum is the set of its samples, *)
(* so that it says what was added and not only how much.                   *)
(***************************************************************************)
EXTENDS Integers, FiniteSets

CONSTANTS
  PROFILING_METRICS,
  zn_profiler_metric_types,   \* metric -> "AVG", "SET" or "OVER_TIME"
  Samples

Metrics == 0 .. PROFILING_METRICS - 1
Accumulated == {m \in Metrics : zn_profiler_metric_types[m] # "SET"}

ASSUME ProfilerAssumption ==
  /\ PROFILING_METRICS \in Nat \ {0}
  /\ zn_profiler_metric_types \in [Metrics -> {"AVG", "SET", "OVER_TIME"}]

VARIABLES
  value,      \* metric -> the samples its value is made of
  count,      \* metric -> count
  writing,    \* the metric zn_profiler_write_all_and_reset is at, or NoMetric
  unlocked,   \* it has read that metric and not yet reset it
  reported,   \* metric -> samples written to the file
  late        \* metric -> samples added between its read and its reset

metricVars == <<value, count, reported, late>>
profilerVars == <<metricVars, writing, unlocked>>

NoMetric == -1

InitProfiler ==
  /\ value = [m \in Metrics |-> {}]
  /\ count = [m \in Metrics |-> 0]
  /\ writing = NoMetric
  /\ unlocked = FALSE
  /\ reported = [m \in Metrics |-> {}]
  /\ late = [m \in Metrics |-> {}]

InGap(m) == writing = m /\ unlocked

Give(m, s) ==
  /\ late' = IF InGap(m) THEN [late EXCEPT ![m] = @ \union {s}] ELSE late
  /\ UNCHANGED <<writing, unlocked, reported>>

UpdateMetric(m, s) ==
  /\ value' = [value EXCEPT ![m] = @ \union {s}]
  /\ count' = [count EXCEPT ![m] = @ + 1]
  /\ Give(m, s)

SetMetric(m, s) ==
  /\ value' = [value EXCEPT ![m] = {s}]
  /\ UNCHANGED count
  /\ Give(m, s)

StartWriting ==
  /\ writing = NoMetric
  /\ writing' = 0
  /\ UNCHANGED <<metricVars, unlocked>>

WriteMetric ==
  /\ writing # NoMetric /\ ~unlocked
  /\ reported' = [reported EXCEPT ![writing] = @ \union value[writing]]
  /\ unlocked' = TRUE
  /\ UNCHANGED <<value, count, late, writing>>

NextMetric ==
  /\ unlocked /\ unlocked' = FALSE
  /\ writing' = IF writing + 1 \in Metrics THEN writing + 1 ELSE NoMetric
  /\ UNCHANGED <<reported, late>>

\* Mutants: the whole table is reset, or the count of this metric is not.
ResetMetric_All ==
  /\ NextMetric
  /\ value' = [m \in Metrics |-> {}]
  /\ count' = [m \in Metrics |-> 0]
ResetMetric_Value ==
  /\ NextMetric
  /\ value' = [value EXCEPT ![writing] = {}]
  /\ UNCHANGED count

ResetMetric ==
  /\ NextMetric
  /\ value' = [value EXCEPT ![writing] = {}]
  /\ count' = [count EXCEPT ![writing] = 0]

-----------------------------------------------------------------------------

ProfilerTypeOK ==
  /\ value \in [Metrics -> SUBSET Samples]
  /\ count \in [Metrics -> Nat]
  /\ writing \in Metrics \union {NoMetric}
  /\ unlocked \in BOOLEAN
  /\ reported \in [Metrics -> SUBSET Samples]
  /\ late \in [Metrics -> SUBSET Samples]

\* An average divides a sum by the number of its samples: although updates
\* come between the read and the reset of a metric, the counter never counts
\* a sample the sum does not hold (znprofiler.c:97-102).
AverageConsistent == \A m \in Accumulated : count[m] = Cardinality(value[m])
=============================================================================
