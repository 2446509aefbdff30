---------------------------- MODULE Main_proofs ----------------------------
(***************************************************************************)
(* Proofs about the program around the cache: MainInv is an invariant, and *)
(* what the runs check of Main and Profiler follows from it.               *)
(***************************************************************************)
EXTENDS Main, TLAPS, FiniteSetTheorems

\* Facts about the constants that the steps need.
LEMMA Constants ==
  /\ nr_threads \in Nat \ {0} /\ workload_max \in Nat \ {0} /\ PROFILING_METRICS \in Nat \ {0}
  /\ workload_sz = workload_max * 4 /\ workload_sz \in Nat \ {0}
  /\ NoRequest \notin Requests /\ NoMetric \notin Metrics
  /\ Samples = Requests /\ Accumulated \subseteq Metrics
  /\ DOMAIN Recorded = 1 .. Len(Recorded) /\ Len(Recorded) = PROFILING_METRICS
  /\ \A i \in 1 .. Len(Recorded) : Recorded[i] \in Metrics
<1>1. /\ nr_threads \in Nat \ {0} /\ workload_max \in Nat \ {0} /\ PROFILING_METRICS \in Nat \ {0}
      /\ Samples = Requests
  BY MainAssumption, ProfilerAssumption
<1>2. /\ workload_sz = workload_max * 4 /\ workload_sz \in Nat \ {0}
  BY <1>1 DEF workload_sz, Word
<1>3. NoRequest \notin Requests /\ NoMetric \notin Metrics /\ Accumulated \subseteq Metrics
  BY <1>1 DEF NoRequest, NoMetric, Requests, Metrics, Accumulated
<1>4. /\ DOMAIN Recorded = 1 .. Len(Recorded) /\ Len(Recorded) = PROFILING_METRICS
      /\ \A i \in 1 .. Len(Recorded) : Recorded[i] \in Metrics
  BY MainAssumption
<1>5. QED
  BY <1>1, <1>2, <1>3, <1>4

\* The first n numbers.
LEMMA FullInterval ==
  ASSUME NEW n \in Nat
  PROVE  /\ IsFiniteSet(1 .. n) /\ Cardinality(1 .. n) = n
         /\ IsFiniteSet(0 .. n - 1) /\ Cardinality(0 .. n - 1) = n
<1>1. IsFiniteSet(1 .. n) /\ Cardinality(1 .. n) = n
  BY FS_Interval, 1 \in Int, n \in Int
<1>2. IsFiniteSet(0 .. n - 1) /\ Cardinality(0 .. n - 1) = n
  BY FS_Interval, 0 \in Int, n - 1 \in Int
<1>3. QED
  BY <1>1, <1>2

\* A task adds to each metric once.
LEMMA RecordedOnce ==
  \A i, j \in 1 .. Len(Recorded) : Recorded[i] = Recorded[j] => i = j
<1>1. Recorded \in Surjection(1 .. Len(Recorded), Metrics)
  BY MainAssumption, Constants DEF Surjection
<1>2. /\ IsFiniteSet(1 .. Len(Recorded)) /\ Cardinality(1 .. Len(Recorded)) = Len(Recorded)
      /\ Cardinality(Metrics) = Len(Recorded)
  BY Constants, FullInterval DEF Metrics
<1>3. Recorded \in Injection(1 .. Len(Recorded), Metrics)
  BY <1>1, <1>2, FS_SurjSameCardinalityImpliesInj
<1>4. QED
  BY <1>3 DEF Injection, IsInjective

\* The requests, and so the samples, are finitely many; so are the tasks.
LEMMA FiniteSets ==
  /\ IsFiniteSet(Tasks) /\ Cardinality(Tasks) = nr_threads
  /\ IsFiniteSet(Requests)
BY Constants, FullInterval DEF Tasks, Requests

\* The invariant holds at the start.
LEMMA MainInit == Init => MainInv
<1> SUFFICES ASSUME Init PROVE MainInv
  OBVIOUS
<1> USE Constants
<1>1. TypeOK
  <2>1. /\ total_bytes_read \in 0 .. workload_sz /\ nr_threads_completed \in 0 .. nr_threads
        /\ workload_index \in 0 .. workload_max
        /\ recorded \in [Tasks -> 0 .. Len(Recorded)]
    BY DEF Init
  <2>2. ProfilerTypeOK
    BY DEF Init, InitProfiler, ProfilerTypeOK
  <2>3. QED
    BY <2>1, <2>2 DEF Init, TypeOK
<1>2. ReadSound
  BY DEF Init, ReadSound
<1>3. WorkloadServed
  BY DEF Init, WorkloadServed, At
<1>4. TasksShaped
  BY DEF Init, TasksShaped
<1>5. SignalSound
  <2>1. Counted = {}
    BY DEF Init, Counted
  <2>2. QED
    BY <2>1, FS_EmptySet DEF Init, SignalSound
<1>6. GapSound
  BY DEF Init, InitProfiler, GapSound, InGap
<1>7. ReportsAddUp
  <2>1. \A m \in Accumulated : Given(m) = {}
    BY DEF Init, Given, At
  <2>2. QED
    BY <2>1 DEF Init, InitProfiler, ReportsAddUp
<1>8. AverageConsistent
  BY FS_EmptySet DEF Init, InitProfiler, AverageConsistent
<1>9. QED
  BY <1>1, <1>2, <1>3, <1>4, <1>5, <1>6, <1>7, <1>8 DEF MainInv

\* A task that was not counted leaves room for one more.
LEMMA NotAllCounted ==
  ASSUME NEW t \in Tasks \ Counted
  PROVE  /\ IsFiniteSet(Counted) /\ Cardinality(Counted) \in Nat
         /\ Cardinality(Counted) + 1 <= nr_threads
<1>1. IsFiniteSet(Counted) /\ Counted \union {t} \subseteq Tasks
  BY FiniteSets, FS_Subset DEF Counted
<1>2. Cardinality(Counted) \in Nat /\ Cardinality(Counted \union {t}) = Cardinality(Counted) + 1
  BY <1>1, FS_CardinalityType, FS_AddElement
<1>3. QED
  BY <1>1, <1>2, FiniteSets, FS_Subset

\* Adding a sample, or setting a value, keeps the profiler's types.
LEMMA GiveTypes ==
  ASSUME ProfilerTypeOK, NEW m \in Metrics, NEW s \in Samples,
         UpdateMetric(m, s) \/ SetMetric(m, s)
  PROVE  ProfilerTypeOK'
<1>1. CASE UpdateMetric(m, s)
  BY <1>1 DEF ProfilerTypeOK, UpdateMetric, Give
<1>2. CASE SetMetric(m, s)
  BY <1>2 DEF ProfilerTypeOK, SetMetric, Give
<1>3. QED
  BY <1>1, <1>2

\* Every step keeps the types: the count stays within the number of tasks because
\* it counts tasks.
LEMMA TypeStep ==
  ASSUME TypeOK, TasksShaped, SignalSound, [Next]_vars
  PROVE  TypeOK'
<1> USE Constants DEF TypeOK, ProfilerTypeOK, readVars, loopVars, taskVars, profilerVars, metricVars
<1>1. ASSUME NEW n \in ReadSizes, ReadBytes(n) PROVE TypeOK'
  <2>1. n \in Nat /\ total_bytes_read' \in 0 .. workload_sz /\ overrun' \in BOOLEAN
    BY <1>1, MainAssumption DEF ReadBytes
  <2>2. main' \in {"read", "undefined"}
    BY <1>1 DEF ReadBytes
  <2>3. QED
    BY <1>1, <2>1, <2>2 DEF ReadBytes
<1>2. CASE ReadEnds \/ ReadFails \/ PushFails \/ StartEvictor \/ RunLoop \/ LeaveLoop \/ FreePool
           \/ Return \/ EvictorEnds
  BY <1>2 DEF ReadEnds, ReadFails, PushFails, StartEvictor, RunLoop, LeaveLoop, FreePool, Return,
              EvictorEnds, Goes
<1>3. CASE Profile \/ ProfilingTask
  <2>1. CASE ProfilingTask
    BY <2>1, ProfilerAssumption DEF ProfilingTask, StartWriting, Metrics
  <2>2. CASE WriteMetric /\ UNCHANGED <<main, readVars, timer, loopVars, evictor, taskVars>>
    BY <2>2 DEF WriteMetric
  <2>3. CASE ResetMetric /\ UNCHANGED <<main, readVars, timer, loopVars, evictor, taskVars>>
    BY <2>3 DEF ResetMetric, NextMetric
  <2>4. QED
    BY <1>3, <2>1, <2>2, <2>3 DEF Profile
<1>4. ASSUME NEW t \in Tasks, PushTask(t) PROVE TypeOK'
  BY <1>4 DEF PushTask
<1>5. ASSUME NEW t \in Tasks, Task(t) PROVE TypeOK'
  <2>1. CASE TakeRequest(t)
    BY <2>1 DEF TakeRequest, TaskGoes, Requests
  <2>2. CASE NoMoreRequests(t) \/ Answer(t) \/ GetFails(t) \/ SetDone(t) \/ Unlock(t)
    <3>1. PICK to \in {"count", "record", "failed", "unlock", "ended"} :
            task' = [task EXCEPT ![t] = to]
      BY <2>2 DEF NoMoreRequests, Answer, GetFails, SetDone, Unlock, TaskGoes
    <3>2. done' \in BOOLEAN
      BY <2>2 DEF NoMoreRequests, Answer, GetFails, SetDone, Unlock
    <3>3. QED
      BY <2>2, <3>1, <3>2 DEF NoMoreRequests, Answer, GetFails, SetDone, Unlock
  <2>3. CASE Record(t)
    <3>1. request[t] \in Requests
      BY <2>3 DEF Record, TasksShaped
    <3> DEFINE m == Recorded[recorded[t] + 1]
    <3>2. m \in Metrics /\ recorded' \in [Tasks -> 0 .. Len(Recorded)]
      BY <2>3 DEF Record
    <3>3. ProfilerTypeOK'
      <4>1. UpdateMetric(m, request[t]) \/ SetMetric(m, request[t])
        BY <2>3 DEF Record
      <4> HIDE DEF m, ProfilerTypeOK
      <4>2. QED
        BY <3>1, <3>2, <4>1, GiveTypes
    <3>4. QED
      BY <2>3, <3>2, <3>3 DEF Record
  <2>4. CASE NextRequest(t)
    <3>1. request[t] \in Requests
      BY <2>4 DEF NextRequest, TaskGoes, TasksShaped
    <3>2. QED
      BY <2>4, <3>1 DEF NextRequest, TaskGoes
  <2>5. CASE CountTask(t)
    <3>1. nr_threads_completed + 1 <= nr_threads
      BY <2>5, NotAllCounted DEF CountTask, TaskGoes, Counted, SignalSound
    <3>2. PICK to \in {"done", "ended"} : task' = [task EXCEPT ![t] = to]
      BY <2>5 DEF CountTask, TaskGoes
    <3>3. QED
      BY <2>5, <3>1, <3>2 DEF CountTask
  <2>6. QED
    BY <1>5, <2>1, <2>2, <2>3, <2>4, <2>5 DEF Task
<1>6. CASE UNCHANGED vars
  BY <1>6 DEF vars
<1>7. QED
  BY <1>1, <1>2, <1>3, <1>4, <1>5, <1>6 DEF Next, MainNext

-----------------------------------------------------------------------------
(* The workload.                                                           *)

\* A file read at once is in its place.  After a first part the next byte of the
\* buffer is passed over for good: all that is read later is put further on, and
\* the last part beyond the end.
LEMMA ReadStep ==
  ASSUME TypeOK, ReadSound, [Next]_vars
  PROVE  ReadSound'
<1> USE Constants DEF TypeOK, ReadSound, ReadAtOnce, ReadInParts, readVars
<1>1. ASSUME NEW n \in ReadSizes, ReadBytes(n) PROVE ReadSound'
  <2> DEFINE to == total_bytes_read * 4
  <2>1. /\ total_bytes_read \in Nat /\ n \in Nat \ {0} /\ total_bytes_read' = total_bytes_read + n
        /\ total_bytes_read + n <= workload_sz /\ main = "read" /\ main' \in {"read", "undefined"}
        /\ to \in Nat /\ overrun' = (overrun \/ to + n > workload_sz)
        /\ DOMAIN Workload = 0 .. workload_sz - 1
        /\ workload_buffer' = [b \in DOMAIN Workload |->
                                 IF b \in to .. to + n - 1
                                 THEN total_bytes_read + (b - to)
                                 ELSE workload_buffer[b]]
    BY <1>1, MainAssumption DEF ReadBytes, Word, Workload
  <2>2. CASE total_bytes_read = 0 /\ n = workload_sz
    <3>1. workload_buffer' = Workload
      BY <2>1, <2>2 DEF Workload
    <3>2. ~overrun'
      BY <2>1, <2>2
    <3>3. QED
      BY <2>1, <2>2, <3>1, <3>2
  <2>3. CASE total_bytes_read = 0 /\ n # workload_sz
    <3>1. n \in DOMAIN Workload /\ n \in 1 .. total_bytes_read' /\ n \notin to .. to + n - 1
      BY <2>1, <2>3
    <3>2. workload_buffer'[n] = Unread
      BY <2>1, <2>3, <3>1 DEF Empty
    <3>3. QED
      BY <2>1, <2>3, <3>1, <3>2
  <2>4. CASE total_bytes_read # 0
    <3>1. PICK b \in DOMAIN Workload : b \in 1 .. total_bytes_read /\ workload_buffer[b] = Unread
      BY <2>1, <2>4
    <3>2. b \in 1 .. total_bytes_read' /\ b \notin to .. to + n - 1
      BY <2>1, <2>4, <3>1
    <3>3. workload_buffer'[b] = Unread
      BY <2>1, <3>1, <3>2
    <3>4. total_bytes_read' = workload_sz => to + n > workload_sz
      BY <2>1, <2>4
    <3>5. QED
      BY <2>1, <3>1, <3>2, <3>3, <3>4
  <2>5. QED
    BY <2>2, <2>3, <2>4
<1>2. CASE ReadEnds
  BY <1>2 DEF ReadEnds, Goes
<1>3. CASE ReadFails \/ PushFails
  BY <1>3 DEF ReadFails, PushFails, Goes
<1>4. CASE StartEvictor \/ RunLoop \/ LeaveLoop \/ FreePool \/ Return
  BY <1>4 DEF StartEvictor, RunLoop, LeaveLoop, FreePool, Return, Goes
<1>5. CASE \/ Profile \/ ProfilingTask \/ EvictorEnds \/ UNCHANGED vars
           \/ \E t \in Tasks : PushTask(t) \/ Task(t)
  <2>1. UNCHANGED <<main, readVars>>
    BY <1>5 DEF Profile, ProfilingTask, EvictorEnds, vars, PushTask, Task, TakeRequest,
                NoMoreRequests, Answer, GetFails, Record, NextRequest, CountTask, SetDone, Unlock
  <2>2. QED
    BY <2>1
<1>6. QED
  BY <1>1, <1>2, <1>3, <1>4, <1>5 DEF Next, MainNext

\* The requests one by one: each is answered or with a task when it is below
\* the index, and with one task only.
Served ==
  /\ \A r : r \in answered \/ (\E t \in Tasks : request[t] = r /\ r # NoRequest)
             <=> r \in 0 .. workload_index - 1
  /\ workload_index <= workload_max
  /\ \A t \in Tasks : request[t] # NoRequest =>
       /\ request[t] \notin answered
       /\ \A u \in Tasks : request[u] = request[t] => t = u

\* Served is WorkloadServed.
LEMMA ServedSame == (WorkloadServed <=> Served) /\ (WorkloadServed' <=> Served')
<1>1. WorkloadServed <=> Served
  BY DEF WorkloadServed, Served, At
<1>2. WorkloadServed' <=> Served'
  BY DEF WorkloadServed, Served, At
<1>3. QED
  BY <1>1, <1>2

\* Steps that leave the requests alone.
LEMMA ServedKept ==
  ASSUME Served, UNCHANGED <<answered, request, workload_index>>
  PROVE  Served'
BY DEF Served

\* What is neither a task's step nor a push leaves the tasks alone.
LEMMA TasksKept ==
  ASSUME [Next]_vars, ~\E t \in Tasks : PushTask(t) \/ Task(t)
  PROVE  UNCHANGED <<workload_index, task, request, recorded, answered, nr_threads_completed>>
<1> USE DEF taskVars
<1>1. CASE MainNext
  BY <1>1 DEF MainNext, ReadBytes, ReadEnds, ReadFails, PushFails, StartEvictor, RunLoop, Profile,
              LeaveLoop, FreePool, Return, loopVars
<1>2. CASE ProfilingTask \/ EvictorEnds \/ UNCHANGED vars
  BY <1>2 DEF ProfilingTask, EvictorEnds, vars, loopVars
<1>3. QED
  BY <1>1, <1>2 DEF Next

\* Only TakeRequest and NextRequest move a request: from the index to a task, and
\* from the task to the answered ones.
LEMMA ServedStep ==
  ASSUME TypeOK, WorkloadServed, TasksShaped, [Next]_vars
  PROVE  WorkloadServed'
<1> SUFFICES Served'
  BY ServedSame
<1>0. Served
  BY ServedSame
<1> USE Constants DEF TypeOK
<1>1. ASSUME NEW t \in Tasks, TakeRequest(t) PROVE Served'
  <2>1. /\ workload_index \in 0 .. workload_max - 1 /\ workload_index' = workload_index + 1
        /\ \A u \in Tasks : request'[u] = IF u = t THEN workload_index ELSE request[u]
        /\ answered' = answered
        /\ request[t] = NoRequest
    BY <1>1 DEF TakeRequest, TaskGoes, TasksShaped
  <2>2. \A r : r \in 0 .. workload_index' - 1
               <=> r \in 0 .. workload_index - 1 \/ r = workload_index
    BY <2>1
  <2>3. workload_index \notin answered /\ \A u \in Tasks : request[u] # workload_index
    BY <1>0, <2>1 DEF Served, NoRequest
  <2>4. workload_index # NoRequest
    BY <2>1 DEF NoRequest
  <2>5. \A r : (\E u \in Tasks : request'[u] = r /\ r # NoRequest)
               <=> (\E u \in Tasks : request[u] = r /\ r # NoRequest) \/ r = workload_index
    BY <2>1, <2>4
  <2>6. workload_index' <= workload_max
    BY <2>1
  <2>7. \A v, u \in Tasks : request'[v] # NoRequest =>
          request'[v] \notin answered /\ (request'[u] = request'[v] => v = u)
    BY <1>0, <2>1, <2>3 DEF Served
  <2>8. QED
    BY <1>0, <2>1, <2>2, <2>5, <2>6, <2>7 DEF Served
<1>2. ASSUME NEW t \in Tasks, NextRequest(t) PROVE Served'
  <2>1. /\ request[t] # NoRequest
        /\ \A u \in Tasks : request'[u] = IF u = t THEN NoRequest ELSE request[u]
        /\ \A r : r \in answered' <=> r \in answered \/ r = request[t]
        /\ UNCHANGED workload_index
    BY <1>2 DEF NextRequest, TaskGoes, TasksShaped
  <2>2. QED
    BY <1>0, <2>1 DEF Served
<1>3. ASSUME NEW t \in Tasks, \/ PushTask(t) \/ NoMoreRequests(t) \/ Answer(t) \/ GetFails(t)
                               \/ Record(t) \/ CountTask(t) \/ SetDone(t) \/ Unlock(t)
      PROVE  Served'
  BY <1>0, <1>3, ServedKept
     DEF PushTask, NoMoreRequests, Answer, GetFails, Record, CountTask, SetDone, Unlock
<1>4. CASE ~\E t \in Tasks : PushTask(t) \/ Task(t)
  BY <1>0, <1>4, TasksKept, ServedKept
<1>5. QED
  BY <1>1, <1>2, <1>3, <1>4 DEF Task

-----------------------------------------------------------------------------
(* The end of the program.                                                 *)

\* Every step keeps the tasks where main expects them.
LEMMA ShapeStep ==
  ASSUME TypeOK, WorkloadServed, TasksShaped, SignalSound, [Next]_vars
  PROVE  TasksShaped'
<1> USE Constants DEF TypeOK, TasksShaped
<1>1. ASSUME NEW t \in Tasks, PushTask(t) PROVE TasksShaped'
  BY <1>1 DEF PushTask
<1>2. ASSUME NEW t \in Tasks, Task(t) PROVE TasksShaped'
  <2>1. UNCHANGED main
    BY <1>2 DEF Task, TakeRequest, NoMoreRequests, Answer, GetFails, Record, NextRequest,
                CountTask, SetDone, Unlock
  <2>2. PICK to : /\ \A u \in Tasks : task'[u] = IF u = t THEN to ELSE task[u]
                  /\ to \in {"loop", "get", "record", "failed", "count", "done", "unlock", "ended"}
                  /\ task[t] \notin {"none", "ended", "failed"}
    <3>1. CASE CountTask(t)
      BY <3>1 DEF CountTask, TaskGoes
    <3>2. CASE Record(t)
      BY <3>2 DEF Record
    <3>3. CASE ~(CountTask(t) \/ Record(t))
      <4>1. \E from \in {"loop", "get", "record", "done", "unlock"},
               to \in {"loop", "get", "record", "failed", "count", "unlock", "ended"} :
              TaskGoes(t, from, to)
        BY <1>2, <3>3 DEF Task, TakeRequest, NoMoreRequests, Answer, GetFails, NextRequest,
                          SetDone, Unlock
      <4>2. QED
        BY <4>1 DEF TaskGoes
    <3>4. QED
      BY <3>1, <3>2, <3>3
  <2>3. /\ main' = "read" => \A u \in Tasks : task'[u] = "none"
        /\ main' \in {"run", "loop", "wait", "join", "returned"} =>
             \A u \in Tasks : task'[u] # "none"
        /\ main' \in {"join", "returned"} => \A u \in Tasks : task'[u] \in {"ended", "failed"}
    BY <2>1, <2>2
  <2>4. workload_index' # workload_index =>
          workload_index # workload_max /\ task'[t] = "get"
    BY <1>2 DEF Task, TakeRequest, NoMoreRequests, Answer, GetFails, Record, NextRequest,
                CountTask, SetDone, Unlock, TaskGoes
  <2>5. \A u \in Tasks : u # t => request'[u] = request[u] /\ recorded'[u] = recorded[u]
    BY <1>2 DEF Task, TakeRequest, NoMoreRequests, Answer, GetFails, Record, NextRequest,
                CountTask, SetDone, Unlock
  <2>6. /\ request'[t] # NoRequest <=> task'[t] \in {"get", "record", "failed"}
        /\ recorded'[t] > 0 => task'[t] = "record"
        /\ task'[t] \in {"count", "done", "unlock", "ended"} => workload_index' = workload_max
    <3>1. CASE TakeRequest(t)
      BY <3>1 DEF TakeRequest, TaskGoes, NoRequest
    <3>2. CASE NoMoreRequests(t) \/ Answer(t) \/ GetFails(t) \/ SetDone(t) \/ Unlock(t)
      BY <3>2 DEF NoMoreRequests, Answer, GetFails, SetDone, Unlock, TaskGoes
    <3>3. CASE Record(t) \/ NextRequest(t)
      BY <3>3 DEF Record, NextRequest, TaskGoes
    <3>4. CASE CountTask(t)
      BY <2>2, <3>4 DEF CountTask, TaskGoes
    <3>5. QED
      BY <1>2, <3>1, <3>2, <3>3, <3>4 DEF Task
  <2>7. QED
    BY <2>2, <2>3, <2>4, <2>5, <2>6
<1>3. CASE ~\E t \in Tasks : PushTask(t) \/ Task(t)
  <2>1. UNCHANGED <<workload_index, task, request, recorded>>
    BY <1>3, TasksKept
  <2>2. /\ main' = "read" => main = "read"
        /\ main' \in {"run", "loop", "wait", "join", "returned"} =>
             \/ main = "push" /\ \A t \in Tasks : task[t] # "none"
             \/ main \in {"run", "loop", "wait", "join", "returned"}
        /\ main' \in {"join", "returned"} =>
             (\A t \in Tasks : task[t] \in {"ended", "failed"}) \/ main \in {"join", "returned"}
    <3>1. CASE MainNext
      BY <1>3, <3>1 DEF MainNext, ReadBytes, ReadEnds, ReadFails, PushFails, StartEvictor, RunLoop,
                        Profile, LeaveLoop, FreePool, Return, Goes
    <3>2. CASE ProfilingTask \/ EvictorEnds \/ UNCHANGED vars
      BY <3>2 DEF ProfilingTask, EvictorEnds, vars
    <3>3. QED
      BY <1>3, <3>1, <3>2 DEF Next
  <2>3. QED
    BY <2>1, <2>2
<1>4. QED
  BY <1>1, <1>2, <1>3

\* Every step keeps the count exact; only the last task gives the signal, and
\* whoever stops has seen it.
LEMMA SignalStep ==
  ASSUME TypeOK, TasksShaped, SignalSound, [Next]_vars
  PROVE  SignalSound'
<1> USE Constants DEF TypeOK
<1>1. ASSUME NEW t \in Tasks, CountTask(t) PROVE SignalSound'
  <2> DEFINE last == nr_threads_completed + 1 = nr_threads
  <2>1. /\ task[t] = "count" /\ nr_threads_completed' = nr_threads_completed + 1
        /\ \A u \in Tasks : task'[u] = IF u = t THEN IF last THEN "done" ELSE "ended" ELSE task[u]
        /\ UNCHANGED <<main, done, evictor>>
        /\ is_running' = (is_running /\ ~last)
    BY <1>1 DEF CountTask, TaskGoes
  <2>2. Counted' = Counted \union {t} /\ t \notin Counted
    BY <2>1 DEF Counted
  <2>3. /\ Cardinality(Counted') = Cardinality(Counted) + 1
        /\ nr_threads_completed + 1 <= nr_threads
    BY <2>2, NotAllCounted, FS_AddElement DEF SignalSound
  <2>4. nr_threads_completed # nr_threads
    BY <2>3
  <2>5. QED
    BY <2>1, <2>3, <2>4 DEF SignalSound
<1>2. ASSUME NEW t \in Tasks, SetDone(t) \/ Unlock(t) PROVE SignalSound'
  <2>1. Counted' = Counted
    BY <1>2 DEF SetDone, Unlock, TaskGoes, Counted
  <2>2. nr_threads_completed = nr_threads
    BY <1>2 DEF SetDone, Unlock, TaskGoes, SignalSound
  <2>3. /\ UNCHANGED <<main, evictor, is_running, nr_threads_completed>>
        /\ done => done'
    BY <1>2 DEF SetDone, Unlock, loopVars
  <2>4. QED
    BY <2>1, <2>2, <2>3 DEF SignalSound
<1>3. ASSUME NEW t \in Tasks, \/ PushTask(t) \/ TakeRequest(t) \/ NoMoreRequests(t) \/ Answer(t)
                               \/ GetFails(t) \/ Record(t) \/ NextRequest(t)
      PROVE  SignalSound'
  <2>1. /\ UNCHANGED <<main, evictor, is_running, nr_threads_completed, done>>
        /\ \A u \in Tasks : task'[u] = task[u]
                            \/ {task[u], task'[u]} \intersect {"done", "unlock", "ended"} = {}
    BY <1>3 DEF PushTask, TakeRequest, NoMoreRequests, Answer, GetFails, Record, NextRequest,
                TaskGoes, loopVars
  <2>2. Counted' = Counted
    BY <2>1 DEF Counted
  <2>3. QED
    BY <2>1, <2>2 DEF SignalSound
<1>4. CASE ~\E t \in Tasks : PushTask(t) \/ Task(t)
  <2>1. UNCHANGED <<task, nr_threads_completed>> /\ Counted' = Counted
    BY <1>4, TasksKept DEF Counted
  <2>2. /\ UNCHANGED done
        /\ evictor' = "ended" => evictor = "ended" \/ done
        /\ \/ main' = main /\ is_running' = is_running
           \/ main' \notin {"loop", "wait", "join", "returned"}
           \/ main' = "loop" /\ is_running'
           \/ main = "loop" /\ ~is_running /\ main' # "returned"
           \/ main \in {"wait", "join"} /\ (main' = "returned" => evictor = "ended")
        /\ main' = "returned" => main = "returned" \/ evictor' = "ended"
    <3>1. CASE MainNext
      BY <1>4, <3>1 DEF MainNext, ReadBytes, ReadEnds, ReadFails, PushFails, StartEvictor, RunLoop,
                        Profile, LeaveLoop, FreePool, Return, Goes, loopVars
    <3>2. CASE ProfilingTask \/ EvictorEnds \/ UNCHANGED vars
      BY <3>2 DEF ProfilingTask, EvictorEnds, vars, loopVars
    <3>3. QED
      BY <1>4, <3>1, <3>2 DEF Next
  <2>3. main = "returned" /\ evictor = "ended" => evictor' = "ended"
    <3>1. CASE MainNext
      BY <1>4, <3>1 DEF MainNext, ReadBytes, ReadEnds, ReadFails, PushFails, StartEvictor, RunLoop,
                        Profile, LeaveLoop, FreePool, Return, Goes
    <3>2. CASE ProfilingTask \/ EvictorEnds \/ UNCHANGED vars
      BY <3>2 DEF ProfilingTask, EvictorEnds, vars
    <3>3. QED
      BY <1>4, <3>1, <3>2 DEF Next
  <2>4. QED
    BY <2>1, <2>2, <2>3 DEF SignalSound
<1>5. QED
  BY <1>1, <1>2, <1>3, <1>4 DEF Task

-----------------------------------------------------------------------------
(* The reports.                                                            *)

\* What is said of one metric.
Sound(m) ==
  /\ Given(m) = reported[m] \union value[m] \union late[m]
  /\ InGap(m) \/ value[m] \intersect reported[m] = {}
  /\ InGap(m) => value[m] \subseteq reported[m] \union late[m]
  /\ count[m] = Cardinality(value[m])

Reports == \A m \in Accumulated : Sound(m)

\* Sound of every metric is what the runs check, with GapSound.
LEMMA ReportsSame ==
  /\ ReportsAddUp /\ GapSound /\ AverageConsistent <=> Reports /\ (unlocked => writing # NoMetric)
  /\ (ReportsAddUp /\ GapSound /\ AverageConsistent)'
       <=> (Reports /\ (unlocked => writing # NoMetric))'
<1>1. ReportsAddUp /\ GapSound /\ AverageConsistent <=> Reports /\ (unlocked => writing # NoMetric)
  BY DEF ReportsAddUp, GapSound, AverageConsistent, Reports, Sound
<1>2. (ReportsAddUp /\ GapSound /\ AverageConsistent)'
        <=> (Reports /\ (unlocked => writing # NoMetric))'
  BY DEF ReportsAddUp, GapSound, AverageConsistent, Reports, Sound
<1>3. QED
  BY <1>1, <1>2

\* Which samples a metric was given, one by one.
LEMMA GivenOne ==
  /\ \A m, r : r \in Given(m) <=>
       r \in answered \/ \E t \in Tasks : request[t] = r /\ r # NoRequest /\ Gave(t, m)
  /\ \A m, r : r \in Given(m)' <=>
       r \in answered' \/ \E t \in Tasks : request'[t] = r /\ r # NoRequest /\ Gave(t, m)'
BY DEF Given, At

\* Steps that give no metric a sample.
LEMMA GivenKept ==
  ASSUME UNCHANGED <<answered, request, recorded>>
  PROVE  \A m : Given(m)' = Given(m)
BY DEF Given, At, Gave

\* Steps that leave the profiler alone.
LEMMA SoundKept ==
  ASSUME \A m \in Accumulated : Given(m)' = Given(m), UNCHANGED profilerVars, Reports,
         unlocked => writing # NoMetric
  PROVE  (Reports /\ (unlocked => writing # NoMetric))'
BY DEF Reports, Sound, InGap, profilerVars, metricVars

\* A task adds its request to the next metric: no sum and no report holds it.
LEMMA RecordSound ==
  ASSUME TypeOK, WorkloadServed, TasksShaped, Reports, NEW t \in Tasks, Record(t)
  PROVE  Reports'
<1> USE Constants
<1>0. request[t] \in Requests /\ recorded[t] + 1 \in 1 .. Len(Recorded)
  BY DEF Record, TasksShaped, TypeOK
<1>1. PICK r \in Requests, k \in 1 .. Len(Recorded), given \in Metrics :
        request[t] = r /\ recorded[t] = k - 1 /\ given = Recorded[k] /\ r # NoRequest
  <2>1. recorded[t] = (recorded[t] + 1) - 1
    BY DEF TypeOK
  <2>2. QED
    BY <1>0, <2>1
<1>2. /\ UNCHANGED <<answered, request, writing, unlocked, reported>>
      /\ \A u \in Tasks : recorded'[u] = IF u = t THEN k ELSE recorded[u]
  <2>1. UNCHANGED <<answered, request, writing, unlocked, reported>>
    BY DEF Record, UpdateMetric, SetMetric, Give
  <2>2. recorded' = [recorded EXCEPT ![t] = recorded[t] + 1] /\ recorded[t] + 1 = k
    BY <1>1 DEF Record
  <2>3. QED
    BY <2>1, <2>2 DEF TypeOK
<1>3. ~Gave(t, given)
  BY <1>1, RecordedOnce DEF Gave
<1>4. \A u \in Tasks : \A m : Gave(u, m)' <=> Gave(u, m) \/ (u = t /\ m = given)
  <2>1. \A i : i \in 1 .. recorded'[t] <=> i \in 1 .. recorded[t] \/ i = k
    BY <1>1, <1>2
  <2>2. \A m : Gave(t, m)' <=> Gave(t, m) \/ m = given
    BY <1>1, <2>1 DEF Gave
  <2>3. \A u \in Tasks : u # t => \A m : Gave(u, m)' <=> Gave(u, m)
    BY <1>2 DEF Gave
  <2>4. QED
    BY <2>2, <2>3, <1>3
<1>5. \A u \in Tasks : request[u] = r => u = t
  BY <1>1, ServedSame DEF Served
<1>6. r \notin answered /\ r \notin Given(given)
  <2>1. r \notin answered
    BY <1>1, ServedSame DEF Served
  <2>2. QED
    BY <1>3, <1>5, <2>1, GivenOne
<1>7. \A m : Given(m)' = IF m = given THEN Given(m) \union {r} ELSE Given(m)
  <2>1. \A m, s : s \in Given(m)' <=> s \in Given(m) \/ (m = given /\ s = r)
    BY <1>1, <1>2, <1>4, GivenOne
  <2>2. QED
    BY <2>1
<1>8. \A m \in Accumulated : m # given =>
        value'[m] = value[m] /\ count'[m] = count[m] /\ late'[m] = late[m]
  BY <1>1 DEF Record, UpdateMetric, SetMetric, Give, TypeOK, ProfilerTypeOK
<1>9. ASSUME NEW m \in Accumulated, m # given PROVE Sound(m)'
  BY <1>2, <1>7, <1>8, <1>9 DEF Reports, Sound, InGap
<1>10. ASSUME given \in Accumulated PROVE Sound(given)'
  <2>1. UpdateMetric(given, r)
    <3>1. recorded[t] + 1 = k
      BY <1>1
    <3>2. QED
      BY <1>1, <1>10, <3>1 DEF Record
  <2>2. /\ value'[given] = value[given] \union {r}
        /\ count'[given] = count[given] + 1
        /\ late'[given] = IF InGap(given) THEN late[given] \union {r} ELSE late[given]
    BY <1>1, <2>1 DEF UpdateMetric, Give, TypeOK, ProfilerTypeOK
  <2>3. Sound(given)
    BY <1>10 DEF Reports
  <2>4. r \notin value[given] \union reported[given]
    BY <1>6, <2>3 DEF Sound
  <2>5. IsFiniteSet(value[given])
    BY <1>1, FiniteSets, FS_Subset DEF TypeOK, ProfilerTypeOK
  <2>6. count'[given] = Cardinality(value'[given])
    <3>1. count[given] = Cardinality(value[given])
      BY <2>3 DEF Sound
    <3>2. Cardinality(value[given] \union {r}) = Cardinality(value[given]) + 1
      BY <2>4, <2>5, FS_AddElement
    <3>3. QED
      BY <2>2, <3>1, <3>2
  <2>7. QED
    BY <1>2, <1>7, <2>2, <2>3, <2>4, <2>6 DEF Sound, InGap
<1>11. QED
  BY <1>9, <1>10 DEF Reports

\* Every step keeps the reports: tasks add, and the main thread reads a metric,
\* leaves the lock, and resets it.
LEMMA ReportsStep ==
  ASSUME TypeOK, WorkloadServed, TasksShaped, ReportsAddUp, GapSound, AverageConsistent, [Next]_vars
  PROVE  (ReportsAddUp /\ GapSound /\ AverageConsistent)'
<1> SUFFICES (Reports /\ (unlocked => writing # NoMetric))'
  BY ReportsSame
<1>0. Reports /\ (unlocked => writing # NoMetric)
  BY ReportsSame
<1> USE Constants
<1>1. ASSUME NEW t \in Tasks, Record(t) PROVE (Reports /\ (unlocked => writing # NoMetric))'
  <2>1. UNCHANGED <<writing, unlocked>>
    BY <1>1 DEF Record, UpdateMetric, SetMetric, Give
  <2>2. QED
    BY <1>0, <1>1, <2>1, RecordSound
<1>2. ASSUME NEW t \in Tasks, TakeRequest(t)
      PROVE  (Reports /\ (unlocked => writing # NoMetric))'
  <2>1. /\ request[t] = NoRequest /\ recorded[t] = 0
        /\ \A u \in Tasks : u # t => request'[u] = request[u]
        /\ UNCHANGED <<answered, recorded, profilerVars>>
    BY <1>2 DEF TakeRequest, TaskGoes, TasksShaped, TypeOK
  <2>2. \A m : ~Gave(t, m) /\ \A u \in Tasks : Gave(u, m)' <=> Gave(u, m)
    BY <2>1 DEF Gave
  <2>3. \A m, r : r \in Given(m)' <=> r \in Given(m)
    BY <2>1, <2>2, GivenOne
  <2>4. \A m : Given(m)' = Given(m)
    BY <2>3 DEF Given
  <2>5. QED
    BY <1>0, <2>1, <2>4, SoundKept
<1>3. ASSUME NEW t \in Tasks, NextRequest(t)
      PROVE  (Reports /\ (unlocked => writing # NoMetric))'
  <2>1. /\ request[t] # NoRequest /\ recorded[t] = Len(Recorded)
        /\ \A u \in Tasks : request'[u] = IF u = t THEN NoRequest ELSE request[u]
        /\ \A u \in Tasks : recorded'[u] = IF u = t THEN 0 ELSE recorded[u]
        /\ answered' = answered \union {request[t]}
        /\ UNCHANGED profilerVars
    BY <1>3 DEF NextRequest, TaskGoes, TasksShaped, TypeOK
  <2>2. \A m \in Accumulated : Gave(t, m)
    BY <2>1, MainAssumption DEF Gave
  <2>3. \A u \in Tasks : u # t => \A m : Gave(u, m)' <=> Gave(u, m)
    BY <2>1 DEF Gave
  <2>4. \A m \in Accumulated : \A r : r \in Given(m)' <=> r \in Given(m)
    BY <2>1, <2>2, <2>3, GivenOne
  <2>5. \A m \in Accumulated : Given(m)' = Given(m)
    BY <2>4
  <2>6. QED
    BY <1>0, <2>1, <2>5, SoundKept
<1>4. ASSUME NEW t \in Tasks, \/ PushTask(t) \/ NoMoreRequests(t) \/ Answer(t) \/ GetFails(t)
                               \/ CountTask(t) \/ SetDone(t) \/ Unlock(t)
      PROVE  (Reports /\ (unlocked => writing # NoMetric))'
  <2>1. UNCHANGED <<answered, request, recorded, profilerVars>>
    BY <1>4 DEF PushTask, NoMoreRequests, Answer, GetFails, CountTask, SetDone, Unlock
  <2>2. QED
    BY <1>0, <2>1, GivenKept, SoundKept
<1>5. CASE ~\E t \in Tasks : PushTask(t) \/ Task(t)
  <2>1. \A m : Given(m)' = Given(m)
    BY <1>5, TasksKept, GivenKept
  <2>2. CASE UNCHANGED profilerVars
    BY <1>0, <2>1, <2>2, SoundKept
  <2>3. CASE ProfilingTask
    <3>1. UNCHANGED <<value, count, reported, late, unlocked>> /\ writing = NoMetric /\ writing' = 0
      BY <2>3 DEF ProfilingTask, StartWriting, metricVars
    <3>2. ~unlocked /\ 0 # NoMetric
      BY <1>0, <3>1 DEF NoMetric
    <3>3. QED
      BY <1>0, <2>1, <3>1, <3>2 DEF Reports, Sound, InGap
  <2>4. CASE WriteMetric
    <3>1. writing \in Metrics
      BY <2>4 DEF WriteMetric, TypeOK, ProfilerTypeOK
    <3>2. PICK w \in Metrics : w = writing
      BY <3>1
    <3>3. /\ \A m \in Metrics :
               reported'[m] = IF m = w THEN reported[m] \union value[m] ELSE reported[m]
          /\ ~unlocked /\ unlocked' /\ writing' = w /\ w # NoMetric
          /\ UNCHANGED <<value, count, late>>
      BY <2>4, <3>2 DEF WriteMetric, TypeOK, ProfilerTypeOK
    <3>4. QED
      BY <1>0, <2>1, <3>2, <3>3 DEF Reports, Sound, InGap
  <2>5. CASE ResetMetric
    <3>1. writing \in Metrics /\ unlocked
      BY <1>0, <2>5 DEF ResetMetric, NextMetric, TypeOK, ProfilerTypeOK
    <3>2. PICK w \in Metrics : w = writing
      BY <3>1
    <3>3. /\ \A m \in Metrics : value'[m] = IF m = w THEN {} ELSE value[m]
          /\ \A m \in Metrics : count'[m] = IF m = w THEN 0 ELSE count[m]
          /\ ~unlocked' /\ UNCHANGED <<reported, late>>
      BY <2>5, <3>2 DEF ResetMetric, NextMetric, TypeOK, ProfilerTypeOK
    <3>4. QED
      BY <1>0, <2>1, <3>1, <3>2, <3>3, FS_EmptySet DEF Reports, Sound, InGap
  <2>6. QED
    <3>1. CASE MainNext
      BY <1>5, <2>2, <2>4, <2>5, <3>1
         DEF MainNext, ReadBytes, ReadEnds, ReadFails, PushFails, StartEvictor, RunLoop, Profile,
             LeaveLoop, FreePool, Return
    <3>2. CASE EvictorEnds \/ UNCHANGED vars
      BY <2>2, <3>2 DEF EvictorEnds, vars
    <3>3. QED
      BY <1>5, <2>3, <3>1, <3>2 DEF Next
<1>6. QED
  BY <1>1, <1>2, <1>3, <1>4, <1>5 DEF Task

-----------------------------------------------------------------------------

\* The inductive invariant of the program around the cache.
THEOREM MainInvariant == Spec => []MainInv
<1>1. MainInv /\ [Next]_vars => MainInv'
  BY TypeStep, ReadStep, ServedStep, ShapeStep, SignalStep, ReportsStep DEF MainInv
<1>2. QED
  BY <1>1, MainInit, PTL DEF Spec

\* read_workload (zncache.c:224-250) accepts no short file, and the workload it
\* accepts is complete, every byte in its place, unless a read was put beyond the
\* end of the buffer; then the buffer has a gap as well.
THEOREM WorkloadRead == Spec => []WorkloadIntact
<1>1. MainInv => WorkloadIntact
  BY DEF MainInv, TypeOK, ReadSound, ReadAtOnce, ReadInParts, WorkloadIntact
<1>2. QED
  BY <1>1, MainInvariant, PTL

\* Every request below the index is answered or with one task: the index and
\* its lock (zncache.c:101-123) give no request twice and skip none.
THEOREM RequestsServedOnce == Spec => []WorkloadServed
<1>1. MainInv => WorkloadServed
  BY DEF MainInv
<1>2. QED
  BY <1>1, MainInvariant, PTL

\* When all tasks were counted, all of them came to the end of the workload.
LEMMA AllCounted ==
  ASSUME MainInv, nr_threads_completed = nr_threads
  PROVE  /\ answered = Requests
         /\ \A t \in Tasks : task[t] \in {"done", "unlock", "ended"}
<1>1. Counted = Tasks
  BY FiniteSets, FS_Subset DEF MainInv, SignalSound, Counted
<1>2. \A t \in Tasks : task[t] \in {"done", "unlock", "ended"}
  BY <1>1 DEF Counted
<1>3. 0 \in Tasks
  BY Constants DEF Tasks
<1>4. workload_index = workload_max
  BY <1>2, <1>3 DEF MainInv, TasksShaped
<1>5. \A t \in Tasks : request[t] = NoRequest
  BY <1>2 DEF MainInv, TasksShaped
<1>6. answered = Requests
  <2>1. \A r : r \in answered <=> r \in Requests
    BY <1>4, <1>5, ServedSame DEF MainInv, Served, Requests
  <2>2. QED
    BY <2>1
<1>7. QED
  BY <1>2, <1>6

\* The signal of the last task (zncache.c:184-190): neither main nor the
\* eviction thread stops before every request was answered.
THEOREM StopsInOrder == Spec => []StopsWhenServed
<1>1. MainInv => StopsWhenServed
  BY AllCounted DEF MainInv, SignalSound, StopsWhenServed
<1>2. QED
  BY <1>1, MainInvariant, PTL

\* main returns after its threads: g_thread_pool_free and g_thread_join wait
\* for all of them.
THEOREM MainIsLast == Spec => []NothingOutlivesMain
<1>1. MainInv => NothingOutlivesMain
  <2> SUFFICES ASSUME MainInv, main = "returned"
               PROVE  evictor = "ended" /\ \A t \in Tasks : task[t] = "ended"
    BY DEF NothingOutlivesMain
  <2>1. nr_threads_completed = nr_threads /\ evictor = "ended"
    BY DEF MainInv, SignalSound
  <2>2. QED
    BY <2>1, AllCounted DEF MainInv, TasksShaped
<1>2. QED
  BY <1>1, MainInvariant, PTL

\* znprofiler.c:92-113: a sample is in the file, in the sum, or was added
\* between the read and the reset of its metric.
THEOREM SamplesAccounted == Spec => []ReportsAddUp
<1>1. MainInv => ReportsAddUp
  BY DEF MainInv
<1>2. QED
  BY <1>1, MainInvariant, PTL

\* A sum is divided by the number of the samples in it.
THEOREM AveragesCorrect == Spec => []AverageConsistent
<1>1. MainInv => AverageConsistent
  BY DEF MainInv
<1>2. QED
  BY <1>1, MainInvariant, PTL
=============================================================================
