-------------------------------- MODULE Main --------------------------------
(***************************************************************************)
(* The program around the cache (src/src/zncache.c): main reads the        *)
(* workload, pushes one task per thread, starts the eviction thread and    *)
(* runs GLib's main loop, which writes the profile until the last task     *)
(* leaves it; then main waits for all threads and returns.  What a request *)
(* does inside the cache is ZNCache's; here it is answered or it fails.    *)
(*                                                                         *)
(* GLib's thread pool and main loop are external: a pushed task may start  *)
(* at once, g_main_loop_run sets the loop running and g_main_loop_quit     *)
(* stops it, in whatever order they are called.                            *)
(***************************************************************************)
EXTENDS Profiler, Sequences

CONSTANTS
  nr_threads,
  workload_max,   \* requests in the workload
  FileSizes,      \* possible sizes of the workload file, in bytes
  ReadSizes,      \* bound: the numbers of bytes a read may return
  Recorded        \* the metrics a task adds to after a request, in this order

Tasks == 0 .. nr_threads - 1
Requests == 0 .. workload_max - 1
Word == 4                                  \* sizeof(uint32_t)
workload_sz == workload_max * Word

ASSUME MainAssumption ==
  /\ {nr_threads, workload_max} \subseteq Nat \ {0}
  /\ FileSizes \subseteq Nat
  /\ ReadSizes \subseteq Nat \ {0}
  /\ Samples = Requests
  /\ Recorded \in Seq(Metrics) /\ Len(Recorded) = PROFILING_METRICS
  /\ Metrics = {Recorded[i] : i \in DOMAIN Recorded}

VARIABLES
  main,                   \* where main is
  file_size,
  total_bytes_read,
  workload_buffer,        \* byte -> which byte of the file it holds
  overrun,                \* history: a read was put beyond the end of the buffer
  timer,                  \* profiling_task was added to the main loop
  is_running,             \* of the main loop
  nr_threads_completed,
  done,
  evictor,
  workload_index,
  task,                   \* where each task is
  request,                \* the request a task is at
  recorded,               \* how many metrics it has added to
  answered                \* requests answered and recorded

readVars == <<file_size, total_bytes_read, workload_buffer, overrun>>
loopVars == <<is_running, nr_threads_completed, done>>
taskVars == <<workload_index, task, request, recorded, answered>>
vars == <<main, readVars, timer, loopVars, evictor, taskVars, profilerVars>>

NoRequest == -1
Unread == -1
Workload == [b \in 0 .. workload_sz - 1 |-> b]
Empty == [b \in DOMAIN Workload |-> Unread]

\* realtime is never set, so the timer is added or not (zncache.c:425).  The
\* built-in workload needs no reading and goes on like a file read at once.
Init ==
  /\ main = "read"
  /\ file_size \in FileSizes
  /\ workload_buffer = Empty
  /\ overrun = FALSE
  /\ total_bytes_read = 0
  /\ timer \in BOOLEAN
  /\ is_running = FALSE
  /\ nr_threads_completed = 0
  /\ done = FALSE
  /\ evictor = "none"
  /\ workload_index = 0
  /\ task = [t \in Tasks |-> "none"]
  /\ request = [t \in Tasks |-> NoRequest]
  /\ recorded = [t \in Tasks |-> 0]
  /\ answered = {}
  /\ InitProfiler

Goes(from, to) == main = from /\ main' = to

-----------------------------------------------------------------------------
(* read_workload                                                           *)

\* The buffer is of words and advances by bytes: what follows a short read is
\* put four times as far.  What is put beyond the end of the buffer may do any
\* harm or none, and none is noticed here.
ReadBytes(n) ==
  LET to == total_bytes_read * Word
      beyond == to + n > workload_sz
  IN
  /\ main = "read"
  /\ total_bytes_read + n <= workload_sz /\ total_bytes_read + n <= file_size
  /\ total_bytes_read' = total_bytes_read + n
  /\ workload_buffer' = [b \in DOMAIN Workload |->
                           IF b \in to .. to + n - 1
                           THEN total_bytes_read + (b - to)
                           ELSE workload_buffer[b]]
  /\ overrun' = (overrun \/ beyond)
  /\ \/ UNCHANGED main
     \/ beyond /\ main' = "undefined"
  /\ UNCHANGED <<file_size, timer, loopVars, evictor, taskVars, profilerVars>>

ReadEnds ==
  /\ total_bytes_read = workload_sz
  /\ Goes("read", "push")
  /\ UNCHANGED <<readVars, timer, loopVars, evictor, taskVars, profilerVars>>

\* Mutant: a file that is too short is taken for the whole workload.
ReadFails_Accepted ==
  /\ total_bytes_read < workload_sz
  /\ Goes("read", "push")
  /\ UNCHANGED <<readVars, timer, loopVars, evictor, taskVars, profilerVars>>

\* An error, or the end of a file that is too short.  An interrupted read is
\* tried again and changes nothing.
ReadFails ==
  /\ total_bytes_read < workload_sz
  /\ Goes("read", "error")
  /\ UNCHANGED <<readVars, timer, loopVars, evictor, taskVars, profilerVars>>

-----------------------------------------------------------------------------
(* main                                                                    *)

PushTask(t) ==
  /\ main = "push"
  /\ task[t] = "none" /\ \A u \in 0 .. t - 1 : task[u] # "none"
  /\ task' = [task EXCEPT ![t] = "loop"]
  /\ UNCHANGED <<main, readVars, timer, loopVars, evictor, profilerVars>>
  /\ UNCHANGED <<workload_index, request, recorded, answered>>

PushFails ==
  /\ \E t \in Tasks : task[t] = "none"
  /\ Goes("push", "error")
  /\ UNCHANGED <<readVars, timer, loopVars, evictor, taskVars, profilerVars>>

StartEvictor ==
  /\ \A t \in Tasks : task[t] # "none"
  /\ Goes("push", "run")
  /\ evictor' = "loop"
  /\ UNCHANGED <<readVars, timer, loopVars, taskVars, profilerVars>>

RunLoop ==
  /\ Goes("run", "loop")
  /\ is_running' = TRUE
  /\ UNCHANGED <<nr_threads_completed, done>>
  /\ UNCHANGED <<readVars, timer, evictor, taskVars, profilerVars>>

ProfilingTask ==
  /\ main = "loop" /\ is_running /\ timer
  /\ StartWriting
  /\ UNCHANGED <<main, readVars, timer, loopVars, evictor, taskVars>>

Profile ==
  /\ main = "loop"
  /\ WriteMetric \/ ResetMetric
  /\ UNCHANGED <<main, readVars, timer, loopVars, evictor, taskVars>>

LeaveLoop ==
  /\ Goes("loop", "wait") /\ ~is_running /\ writing = NoMetric
  /\ UNCHANGED <<readVars, timer, loopVars, evictor, taskVars, profilerVars>>

\* Mutant: g_thread_pool_free does not wait.
FreePool_NoWait ==
  /\ Goes("wait", "join")
  /\ UNCHANGED <<readVars, timer, loopVars, evictor, taskVars, profilerVars>>

FreePool ==
  /\ \A t \in Tasks : task[t] \in {"ended", "failed"}
  /\ Goes("wait", "join")
  /\ UNCHANGED <<readVars, timer, loopVars, evictor, taskVars, profilerVars>>

\* The eviction thread is joined, the profiler is freed, main's frame with the
\* cache, the counter, its lock and done goes away.
Return ==
  /\ evictor = "ended"
  /\ Goes("join", "returned")
  /\ UNCHANGED <<readVars, timer, loopVars, evictor, taskVars, profilerVars>>

-----------------------------------------------------------------------------
(* evict_task: a round changes nothing here, the thread ends on done.      *)

EvictorEnds ==
  /\ evictor = "loop" /\ done
  /\ evictor' = "ended"
  /\ UNCHANGED <<main, readVars, timer, loopVars, taskVars, profilerVars>>

-----------------------------------------------------------------------------
(* task_function                                                           *)

TaskGoes(t, from, to) == task[t] = from /\ task' = [task EXCEPT ![t] = to]

\* Mutant: the index may reach the end of the workload.
TakeRequest_Beyond(t) ==
  /\ TaskGoes(t, "loop", "get")
  /\ workload_index <= workload_max
  /\ request' = [request EXCEPT ![t] = workload_index]
  /\ workload_index' = workload_index + 1
  /\ UNCHANGED <<main, readVars, timer, loopVars, evictor, profilerVars>>
  /\ UNCHANGED <<recorded, answered>>

TakeRequest(t) ==
  /\ TaskGoes(t, "loop", "get")
  /\ workload_index < workload_max
  /\ request' = [request EXCEPT ![t] = workload_index]
  /\ workload_index' = workload_index + 1
  /\ UNCHANGED <<main, readVars, timer, loopVars, evictor, profilerVars>>
  /\ UNCHANGED <<recorded, answered>>

NoMoreRequests(t) ==
  /\ TaskGoes(t, "loop", "count")
  /\ workload_index >= workload_max
  /\ UNCHANGED <<main, readVars, timer, loopVars, evictor, profilerVars>>
  /\ UNCHANGED <<workload_index, request, recorded, answered>>

Answer(t) ==
  /\ TaskGoes(t, "get", "record")
  /\ UNCHANGED <<main, readVars, timer, loopVars, evictor, profilerVars>>
  /\ UNCHANGED <<workload_index, request, recorded, answered>>

\* Mutant: a task whose request fails is counted all the same.
GetFails_Counted(t) ==
  /\ TaskGoes(t, "get", "count")
  /\ UNCHANGED <<main, readVars, timer, loopVars, evictor, profilerVars>>
  /\ UNCHANGED <<workload_index, request, recorded, answered>>

\* zn_cache_get returned NULL: the task ends without being counted.
GetFails(t) ==
  /\ TaskGoes(t, "get", "failed")
  /\ UNCHANGED <<main, readVars, timer, loopVars, evictor, profilerVars>>
  /\ UNCHANGED <<workload_index, request, recorded, answered>>

Record(t) ==
  /\ task[t] = "record" /\ recorded[t] < Len(Recorded)
  /\ LET m == Recorded[recorded[t] + 1]
     IN \/ m \in Accumulated /\ UpdateMetric(m, request[t])
        \/ m \notin Accumulated /\ SetMetric(m, request[t])
  /\ recorded' = [recorded EXCEPT ![t] = @ + 1]
  /\ UNCHANGED <<main, readVars, timer, loopVars, evictor>>
  /\ UNCHANGED <<workload_index, task, request, answered>>

NextRequest(t) ==
  /\ TaskGoes(t, "record", "loop") /\ recorded[t] = Len(Recorded)
  /\ recorded' = [recorded EXCEPT ![t] = 0]
  /\ request' = [request EXCEPT ![t] = NoRequest]
  /\ answered' = answered \union {request[t]}
  /\ UNCHANGED <<main, readVars, timer, loopVars, evictor, profilerVars, workload_index>>

\* The last task stops the main loop, and holds thread_counter_lock until it
\* has set done; nobody else is left who would want the lock.
CountTask(t) ==
  LET last == nr_threads_completed + 1 = nr_threads
  IN
  /\ TaskGoes(t, "count", IF last THEN "done" ELSE "ended")
  /\ nr_threads_completed' = nr_threads_completed + 1
  /\ is_running' = (is_running /\ ~last)
  /\ UNCHANGED <<main, readVars, timer, done, evictor, profilerVars>>
  /\ UNCHANGED <<workload_index, request, recorded, answered>>

\* Mutant: done is left alone.
SetDone_Never(t) ==
  /\ TaskGoes(t, "done", "unlock")
  /\ UNCHANGED <<main, readVars, timer, loopVars, evictor, profilerVars>>
  /\ UNCHANGED <<workload_index, request, recorded, answered>>

SetDone(t) ==
  /\ TaskGoes(t, "done", "unlock")
  /\ done' = TRUE
  /\ UNCHANGED <<main, readVars, timer, is_running, nr_threads_completed, evictor>>
  /\ UNCHANGED <<workload_index, request, recorded, answered, profilerVars>>

Unlock(t) ==
  /\ TaskGoes(t, "unlock", "ended")
  /\ UNCHANGED <<main, readVars, timer, loopVars, evictor, profilerVars>>
  /\ UNCHANGED <<workload_index, request, recorded, answered>>

-----------------------------------------------------------------------------

MainNext ==
  \/ \E n \in ReadSizes : ReadBytes(n)
  \/ ReadEnds \/ ReadFails
  \/ \E t \in Tasks : PushTask(t)
  \/ PushFails \/ StartEvictor \/ RunLoop
  \/ Profile \/ LeaveLoop \/ FreePool \/ Return

Task(t) ==
  \/ TakeRequest(t) \/ NoMoreRequests(t)
  \/ Answer(t) \/ GetFails(t) \/ Record(t) \/ NextRequest(t)
  \/ CountTask(t) \/ SetDone(t) \/ Unlock(t)

\* Once main has failed, or was harmed by a write beyond its buffer, nothing is
\* said.
Next ==
  /\ main \notin {"error", "undefined"}
  /\ \/ MainNext
     \/ ProfilingTask
     \/ EvictorEnds
     \/ \E t \in Tasks : Task(t)

Spec == Init /\ [][Next]_vars

\* Every thread is scheduled; when the timer fires is not promised.
FairSpec ==
  /\ Spec
  /\ WF_vars(MainNext)
  /\ WF_vars(EvictorEnds)
  /\ \A t \in Tasks : WF_vars(Task(t))

-----------------------------------------------------------------------------

\* Types of the variables.
TypeOK ==
  /\ main \in {"read", "push", "run", "loop", "wait", "join", "returned", "error", "undefined"}
  /\ total_bytes_read \in 0 .. workload_sz /\ overrun \in BOOLEAN
  /\ is_running \in BOOLEAN /\ done \in BOOLEAN
  /\ nr_threads_completed \in 0 .. nr_threads
  /\ evictor \in {"none", "loop", "ended"}
  /\ workload_index \in 0 .. workload_max
  /\ task \in [Tasks -> {"none", "loop", "get", "record", "failed", "count", "done",
                         "unlock", "ended"}]
  /\ request \in [Tasks -> Requests \union {NoRequest}]
  /\ recorded \in [Tasks -> 0 .. Len(Recorded)]
  /\ answered \subseteq Requests
  /\ ProfilerTypeOK

\* A workload that read_workload accepts (zncache.c:250) is the file's, every
\* byte at its place, or it was read in parts, and then both at once: bytes of
\* the buffer were never filled, and others were written beyond its end.  There
\* is no third case, such as a short file taken for a whole one, or parts that
\* fit.
WorkloadIntact ==
  main \notin {"read", "error", "undefined"} =>
    /\ total_bytes_read = workload_sz
    /\ ~overrun => workload_buffer = Workload
    /\ overrun => \E b \in DOMAIN Workload : workload_buffer[b] = Unread

At(t) == {request[t]} \ {NoRequest}

\* Each request up to the index is with one task or answered, never both and
\* never with two; none beyond the end of the buffer is read.
WorkloadServed ==
  /\ answered \union UNION {At(t) : t \in Tasks} = 0 .. workload_index - 1
  /\ workload_index <= workload_max
  /\ \A t \in Tasks : At(t) \intersect answered = {}
  /\ \A t, u \in Tasks : t # u => At(t) \intersect At(u) = {}

\* Neither main nor the eviction thread stops while a request is open: the
\* last task gives the signal, and only when every request was answered.
StopsWhenServed ==
  (done \/ evictor = "ended" \/ main \in {"wait", "join", "returned"}) =>
    /\ answered = Requests
    /\ \A t \in Tasks : task[t] \in {"done", "unlock", "ended"}

\* When main frees the profiler and leaves its frame, no thread is left that
\* uses the profiler, the cache, the counter's lock or done.
NothingOutlivesMain ==
  main = "returned" => evictor = "ended" /\ \A t \in Tasks : task[t] = "ended"

Gave(t, m) == \E i \in 1 .. recorded[t] : Recorded[i] = m
Given(m) == answered \union UNION {At(t) : t \in {u \in Tasks : Gave(u, m)}}

\* A sample a task added to a sum is in the file, in the sum, or was added
\* between the read and the reset of the metric: nothing else is lost, and
\* what was reported is not in the sum when it is reported again.
ReportsAddUp ==
  \A m \in Accumulated :
    /\ Given(m) = reported[m] \union value[m] \union late[m]
    /\ InGap(m) \/ value[m] \intersect reported[m] = {}

\* The file is read at once, or in parts: then the byte after the first part
\* stays as it was, for every other one is put further on, and the last one
\* beyond the end.
ReadAtOnce == ~overrun /\ workload_buffer = Workload
ReadInParts == \E b \in DOMAIN Workload : b \in 1 .. total_bytes_read /\ workload_buffer[b] = Unread

ReadSound ==
  CASE main = "read" ->
         \/ total_bytes_read = 0 /\ ~overrun /\ workload_buffer = Empty
         \/ total_bytes_read = workload_sz /\ ReadAtOnce
         \/ ReadInParts /\ (total_bytes_read = workload_sz => overrun)
    [] main \in {"error", "undefined"} -> TRUE
    [] OTHER -> total_bytes_read = workload_sz /\ (ReadAtOnce \/ (overrun /\ ReadInParts))

\* Where the tasks are while main is somewhere, and what they are at.
TasksShaped ==
  /\ main = "read" => \A t \in Tasks : task[t] = "none"
  /\ main \in {"run", "loop", "wait", "join", "returned"} => \A t \in Tasks : task[t] # "none"
  /\ main \in {"join", "returned"} => \A t \in Tasks : task[t] \in {"ended", "failed"}
  /\ \A t \in Tasks :
       /\ request[t] # NoRequest <=> task[t] \in {"get", "record", "failed"}
       /\ recorded[t] > 0 => task[t] = "record"
       /\ task[t] \in {"count", "done", "unlock", "ended"} => workload_index = workload_max

Counted == {t \in Tasks : task[t] \in {"done", "unlock", "ended"}}

\* The signal of the last task, and who has seen it.
SignalSound ==
  /\ nr_threads_completed = Cardinality(Counted)
  /\ \A t \in Tasks : task[t] \in {"done", "unlock"} => nr_threads_completed = nr_threads
  /\ done => nr_threads_completed = nr_threads
  /\ evictor = "ended" => done
  /\ \/ main \notin {"loop", "wait", "join", "returned"}
     \/ main = "loop" /\ is_running
     \/ nr_threads_completed = nr_threads
  /\ main = "returned" => evictor = "ended"

\* While a metric is read and not yet reset, all its value is in the file or
\* was added since.
GapSound ==
  /\ unlocked => writing # NoMetric
  /\ \A m \in Accumulated : InGap(m) => value[m] \subseteq reported[m] \union late[m]

\* The inductive invariant.
MainInv ==
  /\ TypeOK
  /\ ReadSound
  /\ WorkloadServed
  /\ TasksShaped
  /\ SignalSound
  /\ ReportsAddUp
  /\ GapSound
  /\ AverageConsistent

Failed == \E t \in Tasks : task[t] = "failed"
QuitLost == main \in {"push", "run"} /\ nr_threads_completed = nr_threads

\* main ends, unless a request failed, or all tasks were through before main
\* ran its loop (g_main_loop_quit came before g_main_loop_run).
Returns ==
  \/ <>(main \in {"returned", "error", "undefined"})
  \/ <>Failed
  \/ <>QuitLost
=============================================================================
