# ZNWorkload: a verification project

TLA+ models, TLC runs and TLAPS proofs for `zncache` (`src/src`, `src/include`), a
multi-threaded cache that keeps fixed-size chunks on a zoned (ZNS) or conventional SSD.
Worker tasks serve the requests of a workload: a hit reads a chunk from the device, a miss
writes one; a zone that is full is eventually evicted as a whole, by an eviction thread or
by a worker that finds no room.

## 1. The system

| Part | Source | State it keeps | Operations |
| --- | --- | --- | --- |
| Zone state manager | `zone_state_manager.c` | state and write position of each zone, queues of active and free zones, a queue of invalid chunks per zone, `writes_occurring`; one mutex | get an active zone, return it, return it after a failed write, evict, mark a chunk invalid, counts |
| Cache map | `cachemap.c` | id -> location or condition variable, per zone chunk -> id, reader counts; one mutex | find, insert, fail, clear zone, clear chunk |
| Cache | `cache.c` | the parts above, the policy, the device | `zn_cache_get`, `zn_fg_evict`, read, write, initialise, destroy |
| Promotional policy | `eviction/promotional.c` | LRU queue of full zones, zone -> queue node; one mutex | update (write, read), choose a zone |
| Chunk policy | `eviction/chunk.c` | LRU of chunks, zone pool, min-heap of zones by chunks in use | update, evict, garbage collection |
| Min-heap | `minheap.c` | array of entries that know their index | insert, extract, update by entry |
| Tasks and `main` | `zncache.c` | request index, count of completed tasks, `done`, GLib main loop | `task_function`, `evict_task`, `main`, `read_workload` |
| Profiler | `znprofiler.c` | value and count per metric; one mutex | update, set, write all and reset |
| Utilities | `znutil.c`, headers | none | printing, buffers, time |

`zn_cache_get` calls, in this order and **each under its own mutex**: `zn_cachemap_find`;
on a hit the device read, the policy's update and an atomic decrement of the zone's reader
count; on a miss `zsm_get_active_zone` (repeatedly, with `zn_fg_evict` when it answers
EVICT), the device write, `zsm_return_active_zone`, the policy's update and
`zn_cachemap_insert`. `zn_fg_evict` takes a victim from the policy, clears it in the map,
polls the reader count until it is zero, and resets the zone. Nothing holds two of these
mutexes, so the hard behaviour is what happens *between* the calls. With the chunk policy
`zn_fg_evict` is one call, `zn_policy_chunk_evict`, which keeps `policy_mutex` while it takes
the zone state manager's and the map's for a moment each, and the device for longer.

What makes each part correct:

- zone state manager: a zone has one writer at a time, is in one queue or held, is filled in
  order, and is reset only when it is full; no more zones are open than the device allows;
- cache map: one writer per id, nobody sleeps on a condition nobody will signal, a
  condition variable is freed exactly once, the reverse index agrees with the map;
- policy: exactly the full zones, in order of last use;
- cache: a mapped id is on the device where the map says; a zone is not reset under its
  readers; no assertion fails; every request is answered;
- min-heap: every entry knows its slot, and what is extracted has the lowest priority, whatever
  was inserted, extracted and updated before;
- chunk policy: its LRU queue, its zone pool, its heap, the zone states and the map tell one
  story; a collected zone holds nothing in use and is read by nobody;
- `main`: no short file is taken for a whole workload, every request is served once, nothing
  stops before the last one and nothing outlives `main`, and `main` returns;
- profiler: an average divides a sum by its own count; a sample is reported once or is lost only
  between the read and the reset of its metric.

The behaviours that are hard to test are listed, each at its line, under `hazards` in
`PROJECT.json`.

## 2. The modules

| Module | Models | Notes |
| --- | --- | --- |
| `ZoneLifecycle` | what the zone state manager promises | abstract: how many chunks of a zone are written, which zones are open, who holds which chunk |
| `ZoneStateManager` | `zone_state_manager.c` | one operator per function, then the most general client |
| `ZoneStateManager_proofs` | | invariants, action properties and the refinement, proved |
| `CacheMap` | `cachemap.c` | one operator per function, then the most general client |
| `LruQueue` | moving a node of a GLib queue to its tail | used by both policies |
| `PromotionalPolicy` | `promotional.c` | one operator per function, then the most general client |
| `CacheMap_proofs` | | invariants, reader counts and the refinement, proved |
| `PromotionalPolicy_proofs` | | its invariants, proved |
| `Minheap_proofs` | | its invariant and the refinement, proved |
| `ZNCache_proofs` | | the cache's invariants, and that it uses its components as specified, proved; lemmas for `ChunkCache_proofs` |
| `LruQueue_proofs` | | lemmas on pushing, popping and moving, for both policies |
| `ChunkCache_proofs` | | the invariants of the cache with the chunk policy, and that it uses the map as specified, proved |
| `Main_proofs` | | the invariants of `Main` and `Profiler`, proved |
| `SingleFlight` | what the cache map promises | abstract: an id is nowhere, coming or somewhere; one thread brings it in, others wait or use it |
| `PriorityQueue` | what the min-heap promises | abstract: a set of entries, extract one of the lowest priority, change a priority |
| `Minheap` | `minheap.c` | the functions up to their loop, one step per turn of `bubble_up` and `bubble_down` |
| `ZNCache` | `cache.c`, the loops of `task_function` and `evict_task` | composes the three components, with the promotional policy |
| `ChunkPolicy` | the data of `chunk.c` | LRU queue, zone pool, heap as a `PriorityQueue`; one operator per change |
| `ChunkCache` | `zn_policy_chunk_evict`, `zn_policy_chunk_gc`, and `cache.c` over them | extends `ZNCache`: same reads and writes, another `zn_fg_evict` |
| `Profiler` | `znprofiler.c` | update, set, and the reads and resets of `zn_profiler_write_all_and_reset` as separate steps |
| `Main` | `main`, `read_workload`, `task_function`, `evict_task`, `profiling_task` in `zncache.c` | extends `Profiler`; a request is answered or fails, the cache is `ZNCache`'s |
| `MC*` | | constants, symmetry and fault sets for TLC |

A component module has two halves. The first defines the operations over the component's
own variables: `ReturnActiveZone(pair)` is `zsm_return_active_zone`, with its assertions as
guards. The second half closes them with the *most general client*: any thread may call
anything it is entitled to at any moment. `Minheap` has one caller at a time:
its mutex is held through a loop, so `bubbling` stands for it. `ZNCache` instantiates the
component modules, calls the same operators from its own actions, and is checked to behave
like that client (`UsesZoneManager`, `UsesCacheMap`, below). `ChunkCache` reuses `ZNCache`'s
actions for everything that does not depend on the policy.

**Steps.** A function that runs under one mutex is one step. Where a mutex is given up the
function is cut: one step per turn of `zn_cachemap_find`'s loop (`g_cond_wait` releases the
mutex), and a step of its own for `return *lookup`, which copies the entry after the mutex
was released. In `ZNCache` the device read and write, the poll of the reader count and every
call are steps of their own; `pc[t]` names what thread `t` does next. A thread that yields
and asks again (RETRY, the spin on readers, the eviction thread's sleep) takes no step.
Eviction and garbage collection with the chunk policy hold `policy_mutex` over many calls:
`holder` is the thread that has it, the others go on until they need it. In `Main` the main
loop, a task's turn (take a request, answer, one step per metric, count, set `done`, unlock)
and each turn of `read_workload`'s loop are steps; the thread pool and the main loop of GLib
are external and modelled from their use.

**State.** Variables carry the fields' names. The zone's state, offset and invalid queue are
functions of the zone; GLib queues are sequences; hash tables are functions with an absent
value. A data id is a model value; the content of a chunk on `disk` is the id whose data it
holds (the first four bytes `zn_gen_write_buffer` writes and `zn_validate_read` compares).
`zone_to_lru_map` is the set of zones with a node. `rc` is the reference count of a condition
variable; at most one per thread is alive, so they are numbered by threads.
In `Minheap`, `arr` is defined below `size` only (nothing is
read beyond it, and reading it would be an error of the model); an entry is an address, which
`malloc` may return again after `free`. In `ChunkPolicy` the pool's entries are the set
`in_use` and the counter `chunks_in_use`, `pqueue_entry` the zones whose pointer was ever set (before that its value is whatever `g_new` found:
the model takes it for NULL or for a crash, `InvalidateCrashes`). In `Profiler` a sample is the
request that gave it and a sum the set of its samples. In `Main` the workload buffer maps a
byte to the byte of the file it holds, and `overrun` says that a read was put beyond its end. `WideIds`
are the ids of 2^31 and above (any number of the ids may be). `todo` is `EVICT_LOW_THRESH_ZONES - free_zones - i`
modulo `UInt` (2^32 in the code).

**Failures.** `Faults` names the device operations that may fail, each call on its own:
`open`, `finish`, `reset` (zone commands, ZNS only), `write`, `read`. A failed write may come
after some of its 4 KiB blocks: on a ZNS device the zone's write pointer then stands inside
the chunk (`torn`) and no later write of that chunk can succeed until the zone is reset. A
failed `assert` sets `aborted`, or `map_aborted` in `zn_cachemap_clear_zone` called by `zn_fg_evict`;
reading a freed entry may set `undefined`; after any of them nothing is said of the program. A write
beyond the workload buffer may harm the program (`main = "undefined"`) or not, and then `main` goes on.

**History variables.** `filled`, `lent`, `marked`, `role`, `arg`, `loc` belong to the clients.
`last_use` in `PromotionalPolicy` and `overtaken`, `late`, `misled` in `ZNCache` only record
what happened: `late` is the set of ids that were inserted, or displaced from the reverse
index, by a writer whose zone was cleared before it called `zn_cachemap_insert`. In
`ChunkCache`, `stale` are chunks that entered the policy after their zone was reset, `exposed`
readers whose zone garbage collection reset. `reported` and `late` in `Profiler` are the samples
in the file and those added between the read and the reset of their metric.

Operators whose comment begins with "Mutant" are not used by the specification. Each is a
plausible mistake in the operator it is named after, and a property that is checked fails
when it takes that operator's place (`mutants` in `PROJECT.json`).

## 3. The runs

| Run | Instance | What it shows |
| --- | --- | --- |
| `zsm` | 5 zones of 3 chunks, 2 active, 3 threads, no faults | no zone lost, the device's limit kept, no assertion fails, chunks handed out in order |
| `zsm_faults` | 3 zones of 2 chunks, 2 active, 3 threads, every command may fail, one invalid mark per zone | the inductive invariant of the proofs (one writer per zone, exact counters and queues), refinement of `ZoneLifecycle` |
| `cachemap` | 3 threads, 2 ids, 2 zones of 1 chunk | the inductive invariant of the proofs (single flight, no lost wakeup, exact reference counts, backed reverse index), exact reader counts, stable copies, sleepers wake, refinement of `SingleFlight` |
| `policy` | 3 zones of 2 chunks, 7 updates, late ones among them | the queue is the full zones in LRU order |
| `minheap` | 6 entries, 3 priorities | the inductive invariant of the proofs (entries know their slots, heap order but for the slot being moved), refinement of `PriorityQueue` |
| `zncache` | 2 workers and the eviction thread, 2 zones of 2 chunks, 2 active, 3 ids one of which is wide, 6 requests; write, read, open and reset may fail | the inductive invariant of the proofs; mapping, reader protection, assertions, victims; the components are used as specified |
| `zncache_live` | 2 workers, 2 zones of 1 chunk, 3 ids, 4 requests, no faults | all threads come to their end |
| `chunk` | as `zncache` with the chunk policy, 5 ids, 5 requests, eviction when one chunk or none is free, until three are, writes and resets may fail | the policy's parts, the zone states and the map agree; the inductive invariant of the proofs; where assertions can fail; readers are protected but from garbage collection; the map is used as specified |
| `main` | 2 tasks, 3 requests, a file of 12 bytes and one too short, reads of 2, 10 or 12 bytes, a sum and a value that is set | the inductive invariant of the proofs; what workload is accepted, each request served once, orderly end, reports add up, `main` returns |
| `cachemap_freed` | violation | `NoFreedEntryRead` |
| `zncache_verify` | violation | `ReadValidates`: an overtaken insert, then a hit |
| `chunk_gc` | violation | `Migrates`: garbage collection cannot update the mapping of a chunk it moved |

**Bounds.** Two active zones and a third and fourth to open are needed for the active queue to
empty, refill and reach the limit while other zones are full or free; three threads for one to
retry while two hold the limit. For the map, three threads are a writer and two that wait (or
a waiter and the next writer), and two ids share a zone's place. In the cache, an overtaken
insert needs a zone of two chunks, two workers and the eviction thread; a stale read after it
one more request; a second eviction of the zone two more. Thresholds are scaled to the instance (HIGH 0, LOW
1; the code has 2 and 4) and `UInt` is 8 instead of 2^32: it only has to exceed the
thresholds and the number of zones. `MaxQueries` is the workload's length, `MaxUses` and
`MaxInvalid` bound the policy's clock and the invalid queues. Symmetry in threads and ids is
used for the runs without liveness, and in entries for `minheap`; no operator chooses among them.
With the chunk policy, four ids fill both zones and a fifth makes a worker evict; five requests
let every action of the eviction and of garbage collection happen, among them a garbage collection
that meets a live chunk, one that finds no active zone, one that finds the heap empty and one whose reset is
refused. The cache with the promotional policy has one wide id among its three; the runs without it (`cachemap`,
`zncache_live`, `chunk` and the violations) have none. `main` needs two tasks for one to be the last and one not, three requests
for a task to serve two, two metrics for the table to be half written. Reads of 12
bytes at once, of 10 and 2 and of 2 and 10 end at, before and across the end of the buffer.
Six entries fill the heap's second level and half of its third, so that `bubble_down` meets nodes
with two children, one and none; three priorities give a tie, a lower and a higher one.

**Deadlock** is checked in `zsm`, `cachemap`, `zncache_live`, `zncache_verify` and `minheap`.
It is off where the program may stop: `policy` (the clock's bound), `zsm_faults` (all zones lost,
or the program aborted), `zncache`, `chunk` and `chunk_gc` (a task whose request failed ends
without being counted and the eviction thread then runs on; the program aborted), `main` (the
program returns, or hangs in the ways `Returns` names).

**Fairness.** `CacheMap!FairSpec`: a writer's call ends, by insert or fail; no fairness for the
sleepers is needed, because the broadcast that ends the wait is the writer's step.
`ZNCache!FairSpec`: each worker and the eviction thread, weakly fair: they are kernel threads
that never block outside of the mutexes and condition variables modelled. Spinning threads
take no step, so that weak fairness does not assume that a spin succeeds.
`Main!FairSpec`: `main`, the eviction thread and each task are threads the scheduler runs; that
the profiling timer ever fires is not assumed, since `realtime` (`zncache.c:425`) may be zero.

## 4. Findings

With a run that shows them:

| Where | What | Run |
| --- | --- | --- |
| `cache.c:129-133` | the chunk is given back before it is published: an eviction in between leaves an id mapped to an empty or foreign chunk, against the assumption at `cache.c:33-34` | `zncache_verify` |
| `cachemap.c:64-65` | the entry is copied after the mutex is released | `cachemap_freed` |
| `chunk.c:123` | garbage collection cannot update the mapping of a chunk it moved: `zn_cachemap_insert` asserts a pending write, and the id passed is the 0 of `zone_state_manager.c:218-221`; a collected zone with a live chunk always ends the program | `chunk_gc` |

`MappingSound` and `ReadersProtected` delimit the first: for every id that is *not* in `late`
and every reader that did not follow such an entry, the cache is right, so the overtaken
insert is the only way to a wrong answer, by proof (section 5): they excuse the hazard and delimit it,
the violation run shows it. `ReadersProtected` needs counters
that do not start below zero; both cover behaviours in which a freed entry is copied while
its bytes are still there.

Facts met while modelling, which the passing runs include and step around by name:

- `cache.c:20`: the `uint32_t` difference wraps when two rounds freed more than the low
  threshold, and the round then evicts until no zone is left to evict (`todo` modulo `UInt`).
- `cache.c:165`: the reader counters come from `malloc`. A positive one makes the spin at
  `cache.c:29` endless, a negative one lets it pass under readers; `ReaderCountExact` is
  therefore stated relative to the initial value.
- `zone_state_manager.c:254-260`: a failed finish leaves a zone open, uncounted and queued for
  eviction, so that the device may have more zones open than allowed (`DeviceLimitRespected` assumes
  that no finish fails). `zone_state_manager.c:280-287`: the test is inverted; a failed reset ends
  in an assertion, a good one leaves the invalid queue as it was.
- `chunk.c:144`: the free zones are counted again after a writer may have taken the zone just
  reset; the heap may then be empty, and `chunk.c:91` dereferences NULL (`PickNothing`), or a
  zone with live chunks is collected.
- `chunk.c:105`: a live chunk needs an active zone at the moment none is free; any answer but
  success fails the assertion at `chunk.c:107` (`MoveFails`).
- `chunk.c:36`: a writer delayed between `zsm_return_active_zone` and its policy update enters a
  chunk of a zone that was collected meanwhile (`overtaken`, `stale`), and the assertion fails when it
  is entered twice. `cachemap.c:144-148` fails when a chunk is evicted before its writer has inserted
  it: the policy hears of a chunk one call earlier than the map. `zone_state_manager.c:285`, called
  from `chunk.c:143`, fails when the device refuses the reset. `ChunkAssertionsHold` states each of these
  at its step, and that nothing else fails an assertion there; `InUseMapped` says why: the chunks
  in use and the one being evicted are those that are mapped or that one writer is about to map.
- Garbage collection does not wait for readers (`chunk.c:141-143`): `exposed` are those whose zone it reset,
  and `ChunkReadersProtected` excuses them and no others. `pqueue_entry` is used before it is
  set (`eviction_policy.c:93`).
- `architecture.md:23` has every update refresh the heap. The code refreshes it for a zone that is full
  already only on eviction (`chunk.c:189`), so that a writer who comes after its zone entered the heap raises
  `chunks_in_use` and not the priority. `ChunkPolicySound` therefore says that a priority is at most the
  number of chunks in use; garbage collection may then choose a zone that holds more than another.
- `zone_state_manager.c:286` never clears the invalid queue (the inverted test at 280). What `InvalidRecorded`
  says of a zone is thus of weight until its first reuse only; afterwards every chunk
  once dropped is still recorded.
- `cachemap.c:140` and `172` read the reverse index through an `int`: an id of 2^31 or above is
  sign-extended by `GINT_TO_POINTER`, not found again, and the assertion at `cachemap.c:144` or `173` fails
  when its chunk or zone is cleared. The model takes the conversion for what it does (`ReadBack`);
  `AssertionsHold` and `ChunkAssertionsHold` name it. Reads and writes of such an id work.
- With one chunk per zone and LOW_CHUNKS minus LOW above HIGH_CHUNKS, workers are told to
  evict and eviction finds enough free chunks, for ever; the instance keeps to thresholds without it.
- `zncache.c:230`: the buffer is a `uint32_t *` and advances by a count of bytes. After a short
  read the next part lands four times as far on, and the last part always beyond the end of the
  buffer. When that write does no harm, `read_workload` still ends with as many bytes as were
  asked for, returns 0 (`zncache.c:245-250`), and `main` goes on with a workload in which bytes were
  never filled, against the comment at `zncache.c:216-217` ("Read an exact workload amount", "Buffer to
  populate"). `WorkloadIntact` says exactly that: an accepted workload was read at once and is
  the file's, or it has such a gap and a write beyond its end, both together; a short file is never accepted.
- `zncache.c:143`: a task whose request fails is not counted, and the program never ends.
  `zncache.c:456`: the main loop is run after the tasks were started; tasks that are through before
  lose their `g_main_loop_quit`, and the program never ends. `Returns` names both as the only ways
  not to return: it documents them and does not catch them.
- `zncache.c:425` reads `realtime`, which nothing sets. An error while pushing a task returns from `main`
  with tasks still running (`main = "error"` ends the model).
- `znprofiler.c:91`: a sample added between the read and the reset of its metric is lost
  (`late`); samples after the last tick are never written, since closing only flushes.

## 5. What is proved

`ZoneStateManager_proofs`, for any number of zones, chunks per zone, active zones and
(finitely many) threads, and any set of failing commands:

- `Invariance`: `ZSMInv` is an invariant. It is inductive: types, `HeldZoneStable` (a held zone
  is in the state and at the offset its holder was told, and has one holder), `WritesCounted`,
  `ActiveLimit`, `QueuesSound` (queues without repetition, members in the queue's state) and
  `ZonesTracked`. None of the parts is inductive alone: that a zone popped from a queue is held
  by nobody needs the queue to agree with the states, that the limit holds when a zone comes
  back needs the counter to be the number of holders, and that an evicted zone is nowhere else
  needs to know where a full zone is, also after a command failed.
- From it, `TypeCorrect`, `WritersExclusive`, `LimitRespected`, `QueuesCorrect`; with
  assumptions on which commands fail, `NothingLost` (open, finish), `NoAbort` (finish, reset)
  and `DeviceLimitRespected` (finish; the open zones are the image of the active queue and the
  holders, so there are at most as many as the manager counts).
- `ResetsOnlyFull`, `FillsSequentially`: action properties, from the invariant and a case
  split on the actions.
- `Refinement`: the manager implements `ZoneLifecycle`, under the mapping `fill` = all chunks
  for a full zone and the offset otherwise, `open` = queued or held zones. It needs no
  assumption on faults: a zone that would not open or finish leaves `open` in the abstract
  specification too.

`CacheMap_proofs`, for any number of zones and chunks, finitely many threads, any set of ids
(finite or not) and any initial reader counts:

- `MapInvariant`: `MapInv` is an invariant, and inductive: types, `ThreadsShaped` (only a thread
  in `zn_cachemap_find` refers to a condition variable), `SingleWriter`, `NoLostWakeup`,
  `RefCountExact`, `ReverseIndexBacked`, `CopyStable`. The parts need each other: that a miss
  finds a free condition variable (`FreeCond`) is a pigeonhole argument over threads, which
  needs exact reference counts and one writer per entry; that an eviction never takes
  the entry a writer will come back to needs the reverse index; that a sleeper stays on a live
  write when a write ends needs its entry to name the condition variable it sleeps on. Two lemmas carry the cases:
  `EndWriteKeeps` for insert and fail, `EvictKeeps` for the clearing of zones and chunks.
- From it, `OneWriter` (the assertions of `zn_cachemap_insert` and `zn_cachemap_fail`),
  `NobodyForgotten` (no lost wakeup) and `HitsAreStable`.
- `ReadersCounted`: a zone's counter minus its initial value is the number of threads between
  their hit and their decrement. The initial value is existentially bound and stays the same;
  only a hit and a decrement change either side, by one (`HitCounts`, `ReleaseCounts`).
- `MapRefines`: the map implements `SingleFlight`. An entry with a condition variable is an id
  that is coming; reader and copying thread use the id they were told; wakeups, copies and
  reads of freed memory are stutters.

`PromotionalPolicy_proofs`, for any number of zones and chunks and any number of updates:

- `PolicyInvariant`: `PolicyInv`, inductive, is `QueueIsFullZones` and `LeastRecentlyUsedFirst`
  with `UsesPast`: no zone was used after the clock, so the zone an update puts at the tail is used
  later than every zone before it. A read moves the slots of the queue (`ToTail`, in `LruQueue_proofs`): `Old`
  says where each slot comes from, and that it is injective (`OldInjective`) and keeps the order of all but the
  last slot (`OldMonotone`) is what keeps each zone queued once and the queue sorted.
- From it, `FullZonesQueued` and `VictimIsOldest`.

`Minheap_proofs`, for any finite set of entries and any set of priorities:

- `HeapInvariant`: `HeapInv` is an invariant, and inductive: types, `IndexExact`, `AtInHeap` (a loop
  is at a slot of the heap) and `HeapOrdered`, one disjunct of which excuses the slot a loop is
  working on. Its second half, that the children of that slot are no lower than its parent, is what
  makes one swap repair one level and disturb no other. `SwapKeeps` serves both loops, `SmallestIs`
  says what `bubble_down`'s two comparisons choose, also when priorities are equal; `RoomLeft`, that the array
  never needs more slots than there are entries, is a pigeonhole argument.
- `HeapRefines`: the heap implements `PriorityQueue`. That the root has the lowest priority
  (`RootLowest`) follows from the order of parents and children by the least slot that would refute it.

`ZNCache_proofs`, for any number of zones, chunks, (finitely many) threads and requests, any ids,
thresholds and failing device operations:

- `ZoneManagerUsed`, `CacheMapUsed`: each step of the cache is, for the manager and for the map, one
  that their most general client may take, or none. The theorems about the components therefore hold
  of the cache; `CacheInvariant` is built on their inductive invariants.
- `CacheInvariant`: `CacheInv` is an invariant, and inductive over those of the components: the
  types; `StepsShaped` (what each program counter says of the thread's query, zone, chunk and role in the map);
  `RoundsGoOn` (a round that is not over has something left to evict);
  `OnePlace` (a zone is claimed by one thing: the policy's queue, a writer, an eviction
  at one of its stages); `DataPlaced` (where the data of a mapped id, of a write under way, and of an
  eviction's zone is on the device).
- From it, `MappedDataSound`: a mapped id that is not in `late` is on the device where the map
  says. The case that carries it is the writer who comes back with a chunk: its zone may have been filled by
  others and evicted in between, and then, and only then, its id is in `late`.
- `CountedReadersHeld`: `ReadersProtected`, for initial reader counters that are not negative, by `CacheInv`,
  `ReaderCountExact` and `ReadersHeld` (what a reader found stays on the device) together. With
  `ReaderCountExact` a poll that sees zero sees no reader; a reader that comes later is in `misled`.
- `FullZonesAccounted` and `NoAssertionFails`, when finish commands do not fail; the fact about
  `zone_state_manager.c:254-260` in section 4 is why they must not. `NoAssertionFails` lists the assertions
  with what may fail them: `zone_state_manager.c:285` a refused reset, `cachemap.c:173-176` a wide id.
  Beside `CacheInv` it needs `StopsNamed`, that a thread which was stopped still stands where
  and why it was. `CacheNeverStopped` follows: with neither of the two, no assertion ever stops the program.

`Main_proofs`, for any number of tasks, requests and metrics, any file and any sizes `read` returns:

- `MainInvariant`: `MainInv` is an invariant, and inductive: types, `ReadSound` (after a first short read
  the byte after it is passed over for good, every later part being put further on, and the last part
  ends beyond the buffer: `ReadInParts`),
  `TasksShaped`, `SignalSound` (the count is the number of tasks that counted themselves, and the
  signal is given by the task that found the count complete), `GapSound` (a sample that is being added is in one
  place), and the properties below.
- From it, `WorkloadRead`, `RequestsServedOnce`, `StopsInOrder`, `MainIsLast`, `SamplesAccounted` and
  `AveragesCorrect`.

The proofs use the named assumptions on the constants (`ZSMAssumption`, `CacheMapAssumption`,
`PolicyAssumption`, `ZNCacheAssumption`, `ChunkCacheAssumption`, `MinheapAssumption`, `ProfilerAssumption`, `MainAssumption`),
which TLC evaluates on every run, and besides them only what the theorems state: initial
reader counters that are not negative, and commands that do not fail.

`ChunkCache_proofs`, for any number of zones, chunks, (finitely many) threads and requests, any ids,
thresholds (within `ChunkCacheAssumption`) and failing device operations:

- `ChunkPolicyInvariant`: `ChunkPolicyInv` is an invariant, and inductive: who is inside
  `zn_policy_chunk_evict` and has `policy_mutex`, at which steps a thread has a location to
  tell the policy, and that queue, node map, pool, counters and heap agree. That a counter never leaves
  0 .. `max_zone_chunks`, and with it a priority, needs it to be the number of the zone's chunks in use
  (`LiveBound`). From it, `ChunkTypes` and `ChunkPolicyAgrees`.
- `ChunkInvariant`: `ChunkInv` is an invariant. It is `ChunkPolicyInv` with what relates the policy to the
  manager, the map, the device and the threads: `EvictionShaped` (what the thread inside
  `zn_policy_chunk_evict` holds at each step, and that the queue still has the chunks it wants),
  `ZonesQueued` (the zone of a last chunk in use is in the heap or being collected), `UseSound` (a written chunk is in
  use, was invalidated, or is about to enter the policy), `InUseMapped`, `ChunkReadersHeld`, and from `ZNCache`
  `StepsShaped`, `OnePlace`, `DataPlaced`. That a zone that is reset has nothing in use needs the counters to be exact;
  that a chunk which left the queue is still mapped when `zn_cachemap_clear_chunk` runs, after the
  manager's mutex was taken and given back, needs `policy_mutex` to keep every other eviction out, and
  `OnePlace` and `UseSound` to know that no writer is about to enter the same chunk.
- The steps `ChunkCache` takes over from `ZNCache` are not proved twice: the lemmas of `ZNCache_proofs`
  are stated over the manager's invariant alone, and `ChunkCache` has it as `ZC`, an instance in
  which garbage collection is a client that may hold an active zone (`ChunkLent`) and in which the zones in
  the heap count as filled (`ZonesSound`). `Evicts` is what every step inside `zn_policy_chunk_evict` has in
  common, and the lemmas about it carry what such a step cannot disturb.
- `CacheMapUsedByChunks`: each step of the cache with the chunk policy is one the map allows its clients, or none.
- `UsedIsMapped`: `InUseMapped`, which `ChunkInv` has as a part. Its steps go through `PairsMapped`, what
  each step does to the pairs that are mapped or about to be (`MappedForm`): a writer moves from the policy's
  call to the map's, an insert turns it into an entry, `Invalidate` moves a chunk from `in_use`
  to `Dropping`, and `zn_cachemap_clear_chunk` takes it from both. That clearing a collected zone finds nothing
  mapped is its corollary.
- From the invariant, `DroppedIsInvalid`, `ChunkReadersSafe`, and, when finish
  commands do not fail, `FullZonesInQueue` and `NoChunkAssertionFails`: the named ways to a failing assertion
  (a writer that was late, a chunk evicted before it is mapped or with a wide id, free zones that were taken
  before they were counted again, a move that finds no zone or cannot copy, a refused reset) are the only
  ones. `StopsWhereCrashes` says that a stopped program has a thread at one of these steps, and at the last only
  when resets may fail.

Only model-checked, because they are out of the prover's reach: `SleepersWake`, `Terminates` and
`Returns` (liveness under fairness). Every other property of a passing run is stated by a theorem.

## 6. What is not modelled

- What would follow the assertion at which the migration of a live chunk always ends
  (`chunk.c:126-139`), and chunk eviction with thresholds too large for the device.
  `ChunkCacheAssumption` asks for more than that the thresholds fit: LOW_CHUNKS is at most the number of
  chunks (so that an eviction never wants more than there are, `chunk.c:173`), HIGH_CHUNKS is below LOW_CHUNKS
  and LOW_CHUNKS below `UInt`, and HIGH_CHUNKS plus LOW is at most the number of zones (so that garbage
  collection, when it starts, finds a zone in the heap). The defaults (6, 12 chunks and 2, 4 zones,
  `eviction_policy.h:13-17`) meet it on a device of ten zones and twelve chunks; on a smaller one, or with other
  thresholds, `chunk.c:90` and `179` may follow NULL.
- Option parsing, device discovery and set-up, debug printing, random buffers, timing, the hit
  ratio counters, `zn_evict_policy_get_cache_size` (it reads a queue's length without its mutex;
  the number goes to the profile only), formatting of the profile and
  the prints of `ZN_PROFILER_PRINT_EVERY`.
- `zn_destroy_cache`, `zn_minheap_destroy` and the freeing of the profiler run after all threads were
  joined (`NothingOutlivesMain`). `eviction/zone.c` and
  `zsm_get_active_zone_batch` are stubs.
- Memory is sequentially consistent in the model. The plain read of a reader count at
  `cache.c:29` races with atomic updates; on the platforms the program runs on it sees some past
  value; a stale positive value only delays the evictor, and a count can only grow after the
  clearing through an overtaken entry. `done` is a plain `bool` the eviction thread reads without a lock.
- In `ZNCache` the end of the last task and `done` are one step; `Main` takes them apart.
- `Main` takes the cache for granted: that a request is answered or fails is `zncache_live`'s to show.
- Data id 0. It is an ordinary id to the map; it is also what the id of a zone pool's pair is left at by the
  initialiser at `zone_state_manager.c:218-221`, and so what garbage collection inserts (`chunk.c:123`). The
  ids of the model are the others, so that this insert always fails its assertion. Were a request for id 0 under
  way, the insert would pass, answer the waiters with the moved chunk, and the assertion of the id's own writer would fail
  in its turn.

## 7. Plan

1. `ChunkCache` as a refinement of an abstract cache that both policies implement: an id is nowhere, coming or at a
   place that holds its data, and eviction removes ids. `UsesCacheMap` gives the map's half of it for both.
2. `Main` over `ZNCache`, if an instance small enough to check shows more than the two do apart.
