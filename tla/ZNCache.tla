------------------------------ MODULE ZNCache ------------------------------
(***************************************************************************)
(* The cache with the promotional policy: zn_cache_get and zn_fg_evict     *)
(* (src/src/cache.c), run by the worker tasks and the eviction thread of   *)
(* src/src/zncache.c over the zone state manager, the cache map, the       *)
(* policy and the device.                                                  *)
(*                                                                         *)
(* A step is one critical section of one thread, or one access made        *)
(* outside of any lock.  The three components are instantiated below, and  *)
(* each action here calls their operations; a value of pc names what the   *)
(* thread is about to do.                                                  *)
(***************************************************************************)
EXTENDS Integers, FiniteSets, Sequences, Functions

CONSTANTS
  Workers,
  Evictor,
  DataIds,
  WideIds,             \* the ids of 2^31 and above
  NumZones, max_zone_chunks, max_nr_active_zones,
  HIGH, LOW,           \* EVICT_HIGH_THRESH_ZONES, EVICT_LOW_THRESH_ZONES
  UInt,                \* 2^32: the modulus of uint32_t
  MaxQueries,          \* workload_max
  ZNS,                 \* backend is ZE_BACKEND_ZNS
  Faults,              \* device operations that may fail
  InitialReaders,
  NoId, NoCond, NoPair, NoZone

Threads == Workers \union {Evictor}
Zones == 0 .. NumZones - 1
Chunks == 0 .. max_zone_chunks - 1
Pairs == [zone : Zones, chunk_offset : Chunks]
ZoneCommands == {"open", "finish", "reset"}

ASSUME ZNCacheAssumption ==
  /\ IsFiniteSet(Workers) /\ Evictor \notin Workers
  /\ WideIds \subseteq DataIds
  /\ {NumZones, max_zone_chunks, max_nr_active_zones} \subseteq Nat \ {0}
  /\ HIGH \in Nat /\ LOW \in Nat /\ HIGH < LOW
  /\ UInt \in Nat /\ UInt > LOW /\ UInt > NumZones
  /\ MaxQueries \in Nat
  /\ ZNS \in BOOLEAN
  /\ Faults \subseteq ZoneCommands \union {"write", "read"}
  /\ ~ZNS => Faults \intersect ZoneCommands = {}
  /\ InitialReaders \subseteq Int
  /\ NoZone \notin Zones /\ NoPair \notin Pairs /\ NoId \notin DataIds
  /\ NoCond \notin 1 .. Cardinality(Workers)

VARIABLES
  state, chunk_offset, invalid, active, free, writes_occurring,   \* zone state manager
  zone_map, data_map, active_readers, rc, cond, asleep,           \* cache map
  lru_queue, zone_to_lru_map,                                     \* policy
  disk,            \* zone -> chunk -> id whose data the device holds, or NoId
  torn,            \* zones whose write pointer stands inside a chunk
  workload_index,
  pc,
  data_id,         \* thread -> id of the request it serves
  location,        \* thread -> location it reads or writes
  todo,            \* thread -> zones its eviction round has still to evict
  victim,          \* thread -> zone it evicts
  failed,          \* workers whose zn_cache_get will return NULL
  dangling,        \* threads whose "lookup" points to a freed entry
  aborted,         \* an assert() has failed, but for one of the cache map's
  map_aborted,     \* an assert() of the cache map has failed
  undefined,       \* a freed entry was read and its bytes were gone
  overtaken,       \* history: writers whose zone was cleared under them
  late,            \* history: ids an overtaken writer mapped, or displaced
  misled           \* history: readers that found the mapping of a late id

zsmVars == <<state, chunk_offset, invalid, active, free, writes_occurring>>
mapVars == <<zone_map, data_map, active_readers, rc, cond, asleep>>
policyVars == <<lru_queue, zone_to_lru_map>>
deviceVars == <<disk, torn>>
evictVars == <<todo, victim>>
historyVars == <<overtaken, late, misled>>
crashVars == <<aborted, map_aborted, undefined>>
vars == <<zsmVars, mapVars, policyVars, deviceVars, workload_index, pc, data_id, location,
          evictVars, failed, dangling, crashVars, historyVars>>

-----------------------------------------------------------------------------
(* The components, and how the state of a thread looks to each of them.    *)
(* The steps named gc, gc_... and ...chunk are ChunkCache's.               *)

Writing == {"write", "return", "undo_zone"}
Evicting == {"fg_clear", "fg_spin", "fg_reset", "gc_move", "gc_copy", "gc_insert"}

LastChunk(pair) == pair.chunk_offset = max_zone_chunks - 1

\* The writers that are about to hand a full zone to the policy.
Filling == {w \in Workers : pc[w] = "policy" /\ LastChunk(location[w])}

Lent == [w \in Workers |-> IF pc[w] \in Writing THEN location[w] ELSE NoPair]
Filled ==
  Range(lru_queue)
    \union {location[w].zone : w \in Filling}
    \union {victim[t] : t \in {u \in Threads : pc[u] \in Evicting}}

RoleAt(step) ==
  CASE step = "wait" -> "find"
    [] step = "copy" -> "copy"
    [] step \in {"read", "touch", "dec"} -> "reader"
    [] step \in {"idle", "find", "stopped", "finished"} -> "idle"
    [] OTHER -> "writer"

Role == [w \in Workers |-> RoleAt(pc[w])]
Arg == [w \in Workers |-> IF Role[w] = "idle" THEN NoId ELSE data_id[w]]
Loc == [w \in Workers |-> IF Role[w] \in {"copy", "reader"} THEN location[w] ELSE NoPair]

Z == INSTANCE ZoneStateManager WITH
       Threads <- Workers, Faults <- Faults \intersect ZoneCommands, MaxInvalid <- 0,
       lent <- Lent, filled <- Filled, marked <- {}

M == INSTANCE CacheMap WITH
       Threads <- Workers, role <- Role, arg <- Arg, loc <- Loc

P == INSTANCE PromotionalPolicy WITH
       MaxUses <- 0, full <- {}, uses <- 0, last_use <- [z \in Zones |-> 0]

Init ==
  /\ Z!InitZSM
  /\ M!InitMap
  /\ P!InitPolicy
  /\ disk = [z \in Zones |-> [c \in Chunks |-> NoId]]
  /\ torn = {}
  /\ workload_index = 0
  /\ pc = [t \in Threads |-> IF t = Evictor THEN "evict_task" ELSE "idle"]
  /\ data_id = [w \in Workers |-> NoId]
  /\ location = [w \in Workers |-> NoPair]
  /\ todo = [t \in Threads |-> 0]
  /\ victim = [t \in Threads |-> NoZone]
  /\ failed = {}
  /\ dangling = {}
  /\ aborted = FALSE
  /\ map_aborted = FALSE
  /\ undefined = FALSE
  /\ overtaken = {}
  /\ late = {}
  /\ misled = {}

Goto(t, from, to) == pc[t] = from /\ pc' = [pc EXCEPT ![t] = to]

-----------------------------------------------------------------------------
(* task_function: take the next request of the workload, or end.           *)

TakeQuery(w) ==
  /\ workload_index < MaxQueries
  /\ Goto(w, "idle", "find")
  /\ workload_index' = workload_index + 1
  /\ \E id \in DataIds : data_id' = [data_id EXCEPT ![w] = id]
  /\ UNCHANGED <<zsmVars, mapVars, policyVars, deviceVars, location, evictVars, failed, dangling,
                 crashVars, historyVars>>

EndTask(w) ==
  /\ workload_index >= MaxQueries
  /\ Goto(w, "idle", "finished")
  /\ UNCHANGED <<zsmVars, mapVars, policyVars, deviceVars, workload_index, data_id, location,
                 evictVars, failed, dangling, crashVars, historyVars>>

\* zn_cache_get returns: the task goes on with the next request, or, when the
\* answer was NULL, returns without being counted as completed.
LeaveGet(w, from, null) ==
  /\ Goto(w, from, IF null THEN "stopped" ELSE "idle")
  /\ data_id' = [data_id EXCEPT ![w] = NoId]
  /\ location' = [location EXCEPT ![w] = NoPair]

-----------------------------------------------------------------------------
(* zn_cache_get, a hit.                                                    *)

Find(w) ==
  /\ pc[w] \in {"find", "wait"} /\ w \notin asleep
  /\ \/ \E pair \in Pairs :
          /\ M!FindHit(w, data_id[w], pair)
          /\ Goto(w, pc[w], "copy")
          /\ location' = [location EXCEPT ![w] = pair]
          /\ misled' = misled \union {v \in {w} : data_id[v] \in late}
     \/ /\ M!FindSleep(w, data_id[w])
        /\ Goto(w, pc[w], "wait")
        /\ UNCHANGED <<location, misled>>
     \/ /\ M!FindMiss(w, data_id[w])
        /\ Goto(w, pc[w], "zone")
        /\ UNCHANGED <<location, misled>>
  /\ UNCHANGED <<zsmVars, policyVars, deviceVars, workload_index, data_id, evictVars, failed,
                 dangling, crashVars, overtaken, late>>

SpuriousWakeup(w) ==
  /\ M!SpuriousWakeup(w)
  /\ UNCHANGED <<zsmVars, policyVars, deviceVars, workload_index, pc, data_id, location, evictVars,
                 failed, dangling, crashVars, historyVars>>

\* "return *lookup", with the mutex released: when the entry was freed in
\* between, its bytes may or may not still be there.
Copy(w) ==
  /\ Goto(w, "copy", "read")
  /\ dangling' = dangling \ {w}
  /\ UNCHANGED <<zsmVars, mapVars, policyVars, deviceVars, workload_index, data_id, location,
                 evictVars, failed, crashVars, historyVars>>

CopyGarbage(w) ==
  /\ pc[w] = "copy" /\ w \in dangling
  /\ undefined' = TRUE
  /\ UNCHANGED <<zsmVars, mapVars, policyVars, deviceVars, workload_index, pc, data_id, location,
                 evictVars, failed, dangling, aborted, map_aborted, historyVars>>

\* zn_read_from_disk; a failed read yields NULL, and the hit goes on.
Read(w) ==
  /\ Goto(w, "read", "touch")
  /\ failed' \in {failed} \union {failed \union {v} : v \in {w} \intersect
                                    IF "read" \in Faults THEN Workers ELSE {}}
  /\ UNCHANGED <<zsmVars, mapVars, policyVars, deviceVars, workload_index, data_id, location,
                 evictVars, dangling, crashVars, historyVars>>

Touch(w) ==
  /\ Goto(w, "touch", "dec")
  /\ P!UpdateRead(location[w])
  /\ UNCHANGED <<zsmVars, mapVars, deviceVars, workload_index, data_id, location, evictVars,
                 failed, dangling, crashVars, historyVars>>

\* Mutant: the reader count is not decremented.
DecReaders_Leak(w) ==
  /\ LeaveGet(w, "dec", w \in failed)
  /\ failed' = failed \ {w}
  /\ misled' = misled \ {w}
  /\ UNCHANGED <<zsmVars, mapVars, policyVars, deviceVars, workload_index, evictVars, dangling,
                 crashVars, overtaken, late>>

DecReaders(w) ==
  /\ LeaveGet(w, "dec", w \in failed)
  /\ M!ReaderDone(location[w].zone)
  /\ failed' = failed \ {w}
  /\ misled' = misled \ {w}
  /\ UNCHANGED <<zsmVars, policyVars, deviceVars, workload_index, evictVars, dangling, crashVars,
                 overtaken, late>>

-----------------------------------------------------------------------------
(* zn_cache_get, a miss.                                                   *)

\* A thread that is told to retry yields and asks again: no step.
GetActiveZone(w) ==
  /\ \/ \E pair \in Pairs :
          /\ Z!ReuseActiveZone(pair) \/ Z!OpenFreeZone(pair)
          /\ Goto(w, "zone", "write")
          /\ location' = [location EXCEPT ![w] = pair]
     \/ /\ Z!OpenFails
        /\ Goto(w, "zone", "undo_map")
        /\ UNCHANGED location
     \/ /\ Z!MustEvict
        /\ Goto(w, "zone", "fg_start")
        /\ UNCHANGED <<zsmVars, location>>
  /\ UNCHANGED <<mapVars, policyVars, deviceVars, workload_index, data_id, evictVars, failed,
                 dangling, crashVars, historyVars>>

Write(w) ==
  /\ Goto(w, "write", "return")
  /\ location[w].zone \notin torn
  /\ disk' = [disk EXCEPT ![location[w].zone][location[w].chunk_offset] = data_id[w]]
  /\ UNCHANGED <<zsmVars, mapVars, policyVars, torn, workload_index, data_id, location, evictVars,
                 failed, dangling, crashVars, historyVars>>

\* Mutant: a failed write passes for a good one.
WriteFails_Ignored(w) ==
  /\ Goto(w, "write", "return")
  /\ "write" \in Faults \/ location[w].zone \in torn
  /\ disk' = [disk EXCEPT ![location[w].zone][location[w].chunk_offset] = NoId]
  /\ UNCHANGED <<zsmVars, mapVars, policyVars, torn, workload_index, data_id, location, evictVars,
                 failed, dangling, crashVars, historyVars>>

\* zn_write_out writes a chunk block by block: a failure may come after some
\* of them.  A sequential zone takes no write that does not start at its write
\* pointer, so the chunk cannot be written again until the zone is reset.
WriteFails(w) ==
  /\ Goto(w, "write", "undo_zone")
  /\ "write" \in Faults \/ location[w].zone \in torn
  /\ torn' \in {torn} \union {torn \union {z} : z \in {location[w].zone} \intersect
                                IF ZNS THEN Zones ELSE {}}
  /\ disk' = [disk EXCEPT ![location[w].zone][location[w].chunk_offset] = NoId]
  /\ UNCHANGED <<zsmVars, mapVars, policyVars, workload_index, data_id, location, evictVars,
                 failed, dangling, crashVars, historyVars>>

\* Mutant: the zone is not given back.
ReturnActiveZone_Keeps(w) ==
  /\ Goto(w, "return", "policy")
  /\ UNCHANGED <<zsmVars, mapVars, policyVars, deviceVars, workload_index, data_id, location,
                 evictVars, failed, dangling, crashVars, historyVars>>

ReturnActiveZone(w) ==
  /\ Goto(w, "return", "policy")
  /\ Z!ReturnActiveZone(location[w])
  /\ UNCHANGED <<mapVars, policyVars, deviceVars, workload_index, data_id, location, evictVars,
                 failed, dangling, crashVars, historyVars>>

UpdatePolicy(w) ==
  /\ Goto(w, "policy", "insert")
  /\ P!UpdateWrite(location[w])
  /\ UNCHANGED <<zsmVars, mapVars, deviceVars, workload_index, data_id, location, evictVars,
                 failed, dangling, crashVars, historyVars>>

Insert(w) ==
  /\ LeaveGet(w, "insert", FALSE)
  /\ M!Insert(data_id[w], location[w])
  /\ overtaken' = overtaken \ {w}
  /\ late' = IF w \in overtaken
             THEN late \union {data_id[w]}
                       \union {id \in DataIds : zone_map[id] = M!Located(location[w])}
             ELSE late
  /\ UNCHANGED <<zsmVars, policyVars, deviceVars, workload_index, evictVars, failed, dangling,
                 crashVars, misled>>

UndoZoneGet(w) ==
  /\ Goto(w, "undo_zone", "undo_map")
  /\ Z!FailedToWrite(location[w])
  /\ location' = [location EXCEPT ![w] = NoPair]
  /\ UNCHANGED <<mapVars, policyVars, deviceVars, workload_index, data_id, evictVars, failed,
                 dangling, crashVars, historyVars>>

\* Mutant: the entry of the id stays marked as being written.
UndoMap_Keeps(w) ==
  /\ LeaveGet(w, "undo_map", TRUE)
  /\ UNCHANGED <<zsmVars, mapVars, policyVars, deviceVars, workload_index, evictVars, failed,
                 dangling, crashVars, historyVars>>

UndoMap(w) ==
  /\ LeaveGet(w, "undo_map", TRUE)
  /\ M!Fail(data_id[w])
  /\ UNCHANGED <<zsmVars, policyVars, deviceVars, workload_index, evictVars, failed, dangling,
                 crashVars, historyVars>>

-----------------------------------------------------------------------------
(* zn_fg_evict, run by the eviction thread and by a worker that was told   *)
(* to evict.  The number of zones to evict is computed once, from the      *)
(* number of free zones at that moment, in unsigned arithmetic.            *)

NumFree == Len(free)
Back(t) == IF t = Evictor THEN "evict_task" ELSE "zone"

\* Mutant: the round begins although it has nothing to evict.
StartEviction_Unasked(t) ==
  /\ Goto(t, "fg_start", "fg_loop")
  /\ todo' = [todo EXCEPT ![t] = (LOW - NumFree) % UInt]
  /\ UNCHANGED <<zsmVars, mapVars, policyVars, deviceVars, workload_index, data_id, location,
                 victim, failed, dangling, crashVars, historyVars>>

StartEviction(t) ==
  /\ Goto(t, "fg_start", IF NumFree = LOW THEN Back(t) ELSE "fg_loop")
  /\ todo' = [todo EXCEPT ![t] = (LOW - NumFree) % UInt]
  /\ UNCHANGED <<zsmVars, mapVars, policyVars, deviceVars, workload_index, data_id, location,
                 victim, failed, dangling, crashVars, historyVars>>

\* do_evict answers -1 when the policy has no zone.
PickVictim(t) ==
  /\ \/ \E z \in Zones :
          /\ P!GetZoneToEvict(z)
          /\ Goto(t, "fg_loop", "fg_clear")
          /\ victim' = [victim EXCEPT ![t] = z]
          /\ UNCHANGED todo
     \/ /\ lru_queue = <<>>
        /\ Goto(t, "fg_loop", Back(t))
        /\ todo' = [todo EXCEPT ![t] = 0]
        /\ UNCHANGED <<policyVars, victim>>
  /\ UNCHANGED <<zsmVars, mapVars, deviceVars, workload_index, data_id, location, failed,
                 dangling, crashVars, historyVars>>

ClearZone(t) ==
  /\ Goto(t, "fg_clear", "fg_spin")
  /\ M!ClearZone(victim[t])
  /\ dangling' = dangling \union
       {w \in Workers : pc[w] = "copy" /\ data_id[w] \in M!IdsIn(victim[t])}
  /\ overtaken' = overtaken \union
       {w \in Workers : pc[w] \in {"return", "policy", "insert"} /\ location[w].zone = victim[t]}
  /\ late' = late \ M!IdsIn(victim[t])
  /\ UNCHANGED <<zsmVars, policyVars, deviceVars, workload_index, data_id, location, evictVars,
                 failed, crashVars, misled>>

\* The assertions at cachemap.c:173-176.
ClearZoneAborts(t) ==
  /\ pc[t] = "fg_clear"
  /\ ~M!ClearZoneAsserts(victim[t])
  /\ map_aborted' = TRUE
  /\ UNCHANGED <<zsmVars, mapVars, policyVars, deviceVars, workload_index, pc, data_id, location,
                 evictVars, failed, dangling, aborted, undefined, historyVars>>

\* Mutant: the readers are not waited for.
ReadersGone_NoWait(t) ==
  /\ Goto(t, "fg_spin", "fg_reset")
  /\ UNCHANGED <<zsmVars, mapVars, policyVars, deviceVars, workload_index, data_id, location,
                 evictVars, failed, dangling, crashVars, historyVars>>

\* A thread that sees readers yields and looks again: no step.
ReadersGone(t) ==
  /\ Goto(t, "fg_spin", "fg_reset")
  /\ active_readers[victim[t]] <= 0
  /\ UNCHANGED <<zsmVars, mapVars, policyVars, deviceVars, workload_index, data_id, location,
                 evictVars, failed, dangling, crashVars, historyVars>>

\* A conventional device keeps the bytes of a zone that is reset.
ResetZone(t) ==
  /\ Goto(t, "fg_reset", IF todo[t] = 1 THEN Back(t) ELSE "fg_loop")
  /\ Z!Evict(victim[t])
  /\ disk' = IF ZNS THEN [disk EXCEPT ![victim[t]] = [c \in Chunks |-> NoId]] ELSE disk
  /\ torn' = torn \ {victim[t]}
  /\ todo' = [todo EXCEPT ![t] = @ - 1]
  /\ victim' = [victim EXCEPT ![t] = NoZone]
  /\ UNCHANGED <<mapVars, policyVars, workload_index, data_id, location, failed, dangling,
                 crashVars, historyVars>>

ResetAborts(t) ==
  /\ pc[t] = "fg_reset"
  /\ Z!EvictAborts(victim[t])
  /\ aborted' = TRUE
  /\ UNCHANGED <<zsmVars, mapVars, policyVars, deviceVars, workload_index, pc, data_id, location,
                 evictVars, failed, dangling, map_aborted, undefined, historyVars>>

-----------------------------------------------------------------------------
(* evict_task: the eviction thread's loop.  While there are free zones     *)
(* enough it sleeps and looks again, which is no step; it ends when all    *)
(* the tasks have been counted as completed.                               *)

Done == \A w \in Workers : pc[w] = "finished"

CheckDone ==
  /\ Goto(Evictor, "evict_task", IF Done THEN "ended" ELSE "free_check")
  /\ UNCHANGED <<zsmVars, mapVars, policyVars, deviceVars, workload_index, data_id, location,
                 evictVars, failed, dangling, crashVars, historyVars>>

CheckFree ==
  /\ NumFree > HIGH => Done
  /\ Goto(Evictor, "free_check", IF NumFree > HIGH THEN "evict_task" ELSE "fg_start")
  /\ UNCHANGED <<zsmVars, mapVars, policyVars, deviceVars, workload_index, data_id, location,
                 evictVars, failed, dangling, crashVars, historyVars>>

-----------------------------------------------------------------------------

Evict(t) ==
  \/ StartEviction(t) \/ PickVictim(t) \/ ClearZone(t) \/ ClearZoneAborts(t)
  \/ ReadersGone(t) \/ ResetZone(t) \/ ResetAborts(t)

Worker(w) ==
  \/ TakeQuery(w) \/ EndTask(w) \/ Find(w)
  \/ Copy(w) \/ CopyGarbage(w) \/ Read(w) \/ Touch(w) \/ DecReaders(w)
  \/ GetActiveZone(w) \/ Write(w) \/ WriteFails(w) \/ ReturnActiveZone(w)
  \/ UpdatePolicy(w) \/ Insert(w) \/ UndoZoneGet(w) \/ UndoMap(w)

Evictions == CheckDone \/ CheckFree \/ Evict(Evictor)

Running == ~aborted /\ ~map_aborted /\ ~undefined

\* Every thread has come to its end, or the program has.
Terminated ==
  /\ \/ ~Running
     \/ \A t \in Threads : pc[t] \in {"finished", "ended"}
  /\ UNCHANGED vars

Next ==
  \/ Running /\ \E w \in Workers : Worker(w) \/ Evict(w) \/ SpuriousWakeup(w)
  \/ Running /\ Evictions
  \/ Terminated

Spec == Init /\ [][Next]_vars

\* The operating system runs every thread that can run.
FairSpec ==
  /\ Spec
  /\ \A w \in Workers : WF_vars(Running /\ (Worker(w) \/ Evict(w)))
  /\ WF_vars(Running /\ Evictions)

-----------------------------------------------------------------------------
(* Correctness.                                                            *)

WorkerSteps ==
  {"idle", "find", "wait", "copy", "read", "touch", "dec", "zone", "write", "return", "policy",
   "insert", "undo_zone", "undo_map", "stopped", "finished"}
EvictSteps == {"fg_start", "fg_loop", "chunk", "clear_chunk", "gc", "gc_more"} \union Evicting
EvictorSteps == {"evict_task", "free_check", "ended"}

\* Types of the variables this module adds to those of the components.
TypeOK ==
  /\ disk \in [Zones -> [Chunks -> DataIds \union {NoId}]]
  /\ torn \subseteq Zones
  /\ workload_index \in 0 .. MaxQueries
  /\ pc \in [Threads -> WorkerSteps \union EvictSteps \union EvictorSteps]
  /\ \A t \in Threads : IF t = Evictor THEN pc[t] \notin WorkerSteps ELSE pc[t] \notin EvictorSteps
  /\ data_id \in [Workers -> DataIds \union {NoId}]
  /\ location \in [Workers -> Pairs \union {NoPair}]
  /\ todo \in [Threads -> 0 .. UInt - 1]
  /\ victim \in [Threads -> Zones \union {NoZone}]
  /\ failed \subseteq Workers /\ dangling \subseteq Workers
  /\ {aborted, map_aborted, undefined} \subseteq BOOLEAN
  /\ overtaken \subseteq Workers /\ misled \subseteq Workers /\ late \subseteq DataIds

\* The component specifications, with their most general clients, describe
\* everything the cache does with the components: no thread writes without a
\* zone lent to it, evicts a zone twice, publishes an id it is not the writer
\* of, or drops a reader it did not count.
UsesZoneManager == Z!Spec
UsesCacheMap == M!Spec

\* A mapped id is on the device at the place it is mapped to, whatever writes,
\* evictions and retries went on, unless its writer was overtaken by an
\* eviction of the zone between zsm_return_active_zone and zn_cachemap_insert
\* (cache.c:129-133).
MappingSound ==
  \A id \in DataIds \ late, pair \in Pairs :
    zone_map[id] = M!Located(pair) => disk[pair.zone][pair.chunk_offset] = id

\* Until a reader counted by zn_cachemap_find is done, its zone is not reset:
\* what it reads is the id it asked for (the spin at cache.c:29-31).
ReadersProtected ==
  \A w \in Workers \ misled :
    pc[w] \in {"copy", "read"} => disk[location[w].zone][location[w].chunk_offset] = data_id[w]

\* A zone with a wide id in it cannot be cleared.
MeetsWideId(t) == pc[t] = "fg_clear" /\ M!IdsIn(victim[t]) \intersect WideIds # {}

\* The assertions of the components hold at the moment they are evaluated,
\* zone_state_manager.c:248-249, 277, 299-301, cachemap.c:112-115, 173-176 and
\* 192-194, but for two: clearing a zone fails on an id of 2^31 or above and on
\* nothing else, and evicting one (zone_state_manager.c:285) fails only when the
\* device refuses the reset.  No thread is stopped for another reason.
AssertionsHold ==
  /\ \A t \in Threads :
       /\ pc[t] = "fg_clear" => M!ClearZoneAsserts(victim[t]) \/ MeetsWideId(t)
       /\ pc[t] = "fg_reset" => state[victim[t]] = "FULL"
  /\ aborted => "reset" \in Faults /\ \E t \in Threads : pc[t] = "fg_reset"
  /\ map_aborted => \E t \in Threads : MeetsWideId(t)
  /\ \A w \in Workers :
       /\ pc[w] \in {"return", "undo_zone"} => Z!WriterAsserts(location[w])
       /\ pc[w] \in {"insert", "undo_map"} => M!WriterAsserts(data_id[w])

\* The policy and the zone state manager agree: the zones that can be evicted
\* are exactly the full ones, each known to one queue, one writer or one
\* eviction round.  Two rounds never work on the same zone, and the policy
\* does not know a zone being evicted, so that no reader can move it back.
FullZonesKnown ==
  /\ \A z \in Zones : state[z] = "FULL" <=> z \in Filled
  /\ P!NodesExact
  /\ \A t, u \in Threads : victim[t] = victim[u] /\ victim[t] # NoZone => t = u
  /\ \A t \in Threads : victim[t] \notin zone_to_lru_map

\* What a thread holds at each of its steps.
StepsShaped ==
  /\ \A w \in Workers :
       /\ data_id[w] = NoId <=> pc[w] \in {"idle", "stopped", "finished"}
       /\ location[w] # NoPair <=>
            pc[w] \in Writing \union {"policy", "insert", "copy", "read", "touch", "dec"}
  /\ \A t \in Threads : victim[t] # NoZone <=> pc[t] \in Evicting

\* A round has something left to evict until it ends.
RoundsGoOn ==
  \A t \in Threads : pc[t] \in {"fg_loop", "fg_clear", "fg_spin", "fg_reset"} => todo[t] > 0

\* A full zone is on its way to the policy, in its queue, or on its way out,
\* and in one place only.
OnePlace ==
  /\ lru_queue \in Seq(Zones)
  /\ P!NodesExact
  /\ \A t, u \in Threads : victim[t] = victim[u] /\ victim[t] # NoZone => t = u
  /\ \A t \in Threads : victim[t] \notin zone_to_lru_map
  /\ \A w, v \in Filling : location[w].zone = location[v].zone => w = v
  /\ \A w \in Filling :
       /\ location[w].zone \notin zone_to_lru_map
       /\ \A t \in Threads : victim[t] # location[w].zone

\* The chunk was written and its zone not reset since.
Written(pair) == state[pair.zone] = "FULL" \/ pair.chunk_offset < chunk_offset[pair.zone]

Holds(pair, id) == Written(pair) /\ disk[pair.zone][pair.chunk_offset] = id

\* The writers that gave their chunk back and have not published it; a zone
\* that was cleared for its reset.
Placing == {w \in Workers : pc[w] \in {"policy", "insert"}} \ overtaken
Cleared(zone) == \E t \in Threads : pc[t] \in {"fg_spin", "fg_reset"} /\ victim[t] = zone

\* A chunk that is mapped, or about to be, is on the device, in a zone that
\* was not cleared, and nobody else's; what is mapped is also indexed.
DataPlaced ==
  /\ \A id \in DataIds \ late, pair \in Pairs : zone_map[id] = M!Located(pair) =>
       /\ Holds(pair, id)
       /\ ~Cleared(pair.zone)
       /\ data_map[pair.zone][pair.chunk_offset] = id
       /\ \A w \in Placing : location[w] # pair
  /\ \A w \in Placing :
       /\ Holds(location[w], data_id[w])
       /\ ~Cleared(location[w].zone)
       /\ \A v \in Placing : location[v] = location[w] => v = w
  /\ \A w \in Workers :
       pc[w] = "return" => disk[location[w].zone][location[w].chunk_offset] = data_id[w]

\* What a counted reader found stays where it is until the reader is done.
\* (Only when the counts start from zero or above.)
ReadersHeld ==
  \A w \in Workers \ misled : pc[w] \in {"copy", "read"} =>
    /\ Holds(location[w], data_id[w])
    /\ \A t \in Threads : pc[t] = "fg_reset" => victim[t] # location[w].zone

\* The inductive invariant: the components' own, seen from the cache, and what
\* holds between them.
CacheInv ==
  /\ TypeOK
  /\ Z!ZSMInv
  /\ M!MapInv
  /\ StepsShaped
  /\ RoundsGoOn
  /\ OnePlace
  /\ DataPlaced

\* Every task comes to the end of the workload and the eviction thread
\* follows (or the program has read a freed entry): no thread retries, spins
\* or sleeps for ever.
Terminates ==
  <>(undefined \/ \A t \in Threads : pc[t] \in {"finished", "ended"})

\* zncache.c:152, assert(zn_validate_read(...) == 0): a hit returns the data
\* of the id that was asked for.
ReadValidates ==
  \A w \in Workers :
    pc[w] = "read" => disk[location[w].zone][location[w].chunk_offset] = data_id[w]

=============================================================================
