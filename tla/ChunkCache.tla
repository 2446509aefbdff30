----------------------------- MODULE ChunkCache -----------------------------
(***************************************************************************)
(* The cache with the chunk policy: zn_cache_get is that of ZNCache, but   *)
(* it updates the chunk policy, and zn_fg_evict only calls                 *)
(* zn_policy_chunk_evict, which evicts chunks and then collects zones with *)
(* policy_mutex held throughout (src/src/eviction/chunk.c).                *)
(*                                                                         *)
(* While a thread holds policy_mutex the others go on with everything but  *)
(* their own updates of the policy.  ZNCache's promotional policy stays    *)
(* as it was initialised.                                                  *)
(***************************************************************************)
EXTENDS ZNCache

CONSTANTS
  HIGH_CHUNKS, LOW_CHUNKS,   \* EVICT_HIGH_THRESH_CHUNKS, EVICT_LOW_THRESH_CHUNKS
  NoThread

total_chunks == NumZones * max_zone_chunks

\* The device is large for the thresholds: there are as many chunks as an
\* eviction may want, and more zones than may hold a free chunk or be reset.
ASSUME ChunkCacheAssumption ==
  /\ HIGH_CHUNKS \in Nat /\ LOW_CHUNKS \in Nat /\ HIGH_CHUNKS < LOW_CHUNKS
  /\ LOW_CHUNKS <= total_chunks
  /\ HIGH_CHUNKS + LOW <= NumZones
  /\ LOW_CHUNKS < UInt
  /\ NoThread \notin Threads

VARIABLES
  chunk_lru, chunk_to_lru_map, in_use, chunks_in_use,   \* chunk policy
  pqueue_entry, invalid_pqueue, priority,
  holder,     \* the thread inside zn_policy_chunk_evict, which has policy_mutex
  chunk,      \* its local: the chunk it evicts, or the place it moves one to
  stale,      \* history: chunks that entered the policy after their zone was reset
  exposed     \* history: readers whose zone garbage collection reset

chunkPolicyVars == <<chunk_lru, chunk_to_lru_map, in_use, chunks_in_use,
                     pqueue_entry, invalid_pqueue, priority>>
chunkVars == <<chunkPolicyVars, holder, chunk, stale, exposed>>
chunkCacheVars == <<vars, chunkVars>>

C == INSTANCE ChunkPolicy WITH lru_queue <- chunk_lru

ChunkCacheInit ==
  /\ Init
  /\ C!InitPolicy
  /\ holder = NoThread
  /\ chunk = NoPair
  /\ stale = {}
  /\ exposed = {}

-----------------------------------------------------------------------------
(* zn_cache_get's calls of update_policy, when the mutex is free.          *)

TouchChunk(w) ==
  /\ Goto(w, "touch", "dec")
  /\ holder = NoThread
  /\ C!UpdateRead(location[w])
  /\ UNCHANGED <<zsmVars, mapVars, policyVars, deviceVars, workload_index, data_id, location,
                 evictVars, failed, dangling, crashVars, historyVars, holder, chunk, stale, exposed>>

UpdateChunkPolicy(w) ==
  /\ Goto(w, "policy", "insert")
  /\ holder = NoThread
  /\ C!UpdateWrite(location[w])
  /\ stale' = IF w \in overtaken THEN stale \union {location[w]} ELSE stale
  /\ UNCHANGED <<zsmVars, mapVars, policyVars, deviceVars, workload_index, data_id, location,
                 evictVars, failed, dangling, crashVars, historyVars, holder, chunk, exposed>>

\* assert(!zp->in_use), chunk.c:36.
UpdateChunkAborts(w) ==
  /\ pc[w] = "policy"
  /\ holder = NoThread
  /\ ~C!UpdateWriteAsserts(location[w])
  /\ aborted' = TRUE
  /\ UNCHANGED <<zsmVars, mapVars, policyVars, deviceVars, workload_index, pc, data_id, location,
                 evictVars, failed, dangling, map_aborted, undefined, historyVars, chunkVars>>

\* The reader's last step: nobody has to be warned about it any more.
ReaderLeaves(w) ==
  /\ DecReaders(w)
  /\ exposed' = exposed \ {w}
  /\ UNCHANGED <<chunkPolicyVars, holder, chunk, stale>>

-----------------------------------------------------------------------------
(* zn_policy_chunk_evict.  todo is nr_evict - i.                           *)

evictUnchanged == <<policyVars, workload_index, data_id, location, failed>>

NothingToEvict == chunk_lru = <<>> \/ C!FreeChunks > HIGH_CHUNKS

\* The caller is not told which: zn_fg_evict drops the result.
EvictNothing(t) ==
  /\ Goto(t, "fg_start", Back(t))
  /\ holder = NoThread
  /\ NothingToEvict
  /\ UNCHANGED <<zsmVars, mapVars, deviceVars, evictUnchanged, evictVars, dangling, crashVars,
                 historyVars, chunkVars>>

EvictChunks(t) ==
  /\ Goto(t, "fg_start", "chunk")
  /\ holder = NoThread /\ holder' = t
  /\ ~NothingToEvict
  /\ todo' = [todo EXCEPT ![t] = LOW_CHUNKS - C!FreeChunks]
  /\ UNCHANGED <<zsmVars, mapVars, deviceVars, evictUnchanged, victim, dangling, crashVars,
                 historyVars, chunkPolicyVars, chunk, stale, exposed>>

\* Mutant: the zone state manager is not told.
InvalidateChunk_Unmarked(t) ==
  /\ Goto(t, "chunk", "clear_chunk")
  /\ \E pair \in Pairs :
       /\ C!Invalidate(pair)
       /\ chunk' = pair
       /\ stale' = stale \ {pair}
  /\ UNCHANGED <<zsmVars, mapVars, deviceVars, evictUnchanged, evictVars, dangling, crashVars,
                 historyVars, holder, exposed>>

InvalidateChunk(t) ==
  /\ Goto(t, "chunk", "clear_chunk")
  /\ \E pair \in Pairs :
       /\ C!Invalidate(pair)
       /\ Z!MarkChunkInvalid(pair)
       /\ chunk' = pair
       /\ stale' = stale \ {pair}
  /\ UNCHANGED <<mapVars, deviceVars, evictUnchanged, evictVars, dangling, crashVars, historyVars,
                 holder, exposed>>

Crash(t, from) ==
  /\ pc[t] = from
  /\ aborted' = TRUE
  /\ UNCHANGED <<zsmVars, mapVars, deviceVars, evictUnchanged, pc, evictVars, dangling, map_aborted,
                 undefined, historyVars, chunkVars>>

InvalidateCrashes(t) == C!InvalidateCrashes /\ Crash(t, "chunk")

ClearChunk(t) ==
  /\ Goto(t, "clear_chunk", IF todo[t] = 1 THEN "gc" ELSE "chunk")
  /\ M!ClearChunk(chunk)
  /\ todo' = [todo EXCEPT ![t] = @ - 1]
  /\ chunk' = NoPair
  /\ LET id == data_map[chunk.zone][chunk.chunk_offset]
     IN  /\ dangling' = dangling \union {w \in Workers : pc[w] = "copy" /\ data_id[w] = id}
         /\ late' = late \ {id}
  /\ UNCHANGED <<zsmVars, deviceVars, evictUnchanged, victim, crashVars, overtaken, misled,
                 chunkPolicyVars, holder, stale, exposed>>

ClearChunkAborts(t) ==
  /\ pc[t] = "clear_chunk" /\ ~M!ClearChunkAsserts(chunk)
  /\ Crash(t, "clear_chunk")

-----------------------------------------------------------------------------
(* zn_policy_chunk_gc.  The number of free zones is read before each turn  *)
(* and compared to the low threshold; before the first, to the high one    *)
(* also (chunk.c:85).                                                      *)

Collecting(t) == pc[t] \in {"gc", "gc_more"}
Enough(t) == NumFree >= LOW \/ (pc[t] = "gc" /\ NumFree > HIGH)

\* Mutant: the mutex is not released.
CollectNothing_Locked(t) ==
  /\ Collecting(t) /\ Enough(t)
  /\ Goto(t, pc[t], Back(t))
  /\ UNCHANGED <<zsmVars, mapVars, deviceVars, evictUnchanged, evictVars, dangling, crashVars,
                 historyVars, chunkVars>>

CollectNothing(t) ==
  /\ Collecting(t) /\ Enough(t)
  /\ Goto(t, pc[t], Back(t))
  /\ holder' = NoThread
  /\ UNCHANGED <<zsmVars, mapVars, deviceVars, evictUnchanged, evictVars, dangling, crashVars,
                 historyVars, chunkPolicyVars, chunk, stale, exposed>>

\* Mutant: the chunks still in use are dropped.
PickZone_Dropping(t) ==
  /\ Collecting(t) /\ ~Enough(t)
  /\ \E z \in Zones :
       /\ C!ExtractMin(z)
       /\ victim' = [victim EXCEPT ![t] = z]
       /\ Goto(t, pc[t], "fg_clear")
  /\ UNCHANGED <<zsmVars, mapVars, deviceVars, evictUnchanged, todo, dangling, crashVars,
                 historyVars, holder, chunk, stale, exposed>>

PickZone(t) ==
  /\ Collecting(t) /\ ~Enough(t)
  /\ \E z \in Zones :
       /\ C!ExtractMin(z)
       /\ victim' = [victim EXCEPT ![t] = z]
       /\ Goto(t, pc[t], IF C!LiveChunks(z) = {} THEN "fg_clear" ELSE "gc_move")
  /\ UNCHANGED <<zsmVars, mapVars, deviceVars, evictUnchanged, todo, dangling, crashVars,
                 historyVars, holder, chunk, stale, exposed>>

\* ent->data, chunk.c:91, when the heap was empty.
PickNothing(t) ==
  /\ ~Enough(t) /\ invalid_pqueue = {}
  /\ \E from \in {"gc", "gc_more"} : Crash(t, from)

\* A chunk still in use is to be copied to an active zone; any answer but a
\* zone fails the assertion at chunk.c:107.
MoveTo(t) ==
  /\ Goto(t, "gc_move", "gc_copy")
  /\ \E pair \in Pairs :
       /\ Z!ReuseActiveZone(pair) \/ Z!OpenFreeZone(pair)
       /\ chunk' = pair
  /\ UNCHANGED <<mapVars, deviceVars, evictUnchanged, evictVars, dangling, crashVars, historyVars,
                 chunkPolicyVars, holder, stale, exposed>>

MoveFails(t) ==
  /\ active = <<>>
  /\ ~Z!CanOpen \/ "open" \in Faults
  /\ Crash(t, "gc_move")

\* The first of the chunks in use is read and written to its new place.
CopyChunk(t) ==
  /\ Goto(t, "gc_copy", "gc_insert")
  /\ chunk.zone \notin torn
  /\ \E pair \in C!LiveChunks(victim[t]) :
       /\ \A other \in C!LiveChunks(victim[t]) : pair.chunk_offset <= other.chunk_offset
       /\ disk' = [disk EXCEPT ![chunk.zone][chunk.chunk_offset] = disk[pair.zone][pair.chunk_offset]]
  /\ UNCHANGED <<zsmVars, mapVars, torn, evictUnchanged, evictVars, dangling, crashVars,
                 historyVars, chunkVars>>

\* The assertions at chunk.c:113 and 119.
CopyFails(t) ==
  /\ Faults \intersect {"read", "write"} # {} \/ (pc[t] = "gc_copy" /\ chunk.zone \in torn)
  /\ Crash(t, "gc_copy")

\* zn_cachemap_insert is called with the id in the zone pool, which came with
\* the location from zsm_get_active_zone, whose initialiser (zone_state_manager.c:
\* 218-221) leaves it zero.  Zero is an ordinary id to the map; as long as no
\* request is for it (DataIds leaves it out), it is not being written.
PooledId(pair) == NoId
GcInsertAsserts == PooledId(chunk) \in DataIds /\ M!WriterAsserts(PooledId(chunk))

GcInsertAborts(t) == ~GcInsertAsserts /\ Crash(t, "gc_insert")

\* A zone without chunks in use is cleared (ZNCache's ClearZone) and reset at
\* once: unlike zn_fg_evict, garbage collection does not wait for readers.
ClearCollected(t) ==
  /\ ClearZone(t)
  /\ UNCHANGED chunkVars

ResetCollected(t) ==
  /\ Goto(t, "fg_spin", "gc_more")
  /\ Z!Evict(victim[t])
  /\ disk' = IF ZNS THEN [disk EXCEPT ![victim[t]] = [c \in Chunks |-> NoId]] ELSE disk
  /\ torn' = torn \ {victim[t]}
  /\ victim' = [victim EXCEPT ![t] = NoZone]
  /\ exposed' = exposed \union
       {w \in Workers : pc[w] \in {"copy", "read"} /\ location[w].zone = victim[t]}
  /\ UNCHANGED <<mapVars, evictUnchanged, todo, dangling, crashVars, historyVars, chunkPolicyVars,
                 holder, chunk, stale>>

\* The assertions of zsm_evict, zone_state_manager.c:277 and 285.
ResetCollectedAborts(t) ==
  /\ pc[t] = "fg_spin" /\ Z!EvictAborts(victim[t])
  /\ Crash(t, "fg_spin")

-----------------------------------------------------------------------------

EvictOrCollect(t) ==
  \/ EvictNothing(t) \/ EvictChunks(t) \/ InvalidateChunk(t) \/ InvalidateCrashes(t)
  \/ ClearChunk(t) \/ ClearChunkAborts(t) \/ CollectNothing(t) \/ PickZone(t)
  \/ PickNothing(t) \/ MoveTo(t) \/ MoveFails(t) \/ CopyChunk(t) \/ CopyFails(t) \/ GcInsertAborts(t)
  \/ ClearCollected(t) \/ ResetCollected(t) \/ ResetCollectedAborts(t)

\* The steps zn_cache_get and the task have in common with ZNCache.
Common(w) ==
  /\ \/ TakeQuery(w) \/ EndTask(w) \/ Find(w) \/ Copy(w) \/ CopyGarbage(w) \/ Read(w)
     \/ GetActiveZone(w) \/ Write(w) \/ WriteFails(w) \/ ReturnActiveZone(w) \/ Insert(w)
     \/ UndoZoneGet(w) \/ UndoMap(w) \/ SpuriousWakeup(w)
  /\ UNCHANGED chunkVars

ChunkWorker(w) ==
  \/ Common(w) \/ TouchChunk(w) \/ ReaderLeaves(w)
  \/ UpdateChunkPolicy(w) \/ UpdateChunkAborts(w)
  \/ EvictOrCollect(w)

ChunkEvictions ==
  \/ (CheckDone \/ CheckFree) /\ UNCHANGED chunkVars
  \/ EvictOrCollect(Evictor)

ChunkCacheNext ==
  \/ Running /\ \E w \in Workers : ChunkWorker(w)
  \/ Running /\ ChunkEvictions
  \/ Terminated /\ UNCHANGED chunkVars

ChunkCacheSpec == ChunkCacheInit /\ [][ChunkCacheNext]_chunkCacheVars

-----------------------------------------------------------------------------
(* Correctness.                                                            *)

EvictingChunks == {"chunk", "clear_chunk", "gc", "gc_move", "gc_copy", "gc_insert", "fg_clear", "fg_spin",
                   "gc_more"}

\* Types of the variables this module adds, and policy_mutex is held exactly
\* by the thread inside zn_policy_chunk_evict.
ChunkTypeOK ==
  /\ C!PolicyTypeOK
  /\ holder \in Threads \union {NoThread}
  /\ \A t \in Threads : holder = t <=> pc[t] \in EvictingChunks
  /\ chunk \in Pairs \union {NoPair}
  /\ stale \subseteq Pairs /\ exposed \subseteq Workers

\* The policy's own structures agree at every moment, and a zone's priority
\* never exceeds what it holds.
ChunkPolicySound == C!QueueExact /\ C!PriorityBound

\* The full zones are those in the priority queue, those whose last writer has
\* still to enter them, and the one being collected: no zone is lost to
\* garbage collection and none is collected before it is full.
FullZonesQueued ==
  \A z \in Zones :
    state[z] = "FULL" <=>
      \/ z \in invalid_pqueue
      \/ \E w \in Workers : pc[w] = "policy" /\ LastChunk(location[w]) /\ location[w].zone = z
      \/ \E t \in Threads : victim[t] = z

\* What the policy has dropped is dropped by the others: a chunk of a full
\* zone that is not in use is in the zone's invalid queue, but for a chunk
\* whose writer has still to enter it.
InvalidRecorded ==
  \A pair \in Pairs :
    pair.zone \in invalid_pqueue /\ pair \notin in_use =>
      \/ pair.chunk_offset \in Range(invalid[pair.zone])
      \/ \E w \in Workers : pc[w] = "policy" /\ location[w] = pair

\* The chunk the policy has dropped and the map has still to drop, and the
\* writers that entered a chunk into the policy and have still to map it.
Dropping == {pair \in {chunk} : \E t \in Threads : pc[t] = "clear_chunk"}
AboutToMap(pair) == {w \in Workers : pc[w] = "insert" /\ location[w] = pair}

\* The policy and the map know the same chunks: one that is in use, or is being
\* evicted, is mapped or its one writer is about to map it, and no other chunk
\* is, however late a writer entered it.  A chunk that is mapped can so be
\* evicted, and one that was evicted has not been mapped by someone else.
InUseMapped ==
  \A pair \in Pairs :
    /\ pair \in in_use \union Dropping <=> M!Indexed(pair) \/ AboutToMap(pair) # {}
    /\ M!Indexed(pair) => AboutToMap(pair) = {}
    /\ \A w, v \in AboutToMap(pair) : w = v

\* The steps at which an assertion fails or a pointer leads nowhere.
Crashes(t) ==
  \/ pc[t] \in {"policy", "chunk", "clear_chunk", "gc_more", "gc_move", "gc_copy", "gc_insert"}
  \/ pc[t] = "fg_spin" /\ "reset" \in Faults

\* Where each assertion of the chunk policy and its callees can fail.  A chunk
\* is entered twice without being evicted only when one of its writers was late,
\* its zone having been collected (chunk.c:36).  An evicted chunk is missing in
\* the map (cachemap.c:144-148) only when its writer has still to map it, or its
\* id is one that is not read back.  There is a chunk to evict (179); the
\* priority queue is empty (90) only when a zone was collected and taken by a
\* writer before the free zones were counted again (144).  A zone enters the
\* queue once; when it is cleared nothing in it is mapped any more
\* (cachemap.c:173-176), and when it is evicted it is full (zone_state_manager.c:
\* 277): only the device can stop that (285).  No thread is stopped elsewhere.
ChunkAssertionsHold ==
  /\ \A w \in Workers :
       /\ pc[w] = "policy" /\ ~C!UpdateWriteAsserts(location[w]) =>
            w \in overtaken \/ location[w] \in stale
       /\ pc[w] = "policy" /\ LastChunk(location[w]) => location[w].zone \notin invalid_pqueue
       /\ pc[w] \in {"return", "undo_zone"} => Z!WriterAsserts(location[w])
       /\ pc[w] \in {"insert", "undo_map"} => M!WriterAsserts(data_id[w])
  /\ \A t \in Threads :
       /\ pc[t] = "chunk" => chunk_lru # <<>>
       /\ pc[t] = "clear_chunk" /\ ~M!ClearChunkAsserts(chunk) =>
            \/ \E w \in Workers : pc[w] = "insert" /\ location[w] = chunk
            \/ data_map[chunk.zone][chunk.chunk_offset] \in WideIds
       /\ pc[t] = "gc" => invalid_pqueue # {}
       /\ pc[t] = "fg_clear" => M!IdsIn(victim[t]) = {}
       /\ pc[t] = "fg_spin" => state[victim[t]] = "FULL"
  /\ aborted => \E t \in Threads : Crashes(t)

\* Evicting a chunk leaves its bytes where they are: a reader that found its
\* id reads that id's data unless garbage collection reset the zone under it
\* (no wait at chunk.c:141-143), or it followed an overtaken entry.
ChunkReadersProtected ==
  \A w \in Workers \ (misled \union exposed) :
    pc[w] \in {"copy", "read"} => disk[location[w].zone][location[w].chunk_offset] = data_id[w]

ChunkSteps == WorkerSteps \union EvictorSteps \union {"fg_start"} \union EvictingChunks
Located == Writing \union {"policy", "insert", "copy", "read", "touch", "dec"}

\* The steps a thread takes, and at which of them it has a location.
ChunkStepsShaped ==
  /\ pc \in [Threads -> ChunkSteps]
  /\ location \in [Workers -> Pairs \union {NoPair}]
  /\ \A w \in Workers : location[w] # NoPair <=> pc[w] \in Located

\* The inductive invariant of the policy's own data.
ChunkPolicyInv == ChunkStepsShaped /\ ChunkTypeOK /\ ChunkPolicySound

\* Who has a zone to write to, and which zones the policy may name, with those
\* of garbage collection.
ChunkLent ==
  [t \in Threads |-> IF pc[t] \in Writing THEN location[t]
                     ELSE IF pc[t] \in {"gc_copy", "gc_insert"} THEN chunk ELSE NoPair]

ZC == INSTANCE ZoneStateManager WITH
        Faults <- Faults \intersect ZoneCommands, MaxInvalid <- 0, aborted <- FALSE,
        lent <- ChunkLent, filled <- Filled \union invalid_pqueue, marked <- {}

\* What the thread inside zn_policy_chunk_evict holds at each of its steps, and
\* why it finds the chunks it wants and a zone to collect.
EvictionShaped ==
  /\ chunk # NoPair <=> \E t \in Threads : pc[t] \in {"clear_chunk", "gc_copy", "gc_insert"}
  /\ \A t \in Threads :
       /\ pc[t] = "chunk" => todo[t] \in 1 .. Len(chunk_lru)
       /\ pc[t] = "clear_chunk" => todo[t] \in 1 .. Len(chunk_lru) + 1 /\ chunk \notin in_use
       /\ pc[t] \in {"chunk", "clear_chunk", "gc"} => invalid_pqueue # {}

\* A zone is in the priority queue or somewhere else, but not in ZNCache's own
\* policy, which knows none.  The zone of a last chunk in use is in the queue or
\* being collected, and a zone that is being reset has no chunk in use.
ZonesQueued ==
  /\ lru_queue = <<>>
  /\ invalid_pqueue \intersect Filled = {}
  /\ \A pair \in in_use :
       /\ LastChunk(pair) => pair.zone \in invalid_pqueue \union {victim[t] : t \in Threads}
       /\ \A t \in Threads : pc[t] \in {"fg_clear", "fg_spin"} => victim[t] # pair.zone

\* A written chunk is in use, was invalidated, or is about to enter the policy;
\* a chunk in use was written, and no writer is about to enter it once more, but
\* for those that are late.
UseSound ==
  /\ \A pair \in Pairs : Written(pair) =>
       \/ pair \in in_use
       \/ pair.chunk_offset \in Range(invalid[pair.zone])
       \/ \E w \in Workers : pc[w] = "policy" /\ location[w] = pair
  /\ \A pair \in in_use \ stale :
       /\ Written(pair)
       /\ \A w \in Placing : pc[w] = "policy" => location[w] # pair

\* What a reader found stays, but for the zones that are reset under it.
ChunkReadersHeld ==
  \A w \in Workers \ (misled \union exposed) :
    pc[w] \in {"copy", "read"} => Holds(location[w], data_id[w])

\* The inductive invariant: that of the policy's own data, what ZNCache's proofs
\* need of the cache, and what holds between the two.
ChunkInv ==
  /\ ChunkPolicyInv
  /\ TypeOK
  /\ ZC!ZSMInv
  /\ M!MapInv
  /\ StepsShaped
  /\ OnePlace
  /\ DataPlaced
  /\ EvictionShaped
  /\ ZonesQueued
  /\ UseSound
  /\ InUseMapped
  /\ ChunkReadersHeld

\* architecture.md:36-41, "On GC: Pop from `invalid_pqueue`, migrate via: read
\* in old data, grab active zone, write out old data, Update mappings": when
\* the data has been copied, the mapping can be updated.
Migrates == \A t \in Threads : pc[t] = "gc_insert" => GcInsertAsserts

=============================================================================
