------------------------------ MODULE CacheMap ------------------------------
(***************************************************************************)
(* The cache map (src/src/cachemap.c): data id -> location, its reverse    *)
(* index per zone, the reader counts, and the condition variables on which *)
(* threads wait for another thread's write of the id they want.            *)
(*                                                                         *)
(* Every function runs under cache_map_mutex and is one step, but for two  *)
(* places: g_cond_wait gives the mutex up, so zn_cachemap_find is cut into *)
(* one step per turn of its loop; and a hit copies the entry with          *)
(* "return *lookup" after the mutex is released.                           *)
(*                                                                         *)
(* The operations are operators over the map's variables; the second half  *)
(* closes them with the most general client.                               *)
(***************************************************************************)
EXTENDS Integers, FiniteSets

CONSTANTS
  Threads,
  DataIds,
  WideIds,         \* the ids of 2^31 and above
  NumZones,
  max_zone_chunks,
  NoId,            \* no data id
  NoCond,          \* no condition variable
  NoPair,          \* no location
  InitialReaders   \* what the unset counters may hold (malloc, cache.c:165)

Zones == 0 .. NumZones - 1
Chunks == 0 .. max_zone_chunks - 1
Pairs == [zone : Zones, chunk_offset : Chunks]

\* A thread holds at most one reference to a condition variable, so this many
\* are alive at a time at most.
Conds == 1 .. Cardinality(Threads)

ASSUME CacheMapAssumption ==
  /\ IsFiniteSet(Threads)
  /\ WideIds \subseteq DataIds
  /\ NumZones \in Nat \ {0}
  /\ max_zone_chunks \in Nat \ {0}
  /\ NoId \notin DataIds
  /\ NoCond \notin Conds
  /\ NoPair \notin Pairs
  /\ InitialReaders \subseteq Int

VARIABLES
  zone_map,        \* data id -> struct zone_map_result, or absent
  data_map,        \* zone -> chunk -> data id
  active_readers,  \* zone -> number of readers
  rc,              \* condition variable -> references; 0 when it is freed
  cond,            \* thread -> condition variable zn_cachemap_find refers to
  asleep,          \* threads inside g_cond_wait that nothing has woken
  undefined,       \* a thread read freed memory and got something else
  role,            \* client: what a thread is doing with the map
  arg,             \* client: the id it does it with
  loc,             \* client: the location a hit found
  dangling         \* client: threads whose "lookup" points to a freed entry

mapVars == <<zone_map, data_map, active_readers, rc, cond, asleep>>
clientVars == <<role, arg, loc, dangling>>
vars == <<mapVars, clientVars, undefined>>

Absent == [type |-> "NONE"]
Waiting(c) == [type |-> "COND", write_finished |-> c]
Located(pair) == [type |-> "LOC", location |-> pair]

InitMap ==
  /\ zone_map = [id \in DataIds |-> Absent]
  /\ data_map = [z \in Zones |-> [c \in Chunks |-> NoId]]
  /\ active_readers \in [Zones -> InitialReaders]
  /\ rc = [c \in Conds |-> 0]
  /\ cond = [t \in Threads |-> NoCond]
  /\ asleep = {}

-----------------------------------------------------------------------------
(* zn_cachemap_find: one turn of its loop.  A thread that comes back from  *)
(* g_cond_wait first drops its reference to the condition variable.        *)

\* Mutant: the reference is kept.
Unref_Kept(c) == rc

Unref(c) == IF c = NoCond THEN rc ELSE [rc EXCEPT ![c] = @ - 1]

\* Mutant: the reader is not counted.
FindHit_NotCounted(t, id, pair) ==
  /\ zone_map[id] = Located(pair)
  /\ rc' = Unref(cond[t])
  /\ cond' = [cond EXCEPT ![t] = NoCond]
  /\ UNCHANGED <<zone_map, data_map, active_readers, asleep>>

FindHit(t, id, pair) ==
  /\ zone_map[id] = Located(pair)
  /\ active_readers' = [active_readers EXCEPT ![pair.zone] = @ + 1]
  /\ rc' = Unref(cond[t])
  /\ cond' = [cond EXCEPT ![t] = NoCond]
  /\ UNCHANGED <<zone_map, data_map, asleep>>

FindSleep(t, id) ==
  \E c \in Conds :
    /\ zone_map[id] = Waiting(c)
    /\ rc' = [Unref(cond[t]) EXCEPT ![c] = @ + 1]
    /\ cond' = [cond EXCEPT ![t] = c]
    /\ asleep' = asleep \union {t}
    /\ UNCHANGED <<zone_map, data_map, active_readers>>

\* Mutant: the entry that marks the write is not made.
FindMiss_NoMark(t, id) ==
  /\ zone_map[id] = Absent
  /\ rc' = Unref(cond[t])
  /\ cond' = [cond EXCEPT ![t] = NoCond]
  /\ UNCHANGED <<zone_map, data_map, active_readers, asleep>>

FindMiss(t, id) ==
  /\ zone_map[id] = Absent
  /\ LET refs == Unref(cond[t])
         new == CHOOSE c \in Conds : refs[c] = 0
     IN  /\ zone_map' = [zone_map EXCEPT ![id] = Waiting(new)]
         /\ rc' = [refs EXCEPT ![new] = 1]
  /\ cond' = [cond EXCEPT ![t] = NoCond]
  /\ UNCHANGED <<data_map, active_readers, asleep>>

\* g_cond_wait may return without a signal.
SpuriousWakeup(t) ==
  /\ t \in asleep
  /\ asleep' = asleep \ {t}
  /\ UNCHANGED <<zone_map, data_map, active_readers, rc, cond>>

-----------------------------------------------------------------------------
(* The writer's two ways out.                                              *)

\* Mutant: nobody is woken.
FinishWait_Silent(c) ==
  /\ rc' = [rc EXCEPT ![c] = @ - 1]
  /\ UNCHANGED asleep

\* g_cond_broadcast, then the writer's reference is dropped.
FinishWait(c) ==
  /\ asleep' = {t \in asleep : cond[t] # c}
  /\ rc' = [rc EXCEPT ![c] = @ - 1]

\* The assertions of zn_cachemap_insert and zn_cachemap_fail.
WriterAsserts(id) == zone_map[id].type = "COND"

Insert(id, pair) ==
  /\ WriterAsserts(id)
  /\ FinishWait(zone_map[id].write_finished)
  /\ zone_map' = [zone_map EXCEPT ![id] = Located(pair)]
  /\ data_map' = [data_map EXCEPT ![pair.zone][pair.chunk_offset] = id]
  /\ UNCHANGED <<active_readers, cond>>

Fail(id) ==
  /\ WriterAsserts(id)
  /\ FinishWait(zone_map[id].write_finished)
  /\ zone_map' = [zone_map EXCEPT ![id] = Absent]
  /\ UNCHANGED <<data_map, active_readers, cond>>

-----------------------------------------------------------------------------
(* The evictor's operations.                                               *)

IdsIn(z) == {data_map[z][c] : c \in Chunks} \ {NoId}

\* The reverse index holds uint32_t ids; they are read back through an int, so
\* that the pointer looked up in zone_map is sign-extended: it is the key of
\* the id below 2^31 and the key of nothing above (cachemap.c:140-144, 172-173).
ReadBack(id) == id \notin WideIds

ClearZoneAsserts(z) ==
  \A id \in IdsIn(z) :
    ReadBack(id) /\ zone_map[id].type = "LOC" /\ zone_map[id].location.zone = z

\* Mutant: the whole map is emptied.
ClearZone_All(z) ==
  /\ ClearZoneAsserts(z)
  /\ zone_map' = [id \in DataIds |-> Absent]
  /\ data_map' = [data_map EXCEPT ![z] = [c \in Chunks |-> NoId]]
  /\ UNCHANGED <<active_readers, rc, cond, asleep>>

ClearZone(z) ==
  /\ ClearZoneAsserts(z)
  /\ zone_map' = [id \in DataIds |-> IF id \in IdsIn(z) THEN Absent ELSE zone_map[id]]
  /\ data_map' = [data_map EXCEPT ![z] = [c \in Chunks |-> NoId]]
  /\ UNCHANGED <<active_readers, rc, cond, asleep>>

\* What the assertions of zn_cachemap_clear_chunk ask of the chunk's entry.
Indexed(pair) ==
  LET id == data_map[pair.zone][pair.chunk_offset]
  IN  id # NoId /\ zone_map[id] = Located(pair)

ClearChunkAsserts(pair) == Indexed(pair) /\ ReadBack(data_map[pair.zone][pair.chunk_offset])

ClearChunk(pair) ==
  /\ ClearChunkAsserts(pair)
  /\ zone_map' = [zone_map EXCEPT ![data_map[pair.zone][pair.chunk_offset]] = Absent]
  /\ data_map' = [data_map EXCEPT ![pair.zone][pair.chunk_offset] = NoId]
  /\ UNCHANGED <<active_readers, rc, cond, asleep>>

\* The reader's g_atomic_int_dec_and_test in zn_cache_get (cache.c:71).
ReaderDone(z) ==
  /\ active_readers' = [active_readers EXCEPT ![z] = @ - 1]
  /\ UNCHANGED <<zone_map, data_map, rc, cond, asleep>>

-----------------------------------------------------------------------------
(* The most general client: threads look ids up, writers place their id    *)
(* anywhere or give up, an evictor clears zones and chunks at any time.    *)

Init ==
  /\ InitMap
  /\ undefined = FALSE
  /\ role = [t \in Threads |-> "idle"]
  /\ arg = [t \in Threads |-> NoId]
  /\ loc = [t \in Threads |-> NoPair]
  /\ dangling = {}

Become(t, r, id, pair) ==
  /\ role' = [role EXCEPT ![t] = r]
  /\ arg' = [arg EXCEPT ![t] = id]
  /\ loc' = [loc EXCEPT ![t] = pair]

Find(t, id) ==
  /\ \/ \E pair \in Pairs : FindHit(t, id, pair) /\ Become(t, "copy", id, pair)
     \/ FindSleep(t, id) /\ Become(t, "find", id, NoPair)
     \/ FindMiss(t, id) /\ Become(t, "writer", id, NoPair)
  /\ UNCHANGED <<dangling, undefined>>

Begin(t) == role[t] = "idle" /\ \E id \in DataIds : Find(t, id)

Retry(t) == role[t] = "find" /\ t \notin asleep /\ Find(t, arg[t])

Spurious(t) == SpuriousWakeup(t) /\ UNCHANGED <<clientVars, undefined>>

\* "return *lookup" (cachemap.c:65) after the mutex was released: the bytes of
\* a freed entry are still there, or they are not.
Copy(t) ==
  /\ role[t] = "copy"
  /\ Become(t, "reader", arg[t], loc[t])
  /\ dangling' = dangling \ {t}
  /\ UNCHANGED <<mapVars, undefined>>

CopyGarbage(t) ==
  /\ role[t] = "copy" /\ t \in dangling
  /\ undefined' = TRUE
  /\ UNCHANGED <<mapVars, clientVars>>

Release(t) ==
  /\ role[t] = "reader"
  /\ ReaderDone(loc[t].zone)
  /\ Become(t, "idle", NoId, NoPair)
  /\ UNCHANGED <<dangling, undefined>>

Publish(t) ==
  /\ role[t] = "writer"
  /\ \E pair \in Pairs : Insert(arg[t], pair)
  /\ Become(t, "idle", NoId, NoPair)
  /\ UNCHANGED <<dangling, undefined>>

GiveUp(t) ==
  /\ role[t] = "writer"
  /\ Fail(arg[t])
  /\ Become(t, "idle", NoId, NoPair)
  /\ UNCHANGED <<dangling, undefined>>

\* The entries of these ids are freed: whoever still has to copy one holds a
\* pointer to nothing.
Freed(ids) ==
  /\ dangling' = dangling \union {t \in Threads : role[t] = "copy" /\ arg[t] \in ids}
  /\ UNCHANGED <<role, arg, loc, undefined>>

EvictZone(z) == ClearZone(z) /\ Freed(IdsIn(z))

EvictChunk(pair) ==
  /\ data_map[pair.zone][pair.chunk_offset] # NoId
  /\ ClearChunk(pair)
  /\ Freed({data_map[pair.zone][pair.chunk_offset]})

\* After undefined behaviour nothing is said of the program.
Halted == undefined /\ UNCHANGED vars

Next ==
  \/ /\ ~undefined
     /\ \/ \E t \in Threads : \/ Begin(t) \/ Retry(t) \/ Spurious(t) \/ Copy(t)
                              \/ CopyGarbage(t) \/ Release(t) \/ Publish(t) \/ GiveUp(t)
        \/ \E z \in Zones : EvictZone(z)
        \/ \E pair \in Pairs : EvictChunk(pair)
  \/ Halted

Spec == Init /\ [][Next]_vars

\* A thread that is not blocked runs on, and a write ends one way or the other.
FairSpec ==
  Spec /\ \A t \in Threads : WF_vars(~undefined /\ (Publish(t) \/ GiveUp(t)))

-----------------------------------------------------------------------------
(* Correctness.                                                            *)

Roles == {"idle", "find", "copy", "reader", "writer"}

\* Types of the map's and its clients' variables.
TypeOK ==
  /\ zone_map \in [DataIds -> {Absent} \union {Waiting(c) : c \in Conds}
                                       \union {Located(pair) : pair \in Pairs}]
  /\ data_map \in [Zones -> [Chunks -> DataIds \union {NoId}]]
  /\ active_readers \in [Zones -> Int]
  /\ rc \in [Conds -> Int]
  /\ cond \in [Threads -> Conds \union {NoCond}]
  /\ asleep \subseteq Threads
  /\ undefined \in BOOLEAN
  /\ role \in [Threads -> Roles]
  /\ arg \in [Threads -> DataIds \union {NoId}]
  /\ loc \in [Threads -> Pairs \union {NoPair}]
  /\ dangling \subseteq Threads

\* Single flight: an id that is being written has exactly one writer, and a
\* writer's entry is there when it comes back, so that the assertions at
\* cachemap.c:112-115 and 192-194 hold.
SingleWriter ==
  /\ \A t \in Threads : role[t] = "writer" => WriterAsserts(arg[t])
  /\ \A t, u \in Threads :
       role[t] = "writer" /\ role[u] = "writer" /\ arg[t] = arg[u] => t = u
  /\ \A id \in DataIds :
       zone_map[id].type = "COND" => \E t \in Threads : role[t] = "writer" /\ arg[t] = id

\* A thread sleeps only on the condition variable of a write still going on:
\* no wakeup is lost between the lookup and g_cond_wait, or when a failed
\* write is replaced by another thread's write of the same id.
NoLostWakeup ==
  \A t \in asleep : role[t] = "find" /\ zone_map[arg[t]] = Waiting(cond[t])

\* The references to a condition variable are those of the threads that wait
\* on it (woken or not) and of the writer: it is freed exactly when the last
\* one is gone, never under a sleeper and never not at all.
RefCountExact ==
  \A c \in Conds :
    rc[c] = Cardinality({t \in Threads : cond[t] = c})
              + Cardinality({id \in DataIds : zone_map[id] = Waiting(c)})

\* What a zone's reverse index names is mapped to exactly that place: but for
\* an id that is not read back, the assertions of zn_cachemap_clear_zone
\* (173-176) hold for every zone at every moment, wherever writers put their
\* data.
ReverseIndexBacked ==
  \A pair \in Pairs :
    LET id == data_map[pair.zone][pair.chunk_offset]
    IN  id # NoId => zone_map[id] = Located(pair)

\* active_readers counts the threads between their lookup and their
\* g_atomic_int_dec_and_test, even when the entry they found is gone.
ReaderCountExact ==
  \E base \in [Zones -> InitialReaders] :
    \A z \in Zones :
      active_readers[z] - base[z]
        = Cardinality({t \in Threads : role[t] \in {"copy", "reader"} /\ loc[t].zone = z})

\* What a hit still has to copy is what zn_cachemap_find looked up: as long as
\* no eviction freed the entry, "return *lookup" after the mutex is released
\* (cachemap.c:64-65) gives the location whose reader was counted, even if the
\* id was evicted and brought in again for other threads in between.
CopyStable ==
  \A t \in Threads :
    role[t] = "copy" /\ t \notin dangling => zone_map[arg[t]] = Located(loc[t])

\* What a thread's state says of its arguments: only one that waits for a
\* write refers to a condition variable.
ThreadsShaped ==
  \A t \in Threads :
    /\ role[t] = "idle" => arg[t] = NoId
    /\ role[t] # "idle" => arg[t] \in DataIds
    /\ role[t] \in {"copy", "reader"} => loc[t] \in Pairs
    /\ role[t] = "find" <=> cond[t] # NoCond

\* The inductive invariant: what cache_map_mutex protects.
MapInv ==
  /\ TypeOK
  /\ ThreadsShaped
  /\ SingleWriter
  /\ NoLostWakeup
  /\ RefCountExact
  /\ ReverseIndexBacked
  /\ CopyStable

\* The map keeps the promise of SingleFlight.
What(r) ==
  CASE r = "idle" -> "nothing" [] r = "find" -> "wait" [] r = "writer" -> "bring" [] OTHER -> "use"

Flights == INSTANCE SingleFlight WITH
  Places <- {Located(pair) : pair \in Pairs},
  Nowhere <- Absent,
  Coming <- [type |-> "COMING"],
  place <- [id \in DataIds |->
              IF zone_map[id].type = "COND" THEN [type |-> "COMING"] ELSE zone_map[id]],
  doing <- [t \in Threads |-> [what |-> What(role[t]), id |-> arg[t]]],
  told <- [t \in Threads |-> IF role[t] \in {"copy", "reader"} THEN Located(loc[t]) ELSE Absent]

\* Every lookup, publication, failure and eviction is one the abstract map
\* allows: an id has one writer, who alone ends its write; a waiter waits only
\* for a write going on; a hit is told the place the id was written to.
ImplementsSingleFlight == Flights!Spec

\* cachemap.c:95-98: "To avoid checking a freed zone_map_result, threads
\* recheck the entire hash table for the data": no thread looks at a freed one.
NoFreedEntryRead == ~undefined

\* A sleeping thread is woken again (or the program is past saving).
SleepersWake == \A t \in Threads : t \in asleep ~> (t \notin asleep \/ undefined)

=============================================================================
