---------------------------- MODULE ChunkPolicy ----------------------------
(***************************************************************************)
(* The chunk eviction policy (src/src/eviction/chunk.c): an LRU queue of   *)
(* chunks, a map from a chunk to its queue node, a pool that says of each  *)
(* zone which of its chunks are in use and how many, and a priority queue  *)
(* of the zones whose last chunk was written.                              *)
(*                                                                         *)
(* These are the operations on the policy's own data; all of them run      *)
(* under policy_mutex.  Eviction and garbage collection, which call the    *)
(* zone state manager and the cache map while they hold it, are composed   *)
(* of them in ChunkCache.  The heap is taken at its word: Minheap          *)
(* implements PriorityQueue.                                               *)
(***************************************************************************)
EXTENDS Integers, FiniteSets, Sequences, Functions, LruQueue

CONSTANTS NumZones, max_zone_chunks

Zones == 0 .. NumZones - 1
Pairs == [zone : Zones, chunk_offset : 0 .. max_zone_chunks - 1]
total_chunks == NumZones * max_zone_chunks

VARIABLES
  lru_queue,          \* of chunks, the least recently used first
  chunk_to_lru_map,   \* the chunks whose entry is a node, not NULL
  in_use,             \* the chunks with in_use set
  chunks_in_use,      \* zone -> counter
  pqueue_entry,       \* zones whose pqueue_entry was ever set
  invalid_pqueue,     \* the zones in the priority queue
  priority            \* zone -> priority of its entry

lruVars == <<lru_queue, chunk_to_lru_map, in_use, chunks_in_use>>
pqueueVars == <<pqueue_entry, invalid_pqueue, priority>>
policyVars == <<lruVars, pqueueVars>>

PQ == INSTANCE PriorityQueue WITH
        Entries <- Zones, Priorities <- 0 .. max_zone_chunks, members <- invalid_pqueue

InitPolicy ==
  /\ lru_queue = <<>>
  /\ chunk_to_lru_map = {}
  /\ in_use = {}
  /\ chunks_in_use = [z \in Zones |-> 0]
  /\ pqueue_entry = {}
  /\ invalid_pqueue = {}
  /\ priority = [z \in Zones |-> 0]

-----------------------------------------------------------------------------
(* zn_policy_chunk_update *)

UpdateWriteAsserts(pair) == pair \notin in_use

Use(pair) ==
  /\ in_use' = in_use \union {pair}
  /\ chunks_in_use' = [chunks_in_use EXCEPT ![pair.zone] = @ + 1]
  /\ lru_queue' = Append(lru_queue, pair)
  /\ chunk_to_lru_map' = chunk_to_lru_map \union {pair}

\* Mutant: a zone enters the priority queue with the chunk before its last.
UpdateWrite_Early(pair) ==
  /\ UpdateWriteAsserts(pair)
  /\ Use(pair)
  /\ \/ /\ pair.chunk_offset = max_zone_chunks - 2
        /\ PQ!Insert(pair.zone, chunks_in_use[pair.zone] + 1)
        /\ pqueue_entry' = pqueue_entry \union {pair.zone}
     \/ /\ pair.chunk_offset # max_zone_chunks - 2
        /\ UNCHANGED pqueueVars

\* A chunk enters the LRU queue; the zone of a last chunk the priority queue.
UpdateWrite(pair) ==
  /\ UpdateWriteAsserts(pair)
  /\ Use(pair)
  /\ \/ /\ pair.chunk_offset = max_zone_chunks - 1
        /\ PQ!Insert(pair.zone, chunks_in_use[pair.zone] + 1)
        /\ pqueue_entry' = pqueue_entry \union {pair.zone}
     \/ /\ pair.chunk_offset # max_zone_chunks - 1
        /\ UNCHANGED pqueueVars

\* A read moves a queued chunk to the tail and leaves every other chunk alone.
UpdateRead(pair) ==
  /\ \/ /\ pair \in chunk_to_lru_map
        /\ \E i \in DOMAIN lru_queue :
             lru_queue[i] = pair /\ lru_queue' = ToTail(lru_queue, i)
     \/ /\ pair \notin chunk_to_lru_map
        /\ UNCHANGED lru_queue
  /\ UNCHANGED <<chunk_to_lru_map, in_use, chunks_in_use, pqueueVars>>

-----------------------------------------------------------------------------
(* zn_policy_chunk_evict: the least recently used chunk is invalidated.    *)

FreeChunks == total_chunks - Len(lru_queue)

Unuse(pair) ==
  /\ lru_queue # <<>> /\ pair = Head(lru_queue)
  /\ lru_queue' = Tail(lru_queue)
  /\ chunk_to_lru_map' = chunk_to_lru_map \ {pair}
  /\ in_use' = in_use \ {pair}
  /\ chunks_in_use' = [chunks_in_use EXCEPT ![pair.zone] = @ - 1]

\* Mutant: the priority queue is not told.
Invalidate_OldPriority(pair) ==
  /\ Unuse(pair)
  /\ UNCHANGED pqueueVars

\* zn_minheap_update_by_entry: an entry in the heap gets the new count; one
\* that garbage collection extracted is not looked at again.  A zone that was
\* never filled has no entry: its pointer was not initialised (g_new,
\* eviction_policy.c:93), and here it happens to be NULL.
Invalidate(pair) ==
  /\ Unuse(pair)
  /\ \/ /\ pair.zone \in invalid_pqueue
        /\ PQ!Update(pair.zone, chunks_in_use[pair.zone] - 1)
     \/ /\ pair.zone \notin invalid_pqueue
        /\ UNCHANGED <<invalid_pqueue, priority>>
  /\ UNCHANGED pqueue_entry

\* The other outcome: the heap follows a pointer to nowhere.
InvalidateCrashes ==
  lru_queue # <<>> /\ Head(lru_queue).zone \notin pqueue_entry

-----------------------------------------------------------------------------
(* zn_policy_chunk_gc: the zone with the fewest chunks in use.             *)

ExtractMin(z) == PQ!ExtractMin(z) /\ UNCHANGED <<lruVars, pqueue_entry>>

LiveChunks(z) == {pair \in in_use : pair.zone = z}

-----------------------------------------------------------------------------
(* Correctness of the policy's own data.                                   *)

\* Types of the policy's variables.
PolicyTypeOK ==
  /\ lru_queue \in Seq(Pairs)
  /\ chunk_to_lru_map \subseteq Pairs
  /\ in_use \subseteq Pairs
  /\ chunks_in_use \in [Zones -> Int]
  /\ pqueue_entry \subseteq Zones
  /\ invalid_pqueue \subseteq pqueue_entry
  /\ priority \in [Zones -> 0 .. max_zone_chunks]

\* The queue holds each chunk in use once, the map has a node exactly for
\* those, and the counter of every zone agrees, whatever order updates,
\* evictions and late reads came in.
QueueExact ==
  /\ IsInjective(lru_queue)
  /\ Range(lru_queue) = in_use
  /\ chunk_to_lru_map = in_use
  /\ \A z \in Zones : chunks_in_use[z] = Cardinality(LiveChunks(z))

\* A zone in the priority queue never counts for more than it holds: garbage
\* collection takes no zone while one it knows to be emptier is there.
PriorityBound == \A z \in invalid_pqueue : priority[z] <= chunks_in_use[z]
=============================================================================
