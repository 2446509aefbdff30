------------------------- MODULE ChunkCache_proofs -------------------------
(***************************************************************************)
(* Proofs about ChunkCache for every number of workers, ids, zones and     *)
(* chunks, every threshold and every set of device operations that fail.   *)
(***************************************************************************)
EXTENDS ChunkCache, ZNCache_proofs, LruQueue_proofs

-----------------------------------------------------------------------------
(* The chunk policy's operations.                                          *)

\* What the constants are, for the cache and for the policy.
LEMMA Sizes ==
  /\ NumZones \in Nat \ {0} /\ max_zone_chunks \in Nat \ {0}
  /\ C!Zones = Zones /\ C!Pairs = Pairs
  /\ NoPair \notin Pairs /\ Evictor \notin Workers
BY ZNCacheAssumption DEF Zones, Pairs, Chunks, C!Zones, C!Pairs

\* The policy's library operators are those of this module.
LEMMA SameCounts == \A S : C!Cardinality(S) = Cardinality(S)
BY DEF C!Cardinality, Cardinality

\* A zone has no more chunks in use than chunks.
LEMMA LiveBound ==
  ASSUME NEW S \in SUBSET Pairs, NEW z
  PROVE  LET live == {p \in S : p.zone = z}
         IN  /\ IsFiniteSet(live)
             /\ Cardinality(live) \in 0 .. max_zone_chunks
<1> DEFINE live == {p \in S : p.zone = z}
           f == [p \in live |-> p.chunk_offset]
<1>1. IsFiniteSet(Chunks) /\ Cardinality(Chunks) = max_zone_chunks
  <2>1. 0 \in Int /\ max_zone_chunks - 1 \in Int
    BY Sizes
  <2>2. QED
    BY <2>1, Sizes, FS_Interval DEF Chunks
<1>2. f \in Injection(live, Chunks)
  <2>1. \A p \in live : p.chunk_offset \in Chunks
    BY DEF Pairs
  <2>2. ASSUME NEW p \in live, NEW q \in live, f[p] = f[q] PROVE p = q
    BY <2>2 DEF Pairs
  <2>3. QED
    BY <2>1, <2>2 DEF Injection, IsInjective
<1>3. IsFiniteSet(live) /\ Cardinality(live) <= max_zone_chunks
  BY <1>1, <1>2, FS_Injection
<1>4. Cardinality(live) \in Nat
  BY <1>3, FS_CardinalityType
<1>5. QED
  BY <1>3, <1>4, Sizes

\* What the policy says of the chunks in use, spelt out.
LEMMA PolicyFacts ==
  ASSUME C!PolicyTypeOK, C!QueueExact, C!PriorityBound
  PROVE  /\ chunk_lru \in Seq(Pairs) /\ IsInjective(chunk_lru) /\ Range(chunk_lru) = in_use
         /\ chunk_to_lru_map = in_use /\ in_use \subseteq Pairs
         /\ chunks_in_use \in [Zones -> Int]
         /\ \A z \in Zones : /\ IsFiniteSet({p \in in_use : p.zone = z})
                             /\ chunks_in_use[z] = Cardinality({p \in in_use : p.zone = z})
                             /\ chunks_in_use[z] \in 0 .. max_zone_chunks
         /\ pqueue_entry \subseteq Zones /\ invalid_pqueue \subseteq pqueue_entry
         /\ priority \in [Zones -> 0 .. max_zone_chunks]
         /\ \A z \in invalid_pqueue : priority[z] <= chunks_in_use[z]
<1>1. /\ chunk_lru \in Seq(Pairs) /\ in_use \subseteq Pairs /\ chunks_in_use \in [Zones -> Int]
      /\ pqueue_entry \subseteq Zones /\ invalid_pqueue \subseteq pqueue_entry
      /\ priority \in [Zones -> 0 .. max_zone_chunks]
      /\ \A z \in invalid_pqueue : priority[z] <= chunks_in_use[z]
  BY Sizes DEF C!PolicyTypeOK, C!PriorityBound
<1>2. IsInjective(chunk_lru) /\ Range(chunk_lru) = in_use /\ chunk_to_lru_map = in_use
  BY DEF C!QueueExact, C!IsInjective, C!Range, IsInjective, Range
<1>3. \A z \in Zones : chunks_in_use[z] = Cardinality({p \in in_use : p.zone = z})
  BY Sizes, SameCounts DEF C!QueueExact, C!LiveChunks
<1>4. \A z \in Zones : /\ IsFiniteSet({p \in in_use : p.zone = z})
                     /\ Cardinality({p \in in_use : p.zone = z}) \in 0 .. max_zone_chunks
  BY <1>1, LiveBound
<1>5. QED
  BY <1>1, <1>2, <1>3, <1>4

\* The other way round, of the next state.
LEMMA PolicyMade ==
  ASSUME chunk_lru' \in Seq(Pairs), IsInjective(chunk_lru'), Range(chunk_lru') = in_use',
         chunk_to_lru_map' = in_use', in_use' \subseteq Pairs,
         chunks_in_use' \in [Zones -> Int],
         \A z \in Zones : chunks_in_use'[z] = Cardinality({p \in in_use' : p.zone = z}),
         pqueue_entry' \subseteq Zones, invalid_pqueue' \subseteq pqueue_entry',
         priority' \in [Zones -> 0 .. max_zone_chunks],
         \A z \in invalid_pqueue' : priority'[z] <= chunks_in_use'[z]
  PROVE  C!PolicyTypeOK' /\ C!QueueExact' /\ C!PriorityBound'
<1>1. C!PolicyTypeOK' /\ C!PriorityBound'
  BY Sizes DEF C!PolicyTypeOK, C!PriorityBound
<1>2. \A z \in Zones : chunks_in_use'[z] = C!Cardinality({p \in in_use' : p.zone = z})
  BY SameCounts
<1>3. C!QueueExact'
  BY <1>2, Sizes DEF C!QueueExact, C!LiveChunks, C!IsInjective, C!Range, IsInjective, Range
<1>4. QED
  BY <1>1, <1>3

\* A read (chunk.c:54-68) moves a node of the queue and keeps the policy's parts together.
LEMMA UpdateReadSound ==
  ASSUME C!PolicyTypeOK, C!QueueExact, C!PriorityBound, NEW pair \in Pairs, C!UpdateRead(pair)
  PROVE  C!PolicyTypeOK' /\ C!QueueExact' /\ C!PriorityBound'
<1>1. UNCHANGED <<chunk_to_lru_map, in_use, chunks_in_use, pqueue_entry, invalid_pqueue, priority>>
  BY DEF C!UpdateRead, C!pqueueVars
<1>2. chunk_lru' \in Seq(Pairs) /\ IsInjective(chunk_lru') /\ Range(chunk_lru') = in_use
  <2>1. CASE UNCHANGED chunk_lru
    BY <2>1, PolicyFacts
  <2>2. CASE \E i \in DOMAIN chunk_lru : chunk_lru' = ToTail(chunk_lru, i)
    BY <2>2, PolicyFacts, ToTailKeeps
  <2>3. QED
    BY <2>1, <2>2 DEF C!UpdateRead, C!ToTail, ToTail
<1>3. QED
  BY <1>1, <1>2, PolicyFacts, PolicyMade

\* A chunk that was not in use is; a full zone enters the priority queue.
LEMMA UpdateWriteSound ==
  ASSUME C!PolicyTypeOK, C!QueueExact, C!PriorityBound, NEW pair \in Pairs, C!UpdateWrite(pair)
  PROVE  C!PolicyTypeOK' /\ C!QueueExact' /\ C!PriorityBound'
<1> DEFINE live(z) == {p \in in_use : p.zone = z}
           n == chunks_in_use[pair.zone]
<1>1. /\ pair \notin in_use /\ pair.zone \in Zones
      /\ in_use' = in_use \union {pair} /\ chunk_to_lru_map' = chunk_to_lru_map \union {pair}
      /\ chunks_in_use' = [chunks_in_use EXCEPT ![pair.zone] = @ + 1]
      /\ chunk_lru' = Append(chunk_lru, pair)
  BY DEF C!UpdateWrite, C!UpdateWriteAsserts, C!Use, Pairs
<1>2. chunk_lru' \in Seq(Pairs) /\ IsInjective(chunk_lru') /\ Range(chunk_lru') = in_use'
  BY <1>1, PolicyFacts, AppendKeeps
<1>3. /\ chunks_in_use' \in [Zones -> Int] /\ in_use' \subseteq Pairs
      /\ \A z \in Zones : chunks_in_use'[z] = IF z = pair.zone THEN n + 1 ELSE chunks_in_use[z]
  BY <1>1, PolicyFacts
<1>4. \A z \in Zones : chunks_in_use'[z] = Cardinality({p \in in_use' : p.zone = z})
  <2> SUFFICES ASSUME NEW z \in Zones
               PROVE  chunks_in_use'[z] = Cardinality({p \in in_use' : p.zone = z})
    OBVIOUS
  <2>1. CASE z = pair.zone
    <3>1. {p \in in_use' : p.zone = z} = live(z) \union {pair} /\ pair \notin live(z)
      BY <1>1, <2>1
    <3>2. Cardinality(live(z) \union {pair}) = Cardinality(live(z)) + 1
      BY <3>1, FS_AddElement, PolicyFacts
    <3>3. QED
      BY <1>3, <2>1, <3>1, <3>2, PolicyFacts
  <2>2. CASE z # pair.zone
    <3>1. {p \in in_use' : p.zone = z} = live(z)
      BY <1>1, <2>2
    <3>2. QED
      BY <1>3, <2>2, <3>1, PolicyFacts
  <2>3. QED
    BY <2>1, <2>2
<1>5. n + 1 \in 0 .. max_zone_chunks
  <2>1. Cardinality({p \in in_use' : p.zone = pair.zone}) \in 0 .. max_zone_chunks
    BY <1>3, LiveBound
  <2>2. QED
    BY <1>1, <1>3, <1>4, <2>1
<1>6. /\ pqueue_entry' \subseteq Zones /\ invalid_pqueue' \subseteq pqueue_entry'
      /\ priority' \in [Zones -> 0 .. max_zone_chunks]
      /\ \A z \in invalid_pqueue' : priority'[z] <= chunks_in_use'[z]
  <2>1. CASE UNCHANGED C!pqueueVars
    BY <1>1, <1>3, <2>1, PolicyFacts DEF C!pqueueVars
  <2>2. CASE /\ C!PQ!Insert(pair.zone, n + 1)
             /\ pqueue_entry' = pqueue_entry \union {pair.zone}
    <3>1. /\ invalid_pqueue' = invalid_pqueue \union {pair.zone}
          /\ priority' = [priority EXCEPT ![pair.zone] = n + 1]
      BY <2>2 DEF C!PQ!Insert
    <3>2. QED
      BY <1>1, <1>3, <1>5, <2>2, <3>1, PolicyFacts
  <2>3. QED
    BY <2>1, <2>2 DEF C!UpdateWrite
<1>7. chunk_to_lru_map' = in_use'
  BY <1>1, PolicyFacts
<1>8. QED
  BY <1>2, <1>3, <1>4, <1>6, <1>7, PolicyMade

\* The least recently used chunk is no longer in use, and the zone's priority
\* follows.
LEMMA InvalidateSound ==
  ASSUME C!PolicyTypeOK, C!QueueExact, C!PriorityBound, NEW pair \in Pairs, C!Invalidate(pair)
  PROVE  /\ C!PolicyTypeOK' /\ C!QueueExact' /\ C!PriorityBound'
         /\ pair \in in_use /\ in_use' = in_use \ {pair}
<1> DEFINE live(z) == {p \in in_use : p.zone = z}
           n == chunks_in_use[pair.zone]
<1>1. /\ chunk_lru # <<>> /\ pair = Head(chunk_lru) /\ pair.zone \in Zones
      /\ in_use' = in_use \ {pair} /\ chunk_to_lru_map' = chunk_to_lru_map \ {pair}
      /\ chunks_in_use' = [chunks_in_use EXCEPT ![pair.zone] = @ - 1]
      /\ chunk_lru' = Tail(chunk_lru) /\ UNCHANGED pqueue_entry
  BY DEF C!Invalidate, C!Unuse, Pairs
<1>2. /\ chunk_lru' \in Seq(Pairs) /\ IsInjective(chunk_lru') /\ Range(chunk_lru') = in_use'
      /\ pair \in in_use
  BY <1>1, PolicyFacts, TailKeeps
<1>3. /\ chunks_in_use' \in [Zones -> Int] /\ in_use' \subseteq Pairs
      /\ \A z \in Zones : chunks_in_use'[z] = IF z = pair.zone THEN n - 1 ELSE chunks_in_use[z]
  BY <1>1, PolicyFacts
<1>4. \A z \in Zones : chunks_in_use'[z] = Cardinality({p \in in_use' : p.zone = z})
  <2> SUFFICES ASSUME NEW z \in Zones
               PROVE  chunks_in_use'[z] = Cardinality({p \in in_use' : p.zone = z})
    OBVIOUS
  <2>1. CASE z = pair.zone
    <3>1. {p \in in_use' : p.zone = z} = live(z) \ {pair} /\ pair \in live(z)
      BY <1>1, <1>2, <2>1
    <3>2. Cardinality(live(z) \ {pair}) = Cardinality(live(z)) - 1
      BY <3>1, FS_RemoveElement, PolicyFacts
    <3>3. QED
      BY <1>3, <2>1, <3>1, <3>2, PolicyFacts
  <2>2. CASE z # pair.zone
    <3>1. {p \in in_use' : p.zone = z} = live(z)
      BY <1>1, <2>2
    <3>2. QED
      BY <1>3, <2>2, <3>1, PolicyFacts
  <2>3. QED
    BY <2>1, <2>2
<1>5. n - 1 \in 0 .. max_zone_chunks
  <2>1. Cardinality({p \in in_use' : p.zone = pair.zone}) \in 0 .. max_zone_chunks
    BY <1>3, LiveBound
  <2>2. QED
    BY <1>1, <1>3, <1>4, <2>1
<1>6. /\ invalid_pqueue' \subseteq pqueue_entry
      /\ priority' \in [Zones -> 0 .. max_zone_chunks]
      /\ \A z \in invalid_pqueue' : priority'[z] <= chunks_in_use'[z]
  <2>1. CASE pair.zone \notin invalid_pqueue /\ UNCHANGED <<invalid_pqueue, priority>>
    BY <1>3, <2>1, PolicyFacts
  <2>2. CASE C!PQ!Update(pair.zone, n - 1)
    <3>1. UNCHANGED invalid_pqueue /\ priority' = [priority EXCEPT ![pair.zone] = n - 1]
      BY <2>2 DEF C!PQ!Update
    <3>2. QED
      BY <1>1, <1>3, <1>5, <3>1, PolicyFacts
  <2>3. QED
    BY <2>1, <2>2 DEF C!Invalidate
<1>7. chunk_to_lru_map' = in_use'
  BY <1>1, PolicyFacts
<1>8. QED
  BY <1>1, <1>2, <1>3, <1>4, <1>6, <1>7, PolicyFacts, PolicyMade

\* So does the extraction of the zone to collect (chunk.c:90-91).
LEMMA ExtractSound ==
  ASSUME C!PolicyTypeOK, C!QueueExact, C!PriorityBound, NEW z \in Zones, C!ExtractMin(z)
  PROVE  C!PolicyTypeOK' /\ C!QueueExact' /\ C!PriorityBound'
<1>1. /\ UNCHANGED <<chunk_lru, chunk_to_lru_map, in_use, chunks_in_use, pqueue_entry, priority>>
      /\ invalid_pqueue' = invalid_pqueue \ {z}
  BY DEF C!ExtractMin, C!PQ!ExtractMin, C!lruVars
<1>2. QED
  BY <1>1, PolicyFacts, PolicyMade

-----------------------------------------------------------------------------
(* Who is where.                                                           *)

\* A worker goes on, with another location or none.
LEMMA WorkerMoves ==
  ASSUME ChunkStepsShaped, NEW w \in Workers, NEW to \in ChunkSteps,
         NEW place \in Pairs \union {NoPair}, place # NoPair <=> to \in Located,
         pc' = [pc EXCEPT ![w] = to], location' = [location EXCEPT ![w] = place]
  PROVE  /\ ChunkStepsShaped'
         /\ \A t \in Threads : pc'[t] = IF t = w THEN to ELSE pc[t]
<1>1. \A t \in Threads : pc'[t] = IF t = w THEN to ELSE pc[t]
  BY DEF ChunkStepsShaped
<1>2. \A v \in Workers : location'[v] = IF v = w THEN place ELSE location[v]
  BY DEF ChunkStepsShaped
<1>3. pc' \in [Threads -> ChunkSteps] /\ location' \in [Workers -> Pairs \union {NoPair}]
  BY DEF ChunkStepsShaped, Threads
<1>4. \A v \in Workers : location'[v] # NoPair <=> pc'[v] \in Located
  BY <1>1, <1>2 DEF ChunkStepsShaped, Threads
<1>5. QED
  BY <1>1, <1>3, <1>4 DEF ChunkStepsShaped

\* A thread goes on, and its location stays as it is.
LEMMA ThreadMoves ==
  ASSUME ChunkStepsShaped, NEW t \in Threads, NEW to \in ChunkSteps,
         pc' = [pc EXCEPT ![t] = to], UNCHANGED location,
         to \in Located <=> pc[t] \in Located
  PROVE  /\ ChunkStepsShaped'
         /\ \A u \in Threads : pc'[u] = IF u = t THEN to ELSE pc[u]
<1>1. \A u \in Threads : pc'[u] = IF u = t THEN to ELSE pc[u]
  BY DEF ChunkStepsShaped
<1>2. pc' \in [Threads -> ChunkSteps]
  BY DEF ChunkStepsShaped
<1>3. \A v \in Workers : location'[v] # NoPair <=> pc'[v] \in Located
  BY <1>1 DEF ChunkStepsShaped, Threads
<1>4. QED
  BY <1>1, <1>2, <1>3 DEF ChunkStepsShaped

\* The steps a thread has a location at are a worker's, none inside zn_policy_chunk_evict.
LEMMA StepNames ==
  /\ WorkerSteps \subseteq ChunkSteps /\ EvictorSteps \subseteq ChunkSteps
  /\ EvictingChunks \subseteq ChunkSteps /\ "fg_start" \in ChunkSteps
  /\ \A s \in EvictingChunks : s \notin Located
  /\ \A s \in Located : s \in WorkerSteps
BY DEF ChunkSteps, Located, Writing, WorkerSteps, EvictorSteps, EvictingChunks

\* The steps of zn_cache_get that do not touch the policy: nobody enters or
\* leaves zn_policy_chunk_evict.
NobodyEnters ==
  /\ ChunkStepsShaped'
  /\ \A t \in Threads : pc'[t] \in EvictingChunks <=> pc[t] \in EvictingChunks

\* Such a step keeps the thread inside zn_policy_chunk_evict inside.
LEMMA CommonMoves ==
  ASSUME ChunkStepsShaped, NEW w \in Workers, Common(w)
  PROVE  NobodyEnters
<1>0. w \in Threads /\ location[w] \in Pairs \union {NoPair} /\ NoPair \notin Pairs
  BY Sizes DEF Threads, ChunkStepsShaped
<1>1. ASSUME NEW to \in ChunkSteps \ EvictingChunks, NEW place \in Pairs \union {NoPair},
             place # NoPair <=> to \in Located, pc[w] \notin EvictingChunks,
             pc' = [pc EXCEPT ![w] = to], location' = [location EXCEPT ![w] = place]
      PROVE  NobodyEnters
  <2>1. ChunkStepsShaped' /\ \A t \in Threads : pc'[t] = IF t = w THEN to ELSE pc[t]
    BY <1>1, WorkerMoves
  <2>2. QED
    BY <1>1, <2>1 DEF NobodyEnters
<1>2. ASSUME NEW to \in ChunkSteps \ EvictingChunks, pc[w] \notin EvictingChunks,
             to \in Located <=> pc[w] \in Located,
             pc' = [pc EXCEPT ![w] = to], UNCHANGED location
      PROVE  NobodyEnters
  <2>1. ChunkStepsShaped' /\ \A t \in Threads : pc'[t] = IF t = w THEN to ELSE pc[t]
    BY <1>0, <1>2, ThreadMoves
  <2>2. QED
    BY <1>2, <2>1 DEF NobodyEnters
<1>3. ASSUME UNCHANGED <<pc, location>> PROVE NobodyEnters
  BY <1>3 DEF NobodyEnters, ChunkStepsShaped
<1>4. CASE TakeQuery(w) \/ EndTask(w) \/ Copy(w) \/ Read(w) \/ Write(w) \/ WriteFails(w)
           \/ ReturnActiveZone(w)
  <2>1. \E to \in ChunkSteps \ EvictingChunks :
          /\ to \in Located <=> pc[w] \in Located
          /\ pc[w] \notin EvictingChunks
          /\ pc' = [pc EXCEPT ![w] = to] /\ UNCHANGED location
    BY <1>4 DEF TakeQuery, EndTask, Copy, Read, Write, WriteFails, ReturnActiveZone, Goto,
                ChunkSteps, WorkerSteps, EvictingChunks, Located, Writing
  <2>2. QED
    BY <1>2, <2>1
<1>5. CASE CopyGarbage(w) \/ SpuriousWakeup(w)
  BY <1>3, <1>5 DEF CopyGarbage, SpuriousWakeup
<1>6. CASE Insert(w) \/ UndoZoneGet(w) \/ UndoMap(w)
  <2>1. \E to \in ChunkSteps \ EvictingChunks :
          /\ to \notin Located
          /\ pc[w] \notin EvictingChunks
          /\ pc' = [pc EXCEPT ![w] = to] /\ location' = [location EXCEPT ![w] = NoPair]
    BY <1>6 DEF Insert, UndoZoneGet, UndoMap, LeaveGet, Goto,
                ChunkSteps, WorkerSteps, EvictingChunks, Located, Writing
  <2>2. QED
    BY <1>1, <2>1
<1>7. CASE Find(w)
  <2>1. CASE \E pair \in Pairs : /\ Goto(w, pc[w], "copy")
                                /\ location' = [location EXCEPT ![w] = pair]
    <3>1. PICK pair \in Pairs : /\ Goto(w, pc[w], "copy")
                               /\ location' = [location EXCEPT ![w] = pair]
      BY <2>1
    <3>2. /\ pc[w] \notin EvictingChunks /\ "copy" \in ChunkSteps \ EvictingChunks
          /\ "copy" \in Located /\ pc' = [pc EXCEPT ![w] = "copy"]
      BY <1>7, <3>1 DEF Find, Goto, ChunkSteps, WorkerSteps, EvictingChunks, Located
    <3>3. QED
      BY <1>0, <1>1, <3>1, <3>2
  <2>2. CASE (Goto(w, pc[w], "wait") \/ Goto(w, pc[w], "zone")) /\ UNCHANGED location
    <3>1. \E to \in ChunkSteps \ EvictingChunks :
            /\ to \in Located <=> pc[w] \in Located
            /\ pc[w] \notin EvictingChunks
            /\ pc' = [pc EXCEPT ![w] = to]
      BY <1>7, <2>2
         DEF Find, Goto, ChunkSteps, WorkerSteps, EvictingChunks, Located, Writing
    <3>2. QED
      BY <1>2, <2>2, <3>1
  <2>3. QED
    BY <1>7, <2>1, <2>2 DEF Find
<1>8. CASE GetActiveZone(w)
  <2>1. CASE \E pair \in Pairs : /\ Goto(w, "zone", "write")
                                /\ location' = [location EXCEPT ![w] = pair]
    <3>1. PICK pair \in Pairs : /\ Goto(w, "zone", "write")
                               /\ location' = [location EXCEPT ![w] = pair]
      BY <2>1
    <3>2. /\ pc[w] \notin EvictingChunks /\ "write" \in ChunkSteps \ EvictingChunks
          /\ "write" \in Located /\ pc' = [pc EXCEPT ![w] = "write"]
      BY <3>1 DEF Goto, ChunkSteps, WorkerSteps, EvictingChunks, Located, Writing
    <3>3. QED
      BY <1>0, <1>1, <3>1, <3>2
  <2>2. CASE (Goto(w, "zone", "undo_map") \/ Goto(w, "zone", "fg_start")) /\ UNCHANGED location
    <3>1. \E to \in ChunkSteps \ EvictingChunks :
            /\ to \in Located <=> pc[w] \in Located
            /\ pc[w] \notin EvictingChunks
            /\ pc' = [pc EXCEPT ![w] = to]
      BY <2>2 DEF Goto, ChunkSteps, WorkerSteps, EvictingChunks, Located, Writing
    <3>2. QED
      BY <1>2, <2>2, <3>1
  <2>3. QED
    BY <1>8, <2>1, <2>2 DEF GetActiveZone
<1>9. QED
  BY <1>4, <1>5, <1>6, <1>7, <1>8 DEF Common

-----------------------------------------------------------------------------
(* The invariant of the policy's own data.                                 *)

\* policy_mutex and the other variables of ChunkTypeOK.
MutexHeld ==
  /\ holder \in Threads \union {NoThread}
  /\ \A t \in Threads : holder = t <=> pc[t] \in EvictingChunks

LocalsTyped == chunk \in Pairs \union {NoPair} /\ stale \subseteq Pairs /\ exposed \subseteq Workers

PolicySound == C!PolicyTypeOK /\ C!QueueExact /\ C!PriorityBound

\* The invariant of the policy's own data, in the parts the lemmas below are about.
LEMMA InvParts ==
  /\ ChunkPolicyInv <=> ChunkStepsShaped /\ MutexHeld /\ LocalsTyped /\ PolicySound
  /\ ChunkPolicyInv' <=> ChunkStepsShaped' /\ MutexHeld' /\ LocalsTyped' /\ PolicySound'
BY DEF ChunkPolicyInv, ChunkTypeOK, ChunkPolicySound, MutexHeld, LocalsTyped, PolicySound

\* A step that leaves the policy's data alone keeps what is said of it.
LEMMA PolicyKept == PolicySound /\ UNCHANGED chunkPolicyVars => PolicySound'
BY DEF PolicySound, chunkPolicyVars, C!PolicyTypeOK, C!QueueExact, C!PriorityBound, C!LiveChunks

\* policy_mutex stays where it is as long as nobody enters or leaves.
LEMMA MutexKept == MutexHeld /\ UNCHANGED holder /\ NobodyEnters => MutexHeld'
BY DEF MutexHeld, NobodyEnters

\* A thread goes on inside zn_policy_chunk_evict, or outside of it.
LEMMA StaysWhere ==
  ASSUME ChunkStepsShaped, NEW t \in Threads, NEW to \in ChunkSteps,
         pc' = [pc EXCEPT ![t] = to], UNCHANGED location,
         to \in Located <=> pc[t] \in Located,
         to \in EvictingChunks <=> pc[t] \in EvictingChunks
  PROVE  NobodyEnters
<1>1. ChunkStepsShaped' /\ \A u \in Threads : pc'[u] = IF u = t THEN to ELSE pc[u]
  BY ThreadMoves
<1>2. QED
  BY <1>1 DEF NobodyEnters

\* The policy starts with nothing in use and policy_mutex free.
LEMMA PolicyInit == ChunkCacheInit => ChunkPolicyInv
<1> SUFFICES ASSUME ChunkCacheInit PROVE ChunkPolicyInv
  OBVIOUS
<1>1. /\ pc = [t \in Threads |-> IF t = Evictor THEN "evict_task" ELSE "idle"]
      /\ location = [w \in Workers |-> NoPair]
      /\ holder = NoThread /\ chunk = NoPair /\ stale = {} /\ exposed = {}
      /\ C!InitPolicy
  BY DEF ChunkCacheInit, Init
<1>2. ChunkStepsShaped
  BY <1>1, Sizes DEF ChunkStepsShaped, ChunkSteps, WorkerSteps, EvictorSteps, Located, Writing,
                     Threads
<1>3. /\ chunk_lru = <<>> /\ chunk_to_lru_map = {} /\ in_use = {} /\ pqueue_entry = {}
      /\ invalid_pqueue = {} /\ chunks_in_use = [z \in Zones |-> 0]
      /\ priority = [z \in Zones |-> 0]
  BY <1>1, Sizes DEF C!InitPolicy
<1>4. C!PolicyTypeOK /\ C!PriorityBound
  BY <1>3, Sizes DEF C!PolicyTypeOK, C!PriorityBound
<1>5. \A z \in Zones : chunks_in_use[z] = C!Cardinality({p \in in_use : p.zone = z})
  <2>1. \A z : {p \in in_use : p.zone = z} = {}
    BY <1>3
  <2>2. Cardinality({}) = 0
    BY FS_EmptySet
  <2>3. QED
    BY <1>3, <2>1, <2>2, SameCounts
<1>6. C!QueueExact
  BY <1>3, <1>5, Sizes DEF C!QueueExact, C!LiveChunks, C!IsInjective, C!Range
<1>7. \A t \in Threads : holder = t <=> pc[t] \in EvictingChunks
  BY <1>1, ChunkCacheAssumption DEF EvictingChunks
<1>8. QED
  BY <1>1, <1>2, <1>4, <1>6, <1>7 DEF ChunkPolicyInv, ChunkTypeOK, ChunkPolicySound

\* The steps of zn_cache_get.
LEMMA WorkerKeeps ==
  ASSUME ChunkPolicyInv, NEW w \in Workers,
         \/ Common(w) \/ TouchChunk(w) \/ ReaderLeaves(w)
         \/ UpdateChunkPolicy(w) \/ UpdateChunkAborts(w)
  PROVE  ChunkPolicyInv'
<1>0. /\ ChunkStepsShaped /\ MutexHeld /\ LocalsTyped /\ PolicySound
      /\ w \in Threads
  BY InvParts DEF Threads
<1>1. CASE Common(w)
  <2>1. UNCHANGED <<chunkPolicyVars, holder, chunk, stale, exposed>>
    BY <1>1 DEF Common, chunkVars
  <2>2. NobodyEnters
    BY <1>0, <1>1, CommonMoves
  <2>3. QED
    BY <1>0, <2>1, <2>2, InvParts, PolicyKept, MutexKept DEF NobodyEnters, LocalsTyped
<1>2. CASE TouchChunk(w)
  <2>1. /\ pc[w] = "touch" /\ pc' = [pc EXCEPT ![w] = "dec"] /\ C!UpdateRead(location[w])
        /\ UNCHANGED <<location, holder, chunk, stale, exposed>>
    BY <1>2 DEF TouchChunk, Goto
  <2>2. NobodyEnters
    BY <1>0, <2>1, StaysWhere, StepNames DEF Located, EvictingChunks, WorkerSteps
  <2>3. location[w] \in Pairs
    BY <1>0, <2>1 DEF ChunkStepsShaped, Located
  <2>4. PolicySound'
    BY <1>0, <2>1, <2>3, UpdateReadSound DEF PolicySound
  <2>5. QED
    BY <1>0, <2>1, <2>2, <2>4, InvParts, MutexKept DEF NobodyEnters, LocalsTyped
<1>3. CASE ReaderLeaves(w)
  <2>1. /\ pc[w] = "dec" /\ UNCHANGED <<chunkPolicyVars, holder, chunk, stale>>
        /\ exposed' = exposed \ {w}
    BY <1>3 DEF ReaderLeaves, DecReaders, LeaveGet, Goto
  <2>2. PICK to \in {"stopped", "idle"} : pc' = [pc EXCEPT ![w] = to]
    BY <1>3 DEF ReaderLeaves, DecReaders, LeaveGet, Goto
  <2>3. location' = [location EXCEPT ![w] = NoPair]
    BY <1>3 DEF ReaderLeaves, DecReaders, LeaveGet
  <2>4. to \in ChunkSteps /\ to \notin Located /\ to \notin EvictingChunks
        /\ pc[w] \notin EvictingChunks
    BY <2>1, StepNames DEF Located, Writing, EvictingChunks, WorkerSteps
  <2>5. ChunkStepsShaped' /\ \A t \in Threads : pc'[t] = IF t = w THEN to ELSE pc[t]
    BY <1>0, <2>2, <2>3, <2>4, WorkerMoves
  <2>6. NobodyEnters
    BY <2>4, <2>5 DEF NobodyEnters
  <2>7. QED
    BY <1>0, <2>1, <2>6, InvParts, PolicyKept, MutexKept DEF NobodyEnters, LocalsTyped
<1>4. CASE UpdateChunkPolicy(w)
  <2>1. /\ pc[w] = "policy" /\ pc' = [pc EXCEPT ![w] = "insert"] /\ C!UpdateWrite(location[w])
        /\ UNCHANGED <<location, holder, chunk, exposed>>
        /\ stale' \in {stale, stale \union {location[w]}}
    BY <1>4 DEF UpdateChunkPolicy, Goto
  <2>2. NobodyEnters
    BY <1>0, <2>1, StaysWhere, StepNames DEF Located, EvictingChunks, WorkerSteps
  <2>3. location[w] \in Pairs
    BY <1>0, <2>1 DEF ChunkStepsShaped, Located
  <2>4. PolicySound'
    BY <1>0, <2>1, <2>3, UpdateWriteSound DEF PolicySound
  <2>5. QED
    BY <1>0, <2>1, <2>2, <2>3, <2>4, InvParts, MutexKept DEF NobodyEnters, LocalsTyped
<1>5. CASE UpdateChunkAborts(w)
  <2>1. UNCHANGED <<pc, location, chunkPolicyVars, holder, chunk, stale, exposed>>
    BY <1>5 DEF UpdateChunkAborts, chunkVars
  <2>2. QED
    BY <1>0, <2>1, InvParts, PolicyKept DEF ChunkStepsShaped, MutexHeld, LocalsTyped
<1>6. QED
  BY <1>1, <1>2, <1>3, <1>4, <1>5

\* The steps of zn_policy_chunk_evict and of the thread that calls it.
LEMMA EvictKeeps ==
  ASSUME ChunkPolicyInv, NEW t \in Threads, EvictOrCollect(t)
  PROVE  ChunkPolicyInv'
<1>0. ChunkStepsShaped /\ MutexHeld /\ LocalsTyped /\ PolicySound
  BY InvParts
<1>1. CASE EvictNothing(t)
  <2>1. /\ pc[t] = "fg_start" /\ pc' = [pc EXCEPT ![t] = Back(t)]
        /\ UNCHANGED <<location, chunkPolicyVars, holder, chunk, stale, exposed>>
    BY <1>1 DEF EvictNothing, Goto, evictUnchanged, chunkVars
  <2>2. /\ Back(t) \in ChunkSteps /\ Back(t) \notin Located /\ Back(t) \notin EvictingChunks
        /\ pc[t] \notin Located /\ pc[t] \notin EvictingChunks
    BY <2>1, StepNames DEF Back, WorkerSteps, EvictorSteps, Located, Writing, EvictingChunks
  <2>3. NobodyEnters
    BY <1>0, <2>1, <2>2, StaysWhere
  <2>4. QED
    BY <1>0, <2>1, <2>3, InvParts, PolicyKept, MutexKept DEF NobodyEnters, LocalsTyped
<1>2. CASE EvictChunks(t)
  <2>1. /\ pc[t] = "fg_start" /\ pc' = [pc EXCEPT ![t] = "chunk"]
        /\ holder = NoThread /\ holder' = t
        /\ UNCHANGED <<location, chunkPolicyVars, chunk, stale, exposed>>
    BY <1>2 DEF EvictChunks, Goto, evictUnchanged
  <2>2. "chunk" \in EvictingChunks /\ "chunk" \notin Located /\ pc[t] \notin Located
    BY <2>1 DEF Located, Writing, EvictingChunks
  <2>3. ChunkStepsShaped' /\ \A u \in Threads : pc'[u] = IF u = t THEN "chunk" ELSE pc[u]
    BY <1>0, <2>1, <2>2, ThreadMoves, StepNames
  <2>4. MutexHeld'
    BY <1>0, <2>1, <2>2, <2>3, ChunkCacheAssumption DEF MutexHeld
  <2>5. QED
    BY <1>0, <2>1, <2>3, <2>4, InvParts, PolicyKept DEF LocalsTyped
<1>3. CASE InvalidateChunk(t)
  <2>1. PICK pair \in Pairs : /\ C!Invalidate(pair) /\ chunk' = pair /\ stale' = stale \ {pair}
                             /\ Goto(t, "chunk", "clear_chunk")
                             /\ UNCHANGED <<location, holder, exposed>>
    BY <1>3 DEF InvalidateChunk, evictUnchanged
  <2>2. NobodyEnters
    BY <1>0, <2>1, StaysWhere, StepNames DEF Goto, Located, Writing, EvictingChunks
  <2>3. PolicySound'
    BY <1>0, <2>1, InvalidateSound DEF PolicySound
  <2>4. QED
    BY <1>0, <2>1, <2>2, <2>3, InvParts, MutexKept DEF NobodyEnters, LocalsTyped
<1>4. CASE ClearChunk(t)
  <2>1. /\ pc[t] = "clear_chunk" /\ pc' = [pc EXCEPT ![t] = IF todo[t] = 1 THEN "gc" ELSE "chunk"]
        /\ chunk' = NoPair /\ UNCHANGED <<location, chunkPolicyVars, holder, stale, exposed>>
    BY <1>4 DEF ClearChunk, Goto, evictUnchanged
  <2>2. PICK to \in {"gc", "chunk"} : pc' = [pc EXCEPT ![t] = to]
    BY <2>1
  <2>3. NobodyEnters
    BY <1>0, <2>1, <2>2, StaysWhere, StepNames DEF Located, Writing, EvictingChunks
  <2>4. QED
    BY <1>0, <2>1, <2>3, InvParts, PolicyKept, MutexKept DEF NobodyEnters, LocalsTyped
<1>5. CASE CollectNothing(t)
  <2>1. /\ pc[t] \in {"gc", "gc_more"} /\ pc' = [pc EXCEPT ![t] = Back(t)]
        /\ holder' = NoThread
        /\ UNCHANGED <<location, chunkPolicyVars, chunk, stale, exposed>>
    BY <1>5 DEF CollectNothing, Collecting, Goto, evictUnchanged
  <2>2. /\ Back(t) \in ChunkSteps /\ Back(t) \notin Located /\ Back(t) \notin EvictingChunks
        /\ pc[t] \notin Located /\ pc[t] \in EvictingChunks
    BY <2>1, StepNames DEF Back, WorkerSteps, EvictorSteps, Located, Writing, EvictingChunks
  <2>3. ChunkStepsShaped' /\ \A u \in Threads : pc'[u] = IF u = t THEN Back(t) ELSE pc[u]
    BY <1>0, <2>1, <2>2, ThreadMoves
  <2>4. MutexHeld'
    BY <1>0, <2>1, <2>2, <2>3, ChunkCacheAssumption DEF MutexHeld
  <2>5. QED
    BY <1>0, <2>1, <2>3, <2>4, InvParts, PolicyKept DEF LocalsTyped
<1>6. CASE PickZone(t)
  <2>1. PICK z \in Zones : C!ExtractMin(z)
    BY <1>6 DEF PickZone
  <2>2. /\ pc[t] \in {"gc", "gc_more"} /\ UNCHANGED <<location, holder, chunk, stale, exposed>>
        /\ \E to \in {"fg_clear", "gc_move"} : pc' = [pc EXCEPT ![t] = to]
    BY <1>6 DEF PickZone, Collecting, Goto, evictUnchanged
  <2>3. NobodyEnters
    BY <1>0, <2>2, StaysWhere, StepNames DEF Located, Writing, EvictingChunks
  <2>4. PolicySound'
    BY <1>0, <2>1, ExtractSound DEF PolicySound
  <2>5. QED
    BY <1>0, <2>2, <2>3, <2>4, InvParts, MutexKept DEF NobodyEnters, LocalsTyped
<1>7. CASE MoveTo(t) \/ CopyChunk(t) \/ ClearCollected(t) \/ ResetCollected(t)
  <2>1. /\ UNCHANGED <<location, chunkPolicyVars, holder, stale>>
        /\ chunk' \in Pairs \union {chunk} /\ exposed' \subseteq exposed \union Workers
    BY <1>7 DEF MoveTo, CopyChunk, ClearCollected, ClearZone, ResetCollected, evictUnchanged,
                chunkVars
  <2>2. /\ pc[t] \in {"gc_move", "gc_copy", "fg_clear", "fg_spin"}
        /\ \E to \in {"gc_copy", "gc_insert", "fg_spin", "gc_more"} : pc' = [pc EXCEPT ![t] = to]
    BY <1>7 DEF MoveTo, CopyChunk, ClearCollected, ClearZone, ResetCollected, Goto
  <2>3. NobodyEnters
    BY <1>0, <2>1, <2>2, StaysWhere, StepNames DEF Located, Writing, EvictingChunks
  <2>4. QED
    BY <1>0, <2>1, <2>3, InvParts, PolicyKept, MutexKept DEF NobodyEnters, LocalsTyped
<1>8. CASE InvalidateCrashes(t) \/ ClearChunkAborts(t) \/ PickNothing(t) \/ MoveFails(t)
           \/ CopyFails(t) \/ GcInsertAborts(t) \/ ResetCollectedAborts(t)
  <2>1. UNCHANGED <<pc, location, chunkPolicyVars, holder, chunk, stale, exposed>>
    BY <1>8 DEF InvalidateCrashes, ClearChunkAborts, PickNothing, MoveFails, CopyFails,
                GcInsertAborts, ResetCollectedAborts, Crash, evictUnchanged, chunkVars
  <2>2. QED
    BY <1>0, <2>1, InvParts, PolicyKept DEF ChunkStepsShaped, MutexHeld, LocalsTyped
<1>9. QED
  BY <1>1, <1>2, <1>3, <1>4, <1>5, <1>6, <1>7, <1>8 DEF EvictOrCollect

\* The eviction thread's own steps.
LEMMA CheckKeeps ==
  ASSUME ChunkPolicyInv, (CheckDone \/ CheckFree) /\ UNCHANGED chunkVars
  PROVE  ChunkPolicyInv'
<1>0. /\ ChunkStepsShaped /\ MutexHeld /\ LocalsTyped /\ PolicySound
      /\ Evictor \in Threads
  BY InvParts DEF Threads
<1>1. /\ UNCHANGED <<location, chunkPolicyVars, holder, chunk, stale, exposed>>
      /\ pc[Evictor] \in {"evict_task", "free_check"}
      /\ \E to \in {"ended", "free_check", "evict_task", "fg_start"} :
           pc' = [pc EXCEPT ![Evictor] = to]
  BY DEF CheckDone, CheckFree, Goto, chunkVars
<1>2. PICK to \in {"ended", "free_check", "evict_task", "fg_start"} :
        pc' = [pc EXCEPT ![Evictor] = to]
  BY <1>1
<1>3. NobodyEnters
  <2>1. /\ to \in ChunkSteps /\ to \notin Located /\ to \notin EvictingChunks
        /\ pc[Evictor] \notin Located /\ pc[Evictor] \notin EvictingChunks
    BY <1>1, StepNames DEF EvictorSteps, Located, Writing, EvictingChunks
  <2>2. QED
    BY <1>0, <1>1, <1>2, <2>1, StaysWhere
<1>4. QED
  BY <1>0, <1>1, <1>3, InvParts, PolicyKept, MutexKept DEF NobodyEnters, LocalsTyped

-----------------------------------------------------------------------------

\* In every reachable state the policy's own data is sound.
THEOREM ChunkPolicyInvariant == ChunkCacheSpec => []ChunkPolicyInv
<1>1. ChunkPolicyInv /\ [ChunkCacheNext]_chunkCacheVars => ChunkPolicyInv'
  <2>1. ASSUME ChunkPolicyInv, UNCHANGED <<pc, location, chunkVars>> PROVE ChunkPolicyInv'
    BY <2>1, InvParts, PolicyKept DEF chunkVars, ChunkStepsShaped, MutexHeld, LocalsTyped
  <2>2. UNCHANGED chunkCacheVars => UNCHANGED <<pc, location, chunkVars>>
    BY DEF chunkCacheVars, vars
  <2>3. Terminated /\ UNCHANGED chunkVars => UNCHANGED <<pc, location, chunkVars>>
    BY DEF Terminated, vars
  <2>4. ASSUME ChunkPolicyInv, NEW w \in Workers, ChunkWorker(w) PROVE ChunkPolicyInv'
    BY <2>4, WorkerKeeps, EvictKeeps DEF ChunkWorker, Threads
  <2>5. ASSUME ChunkPolicyInv, ChunkEvictions PROVE ChunkPolicyInv'
    BY <2>5, CheckKeeps, EvictKeeps DEF ChunkEvictions, Threads
  <2>6. QED
    BY <2>1, <2>2, <2>3, <2>4, <2>5 DEF ChunkCacheNext
<1>2. QED
  BY PolicyInit, <1>1, PTL DEF ChunkCacheSpec

\* policy_mutex is held exactly by the thread inside zn_policy_chunk_evict.
THEOREM ChunkTypes == ChunkCacheSpec => []ChunkTypeOK
<1>1. ChunkPolicyInv => ChunkTypeOK
  BY DEF ChunkPolicyInv
<1>2. QED
  BY <1>1, ChunkPolicyInvariant, PTL

\* The queue, the map, the counters and the priorities agree, whatever order
\* updates, evictions and late reads come in.
THEOREM ChunkPolicyAgrees == ChunkCacheSpec => []ChunkPolicySound
<1>1. ChunkPolicyInv => ChunkPolicySound
  BY DEF ChunkPolicyInv
<1>2. QED
  BY <1>1, ChunkPolicyInvariant, PTL

-----------------------------------------------------------------------------
(* The zone state manager, with garbage collection as one of its clients.  *)

ZCP == INSTANCE ZoneStateManager_proofs WITH
         Faults <- Faults \intersect ZoneCommands, MaxInvalid <- 0, aborted <- FALSE,
         lent <- ChunkLent, filled <- Filled \union invalid_pqueue, marked <- {}

\* The manager's assumptions hold of the instance that garbage collection uses too.
LEMMA ChunkZoneAssumption == ZCP!ZSMAssumption
<1>1. IsFiniteSet(Threads)
  BY ZNCacheAssumption, FS_AddElement DEF Threads
<1>2. QED
  BY <1>1, ZNCacheAssumption
     DEF Zones, Pairs, Chunks, ZCP!Pairs, ZCP!Zones, ZCP!DeviceCommands, ZoneCommands,
         ZCP!IsFiniteSet, IsFiniteSet

\* The manager's invariant says the same with its proofs and without.
LEMMA ChunkZoneSame == (ZC!ZSMInv <=> ZCP!ZSMInv) /\ (ZC!ZSMInv' <=> ZCP!ZSMInv')
BY DEF ZC!ZSMInv, ZCP!ZSMInv, ZC!TypeOK, ZCP!TypeOK, ZC!HeldZoneStable, ZCP!HeldZoneStable,
       ZC!Holding, ZCP!Holding, ZC!WritesCounted, ZCP!WritesCounted, ZC!ActiveLimit,
       ZCP!ActiveLimit, ZC!NumActive, ZCP!NumActive, ZC!QueuesSound, ZCP!QueuesSound,
       ZC!ZonesTracked, ZCP!ZonesTracked, ZC!Zones, ZCP!Zones, ZC!Pairs, ZCP!Pairs, ZC!Conditions,
       ZCP!Conditions, ZC!IsInjective, ZCP!IsInjective, ZC!Range, ZCP!Range, ZC!Cardinality,
       ZCP!Cardinality

\* The clients' ways to a zone, which keep the manager's invariant.
LEMMA ChunkZoneStep ==
  ASSUME ZC!ZSMInv,
         \/ \E t \in Threads : ZC!Get(t) \/ ZC!GetError(t) \/ ZC!Return(t) \/ ZC!Fail(t)
         \/ \E z \in Zones : ZC!EvictZone(z)
         \/ UNCHANGED ZC!vars
  PROVE  ZC!ZSMInv'
<1>1. [ZCP!Next]_(ZCP!vars)
  BY DEF ZCP!Next, ZC!vars, ZCP!vars, ZC!zsmVars, ZCP!zsmVars, ZC!clientVars,
         ZCP!clientVars, Zones, ZC!Zones, ZCP!Zones, ZC!Pairs, ZCP!Pairs, ZC!NumActive,
         ZCP!NumActive, ZC!Get, ZCP!Get, ZC!GetError, ZCP!GetError, ZC!Return, ZCP!Return, ZC!Fail,
         ZCP!Fail, ZC!EvictZone, ZCP!EvictZone, ZC!ReuseActiveZone, ZCP!ReuseActiveZone,
         ZC!OpenFreeZone, ZCP!OpenFreeZone, ZC!OpenFails, ZCP!OpenFails, ZC!CanOpen, ZCP!CanOpen,
         ZC!Lend, ZCP!Lend, ZC!WriterAsserts, ZCP!WriterAsserts, ZC!Reactivate, ZCP!Reactivate,
         ZC!CloseZone, ZCP!CloseZone, ZC!ReturnActiveZone, ZCP!ReturnActiveZone, ZC!FailedToWrite,
         ZCP!FailedToWrite, ZC!Evict, ZCP!Evict
<1>2. QED
  BY <1>1, ChunkZoneSame, ZCP!NextInv, ChunkZoneAssumption

\* The manager's invariant holds of the zones at the start.
LEMMA ChunkZoneInit == ZC!Init => ZC!ZSMInv
<1>1. ZC!Init <=> ZCP!Init
  BY DEF ZC!Init, ZCP!Init, ZC!InitZSM, ZCP!InitZSM, ZC!Zones, ZCP!Zones
<1>2. QED
  BY <1>1, ChunkZoneSame, ZCP!InitInv, ChunkZoneAssumption

\* Who holds a chunk to write, one thread at a time.
LEMMA ChunkLentAt ==
  /\ \A t \in Threads : ChunkLent[t] = IF pc[t] \in Writing THEN location[t]
                                       ELSE IF pc[t] \in {"gc_copy", "gc_insert"} THEN chunk
                                       ELSE NoPair
  /\ DOMAIN ChunkLent = Threads
BY DEF ChunkLent

\* The invariant of the manager with garbage collection says of the workers
\* what ZNCache's proofs need.
LEMMA ZonesAreChunkSound ==
  ASSUME ZC!ZSMInv, TypeOK
  PROVE  ZonesSound
<1>1. ZC!TypeOK /\ ZC!HeldZoneStable /\ ZC!QueuesSound /\ ZC!ZonesTracked
  BY DEF ZC!ZSMInv
<1>2. \A w \in Workers : w \in Threads /\ Lent[w] = IF pc[w] \in Writing THEN location[w] ELSE NoPair
  BY DEF Lent, Threads
<1>3. Z!TypeOK
  <2>1. Lent \in [Workers -> Pairs \union {NoPair}]
    BY DEF Lent, TypeOK
  <2>2. Filled \subseteq Zones
    BY <1>1 DEF ZC!TypeOK, ZC!Zones, Zones
  <2>3. aborted \in BOOLEAN
    BY DEF TypeOK
  <2>4. QED
    BY <1>1, <2>1, <2>2, <2>3
       DEF ZC!TypeOK, Z!TypeOK, ZC!Zones, Z!Zones, Zones, ZC!Pairs, Z!Pairs, Pairs, Chunks,
           ZC!Conditions, Z!Conditions
<1>4. Z!HeldZoneStable
  <2>1. \A w \in Z!Holding : w \in ZC!Holding /\ ChunkLent[w] = Lent[w]
    BY <1>2, ChunkLentAt DEF Z!Holding, ZC!Holding
  <2>2. QED
    BY <1>1, <2>1 DEF Z!HeldZoneStable, ZC!HeldZoneStable
<1>5. Z!QueuesSound
  BY <1>1 DEF ZC!QueuesSound, Z!QueuesSound, ZC!IsInjective, Z!IsInjective, ZC!Range, Z!Range
<1>6. \A z \in Filled :
        \/ state[z] = "FULL"
        \/ state[z] = "WRITE_OCCURING" /\ chunk_offset[z] = max_zone_chunks
  BY <1>1 DEF ZC!ZonesTracked
<1>7. QED
  BY <1>3, <1>4, <1>5, <1>6 DEF ZonesSound

-----------------------------------------------------------------------------
(* The steps ChunkCache has in common with ZNCache.                        *)

Shared ==
  \/ Running /\ \E w \in Workers : Common(w) \/ ReaderLeaves(w)
  \/ Running /\ \E t \in Threads : ClearCollected(t)
  \/ Running /\ (CheckDone \/ CheckFree) /\ UNCHANGED chunkVars
  \/ UNCHANGED chunkCacheVars

\* They are steps of ZNCache.
LEMMA SharedNext == Shared => [Next]_vars
BY DEF Shared, Common, ReaderLeaves, ClearCollected, chunkCacheVars, Next, Worker, Evictions, Evict,
       Threads

\* They leave the thread inside zn_policy_chunk_evict where it is, but for the
\* clearing of a zone.
InsideChunks == EvictingChunks \ {"fg_clear", "fg_spin"}

OutsideStays ==
  /\ \A t \in Threads : pc'[t] # pc[t] => pc[t] \notin InsideChunks /\ pc'[t] \notin InsideChunks
  /\ \A t \in Threads : pc'[t] = "fg_clear" => pc[t] = "fg_clear"
  /\ \A t \in Threads : pc'[t] = "fg_spin" => pc[t] \in {"fg_clear", "fg_spin"}

\* A writer comes to update_policy with its chunk and waits there.
WritersWait ==
  \A w \in Workers :
    /\ pc[w] = "policy" => /\ pc'[w] = "policy" /\ location'[w] = location[w]
                           /\ w \in overtaken => w \in overtaken'
    /\ pc'[w] = "policy" => pc[w] \in {"policy", "return"} /\ location'[w] = location[w]

\* A worker's step that does not touch the policy moves that worker only.
LEMMA CommonSteps ==
  ASSUME TypeOK, NEW w \in Workers, Common(w) \/ ReaderLeaves(w)
  PROVE  OutsideStays /\ WritersWait
<1>1. w \in Threads
  BY DEF Threads
<1>2. CASE CopyGarbage(w) \/ SpuriousWakeup(w)
  BY <1>2 DEF CopyGarbage, SpuriousWakeup, historyVars, OutsideStays, WritersWait
<1>3. CASE ~(CopyGarbage(w) \/ SpuriousWakeup(w))
  <2>1. PICK to : /\ pc' = [pc EXCEPT ![w] = to]
                  /\ pc[w] \notin EvictingChunks \union {"policy"} /\ to \notin EvictingChunks
                  /\ to = "policy" => pc[w] = "return" /\ UNCHANGED location
    BY <1>3 DEF Common, ReaderLeaves, TakeQuery, EndTask, Find, Copy, Read, DecReaders,
         GetActiveZone, Write, WriteFails, ReturnActiveZone, Insert, UndoZoneGet, UndoMap, LeaveGet,
         Goto, EvictingChunks
  <2>2. \A v \in Workers : v # w => UNCHANGED location[v] /\ (v \in overtaken => v \in overtaken')
    BY <1>3 DEF Common, ReaderLeaves, TakeQuery, EndTask, Find, Copy, Read, DecReaders,
         GetActiveZone, Write, WriteFails, ReturnActiveZone, Insert, UndoZoneGet, UndoMap, LeaveGet,
         historyVars, TypeOK
  <2>3. \A t \in Threads : pc'[t] = IF t = w THEN to ELSE pc[t]
    BY <2>1 DEF TypeOK
  <2>4. OutsideStays
    BY <2>1, <2>3 DEF OutsideStays, InsideChunks, EvictingChunks
  <2>5. WritersWait
    BY <2>1, <2>2, <2>3 DEF WritersWait, Threads
  <2>6. QED
    BY <2>4, <2>5
<1>4. QED
  BY <1>2, <1>3

\* The same of all the steps shared with ZNCache.
LEMMA SharedMoves ==
  ASSUME TypeOK, Shared
  PROVE  OutsideStays /\ WritersWait
<1>1. ASSUME NEW t \in Threads, ClearCollected(t) PROVE OutsideStays /\ WritersWait
  <2>1. /\ pc[t] = "fg_clear" /\ pc' = [pc EXCEPT ![t] = "fg_spin"] /\ UNCHANGED location
        /\ overtaken \subseteq overtaken'
    BY <1>1 DEF ClearCollected, ClearZone, Goto
  <2>2. \A u \in Threads : pc'[u] = IF u = t THEN "fg_spin" ELSE pc[u]
    BY <2>1 DEF TypeOK
  <2>3. QED
    BY <2>1, <2>2 DEF OutsideStays, WritersWait, InsideChunks, EvictingChunks, Threads
<1>2. ASSUME CheckDone \/ CheckFree PROVE OutsideStays /\ WritersWait
  <2>1. PICK to \in {"ended", "free_check", "evict_task", "fg_start"} :
          pc' = [pc EXCEPT ![Evictor] = to]
    BY <1>2 DEF CheckDone, CheckFree, Goto
  <2>2. pc[Evictor] \in {"evict_task", "free_check"} /\ UNCHANGED <<location, overtaken>>
    BY <1>2 DEF CheckDone, CheckFree, Goto, historyVars
  <2>3. \A u \in Threads : pc'[u] = IF u = Evictor THEN to ELSE pc[u]
    BY <2>1 DEF TypeOK
  <2>4. QED
    BY <2>2, <2>3, ZNCacheAssumption
       DEF OutsideStays, WritersWait, InsideChunks, EvictingChunks, Threads
<1>3. ASSUME UNCHANGED chunkCacheVars PROVE OutsideStays /\ WritersWait
  BY <1>3 DEF chunkCacheVars, vars, historyVars, OutsideStays, WritersWait
<1>4. QED
  BY <1>1, <1>2, <1>3, CommonSteps DEF Shared

\* What they do not change at all.
LEMMA SharedKeeps ==
  ASSUME Shared
  PROVE  /\ UNCHANGED <<chunk_lru, chunk_to_lru_map, in_use, chunks_in_use, pqueue_entry,
                        invalid_pqueue, priority, holder, chunk, stale>>
         /\ UNCHANGED <<lru_queue, zone_to_lru_map, victim, todo, invalid>>
         /\ exposed' \subseteq exposed
<1>1. UNCHANGED <<chunkPolicyVars, holder, chunk, stale>> /\ exposed' \subseteq exposed
  BY DEF Shared, Common, ReaderLeaves, ClearCollected, chunkVars, chunkCacheVars
<1>2. UNCHANGED <<lru_queue, zone_to_lru_map, victim, todo>>
  BY DEF Shared, Common, ReaderLeaves, TakeQuery, EndTask, Find, Copy, CopyGarbage, Read,
         DecReaders, GetActiveZone, Write, WriteFails, ReturnActiveZone, Insert, UndoZoneGet,
         UndoMap, SpuriousWakeup, ClearCollected, ClearZone, CheckDone, CheckFree, chunkCacheVars,
         vars, policyVars, evictVars
<1>3. UNCHANGED invalid
  <2>1. ASSUME NEW w \in Workers, GetActiveZone(w) PROVE UNCHANGED invalid
    BY <2>1 DEF GetActiveZone, Z!ReuseActiveZone, Z!OpenFreeZone, Z!OpenFails, zsmVars
  <2>2. ASSUME NEW w \in Workers, ReturnActiveZone(w) \/ UndoZoneGet(w) PROVE UNCHANGED invalid
    BY <2>2 DEF ReturnActiveZone, UndoZoneGet, Z!ReturnActiveZone, Z!FailedToWrite
  <2>3. QED
    BY <2>1, <2>2
       DEF Shared, Common, ReaderLeaves, TakeQuery, EndTask, Find, Copy, CopyGarbage, Read,
           DecReaders, Write, WriteFails, Insert, UndoMap, SpuriousWakeup, ClearCollected,
           ClearZone, CheckDone, CheckFree, chunkCacheVars, vars, zsmVars
<1>4. QED
  BY <1>1, <1>2, <1>3 DEF chunkPolicyVars

\* What the manager lends: to the workers what ZNCache says, to garbage
\* collection the place of the chunk it moves.
Moving == {"gc_copy", "gc_insert"}

LentTo == \A t \in Threads : ChunkLent[t] = IF pc[t] \in Moving THEN chunk
                                            ELSE IF t \in Workers THEN Lent[t] ELSE NoPair

\* Who writes to a chunk, said thread by thread.
LEMMA LentToEach == (TypeOK => LentTo) /\ (TypeOK' => LentTo')
BY DEF LentTo, TypeOK, ChunkLent, Lent, Threads, Moving, Writing, WorkerSteps

\* A step of a worker that ZNCache's manager sees is one that this one sees.
LEMMA ChunkZoneUses ==
  ASSUME TypeOK, TypeOK', NEW w \in Workers, UNCHANGED <<chunk, invalid_pqueue>>,
         \A t \in Threads : pc[t] \in Moving \/ pc'[t] \in Moving => pc'[t] = pc[t] /\ t # w,
         UsedBy(w)
  PROVE  ZC!Get(w) \/ ZC!GetError(w) \/ ZC!Return(w) \/ ZC!Fail(w) \/ UNCHANGED ZC!vars
<1>1. w \in Threads /\ pc[w] \notin Moving /\ pc'[w] \notin Moving /\ LentTo /\ LentTo'
  BY LentToEach DEF Threads
<1>2. ChunkLent[w] = Lent[w] /\ ChunkLent'[w] = Lent'[w]
  BY <1>1 DEF LentTo
<1>3. /\ DOMAIN ChunkLent = Threads /\ DOMAIN ChunkLent' = Threads
      /\ DOMAIN Lent = Workers /\ DOMAIN Lent' = Workers
      /\ ChunkLent = [t \in Threads |-> ChunkLent[t]] /\ ChunkLent' = [t \in Threads |-> ChunkLent'[t]]
      /\ Lent = [v \in Workers |-> Lent[v]] /\ Lent' = [v \in Workers |-> Lent'[v]]
  BY DEF ChunkLent, Lent
<1>4. ASSUME NEW pair, Lent' = [Lent EXCEPT ![w] = pair]
      PROVE  ChunkLent' = [ChunkLent EXCEPT ![w] = pair]
  <2>1. \A t \in Threads : ChunkLent'[t] = IF t = w THEN pair ELSE ChunkLent[t]
    BY <1>1, <1>2, <1>3, <1>4 DEF LentTo
  <2>2. QED
    BY <1>3, <2>1
<1>5. ASSUME Lent' = Lent PROVE ChunkLent' = ChunkLent
  <2>1. \A t \in Threads : ChunkLent'[t] = ChunkLent[t]
    BY <1>1, <1>5 DEF LentTo
  <2>2. QED
    BY <1>3, <2>1
<1>6. CASE Z!Get(w)
  <2>1. PICK pair \in Pairs : /\ Z!ReuseActiveZone(pair) \/ Z!OpenFreeZone(pair)
                              /\ Lent' = [Lent EXCEPT ![w] = pair]
                              /\ Lent[w] = NoPair /\ UNCHANGED Filled
    BY <1>6 DEF Z!Get, Z!Pairs, Z!Zones, Pairs, Zones, Chunks
  <2>2. ZC!ReuseActiveZone(pair) \/ ZC!OpenFreeZone(pair)
    BY <2>1 DEF Z!ReuseActiveZone, ZC!ReuseActiveZone, Z!OpenFreeZone, ZC!OpenFreeZone, Z!Lend,
                ZC!Lend, Z!CanOpen, ZC!CanOpen, Z!NumActive, ZC!NumActive
  <2>3. ZC!Get(w)
    BY <1>2, <1>4, <2>1, <2>2 DEF ZC!Get, ZC!Pairs, ZC!Zones, Pairs, Zones, Chunks
  <2>4. QED
    BY <2>3
<1>7. CASE Z!GetError(w)
  <2>1. Z!OpenFails /\ Lent[w] = NoPair /\ UNCHANGED <<Lent, Filled>>
    BY <1>7 DEF Z!GetError, Z!clientVars
  <2>2. ZC!OpenFails
    BY <2>1 DEF Z!OpenFails, ZC!OpenFails, Z!CanOpen, ZC!CanOpen, Z!NumActive, ZC!NumActive
  <2>3. ZC!GetError(w)
    BY <1>2, <1>5, <2>1, <2>2 DEF ZC!GetError, ZC!clientVars
  <2>4. QED
    BY <2>3
<1>8. CASE Z!Return(w)
  <2>1. /\ Z!ReturnActiveZone(Lent[w]) /\ Lent[w] # NoPair /\ Lent' = [Lent EXCEPT ![w] = NoPair]
        /\ Filled' = IF Lent[w].chunk_offset = max_zone_chunks - 1
                     THEN Filled \union {Lent[w].zone} ELSE Filled
    BY <1>8 DEF Z!Return
  <2>2. ZC!ReturnActiveZone(Lent[w])
    BY <2>1 DEF Z!ReturnActiveZone, ZC!ReturnActiveZone, Z!WriterAsserts, ZC!WriterAsserts,
                Z!NumActive, ZC!NumActive, Z!CloseZone, ZC!CloseZone, Z!Reactivate, ZC!Reactivate
  <2>3. (Filled \union invalid_pqueue)' = IF Lent[w].chunk_offset = max_zone_chunks - 1
                                          THEN (Filled \union invalid_pqueue) \union {Lent[w].zone}
                                          ELSE Filled \union invalid_pqueue
    BY <2>1
  <2>4. ZC!Return(w)
    BY <1>2, <1>4, <2>1, <2>2, <2>3 DEF ZC!Return
  <2>5. QED
    BY <2>4
<1>9. CASE Z!Fail(w)
  <2>1. /\ Z!FailedToWrite(Lent[w]) /\ Lent[w] # NoPair /\ Lent' = [Lent EXCEPT ![w] = NoPair]
        /\ UNCHANGED Filled
    BY <1>9 DEF Z!Fail
  <2>2. ZC!FailedToWrite(Lent[w])
    BY <2>1 DEF Z!FailedToWrite, ZC!FailedToWrite, Z!WriterAsserts, ZC!WriterAsserts,
                Z!NumActive, ZC!NumActive, Z!Reactivate, ZC!Reactivate
  <2>3. ZC!Fail(w)
    BY <1>2, <1>4, <2>1, <2>2 DEF ZC!Fail
  <2>4. QED
    BY <2>3
<1>10. CASE UNCHANGED Z!vars
  BY <1>5, <1>10 DEF Z!vars, ZC!vars, Z!zsmVars, ZC!zsmVars, Z!clientVars, ZC!clientVars
<1>11. QED
  BY <1>6, <1>7, <1>8, <1>9, <1>10 DEF UsedBy

\* A worker's steps use the manager and the map as in ZNCache.
LEMMA CommonUses ==
  ASSUME TypeOK, M!MapInv, StepsShaped, OnePlace, Running, NEW w \in Workers,
         Common(w) \/ ReaderLeaves(w)
  PROVE  UsedBy(w)
<1>1. CASE Find(w)
  BY <1>1, FindUses
<1>2. CASE DecReaders(w) \/ Insert(w) \/ UndoMap(w)
  BY <1>2, LeaveUses
<1>3. CASE TakeQuery(w) \/ EndTask(w) \/ Read(w) \/ Write(w) \/ WriteFails(w)
  BY <1>3, PlainUses
<1>4. CASE Copy(w) \/ CopyGarbage(w) \/ SpuriousWakeup(w)
  BY <1>4, CopyUses
<1>5. CASE GetActiveZone(w) \/ ReturnActiveZone(w) \/ UndoZoneGet(w)
  BY <1>5, GetUses, ReturnUses, UndoUses
<1>6. QED
  BY <1>1, <1>2, <1>3, <1>4, <1>5 DEF Common, ReaderLeaves

\* zn_policy_chunk_evict resets its zones itself.
LEMMA NeverResetting ==
  ASSUME ChunkStepsShaped
  PROVE  /\ \A t \in Threads : pc[t] # "fg_reset"
         /\ \A zone : ~Resetting(zone)
BY DEF ChunkStepsShaped, ChunkSteps, WorkerSteps, EvictorSteps, EvictingChunks, Resetting

\* The invariant's parts, as ZNCache's proofs want them.
LEMMA InvGives ==
  ASSUME ChunkInv
  PROVE  /\ ChunkStepsShaped /\ MutexHeld /\ LocalsTyped /\ PolicySound
         /\ TypeOK /\ ZC!ZSMInv /\ ZonesSound /\ Z!TypeOK /\ M!MapInv /\ StepsShaped /\ OnePlace
         /\ DataPlaced /\ Placed /\ WroteIt
         /\ EvictionShaped /\ ZonesQueued /\ UseSound /\ InUseMapped /\ ChunkReadersHeld
<1>1. ZonesSound
  BY ZonesAreChunkSound DEF ChunkInv
<1>2. QED
  BY <1>1, InvParts, PlacedParts DEF ChunkInv, ZonesSound, Placed

\* A shared step keeps what ZNCache's own invariant says, and the data on the device.
LEMMA SharedBasics ==
  ASSUME ChunkInv, Shared
  PROVE  TypeOK' /\ StepsShaped' /\ OnePlace' /\ DataPlaced' /\ DiskKept
<1>1. \A t \in Threads : pc[t] # "fg_reset"
  BY NeverResetting, InvGives
<1>2. [Next]_vars
  BY SharedNext
<1>3. QED
  BY <1>1, <1>2, InvGives, TypeStep, ShapeStep, OnePlaceStep, PlacedStep, DiskStep

\* A shared step keeps the invariants of the manager and of the map.
LEMMA SharedComponents ==
  ASSUME ChunkInv, Shared
  PROVE  ZC!ZSMInv' /\ M!MapInv'
<1>1. /\ TypeOK /\ ZC!ZSMInv /\ M!MapInv /\ StepsShaped /\ OnePlace /\ TypeOK'
      /\ UNCHANGED <<chunk, invalid_pqueue>>
      /\ \A t \in Threads : pc[t] \in Moving \/ pc'[t] \in Moving => pc'[t] = pc[t]
  <2>1. \A t \in Threads : pc'[t] # pc[t] => pc[t] \notin InsideChunks /\ pc'[t] \notin InsideChunks
    BY InvGives, SharedMoves DEF OutsideStays
  <2>2. Moving \subseteq InsideChunks
    BY DEF Moving, InsideChunks, EvictingChunks
  <2>3. QED
    BY <2>1, <2>2, InvGives, SharedBasics, SharedKeeps
<1>2. ASSUME NEW w \in Workers, Running, Common(w) \/ ReaderLeaves(w)
      PROVE  ZC!ZSMInv' /\ M!MapInv'
  <2>1. UsedBy(w)
    BY <1>1, <1>2, CommonUses
  <2>2. w \in Threads /\ pc[w] \notin Moving
    <3>1. CASE SpuriousWakeup(w)
      <4>1. Role[w] = "find"
        BY <1>1, <3>1 DEF SpuriousWakeup, M!SpuriousWakeup, M!MapInv, M!NoLostWakeup
      <4>2. QED
        BY <4>1, RolesAt DEF Role, Threads, Moving, EvictSteps, Evicting
    <3>2. CASE ~SpuriousWakeup(w)
      BY <1>2, <3>2
         DEF Threads, Moving, Common, ReaderLeaves, TakeQuery, EndTask, Find, Copy, CopyGarbage,
             Read, DecReaders, GetActiveZone, Write, WriteFails, ReturnActiveZone, Insert,
             UndoZoneGet, UndoMap, LeaveGet, Goto
    <3>3. QED
      BY <3>1, <3>2
  <2>3. ZC!ZSMInv'
    BY <1>1, <2>1, <2>2, ChunkZoneUses, ChunkZoneStep
  <2>4. QED
    BY <1>1, <2>1, <2>3, MapStep DEF UsedBy
<1>3. ASSUME UNCHANGED Z!vars PROVE ZC!ZSMInv'
  <2>1. UNCHANGED <<zsmVars, Lent, Filled>>
    BY <1>3 DEF Z!vars, Z!zsmVars, zsmVars, Z!clientVars
  <2>2. ChunkLent' = ChunkLent
    <3>1. LentTo /\ LentTo'
      BY <1>1, LentToEach
    <3>2. \A t \in Threads : ChunkLent'[t] = ChunkLent[t]
      BY <1>1, <2>1, <3>1 DEF LentTo
    <3>3. QED
      BY <3>2 DEF ChunkLent
  <2>3. UNCHANGED ZC!vars
    BY <1>1, <2>1, <2>2 DEF ZC!vars, ZC!zsmVars, zsmVars, ZC!clientVars
  <2>4. QED
    BY <1>1, <2>3, ChunkZoneStep
<1>4. ASSUME NEW t \in Threads, Running, ClearCollected(t) PROVE ZC!ZSMInv' /\ M!MapInv'
  BY <1>1, <1>3, <1>4, ClearUses, MapStep DEF ClearCollected
<1>5. ASSUME (CheckDone \/ CheckFree) \/ UNCHANGED chunkCacheVars PROVE ZC!ZSMInv' /\ M!MapInv'
  <2>1. UNCHANGED <<zsmVars, aborted, lru_queue, victim, mapVars, dangling, undefined>>
    BY <1>5 DEF CheckDone, CheckFree, chunkCacheVars, vars, policyVars, evictVars, crashVars
  <2>2. UNCHANGED <<Lent, Role, Arg, Loc, Filled>>
    <3>1. CASE CheckDone \/ CheckFree
      <4>1. PICK to : /\ pc' = [pc EXCEPT ![Evictor] = to] /\ UNCHANGED <<location, data_id>>
                      /\ to \in {"ended", "free_check", "evict_task", "fg_start"}
                      /\ pc[Evictor] \in {"evict_task", "free_check"}
        BY <3>1 DEF CheckDone, CheckFree, Goto
      <4>2. Filled' = Filled
        BY <1>1, <2>1, <4>1, FilledKept DEF Threads, Evicting
      <4>3. QED
        BY <1>1, <4>1, <4>2, EvictorUnseen
    <3>2. CASE UNCHANGED chunkCacheVars
      BY <3>2 DEF chunkCacheVars, vars, policyVars, evictVars, Lent, Role, Arg, Loc, Filled,
                  Filling, LastChunk
    <3>3. QED
      BY <1>5, <3>1, <3>2
  <2>3. QED
    BY <1>1, <1>3, <2>1, <2>2, ZoneIdle, MapIdle, MapStep
<1>6. QED
  BY <1>2, <1>4, <1>5 DEF Shared

\* Only a writer that gives its chunk back makes a chunk written.
LEMMA SharedWrites ==
  ASSUME ChunkInv, Shared, NEW pair \in Pairs, Written(pair)', ~Written(pair)
  PROVE  \E w \in Workers : /\ pc[w] = "return" /\ location[w] = pair
                            /\ pc'[w] = "policy" /\ location'[w] = pair
<1>0. /\ TypeOK /\ ZonesSound /\ StepsShaped /\ Z!TypeOK
      /\ pair.zone \in Zones /\ pair.chunk_offset \in 0 .. max_zone_chunks - 1
      /\ max_zone_chunks \in Nat \ {0}
  BY InvGives, Sizes DEF Pairs, Chunks
<1>1. /\ state \in [Zones -> {"FREE", "FULL", "ACTIVE", "WRITE_OCCURING"}]
      /\ chunk_offset \in [Zones -> 0 .. max_zone_chunks]
      /\ state[pair.zone] # "FULL" /\ ~(pair.chunk_offset < chunk_offset[pair.zone])
  BY <1>0, ZoneTypes DEF Written
<1>2. ~UNCHANGED <<state, chunk_offset>>
  BY DEF Written
<1>3. ASSUME NEW w \in Workers, GetActiveZone(w) PROVE FALSE
  <2>1. PICK p \in Pairs : Z!ReuseActiveZone(p) \/ Z!OpenFreeZone(p)
    BY <1>2, <1>3 DEF GetActiveZone, Z!OpenFails, zsmVars
  <2>2. state' = [state EXCEPT ![p.zone] = "WRITE_OCCURING"] /\ p.zone \in Zones
        /\ \/ UNCHANGED chunk_offset
           \/ chunk_offset' = [chunk_offset EXCEPT ![p.zone] = 0]
    BY <2>1 DEF Z!ReuseActiveZone, Z!OpenFreeZone, Z!Lend, Pairs
  <2>3. QED
    BY <1>0, <1>1, <2>2 DEF Written
<1>4. ASSUME NEW w \in Workers, UndoZoneGet(w) PROVE FALSE
  <2>1. state' = [state EXCEPT ![location[w].zone] = "ACTIVE"] /\ UNCHANGED chunk_offset
    BY <1>4 DEF UndoZoneGet, Z!FailedToWrite, Z!Reactivate
  <2>2. QED
    BY <1>0, <1>1, <2>1 DEF Written
<1>5. ASSUME NEW w \in Workers, ReturnActiveZone(w)
      PROVE  pc[w] = "return" /\ location[w] = pair /\ pc'[w] = "policy" /\ location'[w] = pair
  <2>1. /\ pc[w] = "return" /\ pc' = [pc EXCEPT ![w] = "policy"] /\ UNCHANGED location
        /\ Z!ReturnActiveZone(location[w]) /\ w \in Threads
    BY <1>5 DEF ReturnActiveZone, Goto, Threads
  <2>2. location[w] \in Pairs /\ chunk_offset[location[w].zone] = location[w].chunk_offset
    BY <1>0, <2>1, HeldZone DEF Writing
  <2>3. PICK z \in Zones : z = location[w].zone
    BY <2>2 DEF Pairs
  <2>4. /\ \A y \in Zones : y # z => state'[y] = state[y] /\ chunk_offset'[y] = chunk_offset[y]
        /\ \/ chunk_offset'[z] = chunk_offset[z] + 1 /\ state'[z] # "FULL"
           \/ state'[z] = "FULL" /\ chunk_offset[z] + 1 = max_zone_chunks
    <3>1. \/ /\ state' = [state EXCEPT ![z] = "FULL"] /\ chunk_offset[z] + 1 = max_zone_chunks
             /\ chunk_offset' = [chunk_offset EXCEPT ![z] = 0]
          \/ /\ UNCHANGED state /\ chunk_offset' = [chunk_offset EXCEPT ![z] = @ + 1]
             /\ state[z] = "WRITE_OCCURING"
          \/ /\ state' = [state EXCEPT ![z] = "ACTIVE"]
             /\ chunk_offset' = [chunk_offset EXCEPT ![z] = @ + 1]
      BY <2>1, <2>3
         DEF Z!ReturnActiveZone, Z!WriterAsserts, Z!CloseZone, Z!Reactivate
    <3>2. QED
      BY <1>1, <3>1
  <2>5. pair.zone = z
    BY <1>0, <1>1, <2>4 DEF Written
  <2>6. pair.chunk_offset = chunk_offset[z]
    BY <1>0, <1>1, <2>4, <2>5 DEF Written
  <2>7. location[w] = pair
    BY <2>2, <2>3, <2>5, <2>6 DEF Pairs
  <2>8. QED
    BY <1>0, <2>1, <2>7 DEF TypeOK
<1>6. QED
  BY <1>2, <1>3, <1>4, <1>5
     DEF Shared, Common, ReaderLeaves, TakeQuery, EndTask, Find, Copy, CopyGarbage, Read,
         DecReaders, Write, WriteFails, Insert, UndoMap, SpuriousWakeup, ClearCollected,
         ClearZone, CheckDone, CheckFree, chunkCacheVars, vars, zsmVars

\* The evicting thread and the policy stay as they are.
LEMMA SharedEviction ==
  ASSUME ChunkInv, Shared
  PROVE  EvictionShaped' /\ ZonesQueued'
<1>1. /\ TypeOK /\ ZC!ZSMInv /\ ZonesSound /\ StepsShaped /\ StepsShaped' /\ EvictionShaped /\ ZonesQueued
      /\ OutsideStays /\ WritersWait
      /\ UNCHANGED <<chunk, chunk_lru, in_use, invalid_pqueue, victim, todo, lru_queue>>
  BY InvGives, SharedBasics, SharedMoves, SharedKeeps
<1>2. \A s \in {"chunk", "clear_chunk", "gc", "gc_copy", "gc_insert"} :
        \A t \in Threads : pc'[t] = s <=> pc[t] = s
  BY <1>1 DEF OutsideStays, InsideChunks, EvictingChunks
<1>3. EvictionShaped'
  <2>1. (\E t \in Threads : pc[t] \in {"clear_chunk", "gc_copy", "gc_insert"})
          <=> \E t \in Threads : pc'[t] \in {"clear_chunk", "gc_copy", "gc_insert"}
    BY <1>2
  <2>2. QED
    BY <1>1, <1>2, <2>1 DEF EvictionShaped
<1>4. invalid_pqueue \intersect Filled' = {}
  <2> SUFFICES ASSUME NEW z \in invalid_pqueue, z \in Filled' PROVE FALSE
    BY <1>1
  <2>1. z \notin Filled /\ Range(lru_queue) = {}
    BY <1>1 DEF ZonesQueued, Range
  <2>2. \/ \E w \in Filling' : location'[w].zone = z
        \/ \E t \in Threads : pc'[t] \in Evicting /\ victim[t] = z
    BY <1>1, <2>1 DEF Filled
  <2>3. CASE \E t \in Threads : pc'[t] \in Evicting /\ victim[t] = z
    BY <1>1, <2>1, <2>3 DEF StepsShaped, Filled
  <2>4. ASSUME NEW w \in Filling', location'[w].zone = z PROVE FALSE
    <3>1. /\ w \in Workers /\ pc'[w] = "policy" /\ LastChunk(location[w]) /\ location[w].zone = z
          /\ pc[w] \in {"policy", "return"}
      BY <1>1, <2>4 DEF Filling, LastChunk, WritersWait
    <3>2. CASE pc[w] = "policy"
      BY <2>1, <3>1, <3>2 DEF Filled, Filling
    <3>3. CASE pc[w] = "return"
      <4>1. /\ state[z] = "WRITE_OCCURING" /\ chunk_offset[z] = max_zone_chunks - 1
        BY <1>1, <3>1, <3>3, HeldZone DEF Writing, LastChunk
      <4>2. state[z] = "FULL" \/ chunk_offset[z] = max_zone_chunks
        BY <1>1 DEF ZC!ZSMInv, ZC!ZonesTracked
      <4>3. QED
        BY <4>1, <4>2, Sizes
    <3>4. QED
      BY <3>1, <3>2, <3>3
  <2>5. QED
    BY <2>2, <2>3, <2>4
<1>5. ZonesQueued'
  BY <1>1, <1>4 DEF ZonesQueued, OutsideStays, LastChunk
<1>6. QED
  BY <1>3, <1>5

\* A shared step keeps each written chunk in use, invalid, or on its way to the policy.
LEMMA SharedUse ==
  ASSUME ChunkInv, Shared
  PROVE  UseSound'
<1>1. /\ TypeOK /\ ZonesSound /\ StepsShaped /\ UseSound /\ DiskKept /\ WritersWait
      /\ UNCHANGED <<in_use, stale, invalid>> /\ in_use \subseteq Pairs
      /\ \A zone : ~Resetting(zone)
  BY InvGives, SharedBasics, SharedMoves, SharedKeeps, PolicyFacts, NeverResetting DEF PolicySound
<1>2. \A pair \in Pairs : Written(pair)' =>
        \/ pair \in in_use
        \/ pair.chunk_offset \in Range(invalid[pair.zone])
        \/ \E w \in Workers : pc'[w] = "policy" /\ location'[w] = pair
  <2> SUFFICES ASSUME NEW pair \in Pairs, Written(pair)'
               PROVE  \/ pair \in in_use
                      \/ pair.chunk_offset \in Range(invalid[pair.zone])
                      \/ \E w \in Workers : pc'[w] = "policy" /\ location'[w] = pair
    OBVIOUS
  <2>1. CASE Written(pair)
    BY <1>1, <2>1 DEF UseSound, WritersWait
  <2>2. CASE ~Written(pair)
    BY <2>2, SharedWrites
  <2>3. QED
    BY <2>1, <2>2
<1>3. ASSUME NEW pair \in in_use \ stale
      PROVE  Written(pair)' /\ \A w \in Placing' : pc'[w] = "policy" => location'[w] # pair
  <2>1. Written(pair) /\ \A w \in Placing : pc[w] = "policy" => location[w] # pair
    BY <1>1 DEF UseSound
  <2>2. Written(pair)'
    BY <1>1, <2>1 DEF DiskKept
  <2>3. ASSUME NEW w \in Placing', pc'[w] = "policy", location'[w] = pair PROVE FALSE
    <3>1. w \in Workers /\ w \notin overtaken' /\ pc[w] \in {"policy", "return"} /\ location[w] = pair
      BY <1>1, <2>3 DEF WritersWait, Placing
    <3>2. CASE pc[w] = "policy"
      BY <1>1, <2>1, <3>1, <3>2 DEF WritersWait, Placing
    <3>3. CASE pc[w] = "return"
      BY <1>1, <2>1, <3>1, <3>3, HeldZone DEF Writing
    <3>4. QED
      BY <3>1, <3>2, <3>3
  <2>4. QED
    BY <2>2, <2>3
<1>4. QED
  BY <1>1, <1>2, <1>3 DEF UseSound

\* A chunk is in the reverse index.  As the map backs it, the entry is there too.
InMap(pair) == data_map[pair.zone][pair.chunk_offset] # NoId

PairsMapped ==
  \A pair \in Pairs :
    /\ pair \in in_use \union Dropping <=> InMap(pair) \/ AboutToMap(pair) # {}
    /\ InMap(pair) => AboutToMap(pair) = {}
    /\ \A w, v \in AboutToMap(pair) : w = v

LEMMA MappedForm ==
  /\ M!MapInv => /\ \A pair \in Pairs : M!Indexed(pair) <=> InMap(pair)
                 /\ InUseMapped <=> PairsMapped
  /\ M!MapInv' => (InUseMapped' <=> PairsMapped')
<1>1. M!Pairs = Pairs
  BY DEF M!Pairs, M!Zones, M!Chunks, Pairs, Zones, Chunks
<1>2. M!MapInv => \A pair \in Pairs : M!Indexed(pair) <=> InMap(pair)
  BY <1>1 DEF M!MapInv, M!ReverseIndexBacked, M!Indexed, InMap
<1>3. M!MapInv' => \A pair \in Pairs : M!Indexed(pair)' <=> InMap(pair)'
  BY <1>1 DEF M!MapInv, M!ReverseIndexBacked, M!Indexed, InMap
<1>4. M!MapInv => (InUseMapped <=> PairsMapped)
  BY <1>2 DEF InUseMapped, PairsMapped
<1>5. M!MapInv' => (InUseMapped' <=> PairsMapped')
  BY <1>3 DEF InUseMapped, PairsMapped
<1>6. QED
  BY <1>2, <1>4, <1>5

\* While nobody drops a chunk, none is being dropped.
LEMMA NothingDropped ==
  /\ (\A t \in Threads : pc[t] # "clear_chunk") => Dropping = {}
  /\ (\A t \in Threads : pc'[t] # "clear_chunk") => Dropping' = {}
BY DEF Dropping

\* The chunk that is dropped stays the same as long as the one that drops it does.
LEMMA DroppingKept ==
  ASSUME UNCHANGED chunk, \A t \in Threads : pc'[t] = "clear_chunk" <=> pc[t] = "clear_chunk"
  PROVE  Dropping' = Dropping
BY DEF Dropping

\* The writers about to map their chunks.
InsertsKept ==
  \A w \in Workers : /\ pc'[w] = "insert" <=> pc[w] = "insert"
                     /\ pc[w] = "insert" => location'[w] = location[w]

\* The policy and the map know the same chunks as long as neither changes.
LEMMA UseMappedKept ==
  ASSUME ChunkInv, M!MapInv', InsertsKept, (in_use \union Dropping)' = in_use \union Dropping,
         \A pair \in Pairs : InMap(pair)' <=> InMap(pair)
  PROVE  InUseMapped'
<1>1. PairsMapped
  BY InvGives, MappedForm
<1>2. \A pair \in Pairs : AboutToMap(pair)' = AboutToMap(pair)
  BY DEF AboutToMap, InsertsKept
<1>3. PairsMapped'
  BY <1>1, <1>2 DEF PairsMapped
<1>4. QED
  BY <1>3, MappedForm

\* A worker's step leaves the writers about to map their chunks and the reverse
\* index alone, unless it maps its own.
LEMMA SharedInserts ==
  ASSUME TypeOK, NEW w \in Workers, Common(w) \/ ReaderLeaves(w), ~Insert(w)
  PROVE  InsertsKept /\ UNCHANGED data_map
<1>1. w \in Threads
  BY DEF Threads
<1>2. UNCHANGED data_map
  <2>1. Find(w) => UNCHANGED data_map
    BY DEF Find, M!FindHit, M!FindSleep, M!FindMiss
  <2>2. UndoMap(w) => UNCHANGED data_map
    BY DEF UndoMap, M!Fail
  <2>3. DecReaders(w) \/ SpuriousWakeup(w) => UNCHANGED data_map
    BY DEF DecReaders, SpuriousWakeup, M!ReaderDone, M!SpuriousWakeup
  <2>4. QED
    BY <2>1, <2>2, <2>3
       DEF Common, ReaderLeaves, TakeQuery, EndTask, Copy, CopyGarbage, Read, GetActiveZone, Write,
           WriteFails, ReturnActiveZone, UndoZoneGet, mapVars
<1>3. CASE CopyGarbage(w) \/ SpuriousWakeup(w)
  BY <1>2, <1>3 DEF CopyGarbage, SpuriousWakeup, InsertsKept
<1>4. CASE ~(CopyGarbage(w) \/ SpuriousWakeup(w))
  <2>1. PICK to : pc' = [pc EXCEPT ![w] = to] /\ pc[w] # "insert" /\ to # "insert"
    BY <1>4
       DEF Common, ReaderLeaves, TakeQuery, EndTask, Find, Copy, Read, DecReaders, GetActiveZone,
           Write, WriteFails, ReturnActiveZone, UndoZoneGet, UndoMap, LeaveGet, Goto
  <2>2. \A v \in Workers : v # w => UNCHANGED location[v]
    BY <1>4
       DEF Common, ReaderLeaves, TakeQuery, EndTask, Find, Copy, Read, DecReaders, GetActiveZone,
           Write, WriteFails, ReturnActiveZone, UndoZoneGet, UndoMap, LeaveGet, Goto, TypeOK
  <2>3. \A v \in Workers : pc'[v] = IF v = w THEN to ELSE pc[v]
    BY <2>1 DEF TypeOK, Threads
  <2>4. QED
    BY <1>2, <2>1, <2>2, <2>3 DEF InsertsKept
<1>5. QED
  BY <1>3, <1>4

\* A writer maps its chunk, which is in use or being dropped, and no other
\* writer is about to.
LEMMA InsertUseMapped ==
  ASSUME ChunkInv, Shared, NEW w \in Workers, Insert(w), Dropping' = Dropping
  PROVE  InUseMapped'
<1>1. TypeOK /\ StepsShaped /\ M!MapInv /\ M!MapInv' /\ PairsMapped /\ UNCHANGED in_use /\ w \in Threads
  BY InvGives, SharedComponents, SharedKeeps, MappedForm DEF Threads
<1>2. PICK p \in Pairs, i \in DataIds :
        /\ p = location[w] /\ pc[w] = "insert" /\ i # NoId
        /\ data_map' = [data_map EXCEPT ![p.zone][p.chunk_offset] = i]
  BY <1>1, ZNCacheAssumption DEF Insert, LeaveGet, Goto, M!Insert, StepsShaped, TypeOK
<1>3. \A v \in Workers : /\ pc'[v] = "insert" <=> v # w /\ pc[v] = "insert"
                         /\ v # w => location'[v] = location[v]
  BY <1>1 DEF Insert, LeaveGet, Goto, TypeOK, Threads
<1>4. \A pair \in Pairs : InMap(pair)' <=> pair = p \/ InMap(pair)
  <2>1. data_map \in [Zones -> [Chunks -> DataIds \union {NoId}]]
    BY <1>1, MapTypes
  <2>2. p.zone \in Zones /\ p.chunk_offset \in Chunks
    BY DEF Pairs
  <2>3. ASSUME NEW pair \in Pairs PROVE InMap(pair)' <=> pair = p \/ InMap(pair)
    <3>1. /\ pair.zone \in Zones /\ pair.chunk_offset \in Chunks
          /\ pair # p => pair.zone # p.zone \/ pair.chunk_offset # p.chunk_offset
      BY DEF Pairs
    <3>2. pair = p => data_map'[pair.zone][pair.chunk_offset] = i
      BY <1>2, <2>1, <2>2
    <3>3. pair # p => data_map'[pair.zone][pair.chunk_offset] = data_map[pair.zone][pair.chunk_offset]
      BY <1>2, <2>1, <2>2, <3>1
    <3>4. QED
      BY <1>2, <3>2, <3>3 DEF InMap
  <2>4. QED
    BY <2>3
<1>5. w \in AboutToMap(p) /\ AboutToMap(p)' = {}
  <2>1. w \in AboutToMap(p) /\ \A v \in AboutToMap(p) : v = w
    BY <1>1, <1>2 DEF AboutToMap, PairsMapped
  <2>2. \A v \in Workers : v \in AboutToMap(p)' => v \in AboutToMap(p) /\ v # w
    BY <1>3 DEF AboutToMap
  <2>3. AboutToMap(p)' \subseteq Workers
    BY DEF AboutToMap
  <2>4. QED
    BY <2>1, <2>2, <2>3
<1>6. \A pair \in Pairs : pair # p => AboutToMap(pair)' = AboutToMap(pair)
  BY <1>2, <1>3 DEF AboutToMap
<1>7. PairsMapped'
  <2>1. (in_use \union Dropping)' = in_use \union Dropping
    BY <1>1
  <2>2. QED
    BY <1>1, <1>4, <1>5, <1>6, <2>1 DEF PairsMapped
<1>8. QED
  BY <1>1, <1>7, MappedForm

\* The zone that is cleared has no chunk in the map any more.
LEMMA NothingToClear ==
  ASSUME ChunkInv, NEW t \in Threads, pc[t] = "fg_clear", NEW pair \in Pairs, pair.zone = victim[t]
  PROVE  ~InMap(pair)
<1>1. MutexHeld /\ ZonesQueued /\ PairsMapped
  BY InvGives, MappedForm
<1>2. Dropping = {}
  <2>1. \A u \in Threads : pc[u] = "clear_chunk" => u = t
    BY <1>1 DEF MutexHeld, EvictingChunks
  <2>2. QED
    BY <2>1, NothingDropped
<1>3. pair \notin in_use
  BY <1>1 DEF ZonesQueued
<1>4. QED
  BY <1>1, <1>2, <1>3 DEF PairsMapped

\* A shared step keeps the policy and the map in agreement.
LEMMA SharedUseMapped ==
  ASSUME ChunkInv, Shared
  PROVE  InUseMapped'
<1>1. TypeOK /\ StepsShaped /\ M!MapInv /\ M!MapInv' /\ UNCHANGED <<in_use, chunk>>
  BY InvGives, SharedComponents, SharedKeeps
<1>2. Dropping' = Dropping
  <2>1. "clear_chunk" \in InsideChunks
    BY DEF InsideChunks, EvictingChunks
  <2>2. \A t \in Threads : pc'[t] # pc[t] => pc[t] \notin InsideChunks /\ pc'[t] \notin InsideChunks
    BY <1>1, SharedMoves DEF OutsideStays
  <2>3. QED
    BY <1>1, <2>1, <2>2, DroppingKept
<1>3. ASSUME InsertsKept, \A pair \in Pairs : InMap(pair)' <=> InMap(pair)
      PROVE  InUseMapped'
  BY <1>1, <1>2, <1>3, UseMappedKept
<1>4. ASSUME NEW w \in Workers, Common(w) \/ ReaderLeaves(w) PROVE InUseMapped'
  <2>1. CASE Insert(w)
    BY <1>2, <2>1, InsertUseMapped
  <2>2. CASE ~Insert(w)
    <3>1. InsertsKept /\ UNCHANGED data_map
      BY <1>1, <1>4, <2>2, SharedInserts
    <3>2. QED
      BY <1>3, <3>1 DEF InMap
  <2>3. QED
    BY <2>1, <2>2
<1>5. ASSUME NEW t \in Threads, ClearCollected(t) PROVE InUseMapped'
  <2>1. /\ pc[t] = "fg_clear" /\ pc' = [pc EXCEPT ![t] = "fg_spin"] /\ UNCHANGED location
        /\ data_map' = [data_map EXCEPT ![victim[t]] = [c \in M!Chunks |-> NoId]]
    BY <1>5 DEF ClearCollected, ClearZone, Goto, M!ClearZone
  <2>2. InsertsKept
    <3>1. \A u \in Threads : pc'[u] = IF u = t THEN "fg_spin" ELSE pc[u]
      BY <1>1, <2>1 DEF TypeOK
    <3>2. QED
      BY <2>1, <3>1 DEF InsertsKept, Threads
  <2>3. ASSUME NEW pair \in Pairs PROVE InMap(pair)' <=> InMap(pair)
    <3>1. /\ data_map \in [Zones -> [Chunks -> DataIds \union {NoId}]] /\ M!Chunks = Chunks
          /\ pair.zone \in Zones /\ pair.chunk_offset \in Chunks
      BY <1>1, MapTypes DEF Pairs, M!Chunks, Chunks
    <3>2. CASE pair.zone = victim[t]
      <4>1. data_map'[pair.zone][pair.chunk_offset] = NoId
        BY <2>1, <3>1, <3>2
      <4>2. QED
        BY <2>1, <3>2, <4>1, NothingToClear DEF InMap
    <3>3. CASE pair.zone # victim[t]
      BY <2>1, <3>1, <3>3 DEF InMap
    <3>4. QED
      BY <3>2, <3>3
  <2>4. QED
    BY <1>3, <2>2, <2>3
<1>6. ASSUME CheckDone \/ CheckFree PROVE InUseMapped'
  <2>1. PICK to \in {"ended", "free_check", "evict_task", "fg_start"} :
          pc' = [pc EXCEPT ![Evictor] = to]
    BY <1>6 DEF CheckDone, CheckFree, Goto
  <2>2. UNCHANGED <<location, data_map>>
    BY <1>6 DEF CheckDone, CheckFree, mapVars
  <2>3. InsertsKept
    BY <1>1, <2>1, <2>2, Sizes DEF InsertsKept, TypeOK, Threads
  <2>4. QED
    BY <1>3, <2>2, <2>3 DEF InMap
<1>7. ASSUME UNCHANGED chunkCacheVars PROVE InUseMapped'
  BY <1>3, <1>7 DEF chunkCacheVars, vars, mapVars, InsertsKept, InMap
<1>8. QED
  BY <1>4, <1>5, <1>6, <1>7 DEF Shared

\* A counted reader keeps what it found, or has just found what is mapped.
LEMMA SharedReaders ==
  ASSUME ChunkInv, Shared
  PROVE  ChunkReadersHeld'
<1> SUFFICES ASSUME NEW w \in Workers, w \notin misled', w \notin exposed', pc'[w] \in {"copy", "read"}
             PROVE  Holds(location[w], data_id[w])'
  BY DEF ChunkReadersHeld
<1>1. /\ TypeOK /\ StepsShaped /\ DataPlaced /\ ChunkReadersHeld /\ DiskKept /\ [Next]_vars
      /\ \A zone : ~Resetting(zone)
      /\ exposed' \subseteq exposed
  BY InvGives, SharedBasics, SharedNext, SharedKeeps, NeverResetting
<1>2. w \in exposed => pc[w] \notin {"copy", "read"} \/ w \in exposed'
  <2>1. w \in exposed /\ w \notin exposed' => ReaderLeaves(w)
    BY <1>1 DEF Shared, Common, ReaderLeaves, ClearCollected, chunkVars, chunkCacheVars
  <2>2. QED
    BY <2>1 DEF ReaderLeaves, DecReaders, LeaveGet, Goto
<1>3. CASE ReaderStays(w)
  <2>1. /\ UNCHANGED <<location[w], data_id[w]>> /\ Holds(location[w], data_id[w])
        /\ location[w] \in Pairs
    BY <1>1, <1>2, <1>3 DEF ReaderStays, ChunkReadersHeld, StepsShaped, TypeOK
  <2>2. Written(location[w])' /\ disk'[location[w].zone][location[w].chunk_offset] = data_id[w]
    BY <1>1, <2>1 DEF DiskKept, Holds, Written
  <2>3. QED
    BY <2>1, <2>2 DEF Holds
<1>4. CASE ReaderFinds(w)
  <2>1. PICK pair \in Pairs : pair = location'[w]
    BY <1>4 DEF ReaderFinds
  <2>2. Holds(pair, data_id[w])
    BY <1>1, <1>4, <2>1 DEF ReaderFinds, DataPlaced
  <2>3. QED
    BY <1>4, <2>1, <2>2 DEF ReaderFinds, Holds, Written
<1>5. QED
  BY <1>1, <1>3, <1>4, ReadersMove

\* The steps in common keep the invariant.
LEMMA SharedStep ==
  ASSUME ChunkInv, Shared
  PROVE  ChunkInv'
<1>1. ChunkPolicyInv /\ (UNCHANGED chunkCacheVars => ChunkPolicyInv')
  <2>1. UNCHANGED chunkCacheVars => UNCHANGED <<pc, location, chunkVars>>
    BY DEF chunkCacheVars, vars
  <2>2. QED
    BY <2>1, InvParts, PolicyKept
       DEF ChunkInv, chunkVars, ChunkStepsShaped, MutexHeld, LocalsTyped
<1>2. ChunkPolicyInv'
  BY <1>1, WorkerKeeps, EvictKeeps, CheckKeeps DEF Shared, EvictOrCollect
<1>3. QED
  BY <1>2, SharedBasics, SharedComponents, SharedEviction, SharedUse, SharedUseMapped,
     SharedReaders DEF ChunkInv

-----------------------------------------------------------------------------
(* The steps of zn_policy_chunk_evict.                                     *)

\* A step inside it, into it or out of it: the worker part of the thread's
\* state stays as it is.
Evicts(t, to) ==
  /\ pc[t] \in EvictSteps /\ to \in EvictSteps \union {Back(t)}
  /\ pc' = [pc EXCEPT ![t] = to]
  /\ UNCHANGED <<policyVars, workload_index, data_id, location, failed, crashVars, overtaken, misled>>

\* A step inside zn_policy_chunk_evict keeps the types, and its thread's steps in shape.
LEMMA EvictsBasics ==
  ASSUME TypeOK, StepsShaped, NEW t \in Threads, NEW to, Evicts(t, to),
         disk' \in [Zones -> [Chunks -> DataIds \union {NoId}]], torn' \subseteq Zones,
         dangling' \subseteq Workers, late' \subseteq DataIds,
         todo' \in [Threads -> 0 .. UInt - 1], victim' \in [Threads -> Zones \union {NoZone}],
         victim'[t] # NoZone <=> to \in Evicting,
         \A u \in Threads : u # t => victim'[u] = victim[u]
  PROVE  TypeOK' /\ StepsShaped'
<1>1. /\ \A u \in Threads : pc'[u] = IF u = t THEN to ELSE pc[u]
      /\ pc' \in [Threads -> WorkerSteps \union EvictSteps \union EvictorSteps]
  BY DEF Evicts, TypeOK, WorkerSteps, EvictorSteps, Back
<1>2. /\ t = Evictor => to \notin WorkerSteps /\ pc[t] \notin WorkerSteps
      /\ t # Evictor => to \notin EvictorSteps
      /\ t \in Workers => to \in EvictSteps \union {"zone"}
  BY ZNCacheAssumption DEF Evicts, EvictSteps, Evicting, WorkerSteps, EvictorSteps, Back
<1>3. TypeOK'
  <2>1. \A u \in Threads : IF u = Evictor THEN pc'[u] \notin WorkerSteps ELSE pc'[u] \notin EvictorSteps
    BY <1>1, <1>2 DEF TypeOK
  <2>2. /\ UNCHANGED <<workload_index, data_id, location, failed, aborted, map_aborted, undefined>>
        /\ UNCHANGED <<overtaken, misled>>
    BY DEF Evicts, crashVars
  <2>3. QED
    BY <1>1, <2>1, <2>2 DEF TypeOK
<1>4. StepsShaped'
  <2>1. UNCHANGED <<data_id, location>>
    BY DEF Evicts
  <2>2. ASSUME NEW w \in Workers
        PROVE  /\ data_id'[w] = NoId <=> pc'[w] \in {"idle", "stopped", "finished"}
               /\ location'[w] # NoPair <=>
                    pc'[w] \in Writing \union {"policy", "insert", "copy", "read", "touch", "dec"}
    <3>1. w \in Threads
      BY DEF Threads
    <3>2. CASE w # t
      BY <1>1, <2>1, <3>1, <3>2 DEF StepsShaped
    <3>3. CASE w = t
      <4>1. /\ pc'[w] \in EvictSteps \union {"zone"} /\ pc[w] \in EvictSteps
        BY <1>1, <1>2, <3>1, <3>3 DEF Evicts
      <4>2. QED
        BY <2>1, <4>1 DEF StepsShaped, EvictSteps, Evicting, Writing
    <3>4. QED
      BY <3>2, <3>3
  <2>3. \A u \in Threads : victim'[u] # NoZone <=> pc'[u] \in Evicting
    BY <1>1 DEF StepsShaped
  <2>4. QED
    BY <2>2, <2>3 DEF StepsShaped
<1>5. QED
  BY <1>3, <1>4

\* Nothing that the other parts of the cache look at changes.
LEMMA EvictsUnseen ==
  ASSUME TypeOK, NEW t \in Threads, NEW to, Evicts(t, to)
  PROVE  /\ \A u \in Threads : pc'[u] = IF u = t THEN to ELSE pc[u]
         /\ UNCHANGED <<Lent, Role, Arg, Loc, Filling, Placing, lru_queue, zone_to_lru_map>>
         /\ \A w \in Workers : \A s \in Located : pc'[w] = s <=> pc[w] = s
<1>1. \A u \in Threads : pc'[u] = IF u = t THEN to ELSE pc[u]
  BY DEF Evicts, TypeOK
<1>2. t \in Workers => /\ RoleAt(to) = "writer" /\ RoleAt(pc[t]) = "writer"
                       /\ to \in EvictSteps \union {"zone"}
                       /\ to \notin Writing /\ pc[t] \notin Writing
  <2>1. t \in Workers => to \in EvictSteps \union {"zone"}
    BY ZNCacheAssumption DEF Evicts, Back
  <2>2. QED
    BY <2>1, RolesAt DEF Evicts, EvictSteps, Evicting, Writing
<1>3. UNCHANGED <<Lent, Role, Arg, Loc>>
  BY <1>2, Unseen DEF Evicts
<1>4. \A w \in Workers : \A s \in Located : pc'[w] = s <=> pc[w] = s
  BY <1>1, <1>2 DEF Evicts, EvictSteps, Evicting, Located, Writing, Threads
<1>5. UNCHANGED <<Filling, Placing, lru_queue, zone_to_lru_map>>
  BY <1>4 DEF Filling, Placing, Evicts, policyVars, LastChunk, Located
<1>6. QED
  BY <1>1, <1>3, <1>4, <1>5

\* One that leaves the map alone keeps the map's invariant.
LEMMA EvictsMap ==
  ASSUME ChunkInv, NEW t \in Threads, NEW to, Evicts(t, to), UNCHANGED <<mapVars, dangling>>
  PROVE  M!MapInv'
<1>1. TypeOK /\ M!MapInv
  BY InvGives
<1>2. UNCHANGED <<Role, Arg, Loc, undefined>>
  BY <1>1, EvictsUnseen DEF Evicts, crashVars
<1>3. QED
  BY <1>1, <1>2, MapIdle, MapStep

\* One that leaves the map alone and keeps the data that is mapped keeps the data placed.
LEMMA EvictsPlaced ==
  ASSUME ChunkInv, NEW t \in Threads, NEW to, Evicts(t, to), to \notin {"fg_spin", "fg_reset"},
         UNCHANGED <<zone_map, data_map, late>>, DiskStays, WroteIt',
         \A u \in Threads : u # t => victim'[u] = victim[u]
  PROVE  DataPlaced'
<1>1. TypeOK /\ StepsShaped /\ Placed
  BY InvGives
<1>2. \A zone : Cleared(zone)' => Cleared(zone)
  BY <1>1, ClearedKept DEF Evicts
<1>3. \A v \in Workers : pc'[v] \in {"policy", "insert"} => pc'[v] = pc[v]
  BY <1>1, EvictsUnseen DEF Located
<1>4. UNCHANGED <<overtaken, location, data_id>>
  BY DEF Evicts
<1>5. Placed'
  BY <1>1, <1>2, <1>3, <1>4, StillPlaced
<1>6. QED
  BY <1>5, PlacedParts DEF Placed

\* A written chunk that is no longer in use is in its zone's invalid queue.
LEMMA EvictsUse ==
  ASSUME ChunkInv, NEW t \in Threads, NEW to, Evicts(t, to),
         \A pair \in Pairs : Written(pair)' => Written(pair),
         \A pair \in Pairs : pair \in in_use' \ stale' =>
           pair \in in_use \ stale /\ (Written(pair) => Written(pair)'),
         \A pair \in Pairs : pair \in in_use /\ pair \notin in_use' =>
           pair.chunk_offset \in Range(invalid'[pair.zone]),
         \A z \in Zones : Range(invalid[z]) \subseteq Range(invalid'[z]),
         in_use' \subseteq Pairs
  PROVE  UseSound'
<1>1. /\ TypeOK /\ UseSound /\ UNCHANGED <<location, Placing>>
      /\ \A w \in Workers : pc'[w] = "policy" <=> pc[w] = "policy"
  BY InvGives, EvictsUnseen DEF Evicts, Located
<1>2. ASSUME NEW pair \in Pairs, Written(pair)'
      PROVE  \/ pair \in in_use'
             \/ pair.chunk_offset \in Range(invalid'[pair.zone])
             \/ \E w \in Workers : pc'[w] = "policy" /\ location'[w] = pair
  <2>1. pair.zone \in Zones /\ Written(pair)
    BY <1>2 DEF Pairs
  <2>2. \/ pair \in in_use
        \/ pair.chunk_offset \in Range(invalid[pair.zone])
        \/ \E w \in Workers : pc[w] = "policy" /\ location[w] = pair
    BY <1>1, <2>1 DEF UseSound
  <2>3. QED
    BY <1>1, <2>1, <2>2
<1>3. ASSUME NEW pair \in in_use' \ stale'
      PROVE  Written(pair)' /\ \A w \in Placing' : pc'[w] = "policy" => location'[w] # pair
  <2>1. pair \in Pairs /\ pair \in in_use \ stale /\ (Written(pair) => Written(pair)')
    BY <1>3
  <2>2. \A w \in Placing : w \in Workers
    BY DEF Placing
  <2>3. QED
    BY <1>1, <2>1, <2>2 DEF UseSound
<1>4. QED
  BY <1>2, <1>3 DEF UseSound

\* One that leaves the map alone, and whose chunks are in use or being dropped
\* before as after, keeps the policy and the map in agreement.
LEMMA EvictsUseMapped ==
  ASSUME ChunkInv, NEW t \in Threads, NEW to, Evicts(t, to), UNCHANGED data_map, M!MapInv',
         (in_use \union Dropping)' = in_use \union Dropping
  PROVE  InUseMapped'
<1>1. UNCHANGED location /\ \A w \in Workers : pc'[w] = "insert" <=> pc[w] = "insert"
  BY InvGives, EvictsUnseen DEF Evicts, Located
<1>2. InsertsKept
  BY <1>1 DEF InsertsKept
<1>3. QED
  BY <1>2, UseMappedKept DEF InMap

\* One that is not about dropping a chunk leaves the dropped one alone.
LEMMA EvictsDropping ==
  ASSUME TypeOK, NEW t \in Threads, NEW to, Evicts(t, to), UNCHANGED chunk,
         pc[t] # "clear_chunk", to # "clear_chunk"
  PROVE  Dropping' = Dropping
<1>1. \A u \in Threads : pc'[u] = IF u = t THEN to ELSE pc[u]
  BY EvictsUnseen
<1>2. QED
  BY <1>1, DroppingKept

\* What the readers found stays, but for those whose zone is reset.
LEMMA EvictsReaders ==
  ASSUME ChunkInv, NEW t \in Threads, NEW to, Evicts(t, to), exposed \subseteq exposed',
         \A pair \in Pairs, w \in Workers :
           w \notin exposed' /\ pc[w] \in {"copy", "read"} /\ location[w] = pair /\ Written(pair) =>
             /\ Written(pair)'
             /\ disk'[pair.zone][pair.chunk_offset] = disk[pair.zone][pair.chunk_offset]
  PROVE  ChunkReadersHeld'
<1>1. /\ TypeOK /\ StepsShaped /\ ChunkReadersHeld /\ UNCHANGED <<location, data_id, misled>>
      /\ \A w \in Workers : pc'[w] \in {"copy", "read"} <=> pc[w] \in {"copy", "read"}
  BY InvGives, EvictsUnseen DEF Evicts, Located
<1>2. ASSUME NEW w \in Workers \ (misled' \union exposed'), pc'[w] \in {"copy", "read"}
      PROVE  Holds(location[w], data_id[w])'
  <2>1. pc[w] \in {"copy", "read"} /\ w \notin exposed' /\ Holds(location[w], data_id[w])
    BY <1>1, <1>2 DEF ChunkReadersHeld
  <2>2. PICK pair \in Pairs : pair = location[w]
    BY <1>1, <2>1 DEF StepsShaped, TypeOK
  <2>3. QED
    BY <1>1, <2>1, <2>2 DEF Holds
<1>3. QED
  BY <1>2 DEF ChunkReadersHeld

\* policy_mutex: one thread at a time is inside.
LEMMA OneInside ==
  ASSUME MutexHeld, NEW t \in Threads, NEW u \in Threads,
         pc[t] \in EvictingChunks, pc[u] \in EvictingChunks
  PROVE  u = t
BY DEF MutexHeld

\* While policy_mutex is free no thread evicts or collects.
LEMMA NobodyInside ==
  ASSUME MutexHeld, StepsShaped, ChunkStepsShaped, holder = NoThread
  PROVE  \A t \in Threads : pc[t] \notin EvictingChunks /\ victim[t] = NoZone
BY NeverResetting, ChunkCacheAssumption DEF MutexHeld, StepsShaped, Evicting, EvictingChunks

\* An assertion that fails, or a pointer to nowhere, ends the program as it is.
LEMMA CrashStep ==
  ASSUME ChunkInv,
         aborted' = TRUE,
         UNCHANGED <<zsmVars, mapVars, policyVars, deviceVars, pc, data_id, location, workload_index,
                     evictVars, failed, dangling, map_aborted, undefined, historyVars, chunkVars>>
  PROVE  ChunkInv'
<1>1. /\ UNCHANGED <<zsmVars, state, chunk_offset, invalid, zone_map, data_map>>
      /\ UNCHANGED <<lru_queue, zone_to_lru_map, disk, torn, todo, victim, overtaken, late, misled>>
      /\ UNCHANGED <<chunkPolicyVars, chunk_lru, in_use, invalid_pqueue, holder, chunk, stale, exposed>>
  BY DEF zsmVars, mapVars, policyVars, deviceVars, evictVars, historyVars, chunkVars,
         chunkPolicyVars
<1>2. UNCHANGED <<Lent, Role, Arg, Loc, Filling, Placing, Filled, ChunkLent>>
  BY <1>1 DEF Lent, Role, Arg, Loc, Filling, Placing, Filled, ChunkLent, LastChunk
<1>3. ChunkPolicyInv'
  <2>1. ChunkStepsShaped' /\ MutexHeld' /\ LocalsTyped'
    BY <1>1, InvGives DEF ChunkStepsShaped, MutexHeld, LocalsTyped
  <2>2. QED
    BY <1>1, <2>1, InvGives, InvParts, PolicyKept
<1>4. TypeOK' /\ StepsShaped'
  BY <1>1, InvGives DEF TypeOK, StepsShaped
<1>5. ZC!ZSMInv'
  <2>1. UNCHANGED ZC!vars
    BY <1>1, <1>2 DEF ZC!vars, ZC!zsmVars, zsmVars, ZC!clientVars
  <2>2. QED
    BY <2>1, InvGives, ChunkZoneStep
<1>6. M!MapInv'
  BY <1>2, InvGives, MapIdle, MapStep
<1>7. OnePlace'
  BY <1>1, <1>2, InvGives, OnePlaceKept
<1>8. DataPlaced'
  <2>1. DiskStays /\ WroteIt'
    BY <1>1, InvGives DEF DiskStays, WroteIt, Written
  <2>2. Placed'
    BY <1>1, <2>1, InvGives, StillPlaced DEF Cleared
  <2>3. QED
    BY <2>1, <2>2, PlacedParts DEF Placed
<1>9. EvictionShaped' /\ ZonesQueued'
  BY <1>1, <1>2, InvGives DEF EvictionShaped, ZonesQueued, LastChunk
<1>10. UseSound'
  BY <1>1, <1>2, InvGives DEF UseSound, Written
<1>11. InUseMapped' /\ ChunkReadersHeld'
  <2>1. InUseMapped'
    BY <1>1, <1>6, UseMappedKept, DroppingKept DEF InsertsKept, InMap
  <2>2. ChunkReadersHeld'
    BY <1>1, InvGives DEF ChunkReadersHeld, Holds, Written
  <2>3. QED
    BY <2>1, <2>2
<1>12. QED
  BY <1>3, <1>4, <1>5, <1>6, <1>7, <1>8, <1>9, <1>10, <1>11 DEF ChunkInv

\* The lent zones do not change hands.
LEMMA EvictsLent ==
  ASSUME TypeOK, NEW t \in Threads, NEW to, Evicts(t, to),
         pc[t] \in Moving <=> to \in Moving,
         \A u \in Threads : pc[u] \in Moving => chunk' = chunk
  PROVE  UNCHANGED ChunkLent
<1>1. UNCHANGED location /\ \A u \in Threads : pc'[u] = IF u = t THEN to ELSE pc[u]
  BY EvictsUnseen DEF Evicts
<1>2. \A u \in Threads : /\ pc'[u] \in Moving <=> pc[u] \in Moving
                         /\ pc'[u] \in Writing <=> pc[u] \in Writing
                         /\ pc[u] \in Writing => UNCHANGED location[u]
  <2>1. pc[t] \notin Writing /\ to \notin Writing
    BY DEF Evicts, EvictSteps, Evicting, Back, Writing
  <2>2. QED
    BY <1>1, <2>1
<1>3. \A u \in Threads : pc[u] \in Moving => chunk' = chunk
  OBVIOUS
<1>4. QED
  BY <1>1, <1>2, <1>3 DEF ChunkLent, Moving

\* Neither do the full ones.
LEMMA EvictsFilled ==
  ASSUME ChunkInv, NEW t \in Threads, NEW to, Evicts(t, to), UNCHANGED victim,
         pc[t] \in Evicting <=> to \in Evicting
  PROVE  OnePlace' /\ UNCHANGED Filled
<1>1. TypeOK /\ OnePlace /\ UNCHANGED <<location, Filling, lru_queue, zone_to_lru_map>>
  BY InvGives, EvictsUnseen DEF Evicts
<1>2. OnePlace'
  BY <1>1, OnePlaceKept
<1>3. Filled' = Filled
  <2>1. pc' = [pc EXCEPT ![t] = to] /\ pc[t] # "policy" /\ to # "policy"
    BY DEF Evicts, EvictSteps, Evicting, Back
  <2>2. QED
    BY <1>1, <2>1, FilledKept
<1>4. QED
  BY <1>2, <1>3

\* A step inside that moves no zone leaves every zone where it was claimed.
LEMMA EvictsZones ==
  ASSUME ChunkInv, NEW t \in Threads, NEW to, Evicts(t, to), UNCHANGED victim,
         pc[t] \in Evicting <=> to \in Evicting,
         pc[t] \in Moving <=> to \in Moving,
         \A u \in Threads : pc[u] \in Moving => chunk' = chunk
  PROVE  OnePlace' /\ UNCHANGED <<Filled, ChunkLent>>
<1>1. TypeOK
  BY InvGives
<1>2. QED
  BY <1>1, EvictsLent, EvictsFilled

\* The thread goes on, and nothing but todo and policy_mutex changes.
EvictsQuietly(t, to) ==
  /\ Evicts(t, to)
  /\ UNCHANGED <<zsmVars, mapVars, deviceVars, victim, dangling, historyVars, chunkPolicyVars,
                 chunk, stale, exposed>>

\* Such a step keeps everything but what is said of eviction itself.
LEMMA QuietEviction ==
  ASSUME ChunkInv, NEW t \in Threads, NEW to, EvictsQuietly(t, to),
         todo' \in [Threads -> 0 .. UInt - 1],
         pc[t] \notin Evicting \union {"clear_chunk"}, to \notin Evicting \union {"clear_chunk"}
  PROVE  /\ TypeOK' /\ StepsShaped' /\ ZC!ZSMInv' /\ M!MapInv' /\ OnePlace' /\ DataPlaced'
         /\ UseSound' /\ InUseMapped' /\ ChunkReadersHeld' /\ ZonesQueued'
<1>1. /\ Evicts(t, to)
      /\ UNCHANGED <<zsmVars, mapVars, dangling, victim, late, chunk, stale, exposed, in_use,
                     invalid_pqueue, disk, torn, state, chunk_offset, invalid, zone_map, data_map>>
  BY DEF EvictsQuietly, zsmVars, mapVars, deviceVars, historyVars, chunkPolicyVars
<1>2. /\ TypeOK /\ StepsShaped /\ WroteIt /\ ZC!ZSMInv /\ ZonesQueued /\ UNCHANGED <<location, data_id>>
      /\ \A w \in Workers : \A s \in Located : pc'[w] = s <=> pc[w] = s
      /\ \A u \in Threads : pc'[u] = IF u = t THEN to ELSE pc[u]
      /\ UNCHANGED <<lru_queue, in_use>> /\ in_use \subseteq Pairs
  <2>1. TypeOK /\ PolicySound
    BY InvGives
  <2>2. /\ \A u \in Threads : pc'[u] = IF u = t THEN to ELSE pc[u]
        /\ \A w \in Workers : \A s \in Located : pc'[w] = s <=> pc[w] = s
        /\ UNCHANGED lru_queue
    BY <1>1, <2>1, EvictsUnseen
  <2>3. in_use \subseteq Pairs
    BY <2>1, PolicyFacts DEF PolicySound
  <2>4. QED
    BY <1>1, <2>2, <2>3, InvGives DEF Evicts
<1>3. TypeOK' /\ StepsShaped'
  <2>1. victim[t] # NoZone <=> to \in Evicting
    BY <1>2 DEF StepsShaped
  <2>2. /\ disk' \in [Zones -> [Chunks -> DataIds \union {NoId}]] /\ torn' \subseteq Zones
        /\ dangling' \subseteq Workers /\ late' \subseteq DataIds
        /\ victim' \in [Threads -> Zones \union {NoZone}]
    BY <1>1, <1>2 DEF TypeOK
  <2>3. QED
    BY <1>1, <1>2, <2>1, <2>2, EvictsBasics
<1>4. OnePlace' /\ UNCHANGED <<Filled, ChunkLent>>
  <2>1. pc[t] \notin Moving /\ to \notin Moving
    BY DEF Moving, Evicting
  <2>2. QED
    BY <1>1, <2>1, EvictsZones
<1>5. ZC!ZSMInv'
  <2>1. UNCHANGED ZC!vars
    BY <1>1, <1>4 DEF ZC!vars, ZC!zsmVars, zsmVars, ZC!clientVars
  <2>2. QED
    BY <1>2, <2>1, ChunkZoneStep
<1>6. M!MapInv'
  BY <1>1, EvictsMap
<1>7. DataPlaced'
  <2>1. DiskStays /\ WroteIt'
    <3>1. DiskStays
      BY <1>1 DEF DiskStays, Written
    <3>2. \A w \in Workers : pc'[w] = "return" <=> pc[w] = "return"
      BY <1>2 DEF Located, Writing
    <3>3. WroteIt'
      BY <1>1, <1>2, <3>2 DEF WroteIt
    <3>4. QED
      BY <3>1, <3>3
  <2>2. to \notin {"fg_spin", "fg_reset"}
    BY DEF Evicting
  <2>3. QED
    BY <1>1, <2>1, <2>2, EvictsPlaced
<1>8. UseSound'
  BY <1>1, <1>2, EvictsUse DEF Written
<1>9. InUseMapped'
  BY <1>1, <1>2, <1>6, EvictsUseMapped, EvictsDropping
<1>10. ChunkReadersHeld'
  BY <1>1, EvictsReaders DEF Written
<1>11. ZonesQueued'
  BY <1>1, <1>2, <1>4 DEF ZonesQueued, LastChunk, Evicting
<1>12. QED
  BY <1>3, <1>4, <1>5, <1>6, <1>7, <1>8, <1>9, <1>10, <1>11

-----------------------------------------------------------------------------
(* How many chunks there are to evict.                                     *)

\* The queue holds no more chunks than there are, in every zone.
LEMMA QueueBound ==
  ASSUME PolicySound, NEW n \in Nat, \A pair \in in_use : pair.chunk_offset \in 0 .. n - 1
  PROVE  Len(chunk_lru) \in Nat /\ Len(chunk_lru) <= NumZones * n
<1> DEFINE f == [i \in 1 .. Len(chunk_lru) |-> <<chunk_lru[i].zone, chunk_lru[i].chunk_offset>>]
<1>1. /\ chunk_lru \in Seq(Pairs) /\ IsInjective(chunk_lru) /\ Range(chunk_lru) = in_use
      /\ NumZones \in Nat \ {0}
  BY PolicyFacts, Sizes DEF PolicySound
<1>2. Len(chunk_lru) \in Nat /\ DOMAIN chunk_lru = 1 .. Len(chunk_lru)
  BY <1>1, LenProperties
<1>3. \A i \in 1 .. Len(chunk_lru) : /\ chunk_lru[i] \in Pairs
                                     /\ chunk_lru[i].chunk_offset \in 0 .. n - 1
  <2>1. \A i \in 1 .. Len(chunk_lru) : chunk_lru[i] \in Pairs /\ chunk_lru[i] \in in_use
    BY <1>1, <1>2 DEF Range
  <2>2. QED
    BY <2>1
<1>4. f \in Injection(1 .. Len(chunk_lru), Zones \X (0 .. n - 1))
  <2>1. f \in [1 .. Len(chunk_lru) -> Zones \X (0 .. n - 1)]
    BY <1>3 DEF Pairs
  <2>2. \A i, j \in 1 .. Len(chunk_lru) : f[i] = f[j] => i = j
    <3>1. SUFFICES ASSUME NEW i \in 1 .. Len(chunk_lru), NEW j \in 1 .. Len(chunk_lru), f[i] = f[j]
                   PROVE  i = j
      OBVIOUS
    <3>2. chunk_lru[i] = chunk_lru[j]
      BY <1>3, <3>1 DEF Pairs
    <3>3. QED
      BY <1>1, <1>2, <3>2 DEF IsInjective
  <2>3. QED
    BY <2>1, <2>2 DEF Injection, IsInjective
<1>5. IsFiniteSet(Zones) /\ Cardinality(Zones) = NumZones
  <2>1. 0 \in Int /\ NumZones - 1 \in Int
    BY <1>1
  <2>2. QED
    BY <1>1, <2>1, FS_Interval DEF Zones
<1>6. IsFiniteSet(0 .. n - 1) /\ Cardinality(0 .. n - 1) = n
  <2>1. 0 \in Int /\ n - 1 \in Int
    OBVIOUS
  <2>2. QED
    BY <2>1, FS_Interval
<1>7. IsFiniteSet(Zones \X (0 .. n - 1)) /\ Cardinality(Zones \X (0 .. n - 1)) = NumZones * n
  BY <1>5, <1>6, FS_Product
<1>8. Cardinality(1 .. Len(chunk_lru)) = Len(chunk_lru)
  <2>1. PICK m \in Nat : m = Len(chunk_lru)
    BY <1>2
  <2>2. Cardinality(1 .. m) = m
    BY FS_Interval
  <2>3. QED
    BY <2>1, <2>2
<1>9. Cardinality(1 .. Len(chunk_lru)) <= Cardinality(Zones \X (0 .. n - 1))
  <2> HIDE DEF f
  <2>1. QED
    BY <1>4, <1>7, FS_Injection
<1>10. QED
  BY <1>2, <1>7, <1>8, <1>9

\* When there is something to evict, there is enough of it, and a full zone to
\* collect: with none there would be a free chunk for every zone.
LEMMA EnoughToEvict ==
  ASSUME ChunkInv, holder = NoThread, ~NothingToEvict
  PROVE  /\ LOW_CHUNKS - C!FreeChunks \in 1 .. Len(chunk_lru)
         /\ LOW_CHUNKS - C!FreeChunks \in 0 .. UInt - 1
         /\ invalid_pqueue # {}
<1>1. /\ PolicySound /\ ZonesQueued /\ \A t \in Threads : victim[t] = NoZone
      /\ in_use \subseteq Pairs /\ NumZones \in Nat \ {0} /\ max_zone_chunks \in Nat \ {0}
      /\ UInt \in Nat /\ HIGH_CHUNKS \in Nat /\ LOW_CHUNKS \in Nat /\ HIGH_CHUNKS < LOW_CHUNKS
      /\ LOW \in Nat /\ HIGH \in Nat /\ HIGH < LOW /\ HIGH_CHUNKS + LOW <= NumZones
      /\ LOW_CHUNKS < UInt
  BY InvGives, NobodyInside, PolicyFacts, Sizes, ZNCacheAssumption, ChunkCacheAssumption
     DEF PolicySound
<1>2. PICK total \in Nat : total = NumZones * max_zone_chunks /\ LOW_CHUNKS <= total
  <2>1. NumZones * max_zone_chunks \in Nat
    BY <1>1
  <2>2. QED
    BY <2>1, ChunkCacheAssumption DEF total_chunks
<1>3. Len(chunk_lru) \in Nat /\ Len(chunk_lru) <= total
  BY <1>1, <1>2, QueueBound DEF Pairs, Chunks
<1>4. /\ C!FreeChunks = total - Len(chunk_lru) /\ total - Len(chunk_lru) <= HIGH_CHUNKS
  BY <1>1, <1>2, <1>3 DEF NothingToEvict, C!FreeChunks, C!total_chunks
<1>5. invalid_pqueue # {}
  <2> SUFFICES ASSUME invalid_pqueue = {} PROVE FALSE
    OBVIOUS
  <2>1. \A pair \in in_use : pair.chunk_offset \in 0 .. (max_zone_chunks - 1) - 1
    <3> SUFFICES ASSUME NEW pair \in in_use
                 PROVE  pair.chunk_offset \in 0 .. (max_zone_chunks - 1) - 1
      OBVIOUS
    <3>1. pair.zone \in Zones /\ pair.chunk_offset \in 0 .. max_zone_chunks - 1
      BY <1>1 DEF Pairs, Chunks
    <3>2. ~LastChunk(pair)
      BY <1>1, <3>1, ZNCacheAssumption DEF ZonesQueued
    <3>3. QED
      BY <1>1, <3>1, <3>2 DEF LastChunk
  <2>2. Len(chunk_lru) <= NumZones * (max_zone_chunks - 1)
    <3>1. max_zone_chunks - 1 \in Nat
      BY <1>1
    <3>2. QED
      BY <1>1, <2>1, <3>1, QueueBound
  <2>3. NumZones * (max_zone_chunks - 1) = total - NumZones
    BY <1>1, <1>2
  <2>4. QED
    BY <1>1, <1>3, <1>4, <2>2, <2>3
<1>6. QED
  BY <1>1, <1>2, <1>3, <1>4, <1>5

-----------------------------------------------------------------------------
(* Each step of zn_policy_chunk_evict keeps the invariant.                 *)

\* zn_policy_chunk_evict finds enough chunks free, sets out to evict (chunk.c:155-173), or ends.
LEMMA StartStep ==
  ASSUME ChunkInv, NEW t \in Threads, EvictNothing(t) \/ EvictChunks(t) \/ CollectNothing(t)
  PROVE  ChunkInv'
<1>1. PICK to \in {Back(t), "chunk"} :
        /\ EvictsQuietly(t, to)
        /\ pc[t] \in {"fg_start", "gc", "gc_more"}
        /\ to = "chunk" => EvictChunks(t)
        /\ ~EvictChunks(t) => UNCHANGED todo
  <2>1. CASE EvictNothing(t)
    BY <2>1 DEF EvictNothing, EvictsQuietly, Evicts, EvictSteps, Goto, evictUnchanged, historyVars,
                chunkVars, evictVars, EvictChunks, Back
  <2>2. CASE EvictChunks(t)
    BY <2>2 DEF EvictChunks, EvictsQuietly, Evicts, EvictSteps, Goto, evictUnchanged, historyVars
  <2>3. CASE CollectNothing(t)
    BY <2>3 DEF CollectNothing, Collecting, EvictsQuietly, Evicts, EvictSteps, Goto, evictUnchanged,
                historyVars, evictVars, EvictChunks, Back
  <2>4. QED
    BY <2>1, <2>2, <2>3
<1>2. /\ ChunkPolicyInv' /\ TypeOK /\ EvictionShaped /\ MutexHeld
      /\ UNCHANGED <<chunk_lru, in_use, invalid_pqueue, chunk>>
      /\ \A u \in Threads : pc'[u] = IF u = t THEN to ELSE pc[u]
  <2>1. ChunkPolicyInv'
    BY EvictKeeps DEF ChunkInv, EvictOrCollect
  <2>2. QED
    BY <1>1, <2>1, InvGives, EvictsUnseen DEF EvictsQuietly, chunkPolicyVars
<1>3. ASSUME EvictChunks(t)
      PROVE  /\ invalid_pqueue # {} /\ todo' = [todo EXCEPT ![t] = LOW_CHUNKS - C!FreeChunks]
             /\ LOW_CHUNKS - C!FreeChunks \in 1 .. Len(chunk_lru)
             /\ LOW_CHUNKS - C!FreeChunks \in 0 .. UInt - 1
             /\ \A u \in Threads : pc[u] \notin EvictingChunks
  BY <1>3, InvGives, EnoughToEvict, NobodyInside DEF EvictChunks
<1>4. todo' \in [Threads -> 0 .. UInt - 1]
  <2>1. CASE EvictChunks(t)
    BY <1>2, <1>3, <2>1 DEF TypeOK
  <2>2. CASE ~EvictChunks(t)
    BY <1>1, <1>2, <2>2 DEF TypeOK
  <2>3. QED
    BY <2>1, <2>2
<1>5. /\ TypeOK' /\ StepsShaped' /\ ZC!ZSMInv' /\ M!MapInv' /\ OnePlace' /\ DataPlaced'
      /\ UseSound' /\ InUseMapped' /\ ChunkReadersHeld' /\ ZonesQueued'
  <2>1. /\ pc[t] \notin Evicting \union {"clear_chunk"}
        /\ to \notin Evicting \union {"clear_chunk"}
    BY <1>1 DEF Evicting, Back
  <2>2. QED
    BY <1>1, <1>4, <2>1, QuietEviction
<1>6. EvictionShaped'
  <2>1. CASE to = "chunk"
    <3>1. /\ \A u \in Threads : pc[u] \notin EvictingChunks
          /\ \A u \in Threads : pc'[u] = IF u = t THEN "chunk" ELSE pc[u]
          /\ todo'[t] \in 1 .. Len(chunk_lru) /\ invalid_pqueue # {}
      BY <1>1, <1>2, <1>3, <2>1 DEF TypeOK
    <3>2. QED
      BY <1>2, <3>1 DEF EvictionShaped, EvictingChunks
  <2>2. CASE to # "chunk"
    <3>1. to \notin {"chunk", "clear_chunk", "gc", "gc_copy", "gc_insert"} /\ UNCHANGED todo
      BY <1>1, <1>2, <2>2 DEF Back, EvictChunks, Goto, TypeOK
    <3>2. QED
      BY <1>1, <1>2, <3>1 DEF EvictionShaped
  <2>3. QED
    BY <2>1, <2>2
<1>7. QED
  BY <1>2, <1>5, <1>6 DEF ChunkInv

\* The least recently used chunk leaves the policy and is marked.
LEMMA InvalidateStep ==
  ASSUME ChunkInv, NEW t \in Threads, InvalidateChunk(t)
  PROVE  ChunkInv'
<1>1. /\ Evicts(t, "clear_chunk") /\ pc[t] = "chunk"
      /\ UNCHANGED <<mapVars, deviceVars, todo, victim, dangling, late, holder, exposed>>
      /\ UNCHANGED <<zone_map, data_map, disk, torn>>
  BY DEF InvalidateChunk, Evicts, EvictSteps, Goto, evictUnchanged, evictVars, historyVars, mapVars,
         deviceVars
<1>2. PICK pair \in Pairs : /\ C!Invalidate(pair) /\ Z!MarkChunkInvalid(pair) /\ chunk' = pair
                            /\ stale' = stale \ {pair}
  BY DEF InvalidateChunk
<1>3. /\ TypeOK /\ StepsShaped /\ WroteIt /\ ZC!ZSMInv /\ ZonesQueued /\ EvictionShaped /\ MutexHeld
      /\ PolicySound /\ UNCHANGED <<location, data_id, lru_queue>>
      /\ \A w \in Workers : \A s \in Located : pc'[w] = s <=> pc[w] = s
      /\ \A u \in Threads : pc'[u] = IF u = t THEN "clear_chunk" ELSE pc[u]
  <2>1. TypeOK
    BY InvGives
  <2>2. /\ \A u \in Threads : pc'[u] = IF u = t THEN "clear_chunk" ELSE pc[u]
        /\ \A w \in Workers : \A s \in Located : pc'[w] = s <=> pc[w] = s
        /\ UNCHANGED lru_queue
    BY <1>1, <2>1, EvictsUnseen
  <2>3. QED
    BY <1>1, <2>2, InvGives DEF Evicts
<1>4. /\ pair \in in_use /\ in_use' = in_use \ {pair} /\ in_use \subseteq Pairs
      /\ chunk_lru \in Seq(Pairs)
  BY <1>2, <1>3, InvalidateSound, PolicyFacts DEF PolicySound
<1>5. /\ chunk_lru # <<>> /\ chunk_lru' = Tail(chunk_lru) /\ UNCHANGED invalid_pqueue
      /\ UNCHANGED <<state, chunk_offset, active, free, writes_occurring>>
      /\ invalid' = [invalid EXCEPT ![pair.zone] = Append(@, pair.chunk_offset)]
  BY <1>2 DEF C!Invalidate, C!Unuse, C!PQ!Update, Z!MarkChunkInvalid
<1>6. ChunkPolicyInv'
  BY EvictKeeps DEF ChunkInv, EvictOrCollect
<1>7. TypeOK' /\ StepsShaped'
  <2>1. victim[t] # NoZone <=> "clear_chunk" \in Evicting
    BY <1>1, <1>3 DEF StepsShaped, Evicting
  <2>2. /\ disk' \in [Zones -> [Chunks -> DataIds \union {NoId}]] /\ torn' \subseteq Zones
        /\ dangling' \subseteq Workers /\ late' \subseteq DataIds
        /\ todo' \in [Threads -> 0 .. UInt - 1] /\ victim' \in [Threads -> Zones \union {NoZone}]
    BY <1>1, <1>3 DEF TypeOK
  <2>3. QED
    BY <1>1, <1>3, <2>1, <2>2, EvictsBasics
<1>8. \A u \in Threads : u # t => pc[u] \notin EvictingChunks
  BY <1>1, <1>3, OneInside DEF EvictingChunks
<1>9. OnePlace' /\ UNCHANGED <<Filled, ChunkLent>>
  <2>1. pc[t] \notin Moving /\ "clear_chunk" \notin Moving
        /\ pc[t] \notin Evicting /\ "clear_chunk" \notin Evicting
    BY <1>1 DEF Moving, Evicting
  <2>2. \A u \in Threads : pc[u] \notin Moving
    BY <1>8, <2>1 DEF Moving, EvictingChunks
  <2>3. QED
    BY <1>1, <2>1, <2>2, EvictsZones
<1>10. \A z \in Zones : Range(invalid[z]) \subseteq Range(invalid'[z])
  <2>1. invalid \in [Zones -> Seq(0 .. max_zone_chunks - 1)]
    BY <1>3 DEF ZC!ZSMInv, ZC!TypeOK, ZC!Zones, Zones
  <2>2. \A z \in Zones : \A i \in DOMAIN invalid[z] :
          i \in DOMAIN invalid'[z] /\ invalid'[z][i] = invalid[z][i]
    <3> SUFFICES ASSUME NEW z \in Zones, NEW i \in DOMAIN invalid[z]
                 PROVE  i \in DOMAIN invalid'[z] /\ invalid'[z][i] = invalid[z][i]
      OBVIOUS
    <3>1. PICK q \in Seq(0 .. max_zone_chunks - 1) : q = invalid[z]
      BY <2>1
    <3>2. invalid'[z] = q \/ invalid'[z] = Append(q, pair.chunk_offset)
      BY <1>5, <2>1, <3>1
    <3>3. i \in 1 .. Len(q) /\ Len(q) \in Nat
      BY <3>1, LenProperties
    <3>4. QED
      BY <3>1, <3>2, <3>3, LenProperties
  <2>3. QED
    BY <2>2 DEF Range
<1>11. pair.chunk_offset \in Range(invalid'[pair.zone])
  <2>1. /\ invalid \in [Zones -> Seq(0 .. max_zone_chunks - 1)]
        /\ pair.zone \in Zones /\ pair.chunk_offset \in 0 .. max_zone_chunks - 1
    BY <1>3 DEF ZC!ZSMInv, ZC!TypeOK, ZC!Zones, Zones, Pairs, Chunks
  <2>2. PICK q \in Seq(0 .. max_zone_chunks - 1) : q = invalid[pair.zone]
    BY <2>1
  <2>3. invalid'[pair.zone] = Append(q, pair.chunk_offset)
    BY <1>5, <2>1, <2>2
  <2>4. Len(q) + 1 \in DOMAIN Append(q, pair.chunk_offset)
        /\ Append(q, pair.chunk_offset)[Len(q) + 1] = pair.chunk_offset
    BY <2>1, LenProperties
  <2>5. QED
    BY <2>3, <2>4 DEF Range
<1>12. ZC!ZSMInv'
  <2>1. ZC!TypeOK'
    <3>1. invalid' \in [Zones -> Seq(0 .. max_zone_chunks - 1)]
      <4>1. invalid \in [Zones -> Seq(0 .. max_zone_chunks - 1)]
        BY <1>3 DEF ZC!ZSMInv, ZC!TypeOK, ZC!Zones, Zones
      <4>2. pair.zone \in Zones /\ pair.chunk_offset \in 0 .. max_zone_chunks - 1
        BY DEF Pairs, Chunks
      <4>3. Append(invalid[pair.zone], pair.chunk_offset) \in Seq(0 .. max_zone_chunks - 1)
        BY <4>1, <4>2
      <4>4. QED
        BY <1>5, <4>1, <4>3
    <3>2. QED
      BY <1>3, <1>5, <1>9, <3>1 DEF ZC!ZSMInv, ZC!TypeOK, ZC!Zones, Zones
  <2>2. ZC!HeldZoneStable' /\ ZC!WritesCounted'
    BY <1>3, <1>5, <1>9 DEF ZC!ZSMInv, ZC!HeldZoneStable, ZC!WritesCounted, ZC!Holding
  <2>3. ZC!ActiveLimit' /\ ZC!QueuesSound'
    BY <1>3, <1>5, <1>9
       DEF ZC!ZSMInv, ZC!ActiveLimit, ZC!NumActive, ZC!QueuesSound, ZC!IsInjective, ZC!Range
  <2>4. ZC!ZonesTracked'
    BY <1>3, <1>5, <1>9 DEF ZC!ZSMInv, ZC!ZonesTracked, ZC!Holding, ZC!Range
  <2>5. QED
    BY <2>1, <2>2, <2>3, <2>4 DEF ZC!ZSMInv
<1>13. M!MapInv'
  BY <1>1, EvictsMap
<1>14. DataPlaced'
  <2>1. DiskStays
    BY <1>1, <1>5 DEF DiskStays, Written
  <2>2. \A w \in Workers : pc'[w] = "return" <=> pc[w] = "return"
    BY <1>3 DEF Located, Writing
  <2>3. WroteIt'
    BY <1>1, <1>3, <2>2 DEF WroteIt
  <2>4. "clear_chunk" \notin {"fg_spin", "fg_reset"}
    OBVIOUS
  <2>5. QED
    BY <1>1, <2>1, <2>3, <2>4, EvictsPlaced
<1>15. EvictionShaped'
  <2>1. Len(chunk_lru) \in Nat /\ Len(chunk_lru) = Len(chunk_lru') + 1 /\ Len(chunk_lru') \in Nat
    BY <1>4, <1>5, LenProperties
  <2>2. todo'[t] \in 1 .. Len(chunk_lru') + 1 /\ chunk' \notin in_use' /\ invalid_pqueue' # {}
    BY <1>1, <1>2, <1>3, <1>4, <1>5, <2>1 DEF EvictionShaped
  <2>3. chunk' # NoPair
    BY <1>2, ZNCacheAssumption
  <2>4. QED
    BY <1>3, <1>8, <2>2, <2>3 DEF EvictionShaped, EvictingChunks
<1>16. ZonesQueued'
  BY <1>1, <1>3, <1>4, <1>5, <1>9 DEF ZonesQueued, LastChunk
<1>17. UseSound'
  <2>1. \A p \in Pairs : Written(p)' <=> Written(p)
    BY <1>5 DEF Written
  <2>2. in_use' \ stale' \subseteq in_use \ stale
    BY <1>2, <1>4
  <2>3. QED
    BY <1>1, <1>4, <1>10, <1>11, <2>1, <2>2, EvictsUse
<1>18. InUseMapped'
  <2>1. Dropping = {}
    BY <1>1, <1>8, NothingDropped DEF EvictingChunks
  <2>2. Dropping' = {pair}
    BY <1>2, <1>3 DEF Dropping
  <2>3. (in_use \union Dropping)' = in_use \union Dropping
    BY <1>4, <2>1, <2>2
  <2>4. QED
    BY <1>1, <1>13, <2>3, EvictsUseMapped
<1>19. ChunkReadersHeld'
  BY <1>1, <1>5, EvictsReaders DEF Written
<1>20. QED
  BY <1>6, <1>7, <1>9, <1>12, <1>13, <1>14, <1>15, <1>16, <1>17, <1>18, <1>19 DEF ChunkInv

\* The map is told of the chunk that is unmapped, as of a zone that is cleared.
LEMMA UnmapUses ==
  ASSUME ChunkInv, Running, NEW t \in Threads, ClearChunk(t)
  PROVE  M!Next
<1>1. /\ TypeOK /\ MutexHeld /\ chunk \in Pairs /\ M!ClearChunk(chunk) /\ UNCHANGED undefined
      /\ \E to \in {"gc", "chunk"} : Evicts(t, to)
  <2>1. pc[t] = "clear_chunk" /\ M!ClearChunk(chunk) /\ UNCHANGED undefined
    BY DEF ClearChunk, Goto, crashVars
  <2>2. \E to \in {"gc", "chunk"} : Evicts(t, to)
    BY DEF ClearChunk, Evicts, EvictSteps, Goto, evictUnchanged
  <2>3. chunk \in Pairs
    BY <2>1, InvGives DEF EvictionShaped, LocalsTyped
  <2>4. QED
    BY <2>1, <2>2, <2>3, InvGives
<1>2. UNCHANGED <<Role, Arg, Loc>>
  BY <1>1, EvictsUnseen
<1>3. PICK pair, id :
        /\ pair = chunk /\ pair \in Pairs /\ id = data_map[pair.zone][pair.chunk_offset] /\ id # NoId
        /\ dangling' = dangling \union {w \in Workers : pc[w] = "copy" /\ data_id[w] = id}
  BY <1>1 DEF ClearChunk, M!ClearChunk, M!ClearChunkAsserts, M!Indexed
<1>4. {w \in Workers : pc[w] = "copy" /\ data_id[w] = id}
        = {w \in Workers : Role[w] = "copy" /\ Arg[w] \in {id}}
  <2>1. \A w \in Workers : pc[w] = "copy" <=> Role[w] = "copy"
    BY DEF Role, RoleAt
  <2>2. \A w \in Workers : pc[w] = "copy" => Arg[w] = data_id[w]
    BY <2>1 DEF Arg
  <2>3. QED
    BY <2>1, <2>2
<1>5. M!EvictChunk(pair)
  BY <1>1, <1>2, <1>3, <1>4 DEF M!EvictChunk, M!Freed
<1>6. M!Pairs = Pairs
  BY DEF M!Pairs, M!Zones, M!Chunks, Pairs, Zones, Chunks
<1>7. pair \in M!Pairs
  BY <1>3, <1>6
<1>8. QED
  BY <1>5, <1>7 DEF M!Next, Running

\* The chunk that left the policy is unmapped.
LEMMA UnmapStep ==
  ASSUME ChunkInv, Running, NEW t \in Threads, ClearChunk(t)
  PROVE  ChunkInv'
<1>1. PICK to \in {"gc", "chunk"} :
        /\ Evicts(t, to) /\ pc[t] = "clear_chunk"
        /\ to = IF todo[t] = 1 THEN "gc" ELSE "chunk"
  BY DEF ClearChunk, Evicts, EvictSteps, Goto, evictUnchanged
<1>2. /\ UNCHANGED <<zsmVars, disk, torn, undefined, victim, chunkPolicyVars, holder, stale, exposed>>
      /\ UNCHANGED <<state, chunk_offset, invalid, chunk_lru, in_use, invalid_pqueue>>
      /\ M!ClearChunk(chunk) /\ chunk' = NoPair /\ todo' = [todo EXCEPT ![t] = @ - 1]
      /\ dangling' = dangling \union
           {w \in Workers : pc[w] = "copy" /\ data_id[w] = data_map[chunk.zone][chunk.chunk_offset]}
      /\ late' = late \ {data_map[chunk.zone][chunk.chunk_offset]}
  BY DEF ClearChunk, zsmVars, deviceVars, crashVars, chunkPolicyVars
<1>3. /\ TypeOK /\ StepsShaped /\ WroteIt /\ ZC!ZSMInv /\ M!MapInv /\ ZonesQueued /\ EvictionShaped
      /\ MutexHeld /\ PolicySound /\ Placed /\ InUseMapped
      /\ UNCHANGED <<location, data_id, lru_queue, Placing, Role, Arg, Loc>>
      /\ \A w \in Workers : \A s \in Located : pc'[w] = s <=> pc[w] = s
      /\ \A u \in Threads : pc'[u] = IF u = t THEN to ELSE pc[u]
  <2>1. TypeOK
    BY InvGives
  <2>2. /\ \A u \in Threads : pc'[u] = IF u = t THEN to ELSE pc[u]
        /\ \A w \in Workers : \A s \in Located : pc'[w] = s <=> pc[w] = s
        /\ UNCHANGED <<lru_queue, Placing, Role, Arg, Loc>>
    BY <1>1, <2>1, EvictsUnseen
  <2>3. QED
    BY <1>1, <2>2, InvGives DEF Evicts
<1>4. PICK pair \in Pairs, id \in DataIds :
        /\ pair = chunk /\ id = data_map[pair.zone][pair.chunk_offset]
        /\ id # NoId /\ zone_map[id] = M!Located(pair) /\ pair \notin in_use
        /\ zone_map' = [zone_map EXCEPT ![id] = M!Absent]
        /\ data_map' = [data_map EXCEPT ![pair.zone][pair.chunk_offset] = NoId]
        /\ late' = late \ {id}
        /\ dangling' = dangling \union {w \in Workers : pc[w] = "copy" /\ data_id[w] = id}
  <2>1. chunk \in Pairs /\ chunk \notin in_use
    BY <1>1, <1>3, InvGives DEF EvictionShaped, LocalsTyped
  <2>2. data_map \in [Zones -> [Chunks -> DataIds \union {NoId}]]
    BY <1>3, MapTypes
  <2>3. chunk.zone \in Zones /\ chunk.chunk_offset \in Chunks
    BY <2>1 DEF Pairs
  <2>4. data_map[chunk.zone][chunk.chunk_offset] \in DataIds
    BY <1>2, <2>2, <2>3 DEF M!ClearChunk, M!ClearChunkAsserts, M!Indexed
  <2>5. QED
    BY <1>2, <2>1, <2>4 DEF M!ClearChunk, M!ClearChunkAsserts, M!Indexed
<1>5. \A u \in Threads : u # t => pc[u] \notin EvictingChunks
  BY <1>1, <1>3, OneInside DEF EvictingChunks
<1>6. /\ DOMAIN zone_map = DataIds /\ data_map \in [Zones -> [Chunks -> DataIds \union {NoId}]]
      /\ pair.zone \in Zones /\ pair.chunk_offset \in Chunks
  BY <1>3, MapTypes DEF Pairs
<1>7. ChunkPolicyInv'
  BY EvictKeeps DEF ChunkInv, EvictOrCollect
<1>8. todo[t] \in 1 .. Len(chunk_lru) + 1 /\ Len(chunk_lru) \in Nat /\ todo[t] \in 0 .. UInt - 1
      /\ UInt \in Nat
  <2>1. chunk_lru \in Seq(Pairs)
    BY <1>3, PolicyFacts DEF PolicySound
  <2>2. QED
    BY <1>1, <1>3, <2>1, LenProperties, ZNCacheAssumption DEF EvictionShaped, TypeOK
<1>9. TypeOK' /\ StepsShaped'
  <2>1. victim[t] # NoZone <=> to \in Evicting
    BY <1>1, <1>3 DEF StepsShaped, Evicting
  <2>2. todo' \in [Threads -> 0 .. UInt - 1]
    BY <1>2, <1>3, <1>8 DEF TypeOK
  <2>3. /\ disk' \in [Zones -> [Chunks -> DataIds \union {NoId}]] /\ torn' \subseteq Zones
        /\ dangling' \subseteq Workers /\ late' \subseteq DataIds
        /\ victim' \in [Threads -> Zones \union {NoZone}]
    BY <1>2, <1>3, <1>4 DEF TypeOK
  <2>4. QED
    BY <1>1, <1>2, <1>3, <2>1, <2>2, <2>3, EvictsBasics
<1>10. OnePlace' /\ UNCHANGED <<Filled, ChunkLent>>
  <2>1. pc[t] \notin Moving /\ to \notin Moving /\ pc[t] \notin Evicting /\ to \notin Evicting
    BY <1>1 DEF Moving, Evicting
  <2>2. \A u \in Threads : pc[u] \notin Moving
    BY <1>5, <2>1 DEF Moving, EvictingChunks
  <2>3. QED
    BY <1>1, <1>2, <2>1, <2>2, EvictsZones
<1>11. ZC!ZSMInv'
  <2>1. UNCHANGED ZC!vars
    BY <1>2, <1>10 DEF ZC!vars, ZC!zsmVars, zsmVars, ZC!clientVars
  <2>2. QED
    BY <1>3, <2>1, ChunkZoneStep
<1>12. M!MapInv'
  BY <1>3, UnmapUses, MapStep
<1>13. DataPlaced'
  <2>1. DiskStays
    BY <1>2 DEF DiskStays, Written
  <2>2. \A w \in Workers : pc'[w] = "return" <=> pc[w] = "return"
    BY <1>3 DEF Located, Writing
  <2>3. WroteIt'
    BY <1>2, <1>3, <2>2 DEF WroteIt
  <2>4. \A zone \in Zones : Cleared(zone)' => Cleared(zone)
    BY <1>1, <1>2, <1>3, ClearedKept DEF Evicts
  <2>5. ASSUME NEW i \in DataIds \ late', NEW q \in Pairs, zone_map'[i] = M!Located(q)
        PROVE  /\ i \notin late /\ zone_map[i] = M!Located(q)
               /\ data_map'[q.zone][q.chunk_offset] = data_map[q.zone][q.chunk_offset]
    <3>1. i # id /\ i \notin late /\ zone_map[i] = M!Located(q)
      BY <1>4, <1>6, <2>5, Entries
    <3>2. data_map[q.zone][q.chunk_offset] = i
      BY <1>3, <3>1 DEF Placed, MappedPlaced
    <3>3. q.zone # pair.zone \/ q.chunk_offset # pair.chunk_offset
      BY <1>4, <3>1, <3>2
    <3>4. q.zone \in Zones /\ q.chunk_offset \in Chunks
      BY DEF Pairs
    <3>5. QED
      BY <1>4, <1>6, <3>1, <3>3, <3>4
  <2>6. \A w \in Placing' : w \in Placing /\ UNCHANGED <<location[w], data_id[w]>>
    BY <1>3
  <2>7. MappedPlaced' /\ PlacingPlaced'
    BY <1>3, <2>1, <2>4, <2>5, <2>6, PlacedKept DEF Placed
  <2>8. QED
    BY <2>3, <2>7, PlacedParts
<1>14. EvictionShaped'
  <2>1. todo'[t] = todo[t] - 1
    BY <1>2, <1>3 DEF TypeOK
  <2>2. to = "chunk" => todo'[t] \in 1 .. Len(chunk_lru)
    BY <1>1, <1>8, <2>1
  <2>3. invalid_pqueue # {}
    BY <1>1, <1>3 DEF EvictionShaped
  <2>4. QED
    BY <1>1, <1>2, <1>3, <1>5, <2>2, <2>3 DEF EvictionShaped, EvictingChunks
<1>15. ZonesQueued'
  BY <1>1, <1>2, <1>3, <1>10 DEF ZonesQueued, LastChunk
<1>16. UseSound'
  <2>1. in_use \subseteq Pairs
    BY <1>3, PolicyFacts DEF PolicySound
  <2>2. QED
    BY <1>1, <1>2, <2>1, EvictsUse DEF Written
<1>17. InUseMapped'
  <2>1. Dropping = {pair} /\ Dropping' = {}
    <3>1. to # "clear_chunk"
      BY <1>1
    <3>2. QED
      BY <1>1, <1>3, <1>4, <1>5, <3>1, NothingDropped DEF Dropping, EvictingChunks
  <2>2. PairsMapped /\ InMap(pair) /\ \A p \in Pairs : AboutToMap(p)' = AboutToMap(p)
    BY <1>3, <1>4, MappedForm DEF InMap, AboutToMap, Located
  <2>3. \A p \in Pairs : InMap(p)' <=> p # pair /\ InMap(p)
    <3> SUFFICES ASSUME NEW p \in Pairs PROVE InMap(p)' <=> p # pair /\ InMap(p)
      OBVIOUS
    <3>1. /\ p.zone \in Zones /\ p.chunk_offset \in Chunks
          /\ p # pair => p.zone # pair.zone \/ p.chunk_offset # pair.chunk_offset
      BY DEF Pairs
    <3>2. p = pair => data_map'[p.zone][p.chunk_offset] = NoId
      BY <1>4, <1>6
    <3>3. p # pair => data_map'[p.zone][p.chunk_offset] = data_map[p.zone][p.chunk_offset]
      BY <1>4, <1>6, <3>1
    <3>4. QED
      BY <3>2, <3>3 DEF InMap
  <2>4. PairsMapped'
    BY <1>2, <1>4, <2>1, <2>2, <2>3 DEF PairsMapped
  <2>5. QED
    BY <1>12, <2>4, MappedForm
<1>18. ChunkReadersHeld'
  BY <1>1, <1>2, EvictsReaders DEF Written
<1>19. QED
  BY <1>7, <1>9, <1>10, <1>11, <1>12, <1>13, <1>14, <1>15, <1>16, <1>17, <1>18 DEF ChunkInv

\* Garbage collection takes a zone from the priority queue.
LEMMA PickStep ==
  ASSUME ChunkInv, NEW t \in Threads, PickZone(t)
  PROVE  ChunkInv'
<1>1. PICK z \in Zones : /\ C!ExtractMin(z) /\ victim' = [victim EXCEPT ![t] = z]
                         /\ Goto(t, pc[t], IF C!LiveChunks(z) = {} THEN "fg_clear" ELSE "gc_move")
  BY DEF PickZone
<1>2. PICK to \in {"fg_clear", "gc_move"} :
        /\ Evicts(t, to) /\ pc[t] \in {"gc", "gc_more"}
        /\ to = "fg_clear" => C!LiveChunks(z) = {}
  <2>1. /\ pc[t] \in {"gc", "gc_more"} /\ pc[t] \in EvictSteps
        /\ UNCHANGED <<policyVars, workload_index, data_id, location, failed, crashVars>>
        /\ UNCHANGED <<overtaken, misled>>
    BY DEF PickZone, Collecting, EvictSteps, evictUnchanged, historyVars
  <2>2. {"fg_clear", "gc_move"} \subseteq EvictSteps
    BY DEF EvictSteps, Evicting
  <2>3. CASE C!LiveChunks(z) = {}
    <3>1. pc' = [pc EXCEPT ![t] = "fg_clear"]
      BY <1>1, <2>3 DEF Goto
    <3>2. QED
      BY <2>1, <2>2, <2>3, <3>1 DEF Evicts
  <2>4. CASE C!LiveChunks(z) # {}
    <3>1. pc' = [pc EXCEPT ![t] = "gc_move"]
      BY <1>1, <2>4 DEF Goto
    <3>2. QED
      BY <2>1, <2>2, <3>1 DEF Evicts
  <2>5. QED
    BY <2>3, <2>4
<1>3. /\ UNCHANGED <<zsmVars, mapVars, deviceVars, todo, dangling, late, holder, chunk, stale, exposed>>
      /\ UNCHANGED <<state, chunk_offset, invalid, zone_map, data_map, disk, torn, chunk_lru, in_use>>
      /\ z \in invalid_pqueue /\ invalid_pqueue' = invalid_pqueue \ {z}
  BY <1>1 DEF PickZone, zsmVars, mapVars, deviceVars, historyVars, C!ExtractMin, C!PQ!ExtractMin,
              C!lruVars
<1>4. /\ TypeOK /\ StepsShaped /\ WroteIt /\ ZC!ZSMInv /\ OnePlace /\ ZonesQueued /\ EvictionShaped
      /\ MutexHeld /\ PolicySound /\ in_use \subseteq Pairs
      /\ UNCHANGED <<location, data_id, lru_queue, zone_to_lru_map, Filling>>
      /\ \A w \in Workers : \A s \in Located : pc'[w] = s <=> pc[w] = s
      /\ \A u \in Threads : pc'[u] = IF u = t THEN to ELSE pc[u]
  <2>1. TypeOK /\ PolicySound
    BY InvGives
  <2>2. /\ \A u \in Threads : pc'[u] = IF u = t THEN to ELSE pc[u]
        /\ \A w \in Workers : \A s \in Located : pc'[w] = s <=> pc[w] = s
        /\ UNCHANGED <<lru_queue, zone_to_lru_map, Filling>>
    BY <1>2, <2>1, EvictsUnseen
  <2>3. in_use \subseteq Pairs
    BY <2>1, PolicyFacts DEF PolicySound
  <2>4. QED
    BY <1>2, <2>2, <2>3, InvGives DEF Evicts
<1>5. \A u \in Threads : u # t => pc[u] \notin EvictingChunks
  BY <1>2, <1>4, OneInside DEF EvictingChunks
<1>6. /\ \A u \in Threads : victim'[u] = IF u = t THEN z ELSE victim[u]
      /\ victim[t] = NoZone /\ z # NoZone /\ z \notin Filled
  BY <1>1, <1>2, <1>3, <1>4, ZNCacheAssumption DEF TypeOK, StepsShaped, Evicting, ZonesQueued
<1>7. ChunkPolicyInv'
  BY EvictKeeps DEF ChunkInv, EvictOrCollect
<1>8. TypeOK' /\ StepsShaped'
  <2>1. victim'[t] # NoZone <=> to \in Evicting
    BY <1>2, <1>6 DEF Evicting
  <2>2. victim' \in [Threads -> Zones \union {NoZone}]
    BY <1>1, <1>4 DEF TypeOK
  <2>3. /\ disk' \in [Zones -> [Chunks -> DataIds \union {NoId}]] /\ torn' \subseteq Zones
        /\ dangling' \subseteq Workers /\ late' \subseteq DataIds
        /\ todo' \in [Threads -> 0 .. UInt - 1]
    BY <1>3, <1>4 DEF TypeOK
  <2>4. \A u \in Threads : u # t => victim'[u] = victim[u]
    BY <1>6
  <2>5. QED
    BY <1>2, <1>4, <2>1, <2>2, <2>3, <2>4, EvictsBasics
<1>9. OnePlace'
  <2>1. \A u \in Threads : victim[u] # z
    BY <1>4, <1>6, VictimFilled
  <2>2. \A w \in Filling : location[w].zone # z
    BY <1>6, FillingFilled
  <2>3. z \notin zone_to_lru_map
    BY <1>4, <1>6, QueuedZones
  <2>4. P!NodesExact'
    BY <1>4 DEF OnePlace, P!NodesExact, P!IsInjective, P!Range
  <2>5. QED
    BY <1>4, <1>6, <2>1, <2>2, <2>3, <2>4 DEF OnePlace
<1>10. Filled' = Filled \union {z}
  <2>1. \A u \in Threads : pc'[u] \in Evicting <=> u = t \/ pc[u] \in Evicting
    BY <1>2, <1>4 DEF Evicting
  <2>2. pc[t] \notin Evicting
    BY <1>2 DEF Evicting
  <2>3. {victim'[u] : u \in {v \in Threads : pc'[v] \in Evicting}}
          = {victim[u] : u \in {v \in Threads : pc[v] \in Evicting}} \union {z}
    BY <1>6, <2>1, <2>2
  <2>4. QED
    BY <1>4, <2>3 DEF Filled
<1>11. ZC!ZSMInv'
  <2>1. (Filled \union invalid_pqueue)' = Filled \union invalid_pqueue
    BY <1>3, <1>10
  <2>2. UNCHANGED ChunkLent
    <3>1. pc[t] \notin Moving /\ to \notin Moving
      BY <1>2 DEF Moving
    <3>2. QED
      BY <1>2, <1>3, <1>4, <3>1, EvictsLent
  <2>3. UNCHANGED ZC!vars
    BY <1>3, <2>1, <2>2 DEF ZC!vars, ZC!zsmVars, zsmVars, ZC!clientVars
  <2>4. QED
    BY <1>4, <2>3, ChunkZoneStep
<1>12. M!MapInv'
  BY <1>2, <1>3, EvictsMap
<1>13. DataPlaced'
  <2>1. DiskStays
    BY <1>3 DEF DiskStays, Written
  <2>2. \A w \in Workers : pc'[w] = "return" <=> pc[w] = "return"
    BY <1>4 DEF Located, Writing
  <2>3. WroteIt'
    BY <1>3, <1>4, <2>2 DEF WroteIt
  <2>4. \A u \in Threads : u # t => victim'[u] = victim[u]
    BY <1>6
  <2>5. QED
    BY <1>2, <1>3, <2>1, <2>3, <2>4, EvictsPlaced
<1>14. EvictionShaped'
  BY <1>2, <1>3, <1>4, <1>5 DEF EvictionShaped, EvictingChunks
<1>15. ZonesQueued'
  <2>1. invalid_pqueue' \intersect Filled' = {}
    BY <1>3, <1>4, <1>10 DEF ZonesQueued
  <2>2. ASSUME NEW pair \in in_use
        PROVE  /\ LastChunk(pair) => pair.zone \in invalid_pqueue' \union {victim'[u] : u \in Threads}
               /\ \A u \in Threads : pc'[u] \in {"fg_clear", "fg_spin"} => victim'[u] # pair.zone
    <3>1. pair.zone \in Zones /\ pair.zone # NoZone
      BY <1>4, ZNCacheAssumption DEF Pairs
    <3>2. LastChunk(pair) => pair.zone \in invalid_pqueue \/ \E u \in Threads : victim[u] = pair.zone
      BY <1>4 DEF ZonesQueued
    <3>3. LastChunk(pair) => pair.zone \in invalid_pqueue' \/ \E u \in Threads : victim'[u] = pair.zone
      BY <1>3, <1>6, <3>1, <3>2
    <3>4. \A u \in Threads : pc'[u] \in {"fg_clear", "fg_spin"} => victim'[u] # pair.zone
      <4>1. to = "fg_clear" => pair.zone # z
        BY <1>2 DEF C!LiveChunks
      <4>2. \A u \in Threads : u # t => pc'[u] \notin {"fg_clear", "fg_spin"}
        BY <1>4, <1>5 DEF EvictingChunks
      <4>3. QED
        BY <1>2, <1>4, <1>6, <4>1, <4>2
    <3>5. QED
      BY <3>3, <3>4
  <2>3. QED
    BY <1>3, <1>4, <2>1, <2>2 DEF ZonesQueued, LastChunk
<1>16. UseSound'
  BY <1>2, <1>3, <1>4, EvictsUse DEF Written
<1>17. InUseMapped'
  BY <1>2, <1>3, <1>4, <1>12, EvictsUseMapped, EvictsDropping
<1>18. ChunkReadersHeld'
  BY <1>2, <1>3, EvictsReaders DEF Written
<1>19. QED
  BY <1>7, <1>8, <1>9, <1>11, <1>12, <1>13, <1>14, <1>15, <1>16, <1>17, <1>18 DEF ChunkInv

\* Garbage collection gets a chunk to write to from the zone state manager.
LEMMA MoveStep ==
  ASSUME ChunkInv, NEW t \in Threads, MoveTo(t)
  PROVE  ChunkInv'
<1>1. /\ Evicts(t, "gc_copy") /\ pc[t] = "gc_move"
      /\ UNCHANGED <<mapVars, deviceVars, todo, victim, dangling, late, holder, stale, exposed>>
      /\ UNCHANGED <<zone_map, data_map, disk, torn, chunk_lru, in_use, invalid_pqueue>>
  BY DEF MoveTo, Evicts, EvictSteps, Evicting, Goto, evictUnchanged, evictVars, historyVars,
         mapVars, deviceVars, chunkPolicyVars
<1>2. PICK pair \in Pairs : (Z!ReuseActiveZone(pair) \/ Z!OpenFreeZone(pair)) /\ chunk' = pair
  BY DEF MoveTo
<1>3. /\ TypeOK /\ StepsShaped /\ WroteIt /\ ZC!ZSMInv /\ Z!TypeOK /\ Z!QueuesSound /\ ZonesQueued
      /\ EvictionShaped /\ MutexHeld /\ PolicySound /\ in_use \subseteq Pairs
      /\ UNCHANGED <<location, data_id, lru_queue>>
      /\ \A w \in Workers : \A s \in Located : pc'[w] = s <=> pc[w] = s
      /\ \A u \in Threads : pc'[u] = IF u = t THEN "gc_copy" ELSE pc[u]
  <2>1. TypeOK /\ PolicySound
    BY InvGives
  <2>2. /\ \A u \in Threads : pc'[u] = IF u = t THEN "gc_copy" ELSE pc[u]
        /\ \A w \in Workers : \A s \in Located : pc'[w] = s <=> pc[w] = s
        /\ UNCHANGED lru_queue
    BY <1>1, <2>1, EvictsUnseen
  <2>3. in_use \subseteq Pairs
    BY <2>1, PolicyFacts DEF PolicySound
  <2>4. QED
    BY <1>1, <2>2, <2>3, InvGives DEF Evicts, ZonesSound
<1>4. \A u \in Threads : u # t => pc[u] \notin EvictingChunks
  BY <1>1, <1>3, OneInside DEF EvictingChunks
<1>5. /\ pair.zone \in Zones /\ UNCHANGED invalid
      /\ state' = [state EXCEPT ![pair.zone] = "WRITE_OCCURING"]
      /\ UNCHANGED chunk_offset \/ chunk_offset' = [chunk_offset EXCEPT ![pair.zone] = 0]
  BY <1>2 DEF Z!ReuseActiveZone, Z!OpenFreeZone, Z!Lend, Pairs
<1>6. \A p \in Pairs : (Written(p) => Written(p)') /\ (Written(p)' => Written(p))
  <2> SUFFICES ASSUME NEW p \in Pairs, Written(p)' PROVE Written(p)
    BY <1>2, <1>3, GetKeeps
  <2>1. /\ p.zone \in Zones /\ p.chunk_offset \in 0 .. max_zone_chunks - 1
        /\ state \in [Zones -> {"FREE", "FULL", "ACTIVE", "WRITE_OCCURING"}]
        /\ chunk_offset \in [Zones -> 0 .. max_zone_chunks]
    BY <1>3, ZoneTypes DEF Pairs, Chunks
  <2>2. QED
    BY <1>5, <2>1, Sizes DEF Written
<1>7. ChunkPolicyInv'
  BY EvictKeeps DEF ChunkInv, EvictOrCollect
<1>8. TypeOK' /\ StepsShaped'
  <2>1. victim[t] # NoZone <=> "gc_copy" \in Evicting
    BY <1>1, <1>3 DEF StepsShaped, Evicting
  <2>2. /\ disk' \in [Zones -> [Chunks -> DataIds \union {NoId}]] /\ torn' \subseteq Zones
        /\ dangling' \subseteq Workers /\ late' \subseteq DataIds
        /\ todo' \in [Threads -> 0 .. UInt - 1] /\ victim' \in [Threads -> Zones \union {NoZone}]
    BY <1>1, <1>3 DEF TypeOK
  <2>3. QED
    BY <1>1, <1>3, <2>1, <2>2, EvictsBasics
<1>9. OnePlace' /\ UNCHANGED Filled
  BY <1>1, EvictsFilled DEF Evicting
<1>10. ZC!ZSMInv'
  <2>1. ChunkLent[t] = NoPair
    BY <1>1 DEF ChunkLent, Writing
  <2>2. ChunkLent' = [ChunkLent EXCEPT ![t] = pair]
    <3>1. \A u \in Threads : ChunkLent'[u] = IF u = t THEN pair ELSE ChunkLent[u]
      <4>1. t \in Threads /\ ChunkLent'[t] = pair
        BY <1>2, <1>3 DEF ChunkLent, Writing
      <4>2. ASSUME NEW u \in Threads, u # t PROVE ChunkLent'[u] = ChunkLent[u]
        <5>1. pc'[u] = pc[u] /\ pc[u] \notin {"gc_copy", "gc_insert"} /\ UNCHANGED location
          BY <1>3, <1>4, <4>2 DEF EvictingChunks
        <5>2. QED
          BY <5>1 DEF ChunkLent
      <4>3. QED
        BY <4>1, <4>2
    <3>2. QED
      BY <3>1 DEF ChunkLent
  <2>3. ZC!ReuseActiveZone(pair) \/ ZC!OpenFreeZone(pair)
    BY <1>2 DEF Z!ReuseActiveZone, ZC!ReuseActiveZone, Z!OpenFreeZone, ZC!OpenFreeZone, Z!Lend,
                ZC!Lend, Z!CanOpen, ZC!CanOpen, Z!NumActive, ZC!NumActive
  <2>4. (Filled \union invalid_pqueue)' = Filled \union invalid_pqueue
    BY <1>1, <1>9
  <2>5. ZC!Get(t)
    BY <2>1, <2>2, <2>3, <2>4 DEF ZC!Get, ZC!Pairs, ZC!Zones, Pairs, Zones, Chunks
  <2>6. QED
    BY <1>3, <2>5, ChunkZoneStep
<1>11. M!MapInv'
  BY <1>1, EvictsMap
<1>12. DataPlaced'
  <2>1. DiskStays
    BY <1>1, <1>6 DEF DiskStays
  <2>2. \A w \in Workers : pc'[w] = "return" <=> pc[w] = "return"
    BY <1>3 DEF Located, Writing
  <2>3. WroteIt'
    BY <1>1, <1>3, <2>2 DEF WroteIt
  <2>4. "gc_copy" \notin {"fg_spin", "fg_reset"}
    OBVIOUS
  <2>5. QED
    BY <1>1, <2>1, <2>3, <2>4, EvictsPlaced
<1>13. EvictionShaped'
  <2>1. chunk' # NoPair
    BY <1>2, ZNCacheAssumption
  <2>2. QED
    BY <1>1, <1>3, <1>4, <2>1 DEF EvictionShaped, EvictingChunks
<1>14. ZonesQueued'
  BY <1>1, <1>3, <1>9 DEF ZonesQueued, LastChunk
<1>15. UseSound'
  BY <1>1, <1>3, <1>5, <1>6, EvictsUse
<1>16. InUseMapped'
  <2>1. Dropping = {} /\ Dropping' = {}
    BY <1>1, <1>3, <1>4, NothingDropped DEF EvictingChunks
  <2>2. QED
    BY <1>1, <1>11, <2>1, EvictsUseMapped
<1>17. ChunkReadersHeld'
  BY <1>1, <1>6, EvictsReaders
<1>18. QED
  BY <1>7, <1>8, <1>9, <1>10, <1>11, <1>12, <1>13, <1>14, <1>15, <1>16, <1>17 DEF ChunkInv

\* The data of a chunk in use is written to the place garbage collection got,
\* which is nobody else's.
LEMMA CopyStep ==
  ASSUME ChunkInv, NEW t \in Threads, CopyChunk(t)
  PROVE  ChunkInv'
<1>1. /\ Evicts(t, "gc_insert") /\ pc[t] = "gc_copy"
      /\ UNCHANGED <<zsmVars, mapVars, torn, todo, victim, dangling, late, holder, chunk, stale, exposed>>
      /\ UNCHANGED <<zone_map, data_map, chunk_lru, in_use, invalid_pqueue, state, chunk_offset, invalid>>
  BY DEF CopyChunk, Evicts, EvictSteps, Evicting, Goto, evictUnchanged, evictVars, historyVars,
         mapVars, zsmVars, chunkVars, chunkPolicyVars
<1>2. PICK from \in in_use :
        disk' = [disk EXCEPT ![chunk.zone][chunk.chunk_offset] = disk[from.zone][from.chunk_offset]]
  BY DEF CopyChunk, C!LiveChunks
<1>3. /\ TypeOK /\ StepsShaped /\ WroteIt /\ ZC!ZSMInv /\ ZonesQueued
      /\ EvictionShaped /\ MutexHeld /\ PolicySound /\ in_use \subseteq Pairs
      /\ UNCHANGED <<location, data_id, lru_queue>>
      /\ \A w \in Workers : \A s \in Located : pc'[w] = s <=> pc[w] = s
      /\ \A u \in Threads : pc'[u] = IF u = t THEN "gc_insert" ELSE pc[u]
  <2>1. TypeOK /\ PolicySound
    BY InvGives
  <2>2. /\ \A u \in Threads : pc'[u] = IF u = t THEN "gc_insert" ELSE pc[u]
        /\ \A w \in Workers : \A s \in Located : pc'[w] = s <=> pc[w] = s
        /\ UNCHANGED lru_queue
    BY <1>1, <2>1, EvictsUnseen
  <2>3. in_use \subseteq Pairs
    BY <2>1, PolicyFacts DEF PolicySound
  <2>4. QED
    BY <1>1, <2>2, <2>3, InvGives DEF Evicts
<1>4. \A u \in Threads : u # t => pc[u] \notin EvictingChunks
  BY <1>1, <1>3, OneInside DEF EvictingChunks
<1>5. PICK place \in Pairs : place = chunk
  BY <1>1, <1>3, InvGives DEF EvictionShaped, LocalsTyped
<1>6. /\ ~Written(place)
      /\ \A w \in Workers : pc[w] = "return" => location[w] \in Pairs /\ location[w].zone # place.zone
  <2>1. ChunkLent[t] = place /\ place # NoPair
    BY <1>1, <1>5, ZNCacheAssumption DEF ChunkLent, Writing
  <2>2. ZC!HeldZoneStable /\ t \in ZC!Holding
    BY <1>3, <2>1 DEF ZC!ZSMInv, ZC!Holding
  <2>3. state[place.zone] = "WRITE_OCCURING" /\ chunk_offset[place.zone] = place.chunk_offset
    BY <2>1, <2>2 DEF ZC!HeldZoneStable
  <2>4. place.chunk_offset \in Int
    BY Sizes DEF Pairs, Chunks
  <2>5. ASSUME NEW w \in Workers, pc[w] = "return"
        PROVE  location[w] \in Pairs /\ location[w].zone # place.zone
    <3>1. location[w] \in Pairs /\ location[w] # NoPair
      BY <1>3, <2>5, ZNCacheAssumption DEF StepsShaped, TypeOK, Writing
    <3>2. w \in Threads /\ w # t /\ ChunkLent[w] = location[w]
      BY <1>1, <2>5 DEF ChunkLent, Writing, Threads
    <3>3. w \in ZC!Holding
      BY <3>1, <3>2 DEF ZC!Holding
    <3>4. QED
      BY <2>1, <2>2, <3>1, <3>2, <3>3 DEF ZC!HeldZoneStable
  <2>6. QED
    BY <2>3, <2>4, <2>5 DEF Written
<1>7. /\ disk' \in [Zones -> [Chunks -> DataIds \union {NoId}]]
      /\ \A p \in Pairs : p # place =>
           disk'[p.zone][p.chunk_offset] = disk[p.zone][p.chunk_offset]
  <2>1. /\ disk \in [Zones -> [Chunks -> DataIds \union {NoId}]]
        /\ from.zone \in Zones /\ from.chunk_offset \in Chunks
        /\ place.zone \in Zones /\ place.chunk_offset \in Chunks
    BY <1>3 DEF TypeOK, Pairs
  <2>2. PICK v \in DataIds \union {NoId} :
          disk' = [disk EXCEPT ![place.zone][place.chunk_offset] = v]
    BY <1>2, <1>5, <2>1
  <2>3. disk' \in [Zones -> [Chunks -> DataIds \union {NoId}]]
    BY <2>1, <2>2
  <2>4. ASSUME NEW p \in Pairs, p # place
        PROVE  disk'[p.zone][p.chunk_offset] = disk[p.zone][p.chunk_offset]
    <3>1. /\ p.zone # place.zone \/ p.chunk_offset # place.chunk_offset
          /\ p.zone \in Zones /\ p.chunk_offset \in Chunks
      BY <2>4 DEF Pairs
    <3>2. QED
      BY <2>1, <2>2, <3>1
  <2>5. QED
    BY <2>3, <2>4
<1>8. /\ \A p \in Pairs : Written(p)' <=> Written(p)
      /\ \A p \in Pairs : Written(p) => disk'[p.zone][p.chunk_offset] = disk[p.zone][p.chunk_offset]
  <2>1. \A p \in Pairs : Written(p)' <=> Written(p)
    BY <1>1 DEF Written
  <2>2. QED
    BY <1>6, <1>7, <2>1
<1>9. ChunkPolicyInv'
  BY EvictKeeps DEF ChunkInv, EvictOrCollect
<1>10. TypeOK' /\ StepsShaped'
  <2>1. victim[t] # NoZone <=> "gc_insert" \in Evicting
    BY <1>1, <1>3 DEF StepsShaped, Evicting
  <2>2. /\ torn' \subseteq Zones /\ dangling' \subseteq Workers /\ late' \subseteq DataIds
        /\ todo' \in [Threads -> 0 .. UInt - 1] /\ victim' \in [Threads -> Zones \union {NoZone}]
    BY <1>1, <1>3 DEF TypeOK
  <2>3. QED
    BY <1>1, <1>3, <1>7, <2>1, <2>2, EvictsBasics
<1>11. OnePlace' /\ UNCHANGED <<Filled, ChunkLent>>
  BY <1>1, EvictsZones DEF Evicting, Moving
<1>12. ZC!ZSMInv'
  <2>1. UNCHANGED ZC!vars
    BY <1>1, <1>11 DEF ZC!vars, ZC!zsmVars, zsmVars, ZC!clientVars
  <2>2. QED
    BY <1>3, <2>1, ChunkZoneStep
<1>13. M!MapInv'
  BY <1>1, EvictsMap
<1>14. DataPlaced'
  <2>1. DiskStays
    BY <1>8 DEF DiskStays
  <2>2. ASSUME NEW w \in Workers, pc'[w] = "return"
        PROVE  disk'[location'[w].zone][location'[w].chunk_offset] = data_id'[w]
    <3>1. pc[w] = "return" /\ UNCHANGED <<location, data_id>>
      BY <1>3, <2>2 DEF Located, Writing
    <3>2. location[w] \in Pairs /\ location[w] # place
      BY <1>6, <3>1
    <3>3. QED
      BY <1>3, <1>7, <3>1, <3>2 DEF WroteIt
  <2>3. WroteIt'
    BY <2>2 DEF WroteIt
  <2>4. "gc_insert" \notin {"fg_spin", "fg_reset"}
    OBVIOUS
  <2>5. QED
    BY <1>1, <2>1, <2>3, <2>4, EvictsPlaced
<1>15. EvictionShaped'
  BY <1>1, <1>3, <1>4 DEF EvictionShaped, EvictingChunks
<1>16. ZonesQueued'
  BY <1>1, <1>3, <1>11 DEF ZonesQueued, LastChunk
<1>17. UseSound'
  BY <1>1, <1>3, <1>8, EvictsUse
<1>18. InUseMapped'
  BY <1>1, <1>3, <1>13, EvictsUseMapped, EvictsDropping
<1>19. ChunkReadersHeld'
  BY <1>1, <1>8, EvictsReaders
<1>20. QED
  BY <1>9, <1>10, <1>11, <1>12, <1>13, <1>14, <1>15, <1>16, <1>17, <1>18, <1>19 DEF ChunkInv

\* The collected zone is reset, with whoever reads in it.
LEMMA ResetStep ==
  ASSUME ChunkInv, NEW t \in Threads, ResetCollected(t)
  PROVE  ChunkInv'
<1>1. /\ Evicts(t, "gc_more") /\ pc[t] = "fg_spin"
      /\ UNCHANGED <<mapVars, todo, dangling, late, holder, chunk, stale>>
      /\ UNCHANGED <<zone_map, data_map, chunk_lru, in_use, invalid_pqueue>>
      /\ Z!Evict(victim[t]) /\ victim' = [victim EXCEPT ![t] = NoZone]
      /\ torn' \subseteq torn
      /\ disk' = IF ZNS THEN [disk EXCEPT ![victim[t]] = [c \in Chunks |-> NoId]] ELSE disk
      /\ exposed' = exposed \union
           {w \in Workers : pc[w] \in {"copy", "read"} /\ location[w].zone = victim[t]}
  BY DEF ResetCollected, Evicts, EvictSteps, Evicting, Goto, evictUnchanged, historyVars, mapVars,
         chunkPolicyVars
<1>2. /\ TypeOK /\ StepsShaped /\ WroteIt /\ ZC!ZSMInv /\ ZonesSound /\ OnePlace /\ ZonesQueued
      /\ EvictionShaped /\ MutexHeld /\ PolicySound /\ in_use \subseteq Pairs
      /\ UNCHANGED <<location, data_id, lru_queue, zone_to_lru_map, Filling>>
      /\ \A w \in Workers : \A s \in Located : pc'[w] = s <=> pc[w] = s
      /\ \A u \in Threads : pc'[u] = IF u = t THEN "gc_more" ELSE pc[u]
  <2>1. TypeOK /\ PolicySound
    BY InvGives
  <2>2. /\ \A u \in Threads : pc'[u] = IF u = t THEN "gc_more" ELSE pc[u]
        /\ \A w \in Workers : \A s \in Located : pc'[w] = s <=> pc[w] = s
        /\ UNCHANGED <<lru_queue, zone_to_lru_map, Filling>>
    BY <1>1, <2>1, EvictsUnseen
  <2>3. in_use \subseteq Pairs
    BY <2>1, PolicyFacts DEF PolicySound
  <2>4. QED
    BY <1>1, <2>2, <2>3, InvGives DEF Evicts
<1>3. \A u \in Threads : u # t => pc[u] \notin EvictingChunks
  BY <1>1, <1>2, OneInside DEF EvictingChunks
<1>4. PICK z \in Zones : z = victim[t] /\ z # NoZone /\ z \in Filled /\ z \notin invalid_pqueue
  <2>1. victim[t] \in Zones /\ victim[t] # NoZone
    BY <1>1, <1>2, ZNCacheAssumption DEF StepsShaped, TypeOK, Evicting
  <2>2. victim[t] \in Filled
    BY <1>2, <2>1, VictimFilled
  <2>3. QED
    BY <1>2, <2>1, <2>2 DEF ZonesQueued
<1>5. /\ state[z] = "FULL" /\ state' = [state EXCEPT ![z] = "FREE"]
      /\ chunk_offset' = [chunk_offset EXCEPT ![z] = 0] /\ UNCHANGED invalid
      /\ state \in [Zones -> {"FREE", "FULL", "ACTIVE", "WRITE_OCCURING"}]
      /\ chunk_offset \in [Zones -> 0 .. max_zone_chunks]
  BY <1>1, <1>2, <1>4, ZoneTypes DEF Z!Evict, ZonesSound
<1>6. \A u \in Threads : victim'[u] = IF u = t THEN NoZone ELSE victim[u]
  BY <1>1, <1>2 DEF TypeOK
<1>7. /\ disk' \in [Zones -> [Chunks -> DataIds \union {NoId}]]
      /\ \A y \in Zones : y # z => disk'[y] = disk[y]
  <2>1. disk \in [Zones -> [Chunks -> DataIds \union {NoId}]]
    BY <1>2 DEF TypeOK
  <2>2. QED
    BY <1>1, <1>4, <2>1
<1>8. \A p \in Pairs : /\ p.zone # z => /\ Written(p)' <=> Written(p)
                                        /\ disk'[p.zone][p.chunk_offset] = disk[p.zone][p.chunk_offset]
                       /\ p.zone = z => ~Written(p)'
  <2> SUFFICES ASSUME NEW p \in Pairs
               PROVE  /\ p.zone # z => /\ Written(p)' <=> Written(p)
                                       /\ disk'[p.zone][p.chunk_offset] = disk[p.zone][p.chunk_offset]
                      /\ p.zone = z => ~Written(p)'
    OBVIOUS
  <2>1. p.zone \in Zones /\ p.chunk_offset \in 0 .. max_zone_chunks - 1
    BY DEF Pairs, Chunks
  <2>2. p.zone # z => /\ Written(p)' <=> Written(p)
                      /\ disk'[p.zone][p.chunk_offset] = disk[p.zone][p.chunk_offset]
    BY <1>5, <1>7, <2>1 DEF Written
  <2>3. p.zone = z => ~Written(p)'
    BY <1>5, <2>1, Sizes DEF Written
  <2>4. QED
    BY <2>2, <2>3
<1>9. \A p \in in_use : p.zone # z
  BY <1>1, <1>2, <1>4 DEF ZonesQueued
<1>10. ChunkPolicyInv'
  BY EvictKeeps DEF ChunkInv, EvictOrCollect
<1>11. TypeOK' /\ StepsShaped'
  <2>1. victim'[t] # NoZone <=> "gc_more" \in Evicting
    BY <1>6 DEF Evicting
  <2>2. /\ torn' \subseteq Zones /\ dangling' \subseteq Workers /\ late' \subseteq DataIds
        /\ todo' \in [Threads -> 0 .. UInt - 1]
    BY <1>1, <1>2 DEF TypeOK
  <2>3. victim' \in [Threads -> Zones \union {NoZone}]
    BY <1>1, <1>2 DEF TypeOK
  <2>4. \A u \in Threads : u # t => victim'[u] = victim[u]
    BY <1>6
  <2>5. QED
    BY <1>1, <1>2, <1>7, <2>1, <2>2, <2>3, <2>4, EvictsBasics
<1>12. OnePlace'
  <2>1. NoZone \notin zone_to_lru_map
    BY <1>2, QueuedZones, ZNCacheAssumption
  <2>2. \A w \in Filling : location[w].zone # NoZone
    BY <1>2, ZNCacheAssumption DEF Filling, TypeOK, StepsShaped, Pairs
  <2>3. P!NodesExact'
    BY <1>2 DEF OnePlace, P!NodesExact, P!IsInjective, P!Range
  <2>4. QED
    BY <1>2, <1>6, <2>1, <2>2, <2>3 DEF OnePlace
<1>13. Filled' = Filled \ {z}
  <2>1. \A u \in Threads : pc'[u] \in Evicting <=> u # t /\ pc[u] \in Evicting
    BY <1>2 DEF Evicting
  <2>2. {victim'[u] : u \in {v \in Threads : pc'[v] \in Evicting}}
          = {victim[u] : u \in {v \in Threads : pc[v] \in Evicting}} \ {z}
    <3>1. \A u \in Threads : u # t /\ pc[u] \in Evicting => victim[u] # z
      BY <1>2, <1>4 DEF OnePlace
    <3>2. QED
      BY <1>4, <1>6, <2>1, <3>1
  <2>3. z \notin Range(lru_queue)
    BY <1>2, <1>4, QueuedZones DEF OnePlace
  <2>4. z \notin {location[w].zone : w \in Filling}
    BY <1>2, <1>4 DEF OnePlace
  <2>5. QED
    BY <1>2, <2>2, <2>3, <2>4 DEF Filled
<1>14. ZC!ZSMInv'
  <2>1. UNCHANGED ChunkLent
    BY <1>1, <1>2, EvictsLent DEF Moving
  <2>2. (Filled \union invalid_pqueue)' = (Filled \union invalid_pqueue) \ {z}
    BY <1>1, <1>4, <1>13
  <2>3. ZC!Evict(z)
    BY <1>1, <1>4 DEF Z!Evict, ZC!Evict
  <2>4. ZC!EvictZone(z)
    BY <1>4, <2>1, <2>2, <2>3 DEF ZC!EvictZone
  <2>5. QED
    BY <1>2, <2>4, ChunkZoneStep
<1>15. M!MapInv'
  BY <1>1, EvictsMap
<1>16. DataPlaced'
  <2>1. DiskStays
    <3>1. Cleared(z)
      BY <1>1, <1>4 DEF Cleared
    <3>2. QED
      BY <1>8, <3>1 DEF DiskStays
  <2>2. ASSUME NEW w \in Workers, pc'[w] = "return"
        PROVE  disk'[location'[w].zone][location'[w].chunk_offset] = data_id'[w]
    <3>1. pc[w] = "return" /\ UNCHANGED <<location, data_id>>
      BY <1>2, <2>2 DEF Located, Writing
    <3>2. location[w] \in Pairs /\ location[w].zone # z
      BY <1>2, <1>5, <3>1, HeldZone DEF Writing
    <3>3. QED
      BY <1>2, <1>8, <3>1, <3>2 DEF WroteIt
  <2>3. WroteIt'
    BY <2>2 DEF WroteIt
  <2>4. "gc_more" \notin {"fg_spin", "fg_reset"} /\ \A u \in Threads : u # t => victim'[u] = victim[u]
    BY <1>6
  <2>5. QED
    BY <1>1, <2>1, <2>3, <2>4, EvictsPlaced
<1>17. EvictionShaped'
  BY <1>1, <1>2, <1>3 DEF EvictionShaped, EvictingChunks
<1>18. ZonesQueued'
  <2>1. invalid_pqueue \intersect Filled' = {}
    BY <1>2, <1>13 DEF ZonesQueued
  <2>2. ASSUME NEW p \in in_use
        PROVE  /\ LastChunk(p) => p.zone \in invalid_pqueue \union {victim'[u] : u \in Threads}
               /\ \A u \in Threads : pc'[u] \in {"fg_clear", "fg_spin"} => victim'[u] # p.zone
    <3>1. LastChunk(p) => p.zone \in invalid_pqueue \/ \E u \in Threads : victim[u] = p.zone
      BY <1>2 DEF ZonesQueued
    <3>2. \A u \in Threads : victim[u] = p.zone => victim'[u] = p.zone
      BY <1>4, <1>6, <1>9
    <3>3. \A u \in Threads : pc'[u] \notin {"fg_clear", "fg_spin"}
      BY <1>2, <1>3 DEF EvictingChunks
    <3>4. QED
      BY <3>1, <3>2, <3>3
  <2>3. QED
    BY <1>1, <1>2, <2>1, <2>2 DEF ZonesQueued, LastChunk
<1>19. UseSound'
  <2>1. \A p \in Pairs : Written(p)' => Written(p)
    BY <1>8
  <2>2. \A p \in in_use : Written(p)' <=> Written(p)
    BY <1>2, <1>8, <1>9
  <2>3. QED
    BY <1>1, <1>2, <1>5, <2>1, <2>2, EvictsUse
<1>20. InUseMapped'
  BY <1>1, <1>2, <1>15, EvictsUseMapped, EvictsDropping
<1>21. ChunkReadersHeld'
  <2>1. \A p \in Pairs, w \in Workers :
          w \notin exposed' /\ pc[w] \in {"copy", "read"} /\ location[w] = p => p.zone # z
    BY <1>1, <1>4
  <2>2. exposed \subseteq exposed'
    BY <1>1
  <2>3. QED
    BY <1>1, <1>8, <2>1, <2>2, EvictsReaders
<1>22. QED
  BY <1>10, <1>11, <1>12, <1>14, <1>15, <1>16, <1>17, <1>18, <1>19, <1>20, <1>21 DEF ChunkInv

-----------------------------------------------------------------------------
(* The steps of zn_cache_get that go through policy_mutex.                 *)

\* ZNCache's policy knows no zone, so that for the rest of the cache the touch of
\* a chunk is the touch of a zone it does not know.
LEMMA TouchIsTouch ==
  ASSUME ChunkInv, Running, NEW w \in Workers, TouchChunk(w)
  PROVE  Touch(w) /\ [Next]_vars
<1>1. OnePlace /\ lru_queue = <<>>
  BY InvGives DEF ZonesQueued
<1>2. zone_to_lru_map = {}
  BY <1>1, QueuedZones DEF Range
<1>3. P!UpdateRead(location[w])
  BY <1>2 DEF TouchChunk, P!UpdateRead, policyVars
<1>4. Touch(w)
  BY <1>3 DEF TouchChunk, Touch, historyVars
<1>5. QED
  BY <1>4 DEF Next, Worker

\* A reader tells the policy (cache.c:67-68).
LEMMA TouchStep ==
  ASSUME ChunkInv, Running, NEW w \in Workers, TouchChunk(w)
  PROVE  ChunkInv'
<1>1. /\ pc[w] = "touch" /\ pc' = [pc EXCEPT ![w] = "dec"] /\ holder = NoThread
      /\ UNCHANGED <<zsmVars, state, chunk_offset, invalid, zone_map, data_map, disk, location, data_id>>
      /\ UNCHANGED <<lru_queue, victim, todo, overtaken, misled, holder, chunk, stale, exposed>>
      /\ UNCHANGED <<in_use, invalid_pqueue>> /\ w \in Threads
  BY DEF TouchChunk, Goto, zsmVars, mapVars, deviceVars, policyVars, evictVars, historyVars,
         C!UpdateRead, C!pqueueVars, Threads
<1>2. /\ TypeOK /\ ZC!ZSMInv /\ ZonesSound /\ M!MapInv /\ StepsShaped /\ OnePlace /\ DataPlaced
      /\ EvictionShaped /\ ZonesQueued /\ UseSound /\ InUseMapped /\ ChunkReadersHeld
      /\ ChunkStepsShaped /\ MutexHeld
  BY InvGives
<1>3. \A u \in Threads : pc'[u] = IF u = w THEN "dec" ELSE pc[u]
  BY <1>1, <1>2 DEF TypeOK
<1>4. \A u \in Threads : pc[u] \notin EvictingChunks /\ pc'[u] \notin EvictingChunks
  BY <1>1, <1>2, <1>3, NobodyInside DEF EvictingChunks
<1>5. Touch(w) /\ [Next]_vars
  BY TouchIsTouch
<1>6. \A u \in Threads : pc[u] # "fg_reset"
  BY <1>2, NeverResetting
<1>7. TypeOK' /\ StepsShaped' /\ OnePlace' /\ DataPlaced'
  <2>1. Z!TypeOK
    BY <1>2 DEF ZonesSound
  <2>2. QED
    BY <1>2, <1>5, <1>6, <2>1, TypeStep, ShapeStep, OnePlaceStep, PlacedStep
<1>8. ChunkPolicyInv'
  BY WorkerKeeps DEF ChunkInv
<1>9. ZC!ZSMInv' /\ M!MapInv'
  <2>1. UsedBy(w)
    BY <1>2, <1>5, PlainUses
  <2>2. \A u \in Threads : pc[u] \notin Moving /\ pc'[u] \notin Moving
    BY <1>4 DEF Moving, EvictingChunks
  <2>3. ZC!ZSMInv'
    BY <1>1, <1>2, <1>7, <2>1, <2>2, ChunkZoneUses, ChunkZoneStep
  <2>4. QED
    BY <1>2, <2>1, <2>3, MapStep DEF UsedBy
<1>10. \A s \in {"policy", "insert", "copy", "read"} : \A v \in Workers : pc'[v] = s <=> pc[v] = s
  BY <1>1, <1>3 DEF Threads
<1>11. UNCHANGED <<Filling, Placing>>
  BY <1>1, <1>10 DEF Filling, Placing, LastChunk
<1>12. EvictionShaped'
  BY <1>1, <1>2, <1>4 DEF EvictionShaped, EvictingChunks
<1>13. ZonesQueued'
  <2>1. invalid_pqueue \intersect Filled' = {}
    <3>1. \A u \in Threads : pc'[u] \in Evicting <=> pc[u] \in Evicting
      BY <1>1, <1>3 DEF Evicting
    <3>2. {victim'[u] : u \in {v \in Threads : pc'[v] \in Evicting}}
            = {victim[u] : u \in {v \in Threads : pc[v] \in Evicting}}
      BY <1>1, <3>1
    <3>3. Filled' = Filled
      BY <1>1, <1>11, <3>2 DEF Filled
    <3>4. QED
      BY <1>2, <3>3 DEF ZonesQueued
  <2>2. QED
    BY <1>1, <1>2, <1>4, <2>1 DEF ZonesQueued, LastChunk, EvictingChunks
<1>14. UseSound'
  <2>1. \A v \in Placing : v \in Workers
    BY DEF Placing
  <2>2. QED
    BY <1>1, <1>2, <1>10, <1>11, <2>1 DEF UseSound, Written
<1>15. InUseMapped'
  <2>1. Dropping' = Dropping
    BY <1>1, <1>4, NothingDropped DEF EvictingChunks
  <2>2. InsertsKept
    BY <1>1, <1>10 DEF InsertsKept
  <2>3. QED
    BY <1>1, <1>9, <2>1, <2>2, UseMappedKept DEF InMap
<1>16. ChunkReadersHeld'
  BY <1>1, <1>2, <1>10 DEF ChunkReadersHeld, Holds, Written
<1>17. QED
  BY <1>7, <1>8, <1>9, <1>12, <1>13, <1>14, <1>15, <1>16 DEF ChunkInv

\* A chunk enters the policy; the zone of a last one goes from its writer to the
\* priority queue.
LEMMA UpdateStep ==
  ASSUME ChunkInv, NEW w \in Workers, UpdateChunkPolicy(w)
  PROVE  ChunkInv'
<1>1. /\ pc[w] = "policy" /\ pc' = [pc EXCEPT ![w] = "insert"] /\ holder = NoThread
      /\ UNCHANGED <<zsmVars, mapVars, dangling, undefined>>
      /\ UNCHANGED <<state, chunk_offset, invalid, zone_map, data_map, disk, torn>>
      /\ UNCHANGED <<location, data_id, lru_queue, zone_to_lru_map, victim, todo, workload_index>>
      /\ UNCHANGED <<failed, aborted, map_aborted, overtaken, late, misled, holder, chunk, exposed>>
      /\ C!UpdateWrite(location[w]) /\ w \in Threads
      /\ stale' = IF w \in overtaken THEN stale \union {location[w]} ELSE stale
  BY DEF UpdateChunkPolicy, Goto, zsmVars, mapVars, deviceVars, policyVars, evictVars, historyVars,
         crashVars, Threads
<1>2. /\ TypeOK /\ ZC!ZSMInv /\ ZonesSound /\ M!MapInv /\ StepsShaped /\ OnePlace /\ Placed /\ WroteIt
      /\ EvictionShaped /\ ZonesQueued /\ UseSound /\ InUseMapped /\ ChunkReadersHeld
      /\ ChunkStepsShaped /\ MutexHeld /\ PolicySound /\ in_use \subseteq Pairs
  <2>1. PolicySound
    BY InvGives
  <2>2. in_use \subseteq Pairs
    BY <2>1, PolicyFacts DEF PolicySound
  <2>3. QED
    BY <2>1, <2>2, InvGives
<1>3. \A u \in Threads : pc'[u] = IF u = w THEN "insert" ELSE pc[u]
  BY <1>1, <1>2 DEF TypeOK
<1>4. \A u \in Threads : pc[u] \notin EvictingChunks /\ pc'[u] \notin EvictingChunks
  BY <1>1, <1>2, <1>3, NobodyInside DEF EvictingChunks
<1>5. PICK p \in Pairs : p = location[w] /\ p.zone \in Zones /\ p \notin in_use
  <2>1. location[w] \in Pairs
    BY <1>1, <1>2 DEF StepsShaped, TypeOK
  <2>2. QED
    BY <1>1, <2>1 DEF Pairs, C!UpdateWrite, C!UpdateWriteAsserts
<1>6. /\ in_use' = in_use \union {p}
      /\ invalid_pqueue' = IF LastChunk(p) THEN invalid_pqueue \union {p.zone} ELSE invalid_pqueue
  BY <1>1, <1>5 DEF C!UpdateWrite, C!Use, C!pqueueVars, C!PQ!Insert, LastChunk
<1>7. /\ \A v \in Workers : pc'[v] = "policy" <=> v # w /\ pc[v] = "policy"
      /\ \A v \in Workers : pc'[v] = "insert" <=> v = w \/ pc[v] = "insert"
      /\ \A s \in {"copy", "read", "return"} : \A v \in Workers : pc'[v] = s <=> pc[v] = s
  BY <1>1, <1>3 DEF Threads
<1>8. Placing' = Placing /\ Filling' = Filling \ {w} /\ (w \in Filling <=> LastChunk(p))
  BY <1>1, <1>5, <1>7 DEF Placing, Filling, LastChunk
<1>9. ChunkPolicyInv'
  BY WorkerKeeps DEF ChunkInv
<1>10. TypeOK' /\ StepsShaped'
  <2>1. pc' \in [Threads -> WorkerSteps \union EvictSteps \union EvictorSteps]
        /\ w # Evictor /\ "insert" \in WorkerSteps
    BY <1>1, <1>2, Sizes DEF TypeOK, WorkerSteps
  <2>2. \A u \in Threads : IF u = Evictor THEN pc'[u] \notin WorkerSteps ELSE pc'[u] \notin EvictorSteps
    BY <1>2, <1>3, <2>1 DEF TypeOK, EvictorSteps
  <2>3. TypeOK'
    BY <1>1, <1>2, <2>1, <2>2 DEF TypeOK
  <2>4. \A v \in Workers :
          /\ data_id'[v] = NoId <=> pc'[v] \in {"idle", "stopped", "finished"}
          /\ location'[v] # NoPair <=>
               pc'[v] \in Writing \union {"policy", "insert", "copy", "read", "touch", "dec"}
    BY <1>1, <1>2, <1>3 DEF StepsShaped, Threads
  <2>5. \A u \in Threads : victim'[u] # NoZone <=> pc'[u] \in Evicting
    BY <1>1, <1>2, <1>3 DEF StepsShaped, Evicting
  <2>6. QED
    BY <2>3, <2>4, <2>5 DEF StepsShaped
<1>11. OnePlace'
  <2>1. P!NodesExact'
    BY <1>1, <1>2 DEF OnePlace, P!NodesExact, P!IsInjective, P!Range
  <2>2. QED
    BY <1>1, <1>2, <1>8, <2>1 DEF OnePlace
<1>12. /\ Filled = IF LastChunk(p) THEN Filled' \union {p.zone} ELSE Filled'
       /\ LastChunk(p) => p.zone \notin Filled'
  <2>1. {victim'[u] : u \in {v \in Threads : pc'[v] \in Evicting}}
          = {victim[u] : u \in {v \in Threads : pc[v] \in Evicting}}
    <3>1. \A u \in Threads : pc'[u] \in Evicting <=> pc[u] \in Evicting
      BY <1>1, <1>3 DEF Evicting
    <3>2. QED
      BY <1>1, <3>1
  <2>2. {location[v].zone : v \in Filling}
          = {location[v].zone : v \in Filling \ {w}} \union IF w \in Filling THEN {p.zone} ELSE {}
    BY <1>5
  <2>3. Filled = IF LastChunk(p) THEN Filled' \union {p.zone} ELSE Filled'
    BY <1>1, <1>8, <2>1, <2>2 DEF Filled
  <2>4. ASSUME LastChunk(p) PROVE p.zone \notin Filled'
    <3>1. w \in Filling
      BY <1>8, <2>4
    <3>2. p.zone \notin Range(lru_queue)
      BY <1>2, <1>5, <3>1, QueuedZones DEF OnePlace
    <3>3. \A v \in Filling \ {w} : location[v].zone # p.zone
      BY <1>2, <1>5, <3>1 DEF OnePlace
    <3>4. \A u \in Threads : victim[u] # p.zone
      BY <1>2, <1>5, <3>1 DEF OnePlace
    <3>5. QED
      BY <1>1, <1>8, <3>2, <3>3, <3>4 DEF Filled
  <2>5. QED
    BY <2>3, <2>4
<1>13. ZC!ZSMInv'
  <2>1. \A u \in Threads : /\ pc'[u] \in Writing <=> pc[u] \in Writing
                           /\ pc'[u] \in {"gc_copy", "gc_insert"} <=> pc[u] \in {"gc_copy", "gc_insert"}
    BY <1>1, <1>3 DEF Writing
  <2>2. UNCHANGED ChunkLent
    BY <1>1, <2>1 DEF ChunkLent
  <2>3. (Filled \union invalid_pqueue)' = Filled \union invalid_pqueue
    BY <1>6, <1>12
  <2>4. UNCHANGED ZC!vars
    BY <1>1, <2>2, <2>3 DEF ZC!vars, ZC!zsmVars, zsmVars, ZC!clientVars
  <2>5. QED
    BY <1>2, <2>4, ChunkZoneStep
<1>14. M!MapInv'
  <2>1. RoleAt("insert") = "writer" /\ RoleAt("policy") = "writer"
        /\ "insert" \notin Writing /\ "policy" \notin Writing
    BY RolesAt DEF Writing
  <2>2. UNCHANGED <<Role, Arg, Loc>>
    BY <1>1, <1>2, <2>1, Unseen
  <2>3. QED
    BY <1>1, <1>2, <2>2, MapIdle, MapStep
<1>15. DataPlaced'
  <2>1. DiskStays /\ WroteIt'
    BY <1>1, <1>2, <1>7 DEF DiskStays, WroteIt, Written
  <2>2. Placed'
    BY <1>1, <1>2, <2>1, QuietPlaced
  <2>3. QED
    BY <2>1, <2>2, PlacedParts DEF Placed
<1>16. EvictionShaped'
  BY <1>1, <1>2, <1>4 DEF EvictionShaped, EvictingChunks
<1>17. ZonesQueued'
  <2>1. invalid_pqueue' \intersect Filled' = {}
    BY <1>2, <1>6, <1>12 DEF ZonesQueued
  <2>2. ASSUME NEW pair \in in_use', LastChunk(pair)
        PROVE  pair.zone \in invalid_pqueue' \union {victim'[u] : u \in Threads}
    BY <1>1, <1>2, <1>6, <2>2 DEF ZonesQueued
  <2>3. QED
    BY <1>1, <1>2, <1>4, <2>1, <2>2 DEF ZonesQueued, LastChunk, EvictingChunks
<1>18. UseSound'
  <2>1. \A pair \in Pairs : Written(pair)' <=> Written(pair)
    BY <1>1 DEF Written
  <2>2. \A pair \in Pairs : Written(pair)' =>
          \/ pair \in in_use'
          \/ pair.chunk_offset \in Range(invalid'[pair.zone])
          \/ \E v \in Workers : pc'[v] = "policy" /\ location'[v] = pair
    BY <1>1, <1>2, <1>5, <1>6, <1>7, <2>1 DEF UseSound
  <2>3. ASSUME NEW pair \in in_use' \ stale'
        PROVE  Written(pair)' /\ \A v \in Placing' : pc'[v] = "policy" => location'[v] # pair
    <3>1. \A v \in Placing : v \in Workers
      BY DEF Placing
    <3>2. CASE pair = p
      <4>1. w \in Placing
        BY <1>1, <1>5, <2>3, <3>2 DEF Placing
      <4>2. Holds(p, data_id[w]) /\ \A v \in Placing : location[v] = p => v = w
        BY <1>2, <1>5, <4>1 DEF Placed, PlacingPlaced
      <4>3. QED
        BY <1>1, <1>7, <1>8, <2>1, <3>1, <3>2, <4>2 DEF Holds
    <3>3. CASE pair # p
      <4>1. pair \in in_use \ stale /\ pair \in Pairs
        BY <1>1, <1>2, <1>6, <2>3, <3>3
      <4>2. QED
        BY <1>1, <1>2, <1>7, <1>8, <2>1, <3>1, <4>1 DEF UseSound
    <3>4. QED
      BY <3>2, <3>3
  <2>4. QED
    BY <2>2, <2>3 DEF UseSound
<1>19. InUseMapped'
  <2>1. Dropping = {} /\ Dropping' = {}
    BY <1>4, NothingDropped DEF EvictingChunks
  <2>2. PairsMapped /\ \A pair \in Pairs : InMap(pair)' <=> InMap(pair)
    BY <1>1, <1>2, MappedForm DEF InMap
  <2>3. ~InMap(p) /\ AboutToMap(p) = {}
    BY <1>5, <2>1, <2>2 DEF PairsMapped
  <2>4. AboutToMap(p)' = {w} /\ \A pair \in Pairs : pair # p => AboutToMap(pair)' = AboutToMap(pair)
    BY <1>1, <1>5, <1>7, <2>3 DEF AboutToMap
  <2>5. PairsMapped'
    BY <1>6, <2>1, <2>2, <2>3, <2>4 DEF PairsMapped
  <2>6. QED
    BY <1>14, <2>5, MappedForm
<1>20. ChunkReadersHeld'
  BY <1>1, <1>2, <1>7 DEF ChunkReadersHeld, Holds, Written
<1>21. QED
  BY <1>9, <1>10, <1>11, <1>13, <1>14, <1>15, <1>16, <1>17, <1>18, <1>19, <1>20 DEF ChunkInv

-----------------------------------------------------------------------------
(* The inductive invariant.                                                *)

\* Every step of a thread that runs keeps it.
LEMMA RunningStep ==
  ASSUME ChunkInv, Running, NEW t \in Threads,
         \/ EvictOrCollect(t)
         \/ t \in Workers /\ ChunkWorker(t)
  PROVE  ChunkInv'
<1>1. CASE EvictNothing(t) \/ EvictChunks(t) \/ CollectNothing(t)
  BY <1>1, StartStep
<1>2. CASE InvalidateChunk(t) \/ ClearChunk(t) \/ PickZone(t)
  BY <1>2, InvalidateStep, UnmapStep, PickStep
<1>3. CASE MoveTo(t) \/ CopyChunk(t) \/ ResetCollected(t)
  BY <1>3, MoveStep, CopyStep, ResetStep
<1>4. CASE ClearCollected(t)
  BY <1>4, SharedStep DEF Shared
<1>5. CASE InvalidateCrashes(t) \/ ClearChunkAborts(t) \/ PickNothing(t) \/ MoveFails(t)
           \/ CopyFails(t) \/ GcInsertAborts(t) \/ ResetCollectedAborts(t)
  <2>1. PICK from : Crash(t, from)
    BY <1>5 DEF InvalidateCrashes, ClearChunkAborts, PickNothing, MoveFails, CopyFails,
                GcInsertAborts, ResetCollectedAborts
  <2>2. QED
    BY <2>1, CrashStep DEF Crash, evictUnchanged
<1>6. CASE t \in Workers /\ UpdateChunkAborts(t)
  BY <1>6, CrashStep DEF UpdateChunkAborts
<1>7. CASE t \in Workers /\ (Common(t) \/ ReaderLeaves(t))
  BY <1>7, SharedStep DEF Shared
<1>8. CASE t \in Workers /\ (TouchChunk(t) \/ UpdateChunkPolicy(t))
  BY <1>8, TouchStep, UpdateStep
<1>9. QED
  BY <1>1, <1>2, <1>3, <1>4, <1>5, <1>6, <1>7, <1>8 DEF EvictOrCollect, ChunkWorker

\* Every step of the cache with the chunk policy keeps the invariant.
LEMMA ChunkStep ==
  ASSUME ChunkInv, [ChunkCacheNext]_chunkCacheVars
  PROVE  ChunkInv'
<1>1. ASSUME Running, NEW w \in Workers, ChunkWorker(w) PROVE ChunkInv'
  BY <1>1, RunningStep DEF Threads
<1>2. ASSUME Running, ChunkEvictions PROVE ChunkInv'
  <2>1. CASE (CheckDone \/ CheckFree) /\ UNCHANGED chunkVars
    BY <1>2, <2>1, SharedStep DEF Shared
  <2>2. CASE EvictOrCollect(Evictor)
    BY <1>2, <2>2, RunningStep DEF Threads
  <2>3. QED
    BY <1>2, <2>1, <2>2 DEF ChunkEvictions
<1>3. CASE UNCHANGED chunkCacheVars
  BY <1>3, SharedStep DEF Shared
<1>4. Terminated /\ UNCHANGED chunkVars => UNCHANGED chunkCacheVars
  BY DEF Terminated, chunkCacheVars
<1>5. QED
  BY <1>1, <1>2, <1>3, <1>4 DEF ChunkCacheNext

\* The invariant holds at the start.
LEMMA ChunkInit == ChunkCacheInit => ChunkInv
<1> SUFFICES ASSUME ChunkCacheInit PROVE ChunkInv
  OBVIOUS
<1>1. Init /\ ChunkPolicyInv
  BY PolicyInit DEF ChunkCacheInit
<1>2. TypeOK /\ M!MapInv /\ StepsShaped /\ OnePlace /\ DataPlaced
  BY <1>1, CacheInit DEF CacheInv
<1>3. /\ in_use = {} /\ invalid_pqueue = {} /\ chunk = NoPair /\ lru_queue = <<>>
      /\ state = [z \in Zones |-> "FREE"] /\ chunk_offset = [z \in Zones |-> 0]
      /\ \A t \in Threads : pc[t] \in {"evict_task", "idle"}
  BY DEF ChunkCacheInit, C!InitPolicy, Init, Z!InitZSM, P!InitPolicy, Z!Zones, Zones
<1>4. ZC!ZSMInv
  <2>1. ChunkLent = [t \in Threads |-> NoPair]
    BY <1>3 DEF ChunkLent, Writing
  <2>2. Filled \union invalid_pqueue = {}
    BY <1>1, <1>3, StartViews
  <2>3. ZC!Init
    BY <1>1, <2>1, <2>2 DEF ZC!Init, ZC!InitZSM, Init, Z!InitZSM, Z!Zones, ZC!Zones
  <2>4. QED
    BY <2>3, ChunkZoneInit
<1>5. EvictionShaped
  BY <1>3 DEF EvictionShaped
<1>6. ZonesQueued
  BY <1>3 DEF ZonesQueued
<1>7. UseSound
  <2>1. \A pair \in Pairs : ~Written(pair)
    BY <1>3, Sizes DEF Written, Pairs, Chunks
  <2>2. QED
    BY <1>3, <2>1 DEF UseSound
<1>8. InUseMapped
  <2>1. \A pair \in Pairs : ~InMap(pair)
    BY <1>1 DEF Init, M!InitMap, M!Zones, M!Chunks, Zones, Chunks, Pairs, InMap
  <2>2. Dropping = {} /\ \A pair \in Pairs : AboutToMap(pair) = {}
    BY <1>3 DEF Dropping, AboutToMap, Threads
  <2>3. QED
    BY <1>2, <1>3, <2>1, <2>2, MappedForm DEF PairsMapped
<1>9. ChunkReadersHeld
  BY <1>3 DEF ChunkReadersHeld, Threads
<1>10. QED
  BY <1>1, <1>2, <1>4, <1>5, <1>6, <1>7, <1>8, <1>9 DEF ChunkInv

\* The inductive invariant of the cache with the chunk policy: what the policy,
\* the zone state manager, the cache map, the device and the thread that evicts
\* and collects under policy_mutex (chunk.c:149-216) hold at each of their steps.
THEOREM ChunkInvariant == ChunkCacheSpec => []ChunkInv
BY ChunkInit, ChunkStep, PTL DEF ChunkCacheSpec

-----------------------------------------------------------------------------
(* What follows from it.                                                   *)

\* Every step of the cache is one that the cache map's specification allows.
LEMMA SharedUsesMap ==
  ASSUME ChunkInv, Shared
  PROVE  [M!Next]_(M!vars)
<1>1. TypeOK /\ M!MapInv /\ StepsShaped /\ OnePlace
  BY InvGives
<1>2. ASSUME NEW w \in Workers, Running, Common(w) \/ ReaderLeaves(w) PROVE [M!Next]_(M!vars)
  BY <1>1, <1>2, CommonUses DEF UsedBy
<1>3. ASSUME NEW t \in Threads, Running, ClearCollected(t) PROVE [M!Next]_(M!vars)
  BY <1>1, <1>3, ClearUses DEF ClearCollected
<1>4. ASSUME CheckDone \/ CheckFree PROVE [M!Next]_(M!vars)
  BY <1>1, <1>4, EvictorUses DEF Used
<1>5. ASSUME UNCHANGED chunkCacheVars PROVE [M!Next]_(M!vars)
  BY <1>5, StutterUses DEF chunkCacheVars, Used
<1>6. QED
  BY <1>2, <1>3, <1>4, <1>5 DEF Shared

\* Eviction and garbage collection use the map as it allows its clients to.
LEMMA EvictingUsesMap ==
  ASSUME ChunkInv, Running, NEW t \in Threads, EvictOrCollect(t)
  PROVE  [M!Next]_(M!vars)
<1>0. TypeOK
  BY InvGives
<1>1. CASE ClearChunk(t)
  BY <1>1, UnmapUses
<1>2. CASE ClearCollected(t)
  BY <1>2, SharedUsesMap DEF Shared
<1>3. ASSUME NEW to, Evicts(t, to), UNCHANGED <<mapVars, dangling>> PROVE [M!Next]_(M!vars)
  BY <1>0, <1>3, EvictsUnseen, MapIdle DEF Evicts, crashVars
<1>4. CASE EvictNothing(t) \/ EvictChunks(t)
  BY <1>3, <1>4 DEF EvictNothing, EvictChunks, Evicts, EvictSteps, Goto, evictUnchanged, historyVars
<1>5. CASE CollectNothing(t)
  BY <1>3, <1>5
     DEF CollectNothing, Collecting, Evicts, EvictSteps, Goto, evictUnchanged, historyVars
<1>6. CASE InvalidateChunk(t) \/ MoveTo(t) \/ CopyChunk(t) \/ ResetCollected(t)
  BY <1>3, <1>6
     DEF InvalidateChunk, MoveTo, CopyChunk, ResetCollected, Evicts, EvictSteps, Evicting, Goto,
         evictUnchanged, historyVars
<1>7. CASE PickZone(t)
  <2>1. PICK to \in {"fg_clear", "gc_move"} : Goto(t, pc[t], to)
    BY <1>7 DEF PickZone, Goto
  <2>2. Evicts(t, to) /\ UNCHANGED <<mapVars, dangling>>
    BY <1>7, <2>1
       DEF PickZone, Collecting, Evicts, EvictSteps, Evicting, Goto, evictUnchanged, historyVars
  <2>3. QED
    BY <1>3, <2>2
<1>8. CASE InvalidateCrashes(t) \/ ClearChunkAborts(t) \/ PickNothing(t) \/ MoveFails(t)
           \/ CopyFails(t) \/ GcInsertAborts(t) \/ ResetCollectedAborts(t)
  <2>1. UNCHANGED <<mapVars, dangling, undefined, pc, location, data_id>>
    BY <1>8 DEF InvalidateCrashes, ClearChunkAborts, PickNothing, MoveFails, CopyFails,
                GcInsertAborts, ResetCollectedAborts, Crash, evictUnchanged
  <2>2. UNCHANGED <<Role, Arg, Loc>>
    BY <2>1 DEF Role, Arg, Loc
  <2>3. QED
    BY <2>1, <2>2, MapIdle
<1>9. QED
  BY <1>1, <1>2, <1>4, <1>5, <1>6, <1>7, <1>8 DEF EvictOrCollect

\* Telling the policy of a use leaves the map alone.
LEMMA UpdatesUseMap ==
  ASSUME ChunkInv, Running, NEW w \in Workers,
         TouchChunk(w) \/ UpdateChunkPolicy(w) \/ UpdateChunkAborts(w)
  PROVE  [M!Next]_(M!vars)
<1>1. TypeOK /\ w \in Threads
  BY InvGives DEF Threads
<1>2. UNCHANGED <<mapVars, dangling, undefined, location, data_id>>
  BY DEF TouchChunk, UpdateChunkPolicy, UpdateChunkAborts, crashVars
<1>3. CASE UpdateChunkAborts(w)
  <2>1. UNCHANGED pc
    BY <1>3 DEF UpdateChunkAborts
  <2>2. UNCHANGED <<Role, Arg, Loc>>
    BY <1>2, <2>1 DEF Role, Arg, Loc
  <2>3. QED
    BY <1>2, <2>2, MapIdle
<1>4. CASE TouchChunk(w) \/ UpdateChunkPolicy(w)
  <2>1. PICK to \in {"dec", "insert"} : /\ pc' = [pc EXCEPT ![w] = to]
                                        /\ RoleAt(to) = RoleAt(pc[w])
                                        /\ to \notin Writing /\ pc[w] \notin Writing
    BY <1>4, RolesAt DEF TouchChunk, UpdateChunkPolicy, Goto, Writing
  <2>2. UNCHANGED <<Role, Arg, Loc>>
    BY <1>1, <1>2, <2>1, Unseen
  <2>3. QED
    BY <1>2, <2>2, MapIdle
<1>5. QED
  BY <1>3, <1>4

\* With the chunk policy too, whatever the workers and the eviction thread do
\* (cache.c, eviction/chunk.c), they use the cache map as its specification
\* allows: no thread publishes an id it is not the writer of, or drops a reader
\* it did not count.
THEOREM CacheMapUsedByChunks == ChunkCacheSpec => UsesCacheMap
<1>1. ChunkCacheInit => M!Init
  BY StartViews DEF ChunkCacheInit, Init, M!Init
<1>2. ChunkInv /\ [ChunkCacheNext]_chunkCacheVars => [M!Next]_(M!vars)
  <2> SUFFICES ASSUME ChunkInv, [ChunkCacheNext]_chunkCacheVars PROVE [M!Next]_(M!vars)
    OBVIOUS
  <2>1. ASSUME NEW w \in Workers, Running, ChunkWorker(w) PROVE [M!Next]_(M!vars)
    <3>1. CASE Common(w) \/ ReaderLeaves(w)
      BY <2>1, <3>1, SharedUsesMap DEF Shared
    <3>2. CASE TouchChunk(w) \/ UpdateChunkPolicy(w) \/ UpdateChunkAborts(w)
      BY <2>1, <3>2, UpdatesUseMap
    <3>3. CASE EvictOrCollect(w)
      BY <2>1, <3>3, EvictingUsesMap DEF Threads
    <3>4. QED
      BY <2>1, <3>1, <3>2, <3>3 DEF ChunkWorker
  <2>2. ASSUME Running, ChunkEvictions PROVE [M!Next]_(M!vars)
    BY <2>2, SharedUsesMap, EvictingUsesMap DEF ChunkEvictions, Shared, Threads
  <2>3. ASSUME UNCHANGED chunkCacheVars PROVE [M!Next]_(M!vars)
    BY <2>3, SharedUsesMap DEF Shared
  <2>4. Terminated /\ UNCHANGED chunkVars => UNCHANGED chunkCacheVars
    BY DEF Terminated, chunkCacheVars
  <2>5. QED
    BY <2>1, <2>2, <2>3, <2>4 DEF ChunkCacheNext
<1>3. QED
  BY <1>1, <1>2, ChunkInvariant, PTL DEF ChunkCacheSpec, M!Spec, UsesCacheMap

\* A zone in the priority queue, on its way there or being collected was filled
\* to its last chunk.
LEMMA QueuedWritten ==
  ASSUME ChunkInv, NEW pair \in Pairs, pair.zone \in Filled \union invalid_pqueue
  PROVE  Written(pair)
<1>1. \/ state[pair.zone] = "FULL"
      \/ state[pair.zone] = "WRITE_OCCURING" /\ chunk_offset[pair.zone] = max_zone_chunks
  BY InvGives DEF ZC!ZSMInv, ZC!ZonesTracked
<1>2. pair.chunk_offset < max_zone_chunks
  BY Sizes DEF Pairs, Chunks
<1>3. QED
  BY <1>1, <1>2 DEF Written

\* When no finish fails, those zones are the full ones.
LEMMA QueuedFull ==
  ASSUME "finish" \notin Faults, ChunkInv
  PROVE  /\ \A z \in Zones : state[z] = "FULL" <=> z \in Filled \union invalid_pqueue
         /\ \A z \in Zones : z \in Filled <=> \/ \E w \in Filling : location[w].zone = z
                                              \/ \E t \in Threads : victim[t] = z
<1>1. ZC!ZonesTracked /\ ZC!Zones = Zones /\ "finish" \notin Faults \intersect ZoneCommands
  BY InvGives DEF ZC!ZSMInv, ZC!Zones, Zones
<1>2. \A z \in Zones : state[z] = "FULL" <=> z \in Filled \union invalid_pqueue
  BY <1>1 DEF ZC!ZonesTracked
<1>3. StepsShaped /\ lru_queue = <<>>
  BY InvGives DEF ZonesQueued
<1>4. \A z \in Zones : z \in Filled <=> \/ \E w \in Filling : location[w].zone = z
                                        \/ \E t \in Threads : victim[t] = z
  BY <1>3, FilledCases, ZNCacheAssumption DEF StepsShaped
<1>5. QED
  BY <1>2, <1>4

\* The full zones are exactly those in the priority queue, with a writer on its
\* way to it, or being collected: none is lost to garbage collection, and none is
\* collected before it is full (chunk.c:47-53, 90, 143).
THEOREM FullZonesInQueue ==
  ASSUME "finish" \notin Faults
  PROVE  ChunkCacheSpec => []FullZonesQueued
<1>1. ChunkInv => FullZonesQueued
  BY QueuedFull DEF FullZonesQueued, Filling
<1>2. QED
  BY <1>1, ChunkInvariant, PTL

\* A chunk of a zone in the priority queue that is not in use is in the zone's
\* invalid queue, but for a chunk whose writer has still to enter it: what the
\* policy drops the manager is told of (chunk.c:179-194).
THEOREM DroppedIsInvalid == ChunkCacheSpec => []InvalidRecorded
<1>1. ChunkInv => InvalidRecorded
  BY QueuedWritten, InvGives DEF InvalidRecorded, UseSound
<1>2. QED
  BY <1>1, ChunkInvariant, PTL

\* The chunks that are in use or being evicted are those that are mapped or whose
\* one writer is about to map them, and so evicting one finds it in the map unless
\* its writer has still to come (chunk.c:195, cachemap.c:144-148).
THEOREM UsedIsMapped == ChunkCacheSpec => []InUseMapped
<1>1. ChunkInv => InUseMapped
  BY DEF ChunkInv
<1>2. QED
  BY <1>1, ChunkInvariant, PTL

\* A reader reads the data of the id it found, unless garbage collection reset
\* the zone under it (chunk.c:141-143), which it does without waiting for readers.
THEOREM ChunkReadersSafe == ChunkCacheSpec => []ChunkReadersProtected
<1>1. ChunkInv => ChunkReadersProtected
  BY DEF ChunkInv, ChunkReadersHeld, ChunkReadersProtected, Holds
<1>2. QED
  BY <1>1, ChunkInvariant, PTL

\* A thread is stopped where an assertion can fail, and for the reset of a zone
\* only if the device refuses it: the zone is full.
StopsWhereCrashes == aborted => \E t \in Threads : Crashes(t)

LEMMA CollectedFull ==
  ASSUME "finish" \notin Faults, ChunkInv, NEW t \in Threads, pc[t] = "fg_spin"
  PROVE  state[victim[t]] = "FULL"
<1>1. victim[t] \in Zones
  BY InvGives DEF TypeOK, StepsShaped, Evicting
<1>2. QED
  BY <1>1, QueuedFull

LEMMA ChunkStopsStep ==
  ASSUME "finish" \notin Faults, ChunkInv, StopsWhereCrashes, [ChunkCacheNext]_chunkCacheVars
  PROVE  StopsWhereCrashes'
<1>1. CASE UNCHANGED <<pc, aborted>>
  BY <1>1 DEF StopsWhereCrashes, Crashes
<1>2. CASE ~aborted /\ UNCHANGED aborted
  BY <1>2 DEF StopsWhereCrashes
<1>3. ASSUME NEW t \in Threads, Crashes(t), UNCHANGED pc PROVE StopsWhereCrashes'
  BY <1>3 DEF StopsWhereCrashes, Crashes
<1>4. ASSUME NEW t \in Threads, EvictOrCollect(t)
      PROVE  UNCHANGED aborted \/ (Crashes(t) /\ UNCHANGED pc)
  <2>1. CASE ResetCollectedAborts(t)
    <3>1. pc[t] = "fg_spin" /\ Z!EvictAborts(victim[t]) /\ UNCHANGED pc
      BY <2>1 DEF ResetCollectedAborts, Crash
    <3>2. "reset" \in Faults
      BY <3>1, CollectedFull DEF Z!EvictAborts
    <3>3. QED
      BY <3>1, <3>2 DEF Crashes
  <2>2. CASE InvalidateCrashes(t) \/ ClearChunkAborts(t) \/ MoveFails(t) \/ CopyFails(t) \/ GcInsertAborts(t)
    BY <2>2
       DEF InvalidateCrashes, ClearChunkAborts, MoveFails, CopyFails, GcInsertAborts, Crash, Crashes
  <2>3. CASE PickNothing(t)
    <3>1. PICK from \in {"gc", "gc_more"} : Crash(t, from)
      BY <2>3 DEF PickNothing
    <3>2. pc[t] = from /\ UNCHANGED pc /\ invalid_pqueue = {}
      BY <2>3, <3>1 DEF PickNothing, Crash
    <3>3. pc[t] # "gc"
      BY <3>2, InvGives DEF EvictionShaped
    <3>4. QED
      BY <3>2, <3>3 DEF Crashes
  <2>4. CASE \/ EvictNothing(t) \/ EvictChunks(t) \/ InvalidateChunk(t) \/ ClearChunk(t)
             \/ CollectNothing(t) \/ PickZone(t) \/ MoveTo(t) \/ CopyChunk(t) \/ ClearCollected(t)
             \/ ResetCollected(t)
    BY <2>4
       DEF EvictNothing, EvictChunks, InvalidateChunk, ClearChunk, CollectNothing, PickZone, MoveTo,
           CopyChunk, ClearCollected, ClearZone, ResetCollected, crashVars
  <2>5. QED
    BY <1>4, <2>1, <2>2, <2>3, <2>4 DEF EvictOrCollect
<1>5. ASSUME NEW w \in Workers, ChunkWorker(w), ~EvictOrCollect(w)
      PROVE  UNCHANGED aborted \/ (Crashes(w) /\ UNCHANGED pc)
  BY <1>5
     DEF ChunkWorker, Common, ReaderLeaves, TouchChunk, UpdateChunkPolicy, UpdateChunkAborts,
         TakeQuery, EndTask, Find, Copy, CopyGarbage, Read, DecReaders, GetActiveZone, Write,
         WriteFails, ReturnActiveZone, Insert, UndoZoneGet, UndoMap, SpuriousWakeup, crashVars,
         Crashes
<1>6. (CheckDone \/ CheckFree) => UNCHANGED aborted
  BY DEF CheckDone, CheckFree, crashVars
<1>7. CASE Terminated \/ UNCHANGED chunkCacheVars
  BY <1>1, <1>7 DEF Terminated, chunkCacheVars, vars, crashVars
<1>8. QED
  BY <1>2, <1>3, <1>4, <1>5, <1>6, <1>7
     DEF ChunkCacheNext, ChunkEvictions, Running, Threads

LEMMA ChunkStopsInvariant ==
  ASSUME "finish" \notin Faults
  PROVE  ChunkCacheSpec => []StopsWhereCrashes
<1>1. ChunkCacheInit => StopsWhereCrashes
  BY DEF ChunkCacheInit, Init, StopsWhereCrashes
<1>2. ChunkInv /\ StopsWhereCrashes /\ [ChunkCacheNext]_chunkCacheVars => StopsWhereCrashes'
  BY ChunkStopsStep
<1>3. QED
  BY <1>1, <1>2, ChunkInvariant, PTL DEF ChunkCacheSpec

\* The assertions of chunk.c, zone_state_manager.c and cachemap.c fail only as
\* ChunkAssertionsHold names it: on a chunk that a late writer enters twice, or
\* that is evicted before its writer maps it, or whose id is not read back, and
\* when garbage collection finds no zone, cannot move a chunk or is refused a
\* reset.  An eviction always finds the chunks it counted, garbage collection at
\* its first turn a zone, and it clears a zone in which nothing is mapped (no
\* failed finish: a zone that did not finish is not full when it is reset).
THEOREM NoChunkAssertionFails ==
  ASSUME "finish" \notin Faults
  PROVE  ChunkCacheSpec => []ChunkAssertionsHold
<1>1. ChunkInv /\ StopsWhereCrashes => ChunkAssertionsHold
  <2> SUFFICES ASSUME ChunkInv, StopsWhereCrashes PROVE ChunkAssertionsHold
    OBVIOUS
  <2>1. ASSUME NEW w \in Workers, pc[w] = "policy"
        PROVE  /\ ~C!UpdateWriteAsserts(location[w]) => w \in overtaken \/ location[w] \in stale
               /\ LastChunk(location[w]) => location[w].zone \notin invalid_pqueue
    <3>1. location[w] \in in_use \ stale => w \in overtaken
      BY <2>1, InvGives DEF UseSound, Placing
    <3>2. LastChunk(location[w]) => location[w].zone \in Filled
      BY <2>1 DEF Filled, Filling
    <3>3. invalid_pqueue \intersect Filled = {}
      BY InvGives DEF ZonesQueued
    <3>4. QED
      BY <3>1, <3>2, <3>3 DEF C!UpdateWriteAsserts
  <2>2. ASSUME NEW w \in Workers, pc[w] \in {"return", "undo_zone"}
        PROVE  Z!WriterAsserts(location[w])
    <3>1. w \in Threads /\ pc[w] \in Writing /\ location[w] # NoPair
      BY <2>2, InvGives DEF Threads, StepsShaped, Writing
    <3>2. w \in ZC!Holding /\ ChunkLent[w] = location[w]
      BY <3>1, ChunkLentAt DEF ZC!Holding
    <3>3. ZC!HeldZoneStable /\ ZC!ActiveLimit
      BY InvGives DEF ZC!ZSMInv
    <3>4. QED
      BY <3>2, <3>3
         DEF ZC!HeldZoneStable, ZC!ActiveLimit, ZC!NumActive, Z!NumActive, Z!WriterAsserts
  <2>3. ASSUME NEW w \in Workers, pc[w] \in {"insert", "undo_map"}
        PROVE  M!WriterAsserts(data_id[w])
    <3>1. Role[w] = "writer" /\ Arg[w] = data_id[w]
      BY <2>3, RolesAt DEF Role, Arg
    <3>2. QED
      BY <3>1, InvGives DEF M!MapInv, M!SingleWriter
  <2>4. ASSUME NEW t \in Threads
        PROVE  /\ pc[t] = "chunk" => chunk_lru # <<>>
               /\ pc[t] = "gc" => invalid_pqueue # {}
    <3>1. pc[t] = "chunk" => todo[t] \in 1 .. Len(chunk_lru)
      BY InvGives DEF EvictionShaped
    <3>2. pc[t] = "gc" => invalid_pqueue # {}
      BY InvGives DEF EvictionShaped
    <3>3. Len(<<>>) = 0
      OBVIOUS
    <3>4. QED
      BY <3>1, <3>2, <3>3
  <2>5. ASSUME NEW t \in Threads, pc[t] = "clear_chunk", ~M!ClearChunkAsserts(chunk)
        PROVE  \/ \E w \in Workers : pc[w] = "insert" /\ location[w] = chunk
               \/ data_map[chunk.zone][chunk.chunk_offset] \in WideIds
    <3>1. chunk \in Pairs /\ chunk \in Dropping
      BY <2>5, InvGives DEF EvictionShaped, LocalsTyped, Dropping
    <3>2. M!Indexed(chunk) \/ AboutToMap(chunk) # {}
      BY <3>1, InvGives DEF InUseMapped
    <3>3. QED
      BY <2>5, <3>2 DEF AboutToMap, M!ClearChunkAsserts, M!ReadBack
  <2>6. ASSUME NEW t \in Threads, pc[t] = "fg_clear" PROVE M!IdsIn(victim[t]) = {}
    <3>1. PICK z \in Zones : z = victim[t]
      BY <2>6, InvGives DEF TypeOK, StepsShaped, Evicting
    <3>2. ASSUME NEW c \in M!Chunks PROVE data_map[z][c] = NoId
      <4> DEFINE pair == [zone |-> z, chunk_offset |-> c]
      <4>1. pair \in Pairs /\ pair.zone = z /\ pair.chunk_offset = c
        BY DEF Pairs, M!Chunks, Chunks
      <4>2. ~InMap(pair)
        BY <2>6, <3>1, <4>1, NothingToClear
      <4>3. QED
        BY <4>1, <4>2 DEF InMap
    <3>3. QED
      BY <3>1, <3>2 DEF M!IdsIn
  <2>7. QED
    BY <2>1, <2>2, <2>3, <2>4, <2>5, <2>6, CollectedFull DEF ChunkAssertionsHold, StopsWhereCrashes
<1>2. QED
  BY <1>1, ChunkInvariant, ChunkStopsInvariant, PTL
=============================================================================
