-------------------------- MODULE CacheMap_proofs --------------------------
(***************************************************************************)
(* Proofs about CacheMap for every number of threads, zones and chunks,    *)
(* every set of ids, and every sequence of lookups, writes that end one    *)
(* way or the other, and evictions.                                        *)
(***************************************************************************)
EXTENDS CacheMap, TLAPS, FiniteSetTheorems

-----------------------------------------------------------------------------
(* Entries, and the references to condition variables.                     *)

\* The three kinds of entries are told apart, and each by what it holds.
LEMMA EntryKinds ==
  /\ Absent.type = "NONE"
  /\ \A c : Waiting(c).type = "COND" /\ Waiting(c).write_finished = c
  /\ \A pair : Located(pair).type = "LOC" /\ Located(pair).location = pair
BY DEF Absent, Waiting, Located

EntryType == {Absent} \union {Waiting(c) : c \in Conds}
                       \union {Located(pair) : pair \in Pairs}

\* An entry is of one of these kinds.
LEMMA EntryCases ==
  ASSUME TypeOK, NEW id \in DataIds
  PROVE  \/ zone_map[id] = Absent
         \/ \E c \in Conds : zone_map[id] = Waiting(c)
         \/ \E pair \in Pairs : zone_map[id] = Located(pair)
BY DEF TypeOK

\* The condition variable a writer's entry names is one of them.
LEMMA WriterEntry ==
  ASSUME TypeOK, NEW id \in DataIds, WriterAsserts(id)
  PROVE  /\ zone_map[id].write_finished \in Conds
         /\ zone_map[id] = Waiting(zone_map[id].write_finished)
BY EntryCases, EntryKinds DEF WriterAsserts

Holders(c) == {t \in Threads : cond[t] = c}
Entries(c) == {id \in DataIds : zone_map[id] = Waiting(c)}

\* At most one entry and one thread, its writer, stand behind a condition
\* variable's entry: entries are as few as threads.
LEMMA EntriesFinite ==
  ASSUME TypeOK, ThreadsShaped, SingleWriter, NEW c \in Conds
  PROVE  IsFiniteSet(Holders(c)) /\ IsFiniteSet(Entries(c))
<1>1. IsFiniteSet(Threads)
  BY CacheMapAssumption
<1>2. IsFiniteSet(Holders(c))
  BY <1>1, FS_Subset DEF Holders
<1> DEFINE W == {t \in Threads : role[t] = "writer" /\ zone_map[arg[t]] = Waiting(c)}
           f == [t \in W |-> arg[t]]
<1>3. IsFiniteSet(W)
  BY <1>1, FS_Subset
<1>4. f \in Surjection(W, Entries(c))
  <2>1. ASSUME NEW id \in Entries(c) PROVE \E t \in W : f[t] = id
    BY EntryKinds DEF Entries, SingleWriter
  <2>2. f \in [W -> Entries(c)]
    BY DEF Entries, ThreadsShaped
  <2>3. QED
    BY <2>1, <2>2 DEF Surjection
<1>5. QED
  BY <1>2, <1>3, <1>4, FS_Surjection

\* What zn_cachemap_find's g_cond release leaves: every reference but the one
\* of the thread that came back.
LEMMA UnrefExact ==
  ASSUME MapInv, NEW t \in Threads
  PROVE  /\ Unref(cond[t]) \in [Conds -> Int]
         /\ \A c \in Conds :
              Unref(cond[t])[c] = Cardinality(Holders(c) \ {t}) + Cardinality(Entries(c))
<1>1. cond[t] \in Conds \union {NoCond} /\ rc \in [Conds -> Int] /\ NoCond \notin Conds
  BY CacheMapAssumption DEF MapInv, TypeOK
<1>2. Unref(cond[t]) \in [Conds -> Int]
  BY <1>1 DEF Unref
<1>3. ASSUME NEW c \in Conds
      PROVE  Unref(cond[t])[c] = Cardinality(Holders(c) \ {t}) + Cardinality(Entries(c))
  <2>1. rc[c] = Cardinality(Holders(c)) + Cardinality(Entries(c))
    BY DEF MapInv, RefCountExact, Holders, Entries
  <2>2. IsFiniteSet(Holders(c)) /\ IsFiniteSet(Entries(c))
    BY EntriesFinite DEF MapInv
  <2>3. /\ Cardinality(Holders(c)) \in Nat /\ Cardinality(Entries(c)) \in Nat
        /\ Cardinality(Holders(c) \ {t})
             = IF t \in Holders(c) THEN Cardinality(Holders(c)) - 1 ELSE Cardinality(Holders(c))
    BY <2>2, FS_CardinalityType, FS_RemoveElement
  <2>4. t \in Holders(c) <=> cond[t] = c
    BY DEF Holders
  <2>5. Unref(cond[t])[c] = IF cond[t] = c THEN rc[c] - 1 ELSE rc[c]
    BY <1>1 DEF Unref
  <2>6. QED
    BY <2>1, <2>3, <2>4, <2>5
<1>4. QED
  BY <1>2, <1>3

\* A thread that is to write finds a condition variable nobody refers to: each
\* of the other threads stands behind one at most, as a waiter or as a writer.
LEMMA FreeCond ==
  ASSUME MapInv, NEW t \in Threads, role[t] # "writer"
  PROVE  \E c \in Conds : Unref(cond[t])[c] = 0
<1> DEFINE Behind(u, c) ==
      cond[u] = c \/ (role[u] = "writer" /\ zone_map[arg[u]] = Waiting(c))
<1>1. SUFFICES ASSUME \A c \in Conds : Unref(cond[t])[c] # 0
               PROVE  FALSE
  OBVIOUS
<1>2. ASSUME NEW c \in Conds PROVE \E u \in Threads \ {t} : Behind(u, c)
  <2>1. ASSUME Holders(c) \ {t} = {}, Entries(c) = {} PROVE FALSE
    <3>1. Cardinality(Holders(c) \ {t}) = 0 /\ Cardinality(Entries(c)) = 0
      BY <2>1, FS_EmptySet
    <3>2. QED
      BY <3>1, <1>1, UnrefExact
  <2>2. CASE Holders(c) \ {t} # {}
    BY <2>2 DEF Holders
  <2>3. CASE Entries(c) # {}
    <3>1. PICK id \in DataIds : zone_map[id] = Waiting(c)
      BY <2>3 DEF Entries
    <3>2. zone_map[id].type = "COND"
      BY <3>1, EntryKinds
    <3>3. QED
      BY <3>1, <3>2 DEF MapInv, SingleWriter
  <2>4. QED
    BY <2>1, <2>2, <2>3
<1> DEFINE f == [c \in Conds |-> CHOOSE u \in Threads \ {t} : Behind(u, c)]
<1>3. f \in [Conds -> Threads \ {t}] /\ \A c \in Conds : Behind(f[c], c)
  BY <1>2
<1>4. /\ IsFiniteSet(Threads \ {t}) /\ IsFiniteSet(Conds)
      /\ Cardinality(Threads \ {t}) < Cardinality(Conds)
  <2>1. IsFiniteSet(Threads) /\ Cardinality(Threads) \in Nat
    BY CacheMapAssumption, FS_CardinalityType
  <2>2. IsFiniteSet(Threads \ {t}) /\ Cardinality(Threads \ {t}) = Cardinality(Threads) - 1
    BY <2>1, FS_RemoveElement
  <2>3. IsFiniteSet(Conds) /\ Cardinality(Conds) = Cardinality(Threads)
    BY <2>1, FS_Interval DEF Conds
  <2>4. QED
    BY <2>1, <2>2, <2>3
<1>5. PICK c, d \in Conds : c # d /\ f[c] = f[d]
  <2> HIDE DEF f
  <2>1. QED
    BY <1>3, <1>4, FS_PigeonHole
<1>6. Behind(f[c], c) /\ Behind(f[c], d) /\ f[c] \in Threads
  BY <1>3, <1>5
<1>7. Waiting(c) # Waiting(d)
  BY <1>5, EntryKinds
<1>8. role[f[c]] = "writer" => cond[f[c]] = NoCond
  BY <1>6 DEF MapInv, ThreadsShaped
<1>9. QED
  BY <1>5, <1>6, <1>7, <1>8, CacheMapAssumption

-----------------------------------------------------------------------------
(* Every step keeps the invariant.  The lookup of one thread.              *)

LEMMA InitInv == Init => MapInv
<1> SUFFICES ASSUME Init PROVE MapInv
  OBVIOUS
<1> USE CacheMapAssumption DEF Init, InitMap
<1>1. TypeOK
  <2>1. active_readers \in [Zones -> Int]
    OBVIOUS
  <2>2. data_map \in [Zones -> [Chunks -> DataIds \union {NoId}]]
    OBVIOUS
  <2>3. zone_map \in [DataIds -> EntryType]
    BY DEF EntryType
  <2>4. rc \in [Conds -> Int] /\ cond \in [Threads -> Conds \union {NoCond}]
    OBVIOUS
  <2>5. /\ role \in [Threads -> Roles] /\ arg \in [Threads -> DataIds \union {NoId}]
        /\ loc \in [Threads -> Pairs \union {NoPair}]
    BY DEF Roles
  <2> HIDE DEF Init, InitMap
  <2>6. asleep = {} /\ undefined = FALSE /\ dangling = {}
    BY DEF Init, InitMap
  <2>7. QED
    BY <2>1, <2>2, <2>3, <2>4, <2>5, <2>6 DEF TypeOK, EntryType
<1>2. ThreadsShaped /\ NoLostWakeup /\ CopyStable
  BY DEF ThreadsShaped, NoLostWakeup, CopyStable
<1>3. SingleWriter
  BY EntryKinds DEF SingleWriter
<1>4. ReverseIndexBacked
  BY DEF ReverseIndexBacked, Pairs
<1>5. RefCountExact
  <2> SUFFICES ASSUME NEW c \in Conds
               PROVE  rc[c] = Cardinality(Holders(c)) + Cardinality(Entries(c))
    BY DEF RefCountExact, Holders, Entries
  <2>1. Holders(c) = {} /\ Entries(c) = {}
    BY EntryKinds DEF Holders, Entries
  <2>2. QED
    BY <2>1, FS_EmptySet
<1>6. QED
  BY <1>1, <1>2, <1>3, <1>4, <1>5 DEF MapInv

\* A hit: the thread gives its reference back and counts as a reader.
LEMMA HitKeeps ==
  ASSUME MapInv, NEW t \in Threads, NEW id \in DataIds, NEW pair \in Pairs,
         role[t] \in {"idle", "find"}, t \notin asleep,
         FindHit(t, id, pair), Become(t, "copy", id, pair), UNCHANGED <<dangling, undefined>>
  PROVE  MapInv'
<1> USE CacheMapAssumption DEF FindHit, Become, MapInv
<1>1. /\ cond \in [Threads -> Conds \union {NoCond}] /\ role \in [Threads -> Roles]
      /\ arg \in [Threads -> DataIds \union {NoId}] /\ loc \in [Threads -> Pairs \union {NoPair}]
      /\ active_readers \in [Zones -> Int] /\ pair.zone \in Zones
  BY DEF TypeOK, Pairs
<1>2. TypeOK'
  BY <1>1, UnrefExact DEF TypeOK, Roles
<1>3. ThreadsShaped'
  BY <1>1 DEF ThreadsShaped
<1>4. SingleWriter'
  BY <1>1 DEF SingleWriter, WriterAsserts
<1>5. NoLostWakeup'
  BY <1>1 DEF NoLostWakeup, TypeOK
<1>6. ReverseIndexBacked'
  BY DEF ReverseIndexBacked
<1>7. CopyStable'
  BY <1>1 DEF CopyStable
<1>8. RefCountExact'
  <2> SUFFICES ASSUME NEW c \in Conds
               PROVE  rc'[c] = Cardinality(Holders(c)') + Cardinality(Entries(c)')
    BY DEF RefCountExact, Holders, Entries
  <2>1. Holders(c)' = Holders(c) \ {t}
    BY <1>1 DEF Holders
  <2>2. Entries(c)' = Entries(c)
    BY DEF Entries
  <2>3. QED
    BY <2>1, <2>2, UnrefExact
<1>9. QED
  BY <1>2, <1>3, <1>4, <1>5, <1>6, <1>7, <1>8

\* A thread that finds a write going on trades its reference for one to the
\* condition variable of that write, and sleeps.
LEMMA SleepKeeps ==
  ASSUME MapInv, NEW t \in Threads, NEW id \in DataIds,
         role[t] \in {"idle", "find"}, t \notin asleep,
         FindSleep(t, id), Become(t, "find", id, NoPair), UNCHANGED <<dangling, undefined>>
  PROVE  MapInv'
<1> USE CacheMapAssumption DEF Become, MapInv
<1>0. PICK d \in Conds :
        /\ zone_map[id] = Waiting(d)
        /\ rc' = [Unref(cond[t]) EXCEPT ![d] = @ + 1]
        /\ cond' = [cond EXCEPT ![t] = d]
        /\ asleep' = asleep \union {t}
        /\ UNCHANGED <<zone_map, data_map, active_readers>>
  BY DEF FindSleep
<1>1. /\ cond \in [Threads -> Conds \union {NoCond}] /\ role \in [Threads -> Roles]
      /\ arg \in [Threads -> DataIds \union {NoId}] /\ loc \in [Threads -> Pairs \union {NoPair}]
  BY DEF TypeOK
<1>2. TypeOK'
  <2>1. rc' \in [Conds -> Int]
    BY <1>0, UnrefExact
  <2>2. QED
    BY <2>1, <1>0, <1>1 DEF TypeOK, Roles
<1>3. ThreadsShaped'
  BY <1>0, <1>1 DEF ThreadsShaped
<1>4. SingleWriter'
  BY <1>0, <1>1 DEF SingleWriter, WriterAsserts
<1>5. NoLostWakeup'
  BY <1>0, <1>1 DEF NoLostWakeup, TypeOK
<1>6. ReverseIndexBacked'
  BY <1>0 DEF ReverseIndexBacked
<1>7. CopyStable'
  BY <1>0, <1>1 DEF CopyStable
<1>8. RefCountExact'
  <2> SUFFICES ASSUME NEW c \in Conds
               PROVE  rc'[c] = Cardinality(Holders(c)') + Cardinality(Entries(c)')
    BY DEF RefCountExact, Holders, Entries
  <2>1. Holders(c)' = IF c = d THEN (Holders(c) \ {t}) \union {t} ELSE Holders(c) \ {t}
    BY <1>0, <1>1 DEF Holders
  <2>2. Entries(c)' = Entries(c)
    BY <1>0 DEF Entries
  <2>3. IsFiniteSet(Holders(c) \ {t}) /\ IsFiniteSet(Entries(c))
    BY EntriesFinite, FS_RemoveElement
  <2>4. /\ Cardinality(Holders(c) \ {t}) \in Nat /\ Cardinality(Entries(c)) \in Nat
        /\ Cardinality((Holders(c) \ {t}) \union {t}) = Cardinality(Holders(c) \ {t}) + 1
    BY <2>3, FS_CardinalityType, FS_AddElement
  <2>5. rc'[c] = Unref(cond[t])[c] + (IF c = d THEN 1 ELSE 0)
    BY <1>0, UnrefExact
  <2>6. QED
    BY <2>1, <2>2, <2>4, <2>5, UnrefExact
<1>9. QED
  BY <1>2, <1>3, <1>4, <1>5, <1>6, <1>7, <1>8

\* A miss: the thread becomes the writer, with a condition variable nobody
\* refers to.
LEMMA MissKeeps ==
  ASSUME MapInv, NEW t \in Threads, NEW id \in DataIds,
         role[t] \in {"idle", "find"}, t \notin asleep,
         FindMiss(t, id), Become(t, "writer", id, NoPair), UNCHANGED <<dangling, undefined>>
  PROVE  MapInv'
<1> USE CacheMapAssumption DEF Become, MapInv
<1>0. PICK d \in Conds :
        /\ zone_map[id] = Absent
        /\ Unref(cond[t])[d] = 0
        /\ zone_map' = [zone_map EXCEPT ![id] = Waiting(d)]
        /\ rc' = [Unref(cond[t]) EXCEPT ![d] = 1]
        /\ cond' = [cond EXCEPT ![t] = NoCond]
        /\ UNCHANGED <<data_map, active_readers, asleep>>
  BY FreeCond DEF FindMiss
<1>1. /\ cond \in [Threads -> Conds \union {NoCond}] /\ role \in [Threads -> Roles]
      /\ arg \in [Threads -> DataIds \union {NoId}] /\ loc \in [Threads -> Pairs \union {NoPair}]
      /\ DOMAIN zone_map = DataIds
  BY DEF TypeOK
<1>a. /\ \A i \in DataIds \ {id} : zone_map'[i] = zone_map[i]
      /\ zone_map'[id] = Waiting(d) /\ zone_map'[id].type = "COND"
      /\ zone_map[id].type = "NONE"
  BY <1>0, <1>1, EntryKinds
<1>2. TypeOK'
  <2>1. rc' \in [Conds -> Int]
    BY <1>0, UnrefExact
  <2>2. zone_map' \in [DataIds -> EntryType]
    BY <1>0 DEF TypeOK, EntryType
  <2>3. QED
    BY <2>1, <2>2, <1>0, <1>1 DEF TypeOK, Roles, EntryType
<1>3. ThreadsShaped'
  BY <1>0, <1>1 DEF ThreadsShaped
<1>4. SingleWriter'
  <2>1. ASSUME NEW u \in Threads, role[u] = "writer" PROVE arg[u] \in DataIds \ {id}
    BY <2>1, <1>a DEF SingleWriter, WriterAsserts, ThreadsShaped
  <2>2. QED
    BY <2>1, <1>1, <1>a DEF SingleWriter, WriterAsserts
<1>5. NoLostWakeup'
  <2> SUFFICES ASSUME NEW u \in asleep
               PROVE  u # t /\ role[u] = "find" /\ zone_map'[arg[u]] = Waiting(cond[u])
    BY <1>0, <1>1 DEF NoLostWakeup, TypeOK
  <2>1. role[u] = "find" /\ zone_map[arg[u]] = Waiting(cond[u]) /\ arg[u] \in DataIds
    BY DEF NoLostWakeup, ThreadsShaped, TypeOK
  <2>2. arg[u] # id
    BY <2>1, <1>a, EntryKinds
  <2>3. QED
    BY <2>1, <2>2, <1>a
<1>6. ReverseIndexBacked'
  <2> SUFFICES ASSUME NEW pair \in Pairs, data_map[pair.zone][pair.chunk_offset] # NoId
               PROVE  zone_map'[data_map[pair.zone][pair.chunk_offset]] = Located(pair)
    BY <1>0 DEF ReverseIndexBacked
  <2> DEFINE i == data_map[pair.zone][pair.chunk_offset]
  <2>1. zone_map[i] = Located(pair) /\ i \in DataIds
    BY DEF ReverseIndexBacked, TypeOK, Pairs
  <2>2. i # id
    BY <2>1, <1>a, EntryKinds
  <2>3. QED
    BY <2>1, <2>2, <1>a
<1>7. CopyStable'
  <2> SUFFICES ASSUME NEW u \in Threads, u # t, role[u] = "copy", u \notin dangling
               PROVE  zone_map'[arg[u]] = Located(loc[u])
    BY <1>1 DEF CopyStable
  <2>1. zone_map[arg[u]] = Located(loc[u]) /\ arg[u] \in DataIds
    BY DEF CopyStable, ThreadsShaped
  <2>2. arg[u] # id
    BY <2>1, <1>a, EntryKinds
  <2>3. QED
    BY <2>1, <2>2, <1>a
<1>8. RefCountExact'
  <2> SUFFICES ASSUME NEW c \in Conds
               PROVE  rc'[c] = Cardinality(Holders(c)') + Cardinality(Entries(c)')
    BY DEF RefCountExact, Holders, Entries
  <2>1. Holders(c)' = Holders(c) \ {t}
    BY <1>0, <1>1 DEF Holders
  <2>2. IsFiniteSet(Holders(c) \ {t}) /\ IsFiniteSet(Entries(c))
    BY EntriesFinite, FS_RemoveElement
  <2>3. Cardinality(Holders(c) \ {t}) \in Nat /\ Cardinality(Entries(c)) \in Nat
    BY <2>2, FS_CardinalityType
  <2>4. CASE c = d
    <3>1. Cardinality(Holders(c) \ {t}) = 0 /\ Cardinality(Entries(c)) = 0
      BY <1>0, <2>3, <2>4, UnrefExact
    <3>2. Entries(c) = {}
      BY <2>2, <3>1, FS_EmptySet
    <3>3. Entries(c)' = {id}
      BY <3>2, <2>4, <1>a DEF Entries
    <3>4. rc'[c] = 1
      BY <1>0, <2>4, UnrefExact
    <3>5. Cardinality({id}) = 1
      BY FS_Singleton
    <3>6. QED
      BY <2>1, <3>1, <3>3, <3>4, <3>5
  <2>5. CASE c # d
    <3>1. Waiting(c) # Waiting(d) /\ Waiting(c) # Absent
      BY <2>5, EntryKinds
    <3>2. Entries(c)' = Entries(c)
      BY <3>1, <1>0, <1>a DEF Entries
    <3>3. rc'[c] = Unref(cond[t])[c]
      BY <1>0, <2>5, UnrefExact
    <3>4. QED
      BY <2>1, <3>2, <3>3, UnrefExact
  <2>6. QED
    BY <2>4, <2>5
<1>9. QED
  BY <1>2, <1>3, <1>4, <1>5, <1>6, <1>7, <1>8

-----------------------------------------------------------------------------
(* Readers.                                                                *)

\* The copy of the entry changes what the thread does, and nothing else.
LEMMA CopyKeeps ==
  ASSUME MapInv, NEW t \in Threads, Copy(t)
  PROVE  MapInv'
<1> USE DEF Copy, Become, mapVars, MapInv
<1>1. /\ role \in [Threads -> Roles] /\ arg \in [Threads -> DataIds \union {NoId}]
      /\ loc \in [Threads -> Pairs \union {NoPair}] /\ dangling \subseteq Threads
  BY DEF TypeOK
<1>2. TypeOK'
  BY <1>1 DEF TypeOK, Roles
<1>3. ThreadsShaped'
  BY <1>1 DEF ThreadsShaped
<1>4. SingleWriter'
  BY <1>1 DEF SingleWriter, WriterAsserts
<1>5. NoLostWakeup'
  BY <1>1 DEF NoLostWakeup, TypeOK
<1>6. RefCountExact' /\ ReverseIndexBacked'
  BY DEF RefCountExact, ReverseIndexBacked
<1>7. CopyStable'
  BY <1>1 DEF CopyStable
<1>8. QED
  BY <1>2, <1>3, <1>4, <1>5, <1>6, <1>7

LEMMA ReleaseKeeps ==
  ASSUME MapInv, NEW t \in Threads, Release(t)
  PROVE  MapInv'
<1> USE DEF Release, ReaderDone, Become, MapInv
<1>1. /\ role \in [Threads -> Roles] /\ arg \in [Threads -> DataIds \union {NoId}]
      /\ loc \in [Threads -> Pairs \union {NoPair}] /\ active_readers \in [Zones -> Int]
  BY DEF TypeOK
<1>2. TypeOK'
  <2>1. active_readers' = [active_readers EXCEPT ![loc[t].zone] = @ - 1]
    OBVIOUS
  <2> HIDE DEF Release, ReaderDone
  <2>2. loc[t].zone \in Zones
    BY DEF ThreadsShaped, Pairs, Release
  <2>3. active_readers' \in [Zones -> Int]
    BY <2>1, <2>2, <1>1
  <2>4. QED
    BY <2>3, <1>1 DEF TypeOK, Roles, Release, ReaderDone
<1>3. ThreadsShaped'
  BY <1>1 DEF ThreadsShaped
<1>4. SingleWriter'
  BY <1>1 DEF SingleWriter, WriterAsserts
<1>5. NoLostWakeup'
  BY <1>1 DEF NoLostWakeup, TypeOK
<1>6. RefCountExact' /\ ReverseIndexBacked'
  BY DEF RefCountExact, ReverseIndexBacked
<1>7. CopyStable'
  BY <1>1 DEF CopyStable
<1>8. QED
  BY <1>2, <1>3, <1>4, <1>5, <1>6, <1>7

\* g_cond_wait returns unasked.
LEMMA SpuriousKeeps ==
  ASSUME MapInv, NEW t \in Threads, Spurious(t)
  PROVE  MapInv'
<1> USE DEF Spurious, SpuriousWakeup, clientVars, MapInv
<1>1. TypeOK' /\ ThreadsShaped' /\ SingleWriter' /\ NoLostWakeup'
  BY DEF TypeOK, ThreadsShaped, SingleWriter, WriterAsserts, NoLostWakeup
<1>2. RefCountExact' /\ ReverseIndexBacked' /\ CopyStable'
  BY DEF RefCountExact, ReverseIndexBacked, CopyStable
<1>3. QED
  BY <1>1, <1>2

\* A step that leaves the map and its clients alone.
LEMMA StutterKeeps ==
  ASSUME MapInv, UNCHANGED <<mapVars, clientVars>>, undefined' \in BOOLEAN
  PROVE  MapInv'
<1> USE DEF mapVars, clientVars, MapInv
<1>1. TypeOK' /\ ThreadsShaped' /\ SingleWriter' /\ NoLostWakeup'
  BY DEF TypeOK, ThreadsShaped, SingleWriter, WriterAsserts, NoLostWakeup
<1>2. RefCountExact' /\ ReverseIndexBacked' /\ CopyStable'
  BY DEF RefCountExact, ReverseIndexBacked, CopyStable
<1>3. QED
  BY <1>1, <1>2

-----------------------------------------------------------------------------
(* The writer's two ways out.                                              *)

\* What zn_cachemap_insert and zn_cachemap_fail have in common: the entry of
\* the write is replaced, the sleepers are woken, a reference is dropped.
LEMMA EndWriteKeeps ==
  ASSUME MapInv, NEW t \in Threads, role[t] = "writer",
         NEW entry \in {Absent} \union {Located(pair) : pair \in Pairs},
         FinishWait(zone_map[arg[t]].write_finished),
         zone_map' = [zone_map EXCEPT ![arg[t]] = entry],
         data_map' \in [Zones -> [Chunks -> DataIds \union {NoId}]],
         \A pair \in Pairs :
           LET i == data_map'[pair.zone][pair.chunk_offset]
           IN  \/ i = data_map[pair.zone][pair.chunk_offset]
               \/ i = arg[t] /\ entry = Located(pair),
         Become(t, "idle", NoId, NoPair),
         UNCHANGED <<active_readers, cond, dangling, undefined>>
  PROVE  MapInv'
<1> DEFINE id == arg[t]
           d == zone_map[id].write_finished
<1> USE CacheMapAssumption DEF Become, MapInv
<1>0. /\ asleep' = {u \in asleep : cond[u] # d}
      /\ rc' = [rc EXCEPT ![d] = @ - 1]
  BY DEF FinishWait
<1>1. /\ cond \in [Threads -> Conds \union {NoCond}] /\ role \in [Threads -> Roles]
      /\ arg \in [Threads -> DataIds \union {NoId}] /\ loc \in [Threads -> Pairs \union {NoPair}]
      /\ zone_map \in [DataIds -> EntryType] /\ rc \in [Conds -> Int] /\ id \in DataIds
  BY DEF TypeOK, EntryType, ThreadsShaped
<1>2. d \in Conds /\ zone_map[id] = Waiting(d) /\ zone_map[id].type = "COND"
  BY <1>1, WriterEntry DEF SingleWriter, WriterAsserts
<1>3. /\ \A i \in DataIds \ {id} : zone_map'[i] = zone_map[i]
      /\ zone_map'[id] = entry /\ entry.type # "COND"
  BY <1>1, EntryKinds
<1> HIDE DEF id, d
<1>4. TypeOK'
  <2>1. zone_map' \in [DataIds -> EntryType]
    BY <1>1 DEF EntryType
  <2>2. rc' \in [Conds -> Int] /\ asleep' \subseteq Threads
    BY <1>0, <1>1, <1>2 DEF TypeOK
  <2>3. QED
    BY <2>1, <2>2, <1>1 DEF TypeOK, Roles, EntryType
<1>5. ThreadsShaped'
  BY <1>1 DEF ThreadsShaped
<1>6. SingleWriter'
  <2>1. ASSUME NEW u \in Threads, u # t, role[u] = "writer"
        PROVE  arg[u] \in DataIds \ {id} /\ zone_map[arg[u]].type = "COND"
    BY <2>1 DEF SingleWriter, WriterAsserts, ThreadsShaped, id
  <2>2. \A u \in Threads : role'[u] = "writer" => u # t /\ role[u] = "writer" /\ arg'[u] = arg[u]
    BY <1>1
  <2>3. \A u \in Threads : role'[u] = "writer" => WriterAsserts(arg[u])'
    BY <2>1, <2>2, <1>3 DEF WriterAsserts
  <2>4. ASSUME NEW i \in DataIds, zone_map'[i].type = "COND"
        PROVE  \E u \in Threads : role'[u] = "writer" /\ arg'[u] = i
    <3>1. i # id /\ zone_map[i].type = "COND"
      BY <2>4, <1>3
    <3>2. PICK u \in Threads : role[u] = "writer" /\ arg[u] = i
      BY <3>1 DEF SingleWriter
    <3>3. u # t
      BY <3>1, <3>2 DEF id
    <3>4. QED
      BY <3>2, <3>3, <1>1
  <2>5. QED
    BY <2>2, <2>3, <2>4 DEF SingleWriter, WriterAsserts
<1>7. NoLostWakeup'
  <2> SUFFICES ASSUME NEW u \in asleep, cond[u] # d
               PROVE  u # t /\ role[u] = "find" /\ zone_map'[arg[u]] = Waiting(cond[u])
    BY <1>0, <1>1 DEF NoLostWakeup, TypeOK
  <2>1. role[u] = "find" /\ zone_map[arg[u]] = Waiting(cond[u]) /\ arg[u] \in DataIds
    BY DEF NoLostWakeup, ThreadsShaped, TypeOK
  <2>2. arg[u] # id
    BY <2>1, <1>2, EntryKinds
  <2>3. QED
    BY <2>1, <2>2, <1>3
<1>8. ReverseIndexBacked'
  <2> SUFFICES ASSUME NEW pair \in Pairs, data_map'[pair.zone][pair.chunk_offset] # NoId
               PROVE  zone_map'[data_map'[pair.zone][pair.chunk_offset]] = Located(pair)
    BY DEF ReverseIndexBacked
  <2> DEFINE i == data_map'[pair.zone][pair.chunk_offset]
  <2>1. CASE i = id /\ entry = Located(pair)
    BY <2>1, <1>3
  <2>2. CASE i = data_map[pair.zone][pair.chunk_offset]
    <3>1. zone_map[i] = Located(pair) /\ i \in DataIds
      BY <2>2 DEF ReverseIndexBacked, TypeOK, Pairs
    <3>2. i # id
      BY <3>1, <1>2, EntryKinds
    <3>3. QED
      BY <3>1, <3>2, <1>3
  <2>3. QED
    BY <2>1, <2>2 DEF id
<1>9. CopyStable'
  <2> SUFFICES ASSUME NEW u \in Threads, u # t, role[u] = "copy", u \notin dangling
               PROVE  zone_map'[arg[u]] = Located(loc[u])
    BY <1>1 DEF CopyStable
  <2>1. zone_map[arg[u]] = Located(loc[u]) /\ arg[u] \in DataIds
    BY DEF CopyStable, ThreadsShaped
  <2>2. arg[u] # id
    BY <2>1, <1>2, EntryKinds
  <2>3. QED
    BY <2>1, <2>2, <1>3
<1>10. RefCountExact'
  <2> SUFFICES ASSUME NEW c \in Conds
               PROVE  rc'[c] = Cardinality(Holders(c)') + Cardinality(Entries(c)')
    BY DEF RefCountExact, Holders, Entries
  <2>1. rc[c] = Cardinality(Holders(c)) + Cardinality(Entries(c))
    BY DEF RefCountExact, Holders, Entries
  <2>2. Holders(c)' = Holders(c)
    BY DEF Holders
  <2>3. Entries(c)' = Entries(c) \ {id}
    BY <1>1, <1>3, EntryKinds DEF Entries
  <2>4. id \in Entries(c) <=> c = d
    BY <1>1, <1>2, EntryKinds DEF Entries
  <2>5. IsFiniteSet(Holders(c)) /\ IsFiniteSet(Entries(c))
    BY EntriesFinite
  <2>6. /\ Cardinality(Holders(c)) \in Nat /\ Cardinality(Entries(c)) \in Nat
        /\ Cardinality(Entries(c) \ {id})
             = IF id \in Entries(c) THEN Cardinality(Entries(c)) - 1 ELSE Cardinality(Entries(c))
    BY <2>5, FS_CardinalityType, FS_RemoveElement
  <2>7. rc'[c] = IF c = d THEN rc[c] - 1 ELSE rc[c]
    BY <1>0, <1>1
  <2>8. QED
    BY <2>1, <2>2, <2>3, <2>4, <2>6, <2>7
<1>11. QED
  BY <1>4, <1>5, <1>6, <1>7, <1>8, <1>9, <1>10

LEMMA PublishKeeps ==
  ASSUME MapInv, NEW t \in Threads, Publish(t)
  PROVE  MapInv'
<1>1. PICK pair \in Pairs : Insert(arg[t], pair)
  BY DEF Publish
<1>2. /\ role[t] = "writer" /\ arg[t] \in DataIds
      /\ data_map \in [Zones -> [Chunks -> DataIds \union {NoId}]]
      /\ pair.zone \in Zones /\ pair.chunk_offset \in Chunks
      /\ data_map' = [data_map EXCEPT ![pair.zone][pair.chunk_offset] = arg[t]]
  BY <1>1 DEF Publish, MapInv, ThreadsShaped, TypeOK, Pairs, Insert
<1>3. data_map' \in [Zones -> [Chunks -> DataIds \union {NoId}]]
  BY <1>2
<1>4. ASSUME NEW p \in Pairs
      PROVE  LET i == data_map'[p.zone][p.chunk_offset]
             IN  \/ i = data_map[p.zone][p.chunk_offset]
                 \/ i = arg[t] /\ Located(pair) = Located(p)
  BY <1>2 DEF Pairs
<1>5. Located(pair) \in {Absent} \union {Located(p) : p \in Pairs}
  OBVIOUS
<1>6. /\ FinishWait(zone_map[arg[t]].write_finished)
      /\ zone_map' = [zone_map EXCEPT ![arg[t]] = Located(pair)]
      /\ Become(t, "idle", NoId, NoPair)
      /\ UNCHANGED <<active_readers, cond, dangling, undefined>>
  BY <1>1 DEF Publish, Insert
<1>7. QED
  BY <1>2, <1>3, <1>4, <1>5, <1>6, EndWriteKeeps

LEMMA GiveUpKeeps ==
  ASSUME MapInv, NEW t \in Threads, GiveUp(t)
  PROVE  MapInv'
<1>1. /\ role[t] = "writer" /\ FinishWait(zone_map[arg[t]].write_finished)
      /\ zone_map' = [zone_map EXCEPT ![arg[t]] = Absent]
      /\ Become(t, "idle", NoId, NoPair)
      /\ UNCHANGED <<data_map, active_readers, cond, dangling, undefined>>
  BY DEF GiveUp, Fail
<1>2. data_map' \in [Zones -> [Chunks -> DataIds \union {NoId}]]
  BY <1>1 DEF MapInv, TypeOK
<1>3. QED
  BY <1>1, <1>2, EndWriteKeeps

-----------------------------------------------------------------------------
(* Evictions.                                                              *)

\* An eviction of any ids that are located, whose places the reverse index
\* forgets: a writer's entry is never among them.
LEMMA EvictKeeps ==
  ASSUME MapInv, NEW ids, \A i \in ids : zone_map[i].type = "LOC",
         zone_map' = [i \in DataIds |-> IF i \in ids THEN Absent ELSE zone_map[i]],
         data_map' \in [Zones -> [Chunks -> DataIds \union {NoId}]],
         \A pair \in Pairs :
           LET i == data_map'[pair.zone][pair.chunk_offset]
           IN  \/ i = NoId
               \/ i = data_map[pair.zone][pair.chunk_offset] /\ i \notin ids,
         Freed(ids), UNCHANGED <<active_readers, rc, cond, asleep>>
  PROVE  MapInv'
<1> USE CacheMapAssumption DEF Freed, MapInv
<1>1. /\ arg \in [Threads -> DataIds \union {NoId}] /\ zone_map \in [DataIds -> EntryType]
      /\ dangling' \subseteq Threads
  BY DEF TypeOK, EntryType
<1>2. \A i \in DataIds : /\ i \notin ids => zone_map'[i] = zone_map[i]
                         /\ i \in ids => zone_map'[i] = Absent /\ zone_map[i].type = "LOC"
  OBVIOUS
<1>3. TypeOK'
  <2>1. zone_map' \in [DataIds -> EntryType]
    BY <1>1 DEF EntryType
  <2>2. QED
    BY <2>1, <1>1 DEF TypeOK, EntryType
<1>4. ThreadsShaped'
  BY DEF ThreadsShaped
<1>5. SingleWriter'
  <2>1. \A i \in DataIds : zone_map'[i].type = "COND" <=> zone_map[i].type = "COND"
    BY <1>2, EntryKinds
  <2>2. \A u \in Threads : role[u] = "writer" => arg[u] \in DataIds
    BY DEF ThreadsShaped
  <2>3. QED
    BY <2>1, <2>2 DEF SingleWriter, WriterAsserts
<1>6. \A i \in DataIds : \A c : zone_map'[i] = Waiting(c) <=> zone_map[i] = Waiting(c)
  BY <1>2, EntryKinds
<1>7. NoLostWakeup'
  BY <1>6 DEF NoLostWakeup, ThreadsShaped, TypeOK
<1>8. RefCountExact'
  <2>1. \A c : {i \in DataIds : zone_map'[i] = Waiting(c)} = {i \in DataIds : zone_map[i] = Waiting(c)}
    BY <1>6
  <2>2. QED
    BY <2>1 DEF RefCountExact
<1>9. ReverseIndexBacked'
  <2> SUFFICES ASSUME NEW pair \in Pairs, data_map'[pair.zone][pair.chunk_offset] # NoId
               PROVE  zone_map'[data_map'[pair.zone][pair.chunk_offset]] = Located(pair)
    BY DEF ReverseIndexBacked
  <2> DEFINE i == data_map'[pair.zone][pair.chunk_offset]
  <2>1. i = data_map[pair.zone][pair.chunk_offset] /\ i \notin ids
    OBVIOUS
  <2>2. zone_map[i] = Located(pair) /\ i \in DataIds
    BY <2>1 DEF ReverseIndexBacked, TypeOK, Pairs
  <2>3. QED
    BY <2>1, <2>2, <1>2
<1>10. CopyStable'
  <2> SUFFICES ASSUME NEW u \in Threads, role[u] = "copy", u \notin dangling'
               PROVE  zone_map'[arg[u]] = Located(loc[u])
    BY DEF CopyStable
  <2>1. zone_map[arg[u]] = Located(loc[u]) /\ arg[u] \in DataIds /\ arg[u] \notin ids
    BY DEF CopyStable, ThreadsShaped
  <2>2. QED
    BY <2>1, <1>2
<1>11. QED
  BY <1>3, <1>4, <1>5, <1>7, <1>8, <1>9, <1>10

LEMMA EvictZoneKeeps ==
  ASSUME MapInv, NEW z \in Zones, EvictZone(z)
  PROVE  MapInv'
<1> USE DEF EvictZone, ClearZone
<1>1. data_map \in [Zones -> [Chunks -> DataIds \union {NoId}]]
  BY DEF MapInv, TypeOK
<1>2. \A i \in IdsIn(z) : zone_map[i].type = "LOC"
  BY DEF ClearZoneAsserts
<1>3. data_map' \in [Zones -> [Chunks -> DataIds \union {NoId}]]
  BY <1>1
<1>4. ASSUME NEW pair \in Pairs
      PROVE  LET i == data_map'[pair.zone][pair.chunk_offset]
             IN  \/ i = NoId
                 \/ i = data_map[pair.zone][pair.chunk_offset] /\ i \notin IdsIn(z)
  <2>1. CASE pair.zone = z
    BY <2>1, <1>1 DEF Pairs
  <2>2. CASE pair.zone # z /\ data_map[pair.zone][pair.chunk_offset] # NoId
    <3>1. zone_map[data_map[pair.zone][pair.chunk_offset]] = Located(pair)
      BY <2>2 DEF MapInv, ReverseIndexBacked
    <3>2. data_map[pair.zone][pair.chunk_offset] \notin IdsIn(z)
      BY <3>1, <2>2, EntryKinds DEF ClearZoneAsserts
    <3>3. QED
      BY <3>2, <2>2, <1>1 DEF Pairs
  <2>3. CASE pair.zone # z /\ data_map[pair.zone][pair.chunk_offset] = NoId
    BY <2>3, <1>1 DEF Pairs
  <2>4. QED
    BY <2>1, <2>2, <2>3
<1>5. QED
  BY <1>2, <1>3, <1>4, EvictKeeps

LEMMA EvictChunkKeeps ==
  ASSUME MapInv, NEW pair \in Pairs, EvictChunk(pair)
  PROVE  MapInv'
<1> DEFINE id == data_map[pair.zone][pair.chunk_offset]
<1> USE DEF EvictChunk, ClearChunk, ClearChunkAsserts, Indexed
<1>1. /\ data_map \in [Zones -> [Chunks -> DataIds \union {NoId}]]
      /\ zone_map \in [DataIds -> EntryType] /\ id \in DataIds
      /\ pair.zone \in Zones /\ pair.chunk_offset \in Chunks
  BY DEF MapInv, TypeOK, EntryType, Pairs
<1>2. zone_map[id] = Located(pair) /\ \A i \in {id} : zone_map[i].type = "LOC"
  BY EntryKinds
<1>3. zone_map' = [i \in DataIds |-> IF i \in {id} THEN Absent ELSE zone_map[i]]
  BY <1>1
<1>4. /\ data_map' = [data_map EXCEPT ![pair.zone][pair.chunk_offset] = NoId]
      /\ data_map' \in [Zones -> [Chunks -> DataIds \union {NoId}]]
  BY <1>1
<1>5. ASSUME NEW p \in Pairs
      PROVE  LET i == data_map'[p.zone][p.chunk_offset]
             IN  \/ i = NoId
                 \/ i = data_map[p.zone][p.chunk_offset] /\ i \notin {id}
  <2>1. CASE p = pair
    BY <2>1, <1>1, <1>4
  <2>2. CASE p # pair
    <3>1. p.zone # pair.zone \/ p.chunk_offset # pair.chunk_offset
      BY <2>2 DEF Pairs
    <3>2. data_map'[p.zone][p.chunk_offset] = data_map[p.zone][p.chunk_offset]
      BY <3>1, <1>1, <1>4 DEF Pairs
    <3>3. data_map[p.zone][p.chunk_offset] = NoId \/ data_map[p.zone][p.chunk_offset] # id
      BY <2>2, <1>2, EntryKinds DEF MapInv, ReverseIndexBacked
    <3>4. QED
      BY <3>2, <3>3
  <2>3. QED
    BY <2>1, <2>2
<1>6. QED
  BY <1>2, <1>3, <1>4, <1>5, EvictKeeps

-----------------------------------------------------------------------------
(* The invariant.                                                          *)

LEMMA FindKeeps ==
  ASSUME MapInv, NEW t \in Threads, NEW id \in DataIds,
         role[t] \in {"idle", "find"}, t \notin asleep, Find(t, id)
  PROVE  MapInv'
<1>1. CASE \E pair \in Pairs : FindHit(t, id, pair) /\ Become(t, "copy", id, pair)
  BY <1>1, HitKeeps DEF Find
<1>2. CASE FindSleep(t, id) /\ Become(t, "find", id, NoPair)
  BY <1>2, SleepKeeps DEF Find
<1>3. CASE FindMiss(t, id) /\ Become(t, "writer", id, NoPair)
  BY <1>3, MissKeeps DEF Find
<1>4. QED
  BY <1>1, <1>2, <1>3 DEF Find

LEMMA StepInv == MapInv /\ [Next]_vars => MapInv'
<1> SUFFICES ASSUME MapInv, [Next]_vars PROVE MapInv'
  OBVIOUS
<1>1. ASSUME NEW t \in Threads, Begin(t) PROVE MapInv'
  <2>1. role[t] = "idle" /\ t \notin asleep
    BY <1>1 DEF Begin, MapInv, NoLostWakeup
  <2>2. QED
    BY <1>1, <2>1, FindKeeps DEF Begin
<1>2. ASSUME NEW t \in Threads, Retry(t) PROVE MapInv'
  BY <1>2, FindKeeps DEF Retry, MapInv, ThreadsShaped
<1>3. ASSUME NEW t \in Threads, CopyGarbage(t) PROVE MapInv'
  BY <1>3, StutterKeeps DEF CopyGarbage
<1>4. CASE UNCHANGED vars
  BY <1>4, StutterKeeps DEF vars, MapInv, TypeOK
<1>5. QED
  BY <1>1, <1>2, <1>3, <1>4, SpuriousKeeps, CopyKeeps, ReleaseKeeps, PublishKeeps, GiveUpKeeps,
     EvictZoneKeeps, EvictChunkKeeps DEF Next, Halted

\* Everything cache_map_mutex protects, in every reachable state of the map.
THEOREM MapInvariant == Spec => []MapInv
<1>1. QED
  BY InitInv, StepInv, PTL DEF Spec

\* An id that is being written has one writer, whose entry is there when it
\* comes back: the assertions of zn_cachemap_insert and zn_cachemap_fail hold.
THEOREM OneWriter == Spec => []SingleWriter
<1>1. MapInv => SingleWriter
  BY DEF MapInv
<1>2. QED
  BY <1>1, MapInvariant, PTL

\* No thread sleeps on a condition variable that nobody will signal.
THEOREM NobodyForgotten == Spec => []NoLostWakeup
<1>1. MapInv => NoLostWakeup
  BY DEF MapInv
<1>2. QED
  BY <1>1, MapInvariant, PTL

\* A hit returns what was looked up as long as the entry was not freed.
THEOREM HitsAreStable == Spec => []CopyStable
<1>1. MapInv => CopyStable
  BY DEF MapInv
<1>2. QED
  BY <1>1, MapInvariant, PTL

-----------------------------------------------------------------------------
(* The reader counts.                                                      *)

Readers(z) == {t \in Threads : role[t] \in {"copy", "reader"} /\ loc[t].zone = z}

CountsFrom(base) == \A z \in Zones : active_readers[z] - base[z] = Cardinality(Readers(z))

\* A step of one thread that neither makes it a reader nor ends one.
LEMMA SameReaders ==
  ASSUME MapInv, NEW base, CountsFrom(base), UNCHANGED active_readers,
         NEW t \in Threads, NEW r, NEW id, NEW pair, Become(t, r, id, pair),
         \/ role[t] \notin {"copy", "reader"} /\ r \notin {"copy", "reader"}
         \/ role[t] = "copy" /\ r = "reader" /\ pair = loc[t]
  PROVE  CountsFrom(base)'
<1>1. role \in [Threads -> Roles] /\ loc \in [Threads -> Pairs \union {NoPair}]
  BY DEF MapInv, TypeOK
<1>2. \A z \in Zones : Readers(z)' = Readers(z)
  BY <1>1 DEF Readers, Become
<1>3. QED
  BY <1>2 DEF CountsFrom

\* A lookup that hits adds the thread to the readers of one zone, and 1 to the
\* counter of the same zone.
LEMMA HitCounts ==
  ASSUME MapInv, NEW base \in [Zones -> Int], CountsFrom(base),
         NEW t \in Threads, NEW id \in DataIds, NEW pair \in Pairs,
         role[t] \in {"idle", "find"}, FindHit(t, id, pair), Become(t, "copy", id, pair)
  PROVE  CountsFrom(base)'
<1>1. /\ role \in [Threads -> Roles] /\ loc \in [Threads -> Pairs \union {NoPair}]
      /\ active_readers \in [Zones -> Int] /\ pair.zone \in Zones /\ IsFiniteSet(Threads)
  BY CacheMapAssumption DEF MapInv, TypeOK, Pairs
<1>2. SUFFICES ASSUME NEW z \in Zones
               PROVE  active_readers'[z] - base[z] = Cardinality(Readers(z)')
  BY DEF CountsFrom
<1>3. active_readers[z] - base[z] = Cardinality(Readers(z))
  BY DEF CountsFrom
<1>4. IsFiniteSet(Readers(z)) /\ t \notin Readers(z)
  BY <1>1, FS_Subset DEF Readers
<1>5. Readers(z)' = IF z = pair.zone THEN Readers(z) \union {t} ELSE Readers(z)
  BY <1>1 DEF Readers, Become
<1>6. Cardinality(Readers(z)) \in Nat
      /\ Cardinality(Readers(z) \union {t}) = Cardinality(Readers(z)) + 1
  BY <1>4, FS_CardinalityType, FS_AddElement
<1>7. active_readers'[z] = IF z = pair.zone THEN active_readers[z] + 1 ELSE active_readers[z]
  BY <1>1 DEF FindHit
<1>8. active_readers[z] \in Int /\ base[z] \in Int
  BY <1>1
<1>9. QED
  BY <1>3, <1>5, <1>6, <1>7, <1>8

LEMMA ReleaseCounts ==
  ASSUME MapInv, NEW base \in [Zones -> Int], CountsFrom(base), NEW t \in Threads, Release(t)
  PROVE  CountsFrom(base)'
<1>1. /\ role \in [Threads -> Roles] /\ loc \in [Threads -> Pairs \union {NoPair}]
      /\ active_readers \in [Zones -> Int] /\ loc[t].zone \in Zones /\ IsFiniteSet(Threads)
  BY CacheMapAssumption DEF MapInv, TypeOK, ThreadsShaped, Release, Pairs
<1>2. SUFFICES ASSUME NEW z \in Zones
               PROVE  active_readers'[z] - base[z] = Cardinality(Readers(z)')
  BY DEF CountsFrom
<1>3. active_readers[z] - base[z] = Cardinality(Readers(z))
  BY DEF CountsFrom
<1>4. IsFiniteSet(Readers(z)) /\ (t \in Readers(z) <=> z = loc[t].zone)
  BY <1>1, FS_Subset DEF Readers, Release
<1>5. Readers(z)' = Readers(z) \ {t}
  BY <1>1 DEF Readers, Become, Release
<1>6. Cardinality(Readers(z)) \in Nat
      /\ Cardinality(Readers(z) \ {t})
           = IF t \in Readers(z) THEN Cardinality(Readers(z)) - 1 ELSE Cardinality(Readers(z))
  BY <1>4, FS_CardinalityType, FS_RemoveElement
<1>7. active_readers'[z] = IF z = loc[t].zone THEN active_readers[z] - 1 ELSE active_readers[z]
  BY <1>1 DEF Release, ReaderDone
<1>8. active_readers[z] \in Int /\ base[z] \in Int
  BY <1>1
<1>9. QED
  BY <1>3, <1>4, <1>5, <1>6, <1>7, <1>8

LEMMA CountsStep ==
  ASSUME MapInv, NEW base \in [Zones -> Int], CountsFrom(base), [Next]_vars
  PROVE  CountsFrom(base)'
<1>1. ASSUME NEW t \in Threads, NEW id \in DataIds, role[t] \in {"idle", "find"}, Find(t, id)
      PROVE  CountsFrom(base)'
  <2>1. CASE \E pair \in Pairs : FindHit(t, id, pair) /\ Become(t, "copy", id, pair)
    BY <1>1, <2>1, HitCounts
  <2>2. CASE FindSleep(t, id) /\ Become(t, "find", id, NoPair)
    <3>1. UNCHANGED active_readers
      BY <2>2 DEF FindSleep
    <3>2. QED
      BY <1>1, <2>2, <3>1, SameReaders
  <2>3. CASE FindMiss(t, id) /\ Become(t, "writer", id, NoPair)
    <3>1. UNCHANGED active_readers
      BY <2>3 DEF FindMiss
    <3>2. QED
      BY <1>1, <2>3, <3>1, SameReaders
  <2>4. QED
    BY <1>1, <2>1, <2>2, <2>3 DEF Find
<1>2. ASSUME NEW t \in Threads, Begin(t) \/ Retry(t) PROVE CountsFrom(base)'
  BY <1>1, <1>2 DEF Begin, Retry, MapInv, ThreadsShaped
<1>3. ASSUME NEW t \in Threads, Copy(t) \/ Publish(t) \/ GiveUp(t) PROVE CountsFrom(base)'
  BY <1>3, SameReaders DEF Copy, Publish, GiveUp, Insert, Fail, mapVars
<1>4. ASSUME UNCHANGED <<active_readers, role, loc>> PROVE CountsFrom(base)'
  BY <1>4 DEF CountsFrom, Readers
<1>5. ASSUME NEW t \in Threads, Spurious(t) \/ CopyGarbage(t) PROVE CountsFrom(base)'
  BY <1>4, <1>5 DEF Spurious, SpuriousWakeup, CopyGarbage, mapVars, clientVars
<1>6. ASSUME NEW z \in Zones, EvictZone(z) PROVE CountsFrom(base)'
  BY <1>4, <1>6 DEF EvictZone, ClearZone, Freed
<1>7. ASSUME NEW pair \in Pairs, EvictChunk(pair) PROVE CountsFrom(base)'
  BY <1>4, <1>7 DEF EvictChunk, ClearChunk, Freed
<1>8. CASE UNCHANGED vars
  BY <1>4, <1>8 DEF vars, mapVars, clientVars
<1>9. QED
  BY <1>2, <1>3, <1>5, <1>6, <1>7, <1>8, ReleaseCounts DEF Next, Halted

LEMMA CountsInit == Init => ReaderCountExact
<1> SUFFICES ASSUME Init PROVE ReaderCountExact
  OBVIOUS
<1>1. active_readers \in [Zones -> InitialReaders] /\ InitialReaders \subseteq Int
  BY CacheMapAssumption DEF Init, InitMap
<1>2. \A z \in Zones : Readers(z) = {}
  BY DEF Init, Readers
<1>3. ASSUME NEW z \in Zones
      PROVE  active_readers[z] - active_readers[z] = Cardinality(Readers(z))
  <2>1. active_readers[z] \in Int
    BY <1>1
  <2>2. Cardinality(Readers(z)) = 0
    BY <1>2, FS_EmptySet
  <2>3. QED
    BY <2>1, <2>2
<1>4. QED
  BY <1>1, <1>3 DEF ReaderCountExact, Readers

LEMMA CountsExactStep ==
  ASSUME MapInv, ReaderCountExact, [Next]_vars
  PROVE  ReaderCountExact'
<1>1. PICK base \in [Zones -> InitialReaders] : CountsFrom(base)
  BY DEF ReaderCountExact, CountsFrom, Readers
<1>2. base \in [Zones -> Int]
  BY CacheMapAssumption
<1>3. CountsFrom(base)'
  BY <1>1, <1>2, CountsStep
<1>4. QED
  BY <1>1, <1>3 DEF ReaderCountExact, CountsFrom, Readers

\* A zone's counter is, counted from the value it started with, the number of
\* threads between their hit and their decrement.
THEOREM ReadersCounted == Spec => []ReaderCountExact
BY CountsInit, CountsExactStep, MapInvariant, PTL DEF Spec

-----------------------------------------------------------------------------
(* The map implements SingleFlight.                                        *)

Coming == [type |-> "COMING"]
Somewhere == {Located(pair) : pair \in Pairs}

Place == [id \in DataIds |-> IF zone_map[id].type = "COND" THEN Coming ELSE zone_map[id]]
Doing == [t \in Threads |-> [what |-> What(role[t]), id |-> arg[t]]]
Told == [t \in Threads |-> IF role[t] \in {"copy", "reader"} THEN Located(loc[t]) ELSE Absent]

\* The abstract place of an id, for each kind of entry.
LEMMA Places ==
  ASSUME TypeOK, NEW id \in DataIds
  PROVE  /\ \A c : zone_map[id] = Waiting(c) => Place[id] = Coming
         /\ \A pair \in Pairs : zone_map[id] = Located(pair) => Place[id] = Located(pair)
         /\ zone_map[id] = Absent => Place[id] = Absent
         /\ zone_map[id].type = "COND" <=> Place[id] = Coming
         /\ zone_map[id].type = "LOC" => Place[id] \in Somewhere
BY EntryKinds, EntryCases DEF Place, Coming, Somewhere

\* How a thread's new role shows in the abstract state.
LEMMA Becoming ==
  ASSUME TypeOK, NEW t \in Threads, NEW r, NEW id, NEW pair, Become(t, r, id, pair)
  PROVE  /\ Doing' = [Doing EXCEPT ![t] = [what |-> What(r), id |-> id]]
         /\ Told' = [Told EXCEPT ![t] =
                       IF r \in {"copy", "reader"} THEN Located(pair) ELSE Absent]
<1>1. /\ role \in [Threads -> Roles] /\ arg \in [Threads -> DataIds \union {NoId}]
      /\ loc \in [Threads -> Pairs \union {NoPair}]
  BY DEF TypeOK
<1>2. QED
  BY <1>1 DEF Become, Doing, Told

\* A thread that looks an id up wants it, and has been told of no place yet.
LEMMA Wanting ==
  ASSUME MapInv, NEW t \in Threads, NEW id \in DataIds,
         role[t] = "idle" \/ (role[t] = "find" /\ id = arg[t])
  PROVE  Flights!Wants(t, id) /\ Told[t] = Absent
<1>1. Doing[t] = [what |-> "nothing", id |-> NoId] \/ Doing[t] = [what |-> "wait", id |-> id]
  BY DEF Doing, What, MapInv, ThreadsShaped
<1>2. Flights!Wants(t, id)
  BY <1>1 DEF Flights!Wants, Flights!Does, Flights!Idle, Doing
<1>3. QED
  BY <1>2 DEF Told

LEMMA FindFlies ==
  ASSUME MapInv, NEW t \in Threads, NEW id \in DataIds,
         role[t] = "idle" \/ (role[t] = "find" /\ id = arg[t]), Find(t, id)
  PROVE  Flights!Hit(t, id) \/ Flights!Wait(t, id) \/ Flights!Miss(t, id)
<1>1. TypeOK /\ Flights!Wants(t, id) /\ Told[t] = Absent
  BY Wanting DEF MapInv
<1>2. DOMAIN Told = Threads /\ Told = [Told EXCEPT ![t] = Told[t]]
  BY DEF Told
<1>3. ASSUME NEW pair \in Pairs, FindHit(t, id, pair), Become(t, "copy", id, pair)
      PROVE  Flights!Hit(t, id)
  <2>1. Place[id] = Located(pair) /\ Place' = Place /\ Place[id] \in Somewhere
    BY <1>1, <1>3, Places DEF FindHit, Place, Somewhere
  <2>2. /\ Doing' = [Doing EXCEPT ![t] = [what |-> "use", id |-> id]]
        /\ Told' = [Told EXCEPT ![t] = Place[id]]
    BY <1>1, <1>3, <2>1, Becoming DEF What
  <2>3. QED
    BY <1>1, <2>1, <2>2 DEF Flights!Hit, Flights!Begins, Place, Doing, Told, Coming, Somewhere
<1>4. ASSUME FindSleep(t, id), Become(t, "find", id, NoPair)
      PROVE  Flights!Wait(t, id)
  <2>1. Place[id] = Coming /\ Place' = Place
    BY <1>1, <1>4, Places DEF FindSleep, Place
  <2>2. Doing' = [Doing EXCEPT ![t] = [what |-> "wait", id |-> id]] /\ Told' = Told
    BY <1>1, <1>2, <1>4, Becoming DEF What
  <2>3. QED
    BY <1>1, <2>1, <2>2 DEF Flights!Wait, Flights!Begins, Place, Doing, Told, Coming
<1>5. ASSUME FindMiss(t, id), Become(t, "writer", id, NoPair)
      PROVE  Flights!Miss(t, id)
  <2>1. PICK c : zone_map[id] = Absent /\ zone_map' = [zone_map EXCEPT ![id] = Waiting(c)]
    BY <1>5 DEF FindMiss
  <2>2. Place[id] = Absent /\ Place' = [Place EXCEPT ![id] = Coming]
    BY <1>1, <2>1, Places, EntryKinds DEF Place, TypeOK
  <2>3. Doing' = [Doing EXCEPT ![t] = [what |-> "bring", id |-> id]] /\ Told' = Told
    BY <1>1, <1>2, <1>5, Becoming DEF What
  <2>4. QED
    BY <1>1, <2>2, <2>3 DEF Flights!Miss, Flights!Begins, Place, Doing, Told, Coming
<1>6. QED
  BY <1>3, <1>4, <1>5 DEF Find

LEMMA ReleaseFlies ==
  ASSUME MapInv, NEW t \in Threads, Release(t)
  PROVE  arg[t] \in DataIds /\ Flights!Used(t, arg[t])
<1>1. arg[t] \in DataIds /\ TypeOK /\ Become(t, "idle", NoId, NoPair)
  BY DEF MapInv, ThreadsShaped, Release
<1>2. /\ Doing' = [Doing EXCEPT ![t] = [what |-> "nothing", id |-> NoId]]
      /\ Told' = [Told EXCEPT ![t] = Absent]
  BY <1>1, Becoming DEF What
<1>3. Doing[t] = [what |-> "use", id |-> arg[t]] /\ Place' = Place
  BY DEF Doing, What, Release, ReaderDone, Place
<1>4. QED
  BY <1>1, <1>2, <1>3
     DEF Flights!Used, Flights!Leave, Flights!Does, Flights!Idle, Place, Doing, Told, Coming

LEMMA EndWriteFlies ==
  ASSUME MapInv, NEW t \in Threads, NEW id \in DataIds, id = arg[t],
         Publish(t) \/ GiveUp(t)
  PROVE  Flights!Bring(t, id)
<1>1. /\ role[t] = "writer" /\ TypeOK /\ Become(t, "idle", NoId, NoPair)
  BY DEF MapInv, ThreadsShaped, Publish, GiveUp
<1>2. PICK p \in Somewhere \union {Absent} : zone_map' = [zone_map EXCEPT ![id] = p]
  BY DEF Publish, GiveUp, Insert, Fail, Somewhere
<1>3. Place' = [Place EXCEPT ![id] = p]
  BY <1>1, <1>2, EntryKinds DEF Place, TypeOK, Somewhere
<1>4. /\ Doing' = [Doing EXCEPT ![t] = [what |-> "nothing", id |-> NoId]]
      /\ Told' = [Told EXCEPT ![t] = Absent]
  BY <1>1, Becoming DEF What
<1>5. Doing[t] = [what |-> "bring", id |-> id]
  BY <1>1 DEF Doing, What
<1>6. QED
  BY <1>1, <1>2, <1>3, <1>4, <1>5
     DEF Flights!Bring, Flights!Leave, Flights!Does, Flights!Idle, Place, Doing, Told, Somewhere, Coming

LEMMA EvictFlies ==
  ASSUME MapInv, NEW ids, \A i \in ids : i \in DataIds /\ zone_map[i].type = "LOC",
         zone_map' = [i \in DataIds |-> IF i \in ids THEN Absent ELSE zone_map[i]], Freed(ids)
  PROVE  Flights!Evict
<1>1. ids \in SUBSET {i \in DataIds : Place[i] \in Somewhere}
  BY Places DEF MapInv
<1>2. Place' = [i \in DataIds |-> IF i \in ids THEN Absent ELSE Place[i]]
  BY EntryKinds DEF Place
<1>3. Doing' = Doing /\ Told' = Told
  BY DEF Freed, Doing, Told
<1>4. QED
  BY <1>1, <1>2, <1>3 DEF Flights!Evict, Place, Doing, Told, Somewhere, Coming

LEMMA StepFlies ==
  ASSUME MapInv, [Next]_vars
  PROVE  [Flights!Next]_Flights!vars
<1>1. ASSUME NEW t \in Threads, Begin(t) \/ Retry(t) PROVE Flights!Next
  <2>1. PICK id \in DataIds :
          (role[t] = "idle" \/ (role[t] = "find" /\ id = arg[t])) /\ Find(t, id)
    BY <1>1 DEF Begin, Retry, MapInv, ThreadsShaped
  <2>2. Flights!Hit(t, id) \/ Flights!Wait(t, id) \/ Flights!Miss(t, id)
    BY <2>1, FindFlies
  <2>3. QED
    BY <2>2 DEF Flights!Next
<1>2. ASSUME NEW t \in Threads, Release(t) \/ Publish(t) \/ GiveUp(t) PROVE Flights!Next
  <2>1. PICK id \in DataIds : Flights!Used(t, id) \/ Flights!Bring(t, id)
    <3>1. CASE Release(t)
      BY <3>1, ReleaseFlies
    <3>2. CASE Publish(t) \/ GiveUp(t)
      <4>1. PICK id \in DataIds : id = arg[t]
        BY <3>2 DEF Publish, GiveUp, MapInv, ThreadsShaped
      <4>2. Flights!Bring(t, id)
        BY <3>2, <4>1, EndWriteFlies
      <4>3. QED
        BY <4>2
    <3>3. QED
      BY <1>2, <3>1, <3>2
  <2>2. QED
    BY <2>1 DEF Flights!Next
<1>3. ASSUME NEW z \in Zones, EvictZone(z) PROVE Flights!Next
  <2>1. \A i \in IdsIn(z) : i \in DataIds /\ zone_map[i].type = "LOC"
    BY <1>3 DEF EvictZone, ClearZone, ClearZoneAsserts, IdsIn, MapInv, TypeOK
  <2>2. QED
    BY <1>3, <2>1, EvictFlies DEF EvictZone, ClearZone, Flights!Next
<1>4. ASSUME NEW pair \in Pairs, EvictChunk(pair) PROVE Flights!Next
  <2> DEFINE id == data_map[pair.zone][pair.chunk_offset]
  <2>1. id \in DataIds /\ zone_map[id].type = "LOC" /\ zone_map \in [DataIds -> EntryType]
    BY <1>4, EntryKinds
       DEF EvictChunk, ClearChunk, ClearChunkAsserts, Indexed, MapInv, TypeOK, Pairs, EntryType
  <2>2. zone_map' = [i \in DataIds |-> IF i \in {id} THEN Absent ELSE zone_map[i]]
    BY <1>4, <2>1 DEF EvictChunk, ClearChunk
  <2>3. QED
    BY <1>4, <2>1, <2>2, EvictFlies DEF EvictChunk, Flights!Next
<1>5. ASSUME UNCHANGED <<zone_map, role, arg, loc>> PROVE UNCHANGED Flights!vars
  BY <1>5 DEF Flights!vars
<1>6. ASSUME NEW t \in Threads, Spurious(t) \/ CopyGarbage(t) PROVE UNCHANGED Flights!vars
  BY <1>5, <1>6 DEF Spurious, SpuriousWakeup, CopyGarbage, mapVars, clientVars
<1>7. ASSUME NEW t \in Threads, Copy(t) PROVE UNCHANGED Flights!vars
  <2>1. UNCHANGED <<zone_map, arg, loc>> /\ role' = [role EXCEPT ![t] = "reader"] /\ role[t] = "copy"
    BY <1>7 DEF Copy, Become, mapVars, MapInv, TypeOK
  <2>2. \A u \in Threads : /\ What(role'[u]) = What(role[u])
                           /\ role'[u] \in {"copy", "reader"} <=> role[u] \in {"copy", "reader"}
    BY <2>1 DEF What, MapInv, TypeOK
  <2>3. QED
    BY <2>1, <2>2 DEF Flights!vars
<1>8. CASE UNCHANGED vars
  BY <1>5, <1>8 DEF vars, mapVars, clientVars
<1>9. QED
  BY <1>1, <1>2, <1>3, <1>4, <1>6, <1>7, <1>8 DEF Next, Halted

\* Every lookup, publication, failure and eviction of the map is one that
\* SingleFlight allows.
THEOREM MapRefines == Spec => ImplementsSingleFlight
<1>1. Init => Flights!Init
  <2> SUFFICES ASSUME Init PROVE Flights!Init
    OBVIOUS
  <2>1. Place = [id \in DataIds |-> Absent]
    BY EntryKinds DEF Init, InitMap, Place
  <2>2. Doing = [t \in Threads |-> [what |-> "nothing", id |-> NoId]]
    BY DEF Init, Doing, What
  <2>3. Told = [t \in Threads |-> Absent]
    BY DEF Init, Told
  <2>4. QED
    BY <2>1, <2>2, <2>3 DEF Flights!Init, Flights!Idle, Place, Doing, Told, Coming
<1>2. MapInv /\ [Next]_vars => [Flights!Next]_Flights!vars
  BY StepFlies
<1>3. QED
  BY <1>1, <1>2, MapInvariant, PTL DEF Spec, Flights!Spec, ImplementsSingleFlight
=============================================================================
