--------------------------- MODULE ZNCache_proofs ---------------------------
(***************************************************************************)
(* Proofs about the cache.  Every step of ZNCache is a step of the zone    *)
(* state manager and of the cache map, or a stutter of either (StepUses),  *)
(* so their invariants, proved once with their most general clients, hold  *)
(* here; CacheInv adds to them what holds between the components.  The     *)
(* manager, the map and the policy are instantiated together with their    *)
(* proofs, whose lemmas are cited below.                                   *)
(***************************************************************************)
EXTENDS ZNCache, TLAPS, FiniteSetTheorems, SequenceTheorems

ZP == INSTANCE ZoneStateManager_proofs WITH
        Threads <- Workers, Faults <- Faults \intersect ZoneCommands, MaxInvalid <- 0,
        lent <- Lent, filled <- Filled, marked <- {}

MP == INSTANCE CacheMap_proofs WITH
        Threads <- Workers, role <- Role, arg <- Arg, loc <- Loc

-----------------------------------------------------------------------------

\* What the cache assumes of its constants is what the zone state manager
\* assumes of its own.
LEMMA ZoneAssumption == ZP!ZSMAssumption
BY ZNCacheAssumption
   DEF Zones, Pairs, Chunks, ZP!Pairs, ZP!Zones, ZP!DeviceCommands, ZoneCommands, ZP!IsFiniteSet,
       IsFiniteSet

\* And what the cache map assumes.
LEMMA MapAssumption == MP!CacheMapAssumption
BY ZNCacheAssumption
   DEF Zones, Pairs, Chunks, MP!Pairs, MP!Zones, MP!Chunks, MP!Conds, MP!IsFiniteSet, IsFiniteSet,
       MP!Cardinality, Cardinality

\* The manager is instantiated twice, as a module and with its proofs: both
\* instances are the same formulas.
LEMMA ZoneInvSame == (Z!ZSMInv <=> ZP!ZSMInv) /\ (Z!ZSMInv' <=> ZP!ZSMInv')
BY DEF Z!ZSMInv, ZP!ZSMInv, Z!TypeOK, ZP!TypeOK, Z!HeldZoneStable, ZP!HeldZoneStable, Z!Holding,
       ZP!Holding, Z!WritesCounted, ZP!WritesCounted, Z!ActiveLimit, ZP!ActiveLimit, Z!NumActive,
       ZP!NumActive, Z!QueuesSound, ZP!QueuesSound, Z!ZonesTracked, ZP!ZonesTracked, Z!Zones,
       ZP!Zones, Z!Pairs, ZP!Pairs, Z!Conditions, ZP!Conditions, Z!IsInjective, ZP!IsInjective,
       Z!Range, ZP!Range, Z!Cardinality, ZP!Cardinality

\* The manager's invariant is kept by every step of its specification.
LEMMA ZoneStep ==
  ASSUME Z!ZSMInv, [Z!Next]_(Z!vars)
  PROVE  Z!ZSMInv'
<1>1. [ZP!Next]_(ZP!vars)
  BY DEF Z!Next, ZP!Next, Z!vars, ZP!vars, Z!zsmVars, ZP!zsmVars, Z!clientVars, ZP!clientVars,
         Z!Zones, ZP!Zones, Z!Pairs, ZP!Pairs, Z!NumActive, ZP!NumActive, Z!Get, ZP!Get, Z!GetError,
         ZP!GetError, Z!Return, ZP!Return, Z!Fail, ZP!Fail, Z!EvictZone, ZP!EvictZone, Z!EvictAbort,
         ZP!EvictAbort, Z!Mark, ZP!Mark, Z!Abort, ZP!Abort, Z!ReuseActiveZone, ZP!ReuseActiveZone,
         Z!OpenFreeZone, ZP!OpenFreeZone, Z!OpenFails, ZP!OpenFails, Z!CanOpen, ZP!CanOpen, Z!Lend,
         ZP!Lend, Z!WriterAsserts, ZP!WriterAsserts, Z!Reactivate, ZP!Reactivate, Z!CloseZone,
         ZP!CloseZone, Z!ReturnActiveZone, ZP!ReturnActiveZone, Z!FailedToWrite, ZP!FailedToWrite,
         Z!Evict, ZP!Evict, Z!EvictAborts, ZP!EvictAborts, Z!MarkChunkInvalid, ZP!MarkChunkInvalid
<1>2. QED
  BY <1>1, ZoneInvSame, ZP!NextInv, ZoneAssumption

\* It holds at the start.
LEMMA ZoneInit == Z!Init => Z!ZSMInv
<1>1. Z!Init <=> ZP!Init
  BY DEF Z!Init, ZP!Init, Z!InitZSM, ZP!InitZSM, Z!Zones, ZP!Zones
<1>2. QED
  BY <1>1, ZoneInvSame, ZP!InitInv, ZoneAssumption

\* Likewise for the cache map.
LEMMA MapInvSame == (M!MapInv <=> MP!MapInv) /\ (M!MapInv' <=> MP!MapInv')
BY DEF M!MapInv, MP!MapInv, M!TypeOK, MP!TypeOK, M!ThreadsShaped, MP!ThreadsShaped, M!SingleWriter,
       MP!SingleWriter, M!NoLostWakeup, MP!NoLostWakeup, M!RefCountExact, MP!RefCountExact,
       M!ReverseIndexBacked, MP!ReverseIndexBacked, M!CopyStable, MP!CopyStable, M!Absent,
       MP!Absent, M!Waiting, MP!Waiting, M!Located, MP!Located, M!Conds, MP!Conds, M!Pairs,
       MP!Pairs, M!Zones, MP!Zones, M!Chunks, MP!Chunks, M!Roles, MP!Roles, M!WriterAsserts,
       MP!WriterAsserts, M!Cardinality, MP!Cardinality

\* Both instances of the map take the same steps.
LEMMA MapNextSame == [M!Next]_(M!vars) <=> [MP!Next]_(MP!vars)
BY DEF M!Next, MP!Next, M!vars, MP!vars, M!mapVars, MP!mapVars, M!clientVars, MP!clientVars,
       M!Absent, MP!Absent, M!Waiting, MP!Waiting, M!Located, MP!Located, M!Conds, MP!Conds,
       M!Pairs, MP!Pairs, M!Zones, MP!Zones, M!Chunks, MP!Chunks, M!WriterAsserts, MP!WriterAsserts,
       M!Cardinality, MP!Cardinality, M!Unref, MP!Unref, M!FindHit, MP!FindHit, M!FindSleep,
       MP!FindSleep, M!FindMiss, MP!FindMiss, M!SpuriousWakeup, MP!SpuriousWakeup, M!FinishWait,
       MP!FinishWait, M!Insert, MP!Insert, M!Fail, MP!Fail, M!IdsIn, MP!IdsIn, M!ClearZoneAsserts,
       MP!ClearZoneAsserts, M!ClearZone, MP!ClearZone, M!ClearChunkAsserts, MP!ClearChunkAsserts,
       M!Indexed, MP!Indexed, M!ReadBack, MP!ReadBack, M!ClearChunk, MP!ClearChunk, M!ReaderDone,
       MP!ReaderDone, M!Become, MP!Become, M!Find, MP!Find, M!Begin, MP!Begin, M!Retry, MP!Retry,
       M!Spurious, MP!Spurious, M!Copy, MP!Copy, M!CopyGarbage, MP!CopyGarbage, M!Release,
       MP!Release, M!Publish, MP!Publish, M!GiveUp, MP!GiveUp, M!Freed, MP!Freed, M!EvictZone,
       MP!EvictZone, M!EvictChunk, MP!EvictChunk, M!Halted, MP!Halted

\* The map's invariant is kept by every step of its specification.
LEMMA MapStep ==
  ASSUME M!MapInv, [M!Next]_(M!vars)
  PROVE  M!MapInv'
BY MapNextSame, MapInvSame, MP!StepInv, MapAssumption

\* It holds at the start.
LEMMA MapInit == M!Init => M!MapInv
<1>1. M!Init <=> MP!Init
  BY DEF M!Init, MP!Init, M!InitMap, MP!InitMap, M!Zones, MP!Zones, M!Chunks, MP!Chunks, M!Conds,
        MP!Conds, M!Absent, MP!Absent, M!Cardinality, MP!Cardinality
<1>2. QED
  BY <1>1, MapInvSame, MP!InitInv, MapAssumption

-----------------------------------------------------------------------------
(* Threads as the components see them.                                     *)

\* The map's role of a thread, by what it is about to do in the cache.
LEMMA RolesAt ==
  /\ RoleAt("wait") = "find" /\ RoleAt("copy") = "copy"
  /\ \A step \in {"read", "touch", "dec"} : RoleAt(step) = "reader"
  /\ \A step \in {"idle", "find", "stopped", "finished"} : RoleAt(step) = "idle"
  /\ \A step \in {"zone", "policy", "insert", "undo_map"} \union Writing \union EvictSteps :
       RoleAt(step) = "writer"
BY DEF RoleAt, Writing, EvictSteps, Evicting

\* A variable a step leaves alone is updated with its own value.
LEMMA Frame ==
  ASSUME TypeOK, NEW w \in Workers
  PROVE  /\ location = [location EXCEPT ![w] = location[w]]
         /\ data_id = [data_id EXCEPT ![w] = data_id[w]]
         /\ pc = [pc EXCEPT ![w] = pc[w]]
BY DEF TypeOK, Threads

\* One worker moves: only its own entry changes in what the components see.
LEMMA Views ==
  ASSUME TypeOK, NEW w \in Workers, NEW to, NEW pair, NEW id,
         pc' = [pc EXCEPT ![w] = to],
         location' = [location EXCEPT ![w] = pair],
         data_id' = [data_id EXCEPT ![w] = id]
  PROVE  /\ Lent' = [Lent EXCEPT ![w] = IF to \in Writing THEN pair ELSE NoPair]
         /\ Role' = [Role EXCEPT ![w] = RoleAt(to)]
         /\ Arg' = [Arg EXCEPT ![w] = IF RoleAt(to) = "idle" THEN NoId ELSE id]
         /\ Loc' = [Loc EXCEPT ![w] = IF RoleAt(to) \in {"copy", "reader"} THEN pair ELSE NoPair]
<1>1. /\ \A v \in Workers : pc'[v] = IF v = w THEN to ELSE pc[v]
      /\ \A v \in Workers : location'[v] = IF v = w THEN pair ELSE location[v]
      /\ \A v \in Workers : data_id'[v] = IF v = w THEN id ELSE data_id[v]
  BY DEF TypeOK, Threads
<1>2. Lent' = [Lent EXCEPT ![w] = IF to \in Writing THEN pair ELSE NoPair]
  BY <1>1 DEF Lent
<1>3. Role' = [Role EXCEPT ![w] = RoleAt(to)]
  BY <1>1 DEF Role, RoleAt
<1>31. \A v \in Workers : Role'[v] = IF v = w THEN RoleAt(to) ELSE Role[v]
  BY <1>3 DEF Role
<1>4. Arg' = [Arg EXCEPT ![w] = IF RoleAt(to) = "idle" THEN NoId ELSE id]
  BY <1>1, <1>3, <1>31 DEF Arg
<1>5. Loc' = [Loc EXCEPT ![w] = IF RoleAt(to) \in {"copy", "reader"} THEN pair ELSE NoPair]
  BY <1>1, <1>3, <1>31 DEF Loc
<1>6. QED
  BY <1>2, <1>3, <1>4, <1>5

\* The eviction thread is no client of the manager's zones or the map's ids.
LEMMA EvictorUnseen ==
  ASSUME TypeOK, NEW to, pc' = [pc EXCEPT ![Evictor] = to], UNCHANGED <<location, data_id>>
  PROVE  UNCHANGED <<Lent, Role, Arg, Loc>>
<1>1. \A v \in Workers : pc'[v] = pc[v]
  BY ZNCacheAssumption DEF TypeOK, Threads
<1>2. QED
  BY <1>1 DEF Lent, Role, Arg, Loc

\* A step that leaves the manager and its clients alone is a stutter of it.
LEMMA ZoneIdle ==
  ASSUME UNCHANGED <<zsmVars, aborted, Lent, Filled>>
  PROVE  UNCHANGED Z!vars
BY DEF zsmVars, Z!vars, Z!zsmVars, Z!clientVars

\* And of the map.
LEMMA MapIdle ==
  ASSUME UNCHANGED <<mapVars, dangling, undefined, Role, Arg, Loc>>
  PROVE  [M!Next]_(M!vars)
BY DEF mapVars, M!vars, M!mapVars, M!clientVars

\* A full zone is in the policy's queue, on its way to it, or on its way out.
LEMMA FilledCases ==
  \A z : z \in Filled <=> \/ \E i \in DOMAIN lru_queue : lru_queue[i] = z
                          \/ \E w \in Filling : location[w].zone = z
                          \/ \E t \in Threads : pc[t] \in Evicting /\ victim[t] = z
BY DEF Filled, Range

\* Steps that do not concern full zones.
LEMMA FilledKept ==
  ASSUME TypeOK, NEW t \in Threads, NEW to, pc' = [pc EXCEPT ![t] = to],
         pc[t] # "policy", to # "policy", pc[t] \in Evicting <=> to \in Evicting,
         \A w \in Workers : w # t => location'[w] = location[w],
         UNCHANGED <<lru_queue, victim>>
  PROVE  Filled' = Filled
<1>1. \A u \in Threads : pc'[u] = IF u = t THEN to ELSE pc[u]
  BY DEF TypeOK
<1>2. Filling' = Filling /\ \A w \in Filling : location'[w] = location[w]
  BY <1>1 DEF Filling, LastChunk, Threads
<1>3. {location'[w].zone : w \in Filling'} = {location[w].zone : w \in Filling}
  BY <1>2
<1>4. {victim'[u] : u \in {v \in Threads : pc'[v] \in Evicting}}
        = {victim[u] : u \in {v \in Threads : pc[v] \in Evicting}}
  BY <1>1
<1>5. QED
  BY <1>3, <1>4 DEF Filled

-----------------------------------------------------------------------------
(* Types, and what a thread holds at each step.                            *)

\* The difference of two counters modulo 2^32 is zero only when they are equal.
LEMMA Modulus ==
  ASSUME NEW n \in Nat \ {0}, NEW a \in Int
  PROVE  /\ a % n \in 0 .. n - 1
         /\ a # 0 /\ -n < a /\ a < n => a % n > 0
<1>1. a % n \in 0 .. n - 1
  OBVIOUS
<1>2. ASSUME a # 0, -n < a, a < n PROVE a % n > 0
  BY <1>2
<1>3. QED
  BY <1>1, <1>2

\* Every step keeps the types.
LEMMA TypeStep ==
  ASSUME TypeOK, Z!TypeOK, StepsShaped, [Next]_vars,
         \A t \in Threads : pc[t] = "fg_reset" => todo[t] > 0
  PROVE  TypeOK'
<1> USE ZNCacheAssumption DEF Threads
<1>1. ASSUME NEW t \in Threads, Evict(t) PROVE TypeOK'
  <2>1. CASE StartEviction(t)
    <3>1. NumFree \in Nat
      BY DEF Z!TypeOK, NumFree
    <3>2. LOW - NumFree \in Int /\ UInt \in Nat \ {0}
      BY <3>1
    <3>3. (LOW - NumFree) % UInt \in 0 .. UInt - 1
      BY <3>2, Modulus
    <3>4. QED
      BY <2>1, <3>3
         DEF StartEviction, TypeOK, Goto, Back, WorkerSteps, EvictSteps, EvictorSteps, Evicting,
             vars, deviceVars, evictVars, crashVars, historyVars
  <2>2. CASE PickVictim(t)
    <3>1. todo' \in [Threads -> 0 .. UInt - 1]
      BY <2>2 DEF PickVictim, TypeOK
    <3>2. victim' \in [Threads -> Zones \union {NoZone}]
      BY <2>2 DEF PickVictim, TypeOK
    <3>3. \E to \in {"fg_clear"} \union {Back(t)} : pc' = [pc EXCEPT ![t] = to] /\ pc[t] = "fg_loop"
      BY <2>2 DEF PickVictim, Goto
    <3>4. QED
      BY <2>2, <3>1, <3>2, <3>3
         DEF PickVictim, TypeOK, Back, WorkerSteps, EvictSteps, EvictorSteps, Evicting, vars,
             deviceVars, evictVars, crashVars, historyVars
  <2>3. CASE ClearZone(t)
    BY <2>3
       DEF ClearZone, TypeOK, Goto, WorkerSteps, EvictSteps, EvictorSteps, Evicting, deviceVars,
           evictVars, crashVars, historyVars
  <2>4. CASE ReadersGone(t)
    BY <2>4
       DEF ReadersGone, TypeOK, Goto, WorkerSteps, EvictSteps, EvictorSteps, Evicting, deviceVars,
           evictVars, crashVars, historyVars
  <2>5. CASE ResetZone(t)
    <3>1. todo[t] - 1 \in 0 .. UInt - 1
      BY <2>5 DEF ResetZone, Goto, TypeOK, StepsShaped, Evicting
    <3>2. disk' \in [Zones -> [Chunks -> DataIds \union {NoId}]]
      BY <2>5 DEF ResetZone, TypeOK
    <3>3. QED
      BY <2>5, <3>1, <3>2
         DEF ResetZone, TypeOK, Goto, Back, WorkerSteps, EvictSteps, EvictorSteps, Evicting,
             crashVars, historyVars
  <2>6. CASE ResetAborts(t) \/ ClearZoneAborts(t)
    BY <2>6 DEF ResetAborts, ClearZoneAborts, TypeOK, deviceVars, evictVars, historyVars
  <2>7. QED
    BY <1>1, <2>1, <2>2, <2>3, <2>4, <2>5, <2>6 DEF Evict
<1>2. ASSUME NEW w \in Workers, Worker(w) \/ SpuriousWakeup(w) PROVE TypeOK'
  <2>1. CASE TakeQuery(w)
    BY <2>1
       DEF TakeQuery, TypeOK, Goto, WorkerSteps, EvictSteps, EvictorSteps, deviceVars, evictVars,
           crashVars, historyVars
  <2>2. CASE EndTask(w) \/ SpuriousWakeup(w) \/ CopyGarbage(w)
    BY <2>2
       DEF EndTask, SpuriousWakeup, CopyGarbage, TypeOK, Goto, WorkerSteps, EvictSteps,
           EvictorSteps, deviceVars, evictVars, crashVars, historyVars
  <2>3. CASE Find(w)
    BY <2>3
       DEF Find, TypeOK, Goto, WorkerSteps, EvictSteps, EvictorSteps, deviceVars, evictVars,
           crashVars, historyVars
  <2>4. CASE Copy(w) \/ Read(w) \/ Touch(w)
    BY <2>4
       DEF Copy, Read, Touch, TypeOK, Goto, WorkerSteps, EvictSteps, EvictorSteps, deviceVars,
           evictVars, crashVars, historyVars
  <2>5. CASE DecReaders(w)
    BY <2>5
       DEF DecReaders, LeaveGet, TypeOK, Goto, WorkerSteps, EvictSteps, EvictorSteps, deviceVars,
           evictVars, crashVars, historyVars
  <2>6. CASE GetActiveZone(w)
    BY <2>6
       DEF GetActiveZone, TypeOK, Goto, WorkerSteps, EvictSteps, EvictorSteps, deviceVars,
           evictVars, crashVars, historyVars
  <2>7. CASE Write(w)
    BY <2>7
       DEF Write, TypeOK, Goto, WorkerSteps, EvictSteps, EvictorSteps, deviceVars, evictVars,
           crashVars, historyVars
  <2>8. CASE WriteFails(w)
    <3>1. disk' \in [Zones -> [Chunks -> DataIds \union {NoId}]]
      BY <2>8 DEF WriteFails, TypeOK
    <3>2. torn' \subseteq Zones
      BY <2>8 DEF WriteFails, TypeOK
    <3>3. QED
      BY <2>8, <3>1, <3>2
         DEF WriteFails, TypeOK, Goto, WorkerSteps, EvictSteps, EvictorSteps, deviceVars, evictVars,
             crashVars, historyVars
  <2>9. CASE ReturnActiveZone(w) \/ UpdatePolicy(w) \/ UndoZoneGet(w)
    BY <2>9
       DEF ReturnActiveZone, UpdatePolicy, UndoZoneGet, TypeOK, Goto, WorkerSteps, EvictSteps,
           EvictorSteps, deviceVars, evictVars, crashVars, historyVars
  <2>10. CASE Insert(w)
    BY <2>10
       DEF Insert, LeaveGet, TypeOK, StepsShaped, Goto, WorkerSteps, EvictSteps, EvictorSteps,
           deviceVars, evictVars, crashVars, historyVars
  <2>11. CASE UndoMap(w)
    BY <2>11
       DEF UndoMap, LeaveGet, TypeOK, Goto, WorkerSteps, EvictSteps, EvictorSteps, deviceVars,
           evictVars, crashVars, historyVars
  <2>12. QED
    BY <1>2, <2>1, <2>2, <2>3, <2>4, <2>5, <2>6, <2>7, <2>8, <2>9, <2>10, <2>11 DEF Worker
<1>3. CASE CheckDone \/ CheckFree
  BY <1>3
     DEF CheckDone, CheckFree, TypeOK, Goto, WorkerSteps, EvictSteps, EvictorSteps, Evicting,
         deviceVars, evictVars, crashVars, historyVars
<1>4. CASE UNCHANGED vars
  BY <1>4 DEF TypeOK, vars, deviceVars, evictVars, crashVars, historyVars
<1>5. QED
  BY <1>1, <1>2, <1>3, <1>4 DEF Next, Evictions, Terminated

\* The free queue holds no zone twice, so there are at most all of them.
LEMMA FreeBounded ==
  ASSUME Z!TypeOK, Z!QueuesSound
  PROVE  NumFree \in 0 .. NumZones
<1>1. free \in Seq(Zones) /\ NumZones \in Nat /\ Zones = 0 .. NumZones - 1
  BY ZNCacheAssumption DEF Z!TypeOK, Z!Zones, Zones
<1>2. Len(free) \in Nat /\ DOMAIN free = 1 .. Len(free) /\ free \in [1 .. Len(free) -> Zones]
  BY <1>1, LenProperties
<1>3. \A i, j \in DOMAIN free : free[i] = free[j] => i = j
  BY DEF Z!QueuesSound, Z!IsInjective
<1>4. free \in Injection(1 .. Len(free), Zones)
  BY <1>2, <1>3 DEF Injection, IsInjective
<1>5. IsFiniteSet(Zones) /\ Cardinality(Zones) = NumZones
  <2>1. IsFiniteSet(0 .. NumZones - 1) /\ Cardinality(0 .. NumZones - 1) = NumZones
    BY <1>1, FS_Interval, 0 \in Int, NumZones - 1 \in Int, ZNCacheAssumption
  <2>2. QED
    BY <2>1, <1>1
<1>6. Cardinality(1 .. Len(free)) = Len(free)
  BY <1>2, FS_Interval
<1>7. QED
  BY <1>1, <1>2, <1>4, <1>5, <1>6, FS_Injection DEF NumFree

\* Every step keeps what a thread holds at each of its steps.
LEMMA ShapeStep ==
  ASSUME TypeOK, StepsShaped, [Next]_vars
  PROVE  StepsShaped'
<1> USE ZNCacheAssumption DEF Threads, Writing, Evicting, StepsShaped
<1>1. ASSUME NEW t \in Threads, Evict(t) PROVE StepsShaped'
  <2>1. CASE StartEviction(t)
    BY <2>1 DEF StartEviction, TypeOK, Goto, Back
  <2>2. CASE PickVictim(t)
    <3>1. CASE \E z \in Zones : /\ Goto(t, "fg_loop", "fg_clear")
                                /\ victim' = [victim EXCEPT ![t] = z]
      BY <2>2, <3>1 DEF PickVictim, TypeOK, Goto
    <3>2. CASE Goto(t, "fg_loop", Back(t)) /\ UNCHANGED victim
      BY <2>2, <3>2 DEF PickVictim, TypeOK, Goto, Back
    <3>3. QED
      BY <2>2, <3>1, <3>2 DEF PickVictim
  <2>3. CASE ClearZone(t)
    BY <2>3 DEF ClearZone, TypeOK, Goto, evictVars
  <2>4. CASE ReadersGone(t)
    BY <2>4 DEF ReadersGone, TypeOK, Goto, evictVars
  <2>5. CASE ResetZone(t)
    <3>1. \A u \in Threads : u # t => victim'[u] = victim[u] /\ pc'[u] = pc[u]
      BY <2>5 DEF ResetZone, Goto, TypeOK
    <3>2. victim'[t] = NoZone
      BY <2>5 DEF ResetZone, TypeOK
    <3>3. pc'[t] = IF todo[t] = 1 THEN Back(t) ELSE "fg_loop"
      BY <2>5 DEF ResetZone, TypeOK, Goto
    <3>4. Back(t) \in {"zone", "evict_task"}
      BY DEF Back
    <3>5. \A u \in Threads : victim'[u] # NoZone <=> pc'[u] \in Evicting
      BY <3>1, <3>2, <3>3, <3>4
    <3>6. \A w \in Workers :
            /\ UNCHANGED <<data_id[w], location[w]>>
            /\ pc'[w] # pc[w] => pc'[w] \in {"zone", "fg_loop"} /\ pc[w] = "fg_reset"
      BY <2>5, <3>1, <3>3 DEF ResetZone, Back, Goto
    <3>7. QED
      BY <3>5, <3>6
  <2>6. CASE ResetAborts(t) \/ ClearZoneAborts(t)
    BY <2>6 DEF ResetAborts, ClearZoneAborts, evictVars
  <2>7. QED
    BY <1>1, <2>1, <2>2, <2>3, <2>4, <2>5, <2>6 DEF Evict
<1>2. ASSUME NEW w \in Workers, Worker(w) \/ SpuriousWakeup(w) PROVE StepsShaped'
  <2>1. CASE TakeQuery(w) \/ EndTask(w)
    BY <2>1 DEF TakeQuery, EndTask, TypeOK, Goto, evictVars
  <2>2. CASE SpuriousWakeup(w) \/ CopyGarbage(w)
    BY <2>2 DEF SpuriousWakeup, CopyGarbage, evictVars
  <2>3. CASE Find(w)
    BY <2>3 DEF Find, TypeOK, Goto, evictVars
  <2>4. CASE Copy(w) \/ Read(w) \/ Touch(w)
    BY <2>4 DEF Copy, Read, Touch, TypeOK, Goto, evictVars
  <2>5. CASE DecReaders(w)
    BY <2>5 DEF DecReaders, LeaveGet, TypeOK, Goto, evictVars
  <2>6. CASE GetActiveZone(w)
    BY <2>6 DEF GetActiveZone, TypeOK, Goto, evictVars
  <2>7. CASE Write(w)
    BY <2>7 DEF Write, TypeOK, Goto, evictVars
  <2>8. CASE WriteFails(w)
    BY <2>8 DEF WriteFails, TypeOK, Goto, evictVars
  <2>9. CASE ReturnActiveZone(w) \/ UpdatePolicy(w) \/ UndoZoneGet(w)
    BY <2>9 DEF ReturnActiveZone, UpdatePolicy, UndoZoneGet, TypeOK, Goto, evictVars
  <2>10. CASE Insert(w) \/ UndoMap(w)
    BY <2>10 DEF Insert, UndoMap, LeaveGet, TypeOK, Goto, evictVars
  <2>11. QED
    BY <1>2, <2>1, <2>2, <2>3, <2>4, <2>5, <2>6, <2>7, <2>8, <2>9, <2>10 DEF Worker
<1>3. CASE CheckDone \/ CheckFree
  BY <1>3 DEF CheckDone, CheckFree, TypeOK, Goto, evictVars
<1>4. CASE UNCHANGED vars
  BY <1>4 DEF vars, evictVars
<1>5. QED
  BY <1>1, <1>2, <1>3, <1>4 DEF Next, Evictions, Terminated

\* Every step keeps that a round that goes on has something to evict.  The
\* unsigned difference of StartEviction is not zero when the round begins.
LEMMA RoundsStep ==
  ASSUME TypeOK, Z!TypeOK, Z!QueuesSound, RoundsGoOn, [Next]_vars
  PROVE  RoundsGoOn'
<1> DEFINE InRound == {"fg_loop", "fg_clear", "fg_spin", "fg_reset"}
<1>1. ASSUME NEW t \in Threads, NEW to, pc' = [pc EXCEPT ![t] = to],
             to \in InRound => todo'[t] > 0,
             \A u \in Threads : u # t => todo'[u] = todo[u]
      PROVE  RoundsGoOn'
  BY <1>1 DEF RoundsGoOn, TypeOK
<1>2. ASSUME UNCHANGED <<pc, todo>> PROVE RoundsGoOn'
  BY <1>2 DEF RoundsGoOn
<1>3. ASSUME NEW t \in Threads, Evict(t) PROVE RoundsGoOn'
  <2>1. CASE StartEviction(t)
    <3>1. /\ LOW - NumFree \in Int /\ UInt \in Nat \ {0}
          /\ -UInt < LOW - NumFree /\ LOW - NumFree < UInt
      BY FreeBounded, ZNCacheAssumption
    <3>2. NumFree # LOW => LOW - NumFree # 0
      BY FreeBounded, ZNCacheAssumption
    <3>3. NumFree # LOW => (LOW - NumFree) % UInt > 0
      BY <3>1, <3>2, Modulus
    <3>4. /\ todo' = [todo EXCEPT ![t] = (LOW - NumFree) % UInt]
          /\ pc' = [pc EXCEPT ![t] = IF NumFree = LOW THEN Back(t) ELSE "fg_loop"]
          /\ Back(t) \notin InRound
      BY <2>1 DEF StartEviction, Goto, Back
    <3>5. \A u \in Threads :
            todo'[u] = IF u = t THEN (LOW - NumFree) % UInt ELSE todo[u]
      BY <3>4 DEF TypeOK
    <3>6. QED
      BY <1>1, <3>3, <3>4, <3>5
  <2>2. CASE PickVictim(t)
    <3>1. CASE Goto(t, "fg_loop", "fg_clear") /\ UNCHANGED todo
      BY <1>1, <3>1 DEF RoundsGoOn, Goto
    <3>2. CASE Goto(t, "fg_loop", Back(t)) /\ todo' = [todo EXCEPT ![t] = 0]
      <4>1. Back(t) \notin InRound /\ pc' = [pc EXCEPT ![t] = Back(t)]
        BY <3>2 DEF Back, Goto
      <4>2. \A u \in Threads : u # t => todo'[u] = todo[u]
        BY <3>2 DEF TypeOK
      <4>3. QED
        BY <1>1, <4>1, <4>2
    <3>3. QED
      BY <2>2, <3>1, <3>2 DEF PickVictim
  <2>3. CASE ClearZone(t) \/ ReadersGone(t)
    <3>1. /\ UNCHANGED todo /\ pc[t] \in InRound
          /\ \E to : pc' = [pc EXCEPT ![t] = to]
      BY <2>3 DEF ClearZone, ReadersGone, Goto, evictVars
    <3>2. QED
      BY <1>1, <3>1 DEF RoundsGoOn
  <2>4. CASE ResetZone(t)
    <3>1. /\ pc[t] = "fg_reset" /\ todo' = [todo EXCEPT ![t] = @ - 1]
          /\ pc' = [pc EXCEPT ![t] = IF todo[t] = 1 THEN Back(t) ELSE "fg_loop"]
          /\ Back(t) \notin InRound
      BY <2>4 DEF ResetZone, Goto, Back
    <3>2. todo[t] \in Nat /\ todo[t] > 0
      BY <3>1, ZNCacheAssumption DEF TypeOK, RoundsGoOn
    <3>3. \A u \in Threads : todo'[u] = IF u = t THEN todo[t] - 1 ELSE todo[u]
      BY <3>1 DEF TypeOK
    <3>4. todo[t] # 1 => todo'[t] > 0
      BY <3>2, <3>3
    <3>5. QED
      BY <1>1, <3>1, <3>3, <3>4
  <2>5. CASE ResetAborts(t) \/ ClearZoneAborts(t)
    BY <1>2, <2>5 DEF ResetAborts, ClearZoneAborts, evictVars
  <2>6. QED
    BY <1>3, <2>1, <2>2, <2>3, <2>4, <2>5 DEF Evict
<1>4. ASSUME NEW w \in Workers, Worker(w) \/ SpuriousWakeup(w) PROVE RoundsGoOn'
  <2>1. UNCHANGED todo
    BY <1>4 DEF Worker, TakeQuery, EndTask, Find, Copy, CopyGarbage, Read, Touch, DecReaders,
         GetActiveZone, Write, WriteFails, ReturnActiveZone, UpdatePolicy, Insert, UndoZoneGet,
         UndoMap, SpuriousWakeup, evictVars
  <2>2. UNCHANGED pc \/ \E to : pc' = [pc EXCEPT ![w] = to] /\ to \notin InRound
    BY <1>4 DEF Worker, TakeQuery, EndTask, Find, Copy, CopyGarbage, Read, Touch, DecReaders,
         GetActiveZone, Write, WriteFails, ReturnActiveZone, UpdatePolicy, Insert, UndoZoneGet,
         UndoMap, SpuriousWakeup, LeaveGet, Goto
  <2>3. QED
    BY <1>1, <1>2, <2>1, <2>2 DEF Threads
<1>5. CASE CheckDone \/ CheckFree
  <2>1. UNCHANGED todo
    BY <1>5 DEF CheckDone, CheckFree, evictVars
  <2>2. \E to : pc' = [pc EXCEPT ![Evictor] = to] /\ to \notin InRound
    BY <1>5 DEF CheckDone, CheckFree, Goto
  <2>3. QED
    BY <1>1, <2>1, <2>2 DEF Threads
<1>6. CASE UNCHANGED vars
  BY <1>2, <1>6 DEF vars, evictVars
<1>7. QED
  BY <1>3, <1>4, <1>5, <1>6 DEF Next, Evictions, Terminated, Threads

-----------------------------------------------------------------------------
(* The policy's queue, and the full zones outside of it.                   *)

PP == INSTANCE PromotionalPolicy_proofs WITH
        MaxUses <- 0, full <- {}, uses <- 0, last_use <- [z \in Zones |-> 0]

\* Both instances of the policy are the same formulas.
LEMMA PolicySame ==
  /\ PP!PolicyAssumption /\ PP!Zones = Zones /\ PP!Pairs = Pairs
  /\ P!NodesExact <=> PP!NodesExact
  /\ P!NodesExact' <=> PP!NodesExact'
  /\ PP!Range(lru_queue) = Range(lru_queue) /\ PP!Range(lru_queue') = Range(lru_queue')
BY ZNCacheAssumption
   DEF PP!PolicyAssumption, PP!Zones, Zones, PP!Pairs, Pairs, Chunks,
       P!NodesExact, PP!NodesExact, P!IsInjective, PP!IsInjective, P!Range, PP!Range, Range

\* A read keeps the queue's zones and their map (promotional.c:32-42).
LEMMA TouchSound ==
  ASSUME lru_queue \in Seq(Zones), P!NodesExact, NEW pair, P!UpdateRead(pair)
  PROVE  /\ lru_queue' \in Seq(Zones) /\ P!NodesExact'
         /\ UNCHANGED zone_to_lru_map /\ Range(lru_queue') = Range(lru_queue)
<1>1. PP!UpdateRead(pair)
  BY DEF P!UpdateRead, PP!UpdateRead, P!ToTail, PP!ToTail
<1>2. QED
  BY <1>1, PolicySame, PP!UpdateReadSound

\* The write of a last chunk appends its zone, any other write nothing
\* (promotional.c:24-31).
LEMMA UpdateSound ==
  ASSUME lru_queue \in Seq(Zones), P!NodesExact, NEW pair \in Pairs,
         pair.zone \notin zone_to_lru_map, P!UpdateWrite(pair)
  PROVE  /\ lru_queue' \in Seq(Zones) /\ P!NodesExact'
         /\ Range(lru_queue') = IF LastChunk(pair)
                                THEN Range(lru_queue) \union {pair.zone} ELSE Range(lru_queue)
<1>1. PP!UpdateWrite(pair)
  BY DEF P!UpdateWrite, PP!UpdateWrite, P!policyVars, PP!policyVars
<1>2. QED
  BY <1>1, PolicySame, PP!UpdateWriteSound DEF LastChunk

\* The zone chosen for eviction leaves the queue and the map.
LEMMA PickSound ==
  ASSUME lru_queue \in Seq(Zones), P!NodesExact, NEW z, P!GetZoneToEvict(z)
  PROVE  /\ lru_queue' \in Seq(Zones) /\ P!NodesExact'
         /\ z \in Range(lru_queue) /\ Range(lru_queue') = Range(lru_queue) \ {z}
<1>1. PP!GetZoneToEvict(z)
  BY DEF P!GetZoneToEvict, PP!GetZoneToEvict
<1>2. QED
  BY <1>1, PolicySame, PP!GetZoneSound

\* The nodes of the policy are the zones of its queue.
LEMMA QueuedZones ==
  ASSUME OnePlace
  PROVE  zone_to_lru_map = Range(lru_queue) /\ Range(lru_queue) \subseteq Zones
         /\ zone_to_lru_map \subseteq Filled
BY DEF OnePlace, P!NodesExact, P!Range, Range, Filled

\* A step of a thread that is not before or after the policy's update keeps
\* the set of writers that are.
LEMMA FillingKept ==
  ASSUME TypeOK, NEW t \in Threads, NEW to, pc' = [pc EXCEPT ![t] = to],
         pc[t] # "policy", to # "policy",
         \A w \in Workers : w # t => location'[w] = location[w]
  PROVE  Filling' = Filling /\ \A w \in Filling : location'[w] = location[w]
<1>1. \A u \in Threads : pc'[u] = IF u = t THEN to ELSE pc[u]
  BY DEF TypeOK
<1>2. QED
  BY <1>1 DEF Filling, LastChunk, Threads

\* A step that moves no full zone keeps every full zone in its place.
LEMMA OnePlaceKept ==
  ASSUME OnePlace, Filling' = Filling, \A w \in Filling : location'[w] = location[w],
         UNCHANGED <<lru_queue, zone_to_lru_map, victim>>
  PROVE  OnePlace'
BY DEF OnePlace, P!NodesExact, P!IsInjective, P!Range

\* What the proofs below need of the manager: they use no more of its invariant,
\* so that they also serve ChunkCache, where garbage collection holds zones too.
ZonesSound ==
  /\ Z!TypeOK
  /\ Z!HeldZoneStable
  /\ Z!QueuesSound
  /\ \A z \in Filled :
       \/ state[z] = "FULL"
       \/ state[z] = "WRITE_OCCURING" /\ chunk_offset[z] = max_zone_chunks

LEMMA ZonesAreSound == Z!ZSMInv => ZonesSound
BY DEF Z!ZSMInv, Z!ZonesTracked, ZonesSound

\* A zone lent to a writer is known to nobody else.
LEMMA LentNotFilled ==
  ASSUME TypeOK, ZonesSound, NEW w \in Workers, location[w] \in Pairs, Z!WriterAsserts(location[w])
  PROVE  location[w].zone \notin Filled
<1>1. location[w].zone \in Zones /\ location[w].chunk_offset \in 0 .. max_zone_chunks - 1
  BY DEF Pairs, Chunks
<1>2. /\ state[location[w].zone] = "WRITE_OCCURING"
      /\ chunk_offset[location[w].zone] # max_zone_chunks
  BY <1>1, ZNCacheAssumption DEF Z!WriterAsserts
<1>3. QED
  BY <1>2 DEF ZonesSound

\* A zone that is being evicted is full.
LEMMA VictimFilled ==
  ASSUME StepsShaped, NEW t \in Threads, victim[t] # NoZone
  PROVE  victim[t] \in Filled
BY FilledCases DEF StepsShaped

\* So is the zone of a writer that is about to give it to the policy.
LEMMA FillingFilled ==
  ASSUME NEW w \in Filling
  PROVE  location[w].zone \in Filled
BY FilledCases

\* Every step keeps every full zone in one place.  Only the return of a last
\* chunk, the policy's update, its choice and the reset move one.
LEMMA OnePlaceStep ==
  ASSUME TypeOK, ZonesSound, StepsShaped, OnePlace, [Next]_vars
  PROVE  OnePlace'
<1>1. ASSUME NEW t \in Threads, Evict(t) PROVE OnePlace'
  <2>1. CASE StartEviction(t) \/ ClearZone(t) \/ ReadersGone(t) \/ ResetAborts(t) \/ ClearZoneAborts(t)
    <3>1. PICK to : pc' = [pc EXCEPT ![t] = to] /\ to # "policy" /\ pc[t] # "policy"
      <4>1. pc = [pc EXCEPT ![t] = pc[t]]
        BY DEF TypeOK
      <4>2. QED
        BY <2>1, <4>1
           DEF StartEviction, ClearZone, ReadersGone, ResetAborts, ClearZoneAborts, Goto, Back
    <3>2. UNCHANGED <<location, lru_queue, zone_to_lru_map, victim>>
      BY <2>1
         DEF StartEviction, ClearZone, ReadersGone, ResetAborts, ClearZoneAborts, policyVars,
             evictVars
    <3>3. QED
      BY <3>1, <3>2, FillingKept, OnePlaceKept
  <2>2. CASE PickVictim(t)
    <3>1. PICK to : pc' = [pc EXCEPT ![t] = to] /\ to # "policy" /\ pc[t] # "policy"
      BY <2>2 DEF PickVictim, Goto, Back
    <3>2. UNCHANGED location
      BY <2>2 DEF PickVictim
    <3>3. Filling' = Filling
      BY <3>1, <3>2, FillingKept
    <3>4. CASE UNCHANGED <<policyVars, victim>>
      BY <3>2, <3>3, <3>4, OnePlaceKept DEF policyVars
    <3>5. ASSUME NEW z \in Zones, P!GetZoneToEvict(z), victim' = [victim EXCEPT ![t] = z]
          PROVE  OnePlace'
      <4>1. /\ lru_queue' \in Seq(Zones) /\ P!NodesExact' /\ z \in zone_to_lru_map
            /\ zone_to_lru_map' = zone_to_lru_map \ {z}
        BY <3>5, PickSound, QueuedZones DEF OnePlace, P!GetZoneToEvict
      <4>2. \A u \in Threads : victim'[u] = IF u = t THEN z ELSE victim[u]
        BY <3>5 DEF TypeOK
      <4>3. \A w \in Filling : location[w].zone # z
        BY <4>1 DEF OnePlace
      <4>4. \A u \in Threads : victim[u] # z
        BY <4>1 DEF OnePlace
      <4>5. QED
        BY <3>2, <3>3, <4>1, <4>2, <4>3, <4>4 DEF OnePlace
    <3>6. QED
      BY <2>2, <3>4, <3>5 DEF PickVictim
  <2>3. CASE ResetZone(t)
    <3>1. PICK to : pc' = [pc EXCEPT ![t] = to] /\ to # "policy" /\ pc[t] # "policy"
      <4>1. /\ pc' = [pc EXCEPT ![t] = IF todo[t] = 1 THEN Back(t) ELSE "fg_loop"]
            /\ pc[t] = "fg_reset"
        BY <2>3 DEF ResetZone, Goto
      <4>2. Back(t) # "policy"
        BY DEF Back
      <4>3. QED
        BY <4>1, <4>2
    <3>2. UNCHANGED <<location, lru_queue, zone_to_lru_map>>
      BY <2>3 DEF ResetZone, policyVars
    <3>3. Filling' = Filling
      BY <3>1, <3>2, FillingKept
    <3>4. \A u \in Threads : victim'[u] = IF u = t THEN NoZone ELSE victim[u]
      BY <2>3 DEF ResetZone, TypeOK
    <3>5. NoZone \notin zone_to_lru_map
      BY QueuedZones, ZNCacheAssumption
    <3>6. \A w \in Filling : location[w].zone # NoZone
      BY ZNCacheAssumption DEF Filling, TypeOK, StepsShaped, Pairs
    <3>7. P!NodesExact'
      BY <3>2 DEF OnePlace, P!NodesExact, P!IsInjective, P!Range
    <3>8. QED
      BY <3>2, <3>3, <3>4, <3>5, <3>6, <3>7 DEF OnePlace
  <2>4. QED
    BY <1>1, <2>1, <2>2, <2>3 DEF Evict
<1>2. ASSUME NEW w \in Workers, Worker(w) \/ SpuriousWakeup(w) PROVE OnePlace'
  <2> w \in Threads
    BY DEF Threads
  <2>1. CASE TakeQuery(w) \/ EndTask(w) \/ Copy(w) \/ Read(w) \/ Write(w) \/ WriteFails(w)
    <3>1. PICK to : pc' = [pc EXCEPT ![w] = to] /\ to # "policy" /\ pc[w] # "policy"
      BY <2>1 DEF TakeQuery, EndTask, Copy, Read, Write, WriteFails, Goto
    <3>2. UNCHANGED <<location, lru_queue, zone_to_lru_map, victim>>
      BY <2>1 DEF TakeQuery, EndTask, Copy, Read, Write, WriteFails, policyVars, evictVars
    <3>3. QED
      BY <3>1, <3>2, FillingKept, OnePlaceKept
  <2>6. CASE SpuriousWakeup(w) \/ CopyGarbage(w)
    <3>1. UNCHANGED <<pc, location, lru_queue, zone_to_lru_map, victim>>
      BY <2>6 DEF SpuriousWakeup, CopyGarbage, policyVars, evictVars
    <3>2. QED
      BY <3>1, OnePlaceKept DEF Filling, LastChunk
  <2>2. CASE \/ Find(w) \/ DecReaders(w) \/ Insert(w)
             \/ GetActiveZone(w) \/ UndoZoneGet(w) \/ UndoMap(w)
    <3>1. PICK to : pc' = [pc EXCEPT ![w] = to] /\ to # "policy" /\ pc[w] # "policy"
      BY <2>2 DEF Find, DecReaders, Insert, GetActiveZone, UndoZoneGet, UndoMap, LeaveGet, Goto
    <3>2. UNCHANGED <<lru_queue, zone_to_lru_map, victim>>
      BY <2>2
         DEF Find, DecReaders, Insert, GetActiveZone, UndoZoneGet, UndoMap, policyVars, evictVars
    <3>3. \A v \in Workers : v # w => location'[v] = location[v]
      BY <2>2 DEF Find, DecReaders, Insert, GetActiveZone, UndoZoneGet, UndoMap, LeaveGet, TypeOK
    <3>4. QED
      BY <3>1, <3>2, <3>3, FillingKept, OnePlaceKept
  <2>3. CASE Touch(w)
    <3>1. pc' = [pc EXCEPT ![w] = "dec"] /\ pc[w] = "touch" /\ UNCHANGED <<location, victim>>
      BY <2>3 DEF Touch, Goto, evictVars
    <3>2. Filling' = Filling
      BY <3>1, FillingKept
    <3>3. lru_queue' \in Seq(Zones) /\ P!NodesExact' /\ UNCHANGED zone_to_lru_map
      BY <2>3, TouchSound DEF Touch, OnePlace
    <3>4. QED
      BY <3>1, <3>2, <3>3 DEF OnePlace
  <2>4. CASE ReturnActiveZone(w)
    <3>1. /\ pc' = [pc EXCEPT ![w] = "policy"] /\ pc[w] = "return"
          /\ UNCHANGED <<location, victim, lru_queue, zone_to_lru_map>>
      BY <2>4 DEF ReturnActiveZone, Goto, evictVars, policyVars
    <3>2. location[w].zone \notin Filled /\ location[w] \in Pairs
      BY <2>4, <3>1, LentNotFilled
         DEF ReturnActiveZone, Z!ReturnActiveZone, TypeOK, StepsShaped, Writing
    <3>3. Filling' \subseteq Filling \union {w} /\ Filling \subseteq Filling' /\ w \notin Filling
      BY <3>1 DEF Filling, TypeOK, Threads
    <3>4. location[w].zone # NoZone
      BY <3>2, ZNCacheAssumption DEF Pairs
    <3>5. /\ \A t \in Threads : victim[t] # location[w].zone
          /\ \A v \in Filling : location[v].zone # location[w].zone
          /\ location[w].zone \notin zone_to_lru_map
      BY <3>2, <3>4, VictimFilled, FillingFilled, QueuedZones
    <3>6. P!NodesExact'
      BY <3>1 DEF OnePlace, P!NodesExact, P!IsInjective, P!Range
    <3>7. QED
      BY <3>1, <3>3, <3>5, <3>6 DEF OnePlace
  <2>5. CASE UpdatePolicy(w)
    <3>1. /\ pc' = [pc EXCEPT ![w] = "insert"] /\ pc[w] = "policy"
          /\ UNCHANGED <<location, victim>> /\ P!UpdateWrite(location[w])
      BY <2>5 DEF UpdatePolicy, Goto, evictVars
    <3>2. location[w] \in Pairs
      BY <3>1 DEF TypeOK, StepsShaped
    <3>3. Filling' = Filling \ {w} /\ (w \in Filling <=> LastChunk(location[w]))
      BY <3>1 DEF Filling, LastChunk, TypeOK, Threads
    <3>4. CASE LastChunk(location[w])
      <4>1. /\ lru_queue' \in Seq(Zones) /\ P!NodesExact'
            /\ zone_to_lru_map' = zone_to_lru_map \union {location[w].zone}
        BY <3>1, <3>2, <3>3, <3>4, UpdateSound DEF OnePlace, P!UpdateWrite, LastChunk
      <4>2. /\ \A t \in Threads : victim[t] # location[w].zone
            /\ \A v \in Filling \ {w} : location[v].zone # location[w].zone
        BY <3>3, <3>4 DEF OnePlace
      <4>3. QED
        BY <3>1, <3>3, <4>1, <4>2 DEF OnePlace
    <3>5. CASE ~LastChunk(location[w])
      <4>1. UNCHANGED <<lru_queue, zone_to_lru_map>>
        BY <3>1, <3>5 DEF P!UpdateWrite, P!policyVars, LastChunk
      <4>2. QED
        BY <3>1, <3>3, <3>5, <4>1, OnePlaceKept
    <3>6. QED
      BY <3>4, <3>5
  <2>7. QED
    BY <1>2, <2>1, <2>6, <2>2, <2>3, <2>4, <2>5 DEF Worker
<1>3. CASE CheckDone \/ CheckFree
  <2>1. PICK to : pc' = [pc EXCEPT ![Evictor] = to] /\ to # "policy" /\ pc[Evictor] # "policy"
    BY <1>3 DEF CheckDone, CheckFree, Goto
  <2>2. UNCHANGED <<location, lru_queue, zone_to_lru_map, victim>> /\ Evictor \in Threads
    BY <1>3 DEF CheckDone, CheckFree, policyVars, evictVars, Threads
  <2>3. QED
    BY <2>1, <2>2, FillingKept, OnePlaceKept
<1>4. CASE UNCHANGED vars
  <2>1. UNCHANGED <<pc, location, lru_queue, zone_to_lru_map, victim>>
    BY <1>4 DEF vars, policyVars, evictVars
  <2>2. QED
    BY <2>1, OnePlaceKept DEF Filling, LastChunk
<1>5. QED
  BY <1>1, <1>2, <1>3, <1>4 DEF Next, Evictions, Terminated, Threads

-----------------------------------------------------------------------------
(* Every step of the cache is a step of the two components, or none.       *)

\* A step that changes neither what a worker holds of a zone nor what it does
\* with the map.
LEMMA Unseen ==
  ASSUME TypeOK, NEW t \in Threads, NEW to, pc' = [pc EXCEPT ![t] = to],
         \A w \in Workers : w # t => data_id'[w] = data_id[w],
         t \in Workers => /\ to \in Writing <=> pc[t] \in Writing
                          /\ RoleAt(to) = RoleAt(pc[t])
                          /\ RoleAt(to) = "idle" \/ data_id'[t] = data_id[t],
         UNCHANGED location
  PROVE  UNCHANGED <<Lent, Role, Arg, Loc>>
<1>1. \A v \in Workers : pc'[v] = IF v = t THEN to ELSE pc[v]
  BY DEF TypeOK, Threads
<1>2. UNCHANGED Lent
  BY <1>1 DEF Lent
<1>3. \A v \in Workers : RoleAt(pc[v])' = RoleAt(pc[v])
  BY <1>1 DEF RoleAt
<1>4. UNCHANGED Role
  BY <1>3 DEF Role
<1>5. \A v \in Workers : Role[v] = RoleAt(pc[v])
  BY DEF Role
<1>6. UNCHANGED <<Arg, Loc>>
  BY <1>4, <1>5 DEF Arg, Loc
<1>7. QED
  BY <1>2, <1>4, <1>6

\* What the two specifications allow, and how a worker uses them.
Used == [Z!Next]_(Z!vars) /\ [M!Next]_(M!vars)

UsedBy(w) ==
  /\ Z!Get(w) \/ Z!GetError(w) \/ Z!Return(w) \/ Z!Fail(w) \/ UNCHANGED Z!vars
  /\ [M!Next]_(M!vars)

\* A step that neither component sees.
LEMMA Unused ==
  ASSUME UNCHANGED <<zsmVars, aborted, mapVars, dangling, undefined, Lent, Filled, Role, Arg, Loc>>
  PROVE  Used /\ \A w : UsedBy(w)
BY ZoneIdle, MapIdle DEF Used, UsedBy

\* Where an eviction round goes next.
LEMMA EvictMoves ==
  ASSUME TypeOK, NEW t \in Threads, Evict(t)
  PROVE  \E to \in EvictSteps \union {Back(t)} :
           pc' = [pc EXCEPT ![t] = to] /\ pc[t] \in EvictSteps
<1>1. pc = [pc EXCEPT ![t] = pc[t]]
  BY DEF TypeOK
<1>2. CASE ResetZone(t)
  <2>1. /\ pc' = [pc EXCEPT ![t] = IF todo[t] = 1 THEN Back(t) ELSE "fg_loop"]
        /\ pc[t] = "fg_reset"
    BY <1>2 DEF ResetZone, Goto
  <2>2. QED
    BY <2>1 DEF EvictSteps, Evicting
<1>3. CASE StartEviction(t)
  <2>1. /\ pc' = [pc EXCEPT ![t] = IF NumFree = LOW THEN Back(t) ELSE "fg_loop"]
        /\ pc[t] = "fg_start"
    BY <1>3 DEF StartEviction, Goto
  <2>2. QED
    BY <2>1 DEF EvictSteps, Evicting
<1>4. CASE PickVictim(t) \/ ClearZone(t) \/ ReadersGone(t) \/ ResetAborts(t) \/ ClearZoneAborts(t)
  BY <1>1, <1>4
     DEF PickVictim, ClearZone, ReadersGone, ResetAborts, ClearZoneAborts, Goto, EvictSteps,
         Evicting
<1>5. QED
  BY <1>2, <1>3, <1>4 DEF Evict

\* The map is told of the zone that is cleared, and the manager is not.
LEMMA ClearUses ==
  ASSUME TypeOK, StepsShaped, NEW t \in Threads, Running, ClearZone(t)
  PROVE  UNCHANGED Z!vars /\ M!Next
<1>1. /\ UNCHANGED <<zsmVars, aborted, undefined, lru_queue, victim, location, data_id>>
      /\ pc[t] = "fg_clear" /\ pc' = [pc EXCEPT ![t] = "fg_spin"]
  BY DEF ClearZone, Goto, policyVars, evictVars, crashVars
<1>2. UNCHANGED <<Lent, Role, Arg, Loc>>
  <2>1. t \in Workers => /\ RoleAt("fg_spin") = "writer" /\ RoleAt("fg_clear") = "writer"
                         /\ "fg_spin" \notin Writing /\ "fg_clear" \notin Writing
    BY RolesAt DEF EvictSteps, Evicting, Writing
  <2>2. QED
    BY <1>1, <2>1, Unseen
<1>3. Filled' = Filled
  BY <1>1, FilledKept DEF Evicting
<1>4. UNCHANGED Z!vars
  BY <1>1, <1>2, <1>3, ZoneIdle
<1>5. victim[t] \in Zones
  BY <1>1 DEF StepsShaped, TypeOK, Evicting
<1>6. M!EvictZone(victim[t])
  <2>1. {w \in Workers : pc[w] = "copy" /\ data_id[w] \in M!IdsIn(victim[t])}
          = {w \in Workers : Role[w] = "copy" /\ Arg[w] \in M!IdsIn(victim[t])}
    <3>1. \A w \in Workers : pc[w] = "copy" <=> Role[w] = "copy"
      BY DEF Role, RoleAt
    <3>2. \A w \in Workers : pc[w] = "copy" => Arg[w] = data_id[w]
      BY <3>1 DEF Arg
    <3>3. QED
      BY <3>1, <3>2
  <2>2. QED
    BY <1>1, <1>2, <2>1 DEF ClearZone, M!EvictZone, M!Freed
<1>7. QED
  BY <1>4, <1>5, <1>6 DEF M!Next, Running, M!Zones, Zones

\* An eviction round uses both components as their specifications allow: it
\* resets a zone it has taken from the policy, and no other round has it.
LEMMA EvictUses ==
  ASSUME TypeOK, Z!ZSMInv, M!MapInv, StepsShaped, OnePlace, NEW t \in Threads, Running, Evict(t)
  PROVE  Used
<1>1. PICK to \in EvictSteps \union {Back(t)} : pc' = [pc EXCEPT ![t] = to] /\ pc[t] \in EvictSteps
  BY EvictMoves
<1>2. UNCHANGED <<location, data_id>>
  BY DEF Evict, StartEviction, PickVictim, ClearZone, ReadersGone, ResetZone, ResetAborts,
         ClearZoneAborts
<1>3. UNCHANGED <<Lent, Role, Arg, Loc>>
  <2>1. t \in Workers => Back(t) = "zone"
    BY ZNCacheAssumption DEF Back
  <2>2. t \in Workers => /\ RoleAt(to) = "writer" /\ RoleAt(pc[t]) = "writer"
                         /\ to \notin Writing /\ pc[t] \notin Writing
    BY <1>1, <2>1, RolesAt DEF EvictSteps, Evicting, Writing
  <2>3. QED
    BY <1>1, <1>2, <2>2, Unseen
<1>4. CASE StartEviction(t) \/ ReadersGone(t)
  <2>1. UNCHANGED <<zsmVars, mapVars, aborted, undefined, dangling, lru_queue, victim>>
    BY <1>4 DEF StartEviction, ReadersGone, policyVars, evictVars, crashVars
  <2>2. pc[t] # "policy" /\ to # "policy" /\ (pc[t] \in Evicting <=> to \in Evicting)
    <3>1. pc'[t] = to
      BY <1>1 DEF TypeOK
    <3>2. CASE StartEviction(t)
      <4>1. /\ pc' = [pc EXCEPT ![t] = IF NumFree = LOW THEN Back(t) ELSE "fg_loop"]
            /\ pc[t] = "fg_start" /\ Back(t) \in {"zone", "evict_task"}
        BY <3>2 DEF StartEviction, Goto, Back
      <4>2. to \in {"zone", "evict_task", "fg_loop"}
        BY <3>1, <4>1 DEF TypeOK
      <4>3. QED
        BY <4>1, <4>2 DEF Evicting
    <3>3. CASE ReadersGone(t)
      BY <3>1, <3>3 DEF ReadersGone, Goto, Evicting, TypeOK
    <3>4. QED
      BY <1>4, <3>2, <3>3
  <2>3. Filled' = Filled
    BY <1>1, <1>2, <2>1, <2>2, FilledKept
  <2>4. QED
    BY <1>3, <2>1, <2>3, Unused
<1>5. CASE PickVictim(t)
  <2>1. UNCHANGED <<zsmVars, mapVars, aborted, undefined, dangling>>
    BY <1>5 DEF PickVictim, crashVars
  <2>2. CASE Goto(t, "fg_loop", Back(t)) /\ UNCHANGED <<policyVars, victim>>
    <3>1. Back(t) \notin Evicting \union {"policy"}
      BY DEF Back, Evicting
    <3>2. Filled' = Filled
      BY <1>2, <2>2, <3>1, FilledKept DEF Goto, policyVars, Evicting
    <3>3. QED
      BY <1>3, <2>1, <3>2, Unused
  <2>3. ASSUME NEW z \in Zones, P!GetZoneToEvict(z), Goto(t, "fg_loop", "fg_clear"),
               victim' = [victim EXCEPT ![t] = z]
        PROVE  Used
    <3>1. z \in Range(lru_queue) /\ Range(lru_queue') = Range(lru_queue) \ {z}
      BY <2>3, PickSound DEF OnePlace
    <3>2. Filling' = Filling
      BY <1>2, <2>3, FillingKept DEF Goto
    <3>3. /\ \A u \in Threads : pc'[u] \in Evicting <=> u = t \/ pc[u] \in Evicting
          /\ \A u \in Threads : victim'[u] = IF u = t THEN z ELSE victim[u]
          /\ pc[t] \notin Evicting
      BY <2>3 DEF Goto, TypeOK, Evicting
    <3>4. {victim'[u] : u \in {v \in Threads : pc'[v] \in Evicting}}
            = {victim[u] : u \in {v \in Threads : pc[v] \in Evicting}} \union {z}
      BY <3>3
    <3>5. Filled' = Filled
      BY <1>2, <3>1, <3>2, <3>4 DEF Filled
    <3>6. QED
      BY <1>3, <2>1, <3>5, Unused
  <2>4. QED
    BY <1>5, <2>2, <2>3 DEF PickVictim, policyVars
<1>6. CASE ClearZone(t)
  BY <1>6, ClearUses DEF Used
<1>7. CASE ResetZone(t)
  <2>1. /\ UNCHANGED <<mapVars, aborted, undefined, dangling, lru_queue>>
        /\ pc[t] = "fg_reset" /\ to \notin Evicting \union {"policy"}
        /\ victim' = [victim EXCEPT ![t] = NoZone] /\ Z!Evict(victim[t])
    <3>1. pc' = [pc EXCEPT ![t] = IF todo[t] = 1 THEN Back(t) ELSE "fg_loop"]
      BY <1>7 DEF ResetZone, Goto
    <3>2. pc'[t] = to /\ pc'[t] \in {Back(t), "fg_loop"}
      BY <1>1, <3>1 DEF TypeOK
    <3>3. Back(t) \notin Evicting \union {"policy"}
      BY DEF Back, Evicting
    <3>4. QED
      BY <1>7, <3>2, <3>3 DEF ResetZone, Goto, policyVars, crashVars, Evicting
  <2>2. [M!Next]_(M!vars)
    BY <1>3, <2>1, MapIdle
  <2>3. victim[t] \in Zones /\ victim[t] \in Filled /\ victim[t] # NoZone
    BY <2>1, FilledCases DEF StepsShaped, TypeOK, Evicting
  <2>4. Filled' = Filled \ {victim[t]}
    <3>1. Filling' = Filling
      BY <1>1, <1>2, <2>1, FillingKept DEF EvictSteps, Evicting
    <3>2. /\ \A u \in Threads : pc'[u] \in Evicting <=> u # t /\ pc[u] \in Evicting
          /\ \A u \in Threads : u # t => victim'[u] = victim[u]
      BY <1>1, <2>1 DEF TypeOK
    <3>3. {victim'[u] : u \in {v \in Threads : pc'[v] \in Evicting}}
            = {victim[u] : u \in {v \in Threads : pc[v] \in Evicting}} \ {victim[t]}
      <4>1. \A u \in Threads : u # t /\ pc[u] \in Evicting => victim[u] # victim[t]
        BY <2>3 DEF OnePlace
      <4>2. QED
        BY <3>2, <4>1, <2>1 DEF Evicting
    <3>4. victim[t] \notin Range(lru_queue)
      BY QueuedZones DEF OnePlace
    <3>5. victim[t] \notin {location[w].zone : w \in Filling}
      BY DEF OnePlace
    <3>6. QED
      BY <1>2, <2>1, <3>1, <3>3, <3>4, <3>5 DEF Filled
  <2>5. Z!EvictZone(victim[t])
    BY <1>3, <2>1, <2>3, <2>4 DEF Z!EvictZone
  <2>6. Z!Next
    BY <2>3, <2>5 DEF Z!Next, Running, Z!Zones, Zones
  <2>7. QED
    BY <2>2, <2>6 DEF Used
<1>8. CASE ResetAborts(t)
  <2>1. /\ UNCHANGED <<zsmVars, mapVars, undefined, dangling, pc, victim, lru_queue>>
        /\ pc[t] = "fg_reset" /\ aborted' = TRUE /\ Z!EvictAborts(victim[t])
    BY <1>8 DEF ResetAborts, policyVars, evictVars
  <2>2. [M!Next]_(M!vars)
    BY <1>3, <2>1, MapIdle
  <2>3. victim[t] \in Zones /\ victim[t] \in Filled
    BY <2>1, FilledCases DEF StepsShaped, TypeOK, Evicting
  <2>4. Filled' = Filled
    BY <1>2, <2>1 DEF Filled, Filling, LastChunk
  <2>5. Z!EvictAbort(victim[t])
    BY <1>3, <2>1, <2>3, <2>4 DEF Z!EvictAbort, Z!Abort, Z!clientVars, zsmVars, Z!zsmVars
  <2>6. Z!Next
    BY <2>3, <2>5 DEF Z!Next, Running, Z!Zones, Zones
  <2>7. QED
    BY <2>2, <2>6 DEF Used
<1>9. CASE ClearZoneAborts(t)
  <2>1. UNCHANGED <<zsmVars, mapVars, aborted, undefined, dangling, pc, victim, lru_queue>>
    BY <1>9 DEF ClearZoneAborts, policyVars, evictVars
  <2>2. Filled' = Filled
    BY <1>2, <2>1 DEF Filled, Filling, LastChunk
  <2>3. QED
    BY <1>3, <2>1, <2>2, Unused
<1>10. QED
  BY <1>4, <1>5, <1>6, <1>7, <1>8, <1>9 DEF Evict

\* A lookup is one turn of the map's lookup.
LEMMA FindUses ==
  ASSUME TypeOK, StepsShaped, NEW w \in Workers, Running, Find(w)
  PROVE  UsedBy(w)
<1>1. /\ UNCHANGED <<zsmVars, aborted, undefined, dangling, data_id, lru_queue, victim>>
      /\ pc[w] \in {"find", "wait"} /\ w \notin asleep /\ w \in Threads
  BY DEF Find, policyVars, evictVars, crashVars, Threads
<1>2. data_id[w] \in DataIds /\ location[w] = NoPair
  BY <1>1 DEF StepsShaped, TypeOK, Writing
<1>3. PICK to \in {"copy", "wait", "zone"}, pair \in Pairs \union {NoPair} :
        /\ pc' = [pc EXCEPT ![w] = to] /\ location' = [location EXCEPT ![w] = pair]
        /\ \/ to = "copy" /\ pair \in Pairs /\ M!FindHit(w, data_id[w], pair)
           \/ to = "wait" /\ pair = NoPair /\ M!FindSleep(w, data_id[w])
           \/ to = "zone" /\ pair = NoPair /\ M!FindMiss(w, data_id[w])
  <2>1. CASE \E pair \in Pairs : /\ M!FindHit(w, data_id[w], pair) /\ Goto(w, pc[w], "copy")
                                 /\ location' = [location EXCEPT ![w] = pair]
    BY <2>1 DEF Goto
  <2>2. CASE /\ M!FindSleep(w, data_id[w]) \/ M!FindMiss(w, data_id[w])
             /\ Goto(w, pc[w], IF M!FindSleep(w, data_id[w]) THEN "wait" ELSE "zone") 
             /\ UNCHANGED location
    BY <1>2, <2>2, Frame DEF Goto
  <2>3. QED
    BY <1>2, <2>1, <2>2, Frame DEF Find, Goto
<1>4. data_id' = [data_id EXCEPT ![w] = data_id[w]]
  BY <1>1, Frame
<1>5. /\ to \notin Writing
      /\ RoleAt(to) = IF to = "copy" THEN "copy" ELSE IF to = "wait" THEN "find" ELSE "writer"
  BY RolesAt DEF Writing
<1>6. /\ Lent' = [Lent EXCEPT ![w] = NoPair]
      /\ Role' = [Role EXCEPT ![w] = RoleAt(to)]
      /\ Arg' = [Arg EXCEPT ![w] = data_id[w]]
      /\ Loc' = [Loc EXCEPT ![w] = pair]
  <2>1. /\ Lent' = [Lent EXCEPT ![w] = IF to \in Writing THEN pair ELSE NoPair]
        /\ Role' = [Role EXCEPT ![w] = RoleAt(to)]
        /\ Arg' = [Arg EXCEPT ![w] = IF RoleAt(to) = "idle" THEN NoId ELSE data_id[w]]
        /\ Loc' = [Loc EXCEPT ![w] = IF RoleAt(to) \in {"copy", "reader"} THEN pair ELSE NoPair]
    BY <1>3, <1>4, Views
  <2>2. QED
    BY <2>1, <1>3, <1>5
<1>7. UNCHANGED Lent
  BY <1>1, <1>6 DEF Lent, Writing
<1>8. Filled' = Filled
  <2>1. \A v \in Workers : v # w => location'[v] = location[v]
    BY <1>3 DEF TypeOK
  <2>2. to \notin Evicting \union {"policy"} /\ pc[w] \notin Evicting \union {"policy"}
    BY <1>1 DEF Evicting
  <2>3. QED
    BY <1>1, <1>3, <2>1, <2>2, FilledKept
<1>9. M!Find(w, data_id[w])
  BY <1>1, <1>3, <1>5, <1>6 DEF M!Find, M!Become, M!Pairs, M!Zones, M!Chunks, Pairs, Zones, Chunks
<1>10. CASE pc[w] = "find"
  <2>1. M!Begin(w)
    BY <1>2, <1>9, <1>10, RolesAt DEF M!Begin, Role
  <2>2. QED
    BY <1>1, <1>7, <1>8, <2>1, ZoneIdle DEF UsedBy, M!Next, Running
<1>11. CASE pc[w] = "wait"
  <2>1. Role[w] = "find" /\ Arg[w] = data_id[w]
    BY <1>11, RolesAt DEF Role, Arg
  <2>2. M!Retry(w)
    BY <1>1, <1>9, <2>1 DEF M!Retry
  <2>3. QED
    BY <1>1, <1>7, <1>8, <2>2, ZoneIdle DEF UsedBy, M!Next, Running
<1>12. QED
  BY <1>1, <1>10, <1>11

\* The ways out of zn_cache_get.
LEMMA LeaveUses ==
  ASSUME TypeOK, StepsShaped, NEW w \in Workers, Running,
         DecReaders(w) \/ Insert(w) \/ UndoMap(w)
  PROVE  UsedBy(w)
<1>1. /\ UNCHANGED <<zsmVars, aborted, undefined, dangling, lru_queue, victim>>
      /\ pc[w] \in {"dec", "insert", "undo_map"} /\ w \in Threads
  BY DEF DecReaders, Insert, UndoMap, LeaveGet, Goto, policyVars, evictVars, crashVars, Threads
<1>2. PICK to \in {"stopped", "idle"} :
        /\ pc' = [pc EXCEPT ![w] = to] /\ location' = [location EXCEPT ![w] = NoPair]
        /\ data_id' = [data_id EXCEPT ![w] = NoId]
  BY DEF DecReaders, Insert, UndoMap, LeaveGet, Goto
<1>3. to \notin Writing /\ RoleAt(to) = "idle"
  BY RolesAt DEF Writing
<1>4. /\ Lent' = [Lent EXCEPT ![w] = NoPair]
      /\ Role' = [Role EXCEPT ![w] = "idle"]
      /\ Arg' = [Arg EXCEPT ![w] = NoId]
      /\ Loc' = [Loc EXCEPT ![w] = NoPair]
  <2>1. /\ Lent' = [Lent EXCEPT ![w] = IF to \in Writing THEN NoPair ELSE NoPair]
        /\ Role' = [Role EXCEPT ![w] = RoleAt(to)]
        /\ Arg' = [Arg EXCEPT ![w] = IF RoleAt(to) = "idle" THEN NoId ELSE NoId]
        /\ Loc' = [Loc EXCEPT ![w] = IF RoleAt(to) \in {"copy", "reader"} THEN NoPair ELSE NoPair]
    BY <1>2, Views
  <2>2. QED
    BY <2>1, <1>3
<1>5. UNCHANGED Lent
  BY <1>1, <1>4 DEF Lent, Writing
<1>6. Filled' = Filled
  BY <1>1, <1>2, FilledKept DEF Evicting, TypeOK
<1>7. M!Become(w, "idle", NoId, NoPair)
  BY <1>4 DEF M!Become
<1>8. CASE DecReaders(w)
  <2>1. Role[w] = "reader" /\ Loc[w] = location[w]
    BY <1>8, RolesAt DEF DecReaders, LeaveGet, Goto, Role, Loc
  <2>2. M!Release(w)
    BY <1>1, <1>7, <1>8, <2>1 DEF M!Release, DecReaders
  <2>3. QED
    BY <1>1, <1>5, <1>6, <2>2, ZoneIdle DEF UsedBy, M!Next, Running
<1>9. CASE Insert(w)
  <2>1. Role[w] = "writer" /\ Arg[w] = data_id[w] /\ pc[w] = "insert"
    BY <1>9, RolesAt DEF Insert, LeaveGet, Goto, Role, Arg
  <2>2. location[w] \in Pairs
    BY <2>1 DEF StepsShaped, TypeOK
  <2>3. M!Publish(w)
    BY <1>1, <1>7, <1>9, <2>1, <2>2
       DEF M!Publish, Insert, M!Pairs, M!Zones, M!Chunks, Pairs, Zones, Chunks
  <2>4. QED
    BY <1>1, <1>5, <1>6, <2>3, ZoneIdle DEF UsedBy, M!Next, Running
<1>10. CASE UndoMap(w)
  <2>1. Role[w] = "writer" /\ Arg[w] = data_id[w]
    BY <1>10, RolesAt DEF UndoMap, LeaveGet, Goto, Role, Arg
  <2>2. M!GiveUp(w)
    BY <1>1, <1>7, <1>10, <2>1 DEF M!GiveUp, UndoMap
  <2>3. QED
    BY <1>1, <1>5, <1>6, <2>2, ZoneIdle DEF UsedBy, M!Next, Running
<1>11. QED
  BY <1>8, <1>9, <1>10

\* Steps between two calls into the components.
LEMMA PlainUses ==
  ASSUME TypeOK, M!MapInv, StepsShaped, OnePlace, NEW w \in Workers, Running,
         \/ TakeQuery(w) \/ EndTask(w) \/ Read(w) \/ Touch(w) \/ Write(w) \/ WriteFails(w)
         \/ UpdatePolicy(w)
  PROVE  UsedBy(w)
<1>1. /\ UNCHANGED <<zsmVars, mapVars, aborted, undefined, dangling, location, victim>>
      /\ w \in Threads
  BY DEF TakeQuery, EndTask, Read, Touch, Write, WriteFails, UpdatePolicy, evictVars, crashVars,
         Threads
<1>2. PICK to : /\ pc' = [pc EXCEPT ![w] = to] /\ to # "policy"
                /\ to \notin Evicting /\ pc[w] \notin Evicting
                /\ to \in Writing <=> pc[w] \in Writing
                /\ RoleAt(to) = RoleAt(pc[w])
                /\ RoleAt(to) = "idle" \/ UNCHANGED data_id
                /\ \A v \in Workers : v # w => data_id'[v] = data_id[v]
  <2>1. CASE TakeQuery(w)
    <3>1. pc' = [pc EXCEPT ![w] = "find"] /\ pc[w] = "idle"
      BY <2>1 DEF TakeQuery, Goto
    <3>2. \A v \in Workers : v # w => data_id'[v] = data_id[v]
      BY <2>1 DEF TakeQuery, TypeOK
    <3>3. QED
      BY <3>1, <3>2, RolesAt DEF Writing, Evicting
  <2>2. CASE EndTask(w)
    BY <2>2, RolesAt DEF EndTask, Goto, Writing, Evicting
  <2>3. CASE Read(w)
    BY <2>3, RolesAt DEF Read, Goto, Writing, Evicting
  <2>4. CASE Touch(w)
    BY <2>4, RolesAt DEF Touch, Goto, Writing, Evicting
  <2>5. CASE Write(w)
    BY <2>5, RolesAt DEF Write, Goto, Writing, Evicting
  <2>6. CASE WriteFails(w)
    BY <2>6, RolesAt DEF WriteFails, Goto, Writing, Evicting
  <2>7. CASE UpdatePolicy(w)
    BY <2>7, RolesAt DEF UpdatePolicy, Goto, Writing, Evicting
  <2>8. QED
    BY <2>1, <2>2, <2>3, <2>4, <2>5, <2>6, <2>7
<1>3. UNCHANGED <<Lent, Role, Arg, Loc>>
  BY <1>1, <1>2, Unseen
<1>4. {victim'[u] : u \in {v \in Threads : pc'[v] \in Evicting}}
        = {victim[u] : u \in {v \in Threads : pc[v] \in Evicting}}
  <2>1. \A u \in Threads : pc'[u] \in Evicting <=> pc[u] \in Evicting
    BY <1>2 DEF TypeOK
  <2>2. QED
    BY <1>1, <2>1
<1>5. Filled' = Filled
  <2>1. CASE UpdatePolicy(w)
    <3>1. location[w] \in Pairs /\ pc[w] = "policy" /\ P!UpdateWrite(location[w])
      BY <2>1 DEF UpdatePolicy, Goto, StepsShaped, TypeOK
    <3>2. Filling' = Filling \ {w} /\ (w \in Filling <=> LastChunk(location[w]))
      BY <1>1, <1>2, <3>1 DEF Filling, LastChunk, TypeOK, Threads
    <3>3. location[w].zone \notin zone_to_lru_map \/ w \notin Filling
      BY DEF OnePlace
    <3>4. Range(lru_queue') = IF w \in Filling THEN Range(lru_queue) \union {location[w].zone}
                              ELSE Range(lru_queue)
      <4>1. CASE w \in Filling
        BY <3>1, <3>2, <3>3, <4>1, UpdateSound DEF OnePlace
      <4>2. CASE w \notin Filling
        BY <3>1, <3>2, <4>2 DEF P!UpdateWrite, P!policyVars, LastChunk
      <4>3. QED
        BY <4>1, <4>2
    <3>5. {location[v].zone : v \in Filling}
            = {location[v].zone : v \in Filling \ {w}}
                \union IF w \in Filling THEN {location[w].zone} ELSE {}
      OBVIOUS
    <3>6. QED
      BY <1>1, <1>4, <3>2, <3>4, <3>5 DEF Filled
  <2>2. CASE Touch(w)
    <3>1. Range(lru_queue') = Range(lru_queue)
      BY <2>2, TouchSound DEF Touch, OnePlace
    <3>2. Filling' = Filling
      BY <1>1, <1>2, <2>2, FillingKept DEF Touch, Goto
    <3>3. QED
      BY <1>1, <1>4, <3>1, <3>2 DEF Filled
  <2>3. CASE UNCHANGED lru_queue /\ pc[w] # "policy"
    BY <1>1, <1>2, <2>3, FilledKept
  <2>4. QED
    BY <2>1, <2>2, <2>3 DEF TakeQuery, EndTask, Read, Write, WriteFails, Goto, policyVars
<1>6. QED
  BY <1>1, <1>3, <1>5, Unused

\* So is the copy of the location after the lookup, from an entry that is still
\* there or one that was freed.
LEMMA CopyUses ==
  ASSUME TypeOK, StepsShaped, NEW w \in Workers, Running,
         Copy(w) \/ CopyGarbage(w) \/ SpuriousWakeup(w)
  PROVE  UsedBy(w)
<1>1. /\ UNCHANGED <<zsmVars, aborted, location, data_id, lru_queue, victim>> /\ w \in Threads
  BY DEF Copy, CopyGarbage, SpuriousWakeup, policyVars, evictVars, crashVars, Threads
<1>2. CASE Copy(w)
  <2>1. pc' = [pc EXCEPT ![w] = "read"] /\ pc[w] = "copy" /\ UNCHANGED <<mapVars, undefined>>
    BY <1>2 DEF Copy, Goto, crashVars
  <2>2. /\ Lent' = [Lent EXCEPT ![w] = NoPair] /\ Role' = [Role EXCEPT ![w] = "reader"]
        /\ Arg' = [Arg EXCEPT ![w] = data_id[w]] /\ Loc' = [Loc EXCEPT ![w] = location[w]]
    <3>1. RoleAt("read") = "reader" /\ "read" \notin Writing
      BY RolesAt DEF Writing
    <3>2. /\ location' = [location EXCEPT ![w] = location[w]]
          /\ data_id' = [data_id EXCEPT ![w] = data_id[w]]
      BY <1>1, Frame
    <3>3. /\ Lent' = [Lent EXCEPT ![w] = IF "read" \in Writing THEN location[w] ELSE NoPair]
          /\ Role' = [Role EXCEPT ![w] = RoleAt("read")]
          /\ Arg' = [Arg EXCEPT ![w] = IF RoleAt("read") = "idle" THEN NoId ELSE data_id[w]]
          /\ Loc' = [Loc EXCEPT ![w] =
                       IF RoleAt("read") \in {"copy", "reader"} THEN location[w] ELSE NoPair]
      BY <2>1, <3>2, Views
    <3>4. QED
      BY <3>1, <3>3
  <2>3. UNCHANGED Lent
    BY <2>1, <2>2 DEF Lent, Writing
  <2>4. Filled' = Filled
    BY <1>1, <2>1, FilledKept DEF Evicting
  <2>5. Role[w] = "copy" /\ Arg[w] = data_id[w] /\ Loc[w] = location[w]
    BY <2>1, RolesAt DEF Role, Arg, Loc
  <2>6. M!Copy(w)
    BY <1>2, <2>1, <2>2, <2>5 DEF M!Copy, M!Become, Copy, mapVars, M!mapVars
  <2>7. QED
    BY <1>1, <2>3, <2>4, <2>6, ZoneIdle DEF UsedBy, M!Next, Running
<1>3. CASE CopyGarbage(w) \/ SpuriousWakeup(w)
  <2>1. UNCHANGED pc
    BY <1>3 DEF CopyGarbage, SpuriousWakeup
  <2>2. UNCHANGED <<Lent, Role, Arg, Loc, Filled>>
    BY <1>1, <2>1 DEF Lent, Role, Arg, Loc, Filled, Filling, LastChunk, RoleAt
  <2>3. M!CopyGarbage(w) \/ M!Spurious(w)
    <3>1. CASE CopyGarbage(w)
      <4>1. Role[w] = "copy" /\ w \in dangling
        BY <3>1, RolesAt DEF CopyGarbage, Role
      <4>2. QED
        BY <2>2, <3>1, <4>1 DEF CopyGarbage, M!CopyGarbage, mapVars, M!mapVars, M!clientVars
    <3>2. CASE SpuriousWakeup(w)
      BY <2>2, <3>2 DEF SpuriousWakeup, M!Spurious, M!clientVars, crashVars
    <3>3. QED
      BY <1>3, <3>1, <3>2
  <2>4. QED
    BY <1>1, <2>2, <2>3, ZoneIdle DEF UsedBy, M!Next, Running
<1>4. QED
  BY <1>2, <1>3

\* What a worker's step does to the zones lent, when the map is none of its
\* business.
LEMMA Lending ==
  ASSUME TypeOK, NEW w \in Workers, NEW to, NEW pair, pc' = [pc EXCEPT ![w] = to],
         location' = [location EXCEPT ![w] = pair], UNCHANGED data_id,
         RoleAt(to) = "writer", RoleAt(pc[w]) = "writer"
  PROVE  /\ Lent' = [Lent EXCEPT ![w] = IF to \in Writing THEN pair ELSE NoPair]
         /\ UNCHANGED <<Role, Arg, Loc>>
<1>1. data_id' = [data_id EXCEPT ![w] = data_id[w]]
  BY Frame
<1>2. /\ Lent' = [Lent EXCEPT ![w] = IF to \in Writing THEN pair ELSE NoPair]
      /\ Role' = [Role EXCEPT ![w] = RoleAt(to)]
      /\ Arg' = [Arg EXCEPT ![w] = IF RoleAt(to) = "idle" THEN NoId ELSE data_id[w]]
      /\ Loc' = [Loc EXCEPT ![w] = IF RoleAt(to) \in {"copy", "reader"} THEN pair ELSE NoPair]
  BY <1>1, Views
<1>3. /\ Role' = [Role EXCEPT ![w] = "writer"] /\ Arg' = [Arg EXCEPT ![w] = data_id[w]]
      /\ Loc' = [Loc EXCEPT ![w] = NoPair]
  BY <1>2
<1>4. Role[w] = "writer"
  BY DEF Role
<1>5. Arg[w] = data_id[w] /\ Loc[w] = NoPair
  BY <1>4 DEF Arg, Loc
<1>6. UNCHANGED <<Role, Arg, Loc>>
  BY <1>3, <1>4, <1>5 DEF Role, Arg, Loc
<1>7. QED
  BY <1>2, <1>6

\* A worker asks for a zone only when it has none.
LEMMA GetUses ==
  ASSUME TypeOK, StepsShaped, NEW w \in Workers, Running, GetActiveZone(w)
  PROVE  UsedBy(w)
<1>1. /\ UNCHANGED <<mapVars, aborted, undefined, dangling, data_id, lru_queue, victim>>
      /\ pc[w] = "zone" /\ w \in Threads
  BY DEF GetActiveZone, Goto, policyVars, evictVars, crashVars, Threads
<1>2. Lent[w] = NoPair /\ location[w] = NoPair /\ RoleAt(pc[w]) = "writer"
  BY <1>1, RolesAt DEF Lent, Writing, StepsShaped, TypeOK
<1>3. ASSUME NEW to \in {"write", "undo_map", "fg_start"}, NEW pair,
             pc' = [pc EXCEPT ![w] = to], location' = [location EXCEPT ![w] = pair]
      PROVE  /\ Filled' = Filled /\ UNCHANGED <<Role, Arg, Loc>>
             /\ Lent' = [Lent EXCEPT ![w] = IF to = "write" THEN pair ELSE NoPair]
  <2>1. RoleAt(to) = "writer" /\ (to \in Writing <=> to = "write")
    BY RolesAt DEF Writing, EvictSteps
  <2>2. /\ Lent' = [Lent EXCEPT ![w] = IF to \in Writing THEN pair ELSE NoPair]
        /\ UNCHANGED <<Role, Arg, Loc>>
    BY <1>1, <1>2, <1>3, <2>1, Lending
  <2>3. Filled' = Filled
    BY <1>1, <1>3, FilledKept DEF Evicting, TypeOK
  <2>4. QED
    BY <2>1, <2>2, <2>3
<1>4. ASSUME NEW pair \in Pairs, Z!ReuseActiveZone(pair) \/ Z!OpenFreeZone(pair),
             Goto(w, "zone", "write"), location' = [location EXCEPT ![w] = pair]
      PROVE  UsedBy(w)
  <2>1. /\ Filled' = Filled /\ UNCHANGED <<Role, Arg, Loc>>
        /\ Lent' = [Lent EXCEPT ![w] = pair]
    BY <1>3, <1>4 DEF Goto
  <2>2. Z!Get(w)
    BY <1>1, <1>2, <1>4, <2>1 DEF Z!Get, Z!Pairs, Z!Zones, Pairs, Zones, Chunks
  <2>3. QED
    BY <1>1, <2>1, <2>2, MapIdle DEF UsedBy
<1>5. CASE Z!OpenFails /\ Goto(w, "zone", "undo_map") /\ UNCHANGED location
  <2>1. location' = [location EXCEPT ![w] = NoPair]
    BY <1>2, <1>5, Frame
  <2>2. /\ Filled' = Filled /\ UNCHANGED <<Role, Arg, Loc>>
        /\ Lent' = [Lent EXCEPT ![w] = NoPair]
    BY <1>3, <1>5, <2>1 DEF Goto
  <2>3. UNCHANGED Lent
    BY <1>2, <2>2 DEF Lent
  <2>4. Z!GetError(w)
    BY <1>1, <1>2, <1>5, <2>2, <2>3 DEF Z!GetError, Z!clientVars
  <2>5. QED
    BY <1>1, <2>2, <2>4, MapIdle DEF UsedBy
<1>6. CASE Goto(w, "zone", "fg_start") /\ UNCHANGED <<zsmVars, location>>
  <2>1. location' = [location EXCEPT ![w] = NoPair]
    BY <1>2, <1>6, Frame
  <2>2. /\ Filled' = Filled /\ UNCHANGED <<Role, Arg, Loc>>
        /\ Lent' = [Lent EXCEPT ![w] = NoPair]
    BY <1>3, <1>6, <2>1 DEF Goto
  <2>3. UNCHANGED Lent
    BY <1>2, <2>2 DEF Lent
  <2>4. QED
    BY <1>1, <1>6, <2>2, <2>3, Unused
<1>7. QED
  BY <1>4, <1>5, <1>6 DEF GetActiveZone

\* A worker gives back the chunk it was lent, and only then is a zone full.
LEMMA ReturnUses ==
  ASSUME TypeOK, StepsShaped, NEW w \in Workers, Running, ReturnActiveZone(w)
  PROVE  UsedBy(w)
<1>1. /\ UNCHANGED <<mapVars, aborted, undefined, dangling, data_id, location, lru_queue, victim>>
      /\ pc[w] = "return" /\ pc' = [pc EXCEPT ![w] = "policy"] /\ w \in Threads
      /\ Z!ReturnActiveZone(location[w])
  BY DEF ReturnActiveZone, Goto, policyVars, evictVars, crashVars, Threads
<1>2. Lent[w] = location[w] /\ location[w] \in Pairs /\ location[w] # NoPair
  BY <1>1 DEF Lent, Writing, StepsShaped, TypeOK
<1>3. RoleAt("return") = "writer" /\ RoleAt("policy") = "writer" /\ "policy" \notin Writing
  BY RolesAt DEF Writing
<1>4. Lent' = [Lent EXCEPT ![w] = NoPair] /\ UNCHANGED <<Role, Arg, Loc>>
  <2>1. location' = [location EXCEPT ![w] = location[w]]
    BY <1>1, Frame
  <2>2. /\ Lent' = [Lent EXCEPT ![w] = IF "policy" \in Writing THEN location[w] ELSE NoPair]
        /\ UNCHANGED <<Role, Arg, Loc>>
    BY <1>1, <1>3, <2>1, Lending
  <2>3. QED
    BY <1>3, <2>2
<1>5. Filled' = IF LastChunk(location[w]) THEN Filled \union {location[w].zone} ELSE Filled
  <2>1. {victim'[u] : u \in {v \in Threads : pc'[v] \in Evicting}}
          = {victim[u] : u \in {v \in Threads : pc[v] \in Evicting}}
    <3>1. \A u \in Threads : pc'[u] \in Evicting <=> pc[u] \in Evicting
      BY <1>1 DEF TypeOK, Evicting
    <3>2. QED
      BY <1>1, <3>1
  <2>2. Filling' = IF LastChunk(location[w]) THEN Filling \union {w} ELSE Filling
    BY <1>1 DEF Filling, LastChunk, TypeOK, Threads
  <2>3. QED
    BY <1>1, <2>1, <2>2 DEF Filled
<1>6. Z!Return(w)
  BY <1>1, <1>2, <1>4, <1>5 DEF Z!Return, LastChunk
<1>7. QED
  BY <1>1, <1>4, <1>6, MapIdle DEF UsedBy

\* So it does after a failed write.
LEMMA UndoUses ==
  ASSUME TypeOK, StepsShaped, NEW w \in Workers, Running, UndoZoneGet(w)
  PROVE  UsedBy(w)
<1>1. /\ UNCHANGED <<mapVars, aborted, undefined, dangling, data_id, lru_queue, victim>>
      /\ pc[w] = "undo_zone" /\ pc' = [pc EXCEPT ![w] = "undo_map"] /\ w \in Threads
      /\ Z!FailedToWrite(location[w]) /\ location' = [location EXCEPT ![w] = NoPair]
  BY DEF UndoZoneGet, Goto, policyVars, evictVars, crashVars, Threads
<1>2. Lent[w] = location[w] /\ location[w] # NoPair
  BY <1>1 DEF Lent, Writing, StepsShaped
<1>3. /\ RoleAt("undo_zone") = "writer" /\ RoleAt("undo_map") = "writer"
      /\ "undo_map" \notin Writing
  BY RolesAt DEF Writing
<1>4. Lent' = [Lent EXCEPT ![w] = NoPair] /\ UNCHANGED <<Role, Arg, Loc>>
  <2>1. /\ Lent' = [Lent EXCEPT ![w] = IF "undo_map" \in Writing THEN NoPair ELSE NoPair]
        /\ UNCHANGED <<Role, Arg, Loc>>
    BY <1>1, <1>3, Lending
  <2>2. QED
    BY <2>1
<1>5. Filled' = Filled
  BY <1>1, FilledKept DEF Evicting, TypeOK
<1>6. Z!Fail(w)
  BY <1>1, <1>2, <1>4, <1>5 DEF Z!Fail
<1>7. QED
  BY <1>1, <1>4, <1>6, MapIdle DEF UsedBy

\* The eviction thread's own loop uses neither component.
LEMMA EvictorUses ==
  ASSUME TypeOK, CheckDone \/ CheckFree
  PROVE  Used
<1>1. /\ UNCHANGED <<zsmVars, mapVars, aborted, undefined, dangling, data_id, location>>
      /\ UNCHANGED <<lru_queue, victim>>
      /\ Evictor \in Threads /\ Evictor \notin Workers
  BY ZNCacheAssumption DEF CheckDone, CheckFree, policyVars, evictVars, crashVars, Threads
<1>2. PICK to \in {"ended", "free_check", "evict_task", "fg_start"} :
        pc' = [pc EXCEPT ![Evictor] = to] /\ pc[Evictor] \in {"evict_task", "free_check"}
  BY DEF CheckDone, CheckFree, Goto
<1>3. UNCHANGED <<Lent, Role, Arg, Loc>>
  BY <1>1, <1>2, Unseen
<1>4. Filled' = Filled
  BY <1>1, <1>2, FilledKept DEF Evicting
<1>5. QED
  BY <1>1, <1>3, <1>4, Unused

\* Nor does a step that changes nothing.
LEMMA StutterUses ==
  ASSUME UNCHANGED vars
  PROVE  Used
<1>1. UNCHANGED <<zsmVars, aborted, mapVars, dangling, undefined, pc, location, data_id,
                  lru_queue, victim>>
  BY DEF vars, policyVars, evictVars, crashVars
<1>2. UNCHANGED <<Lent, Role, Arg, Loc, Filled>>
  BY <1>1 DEF Lent, Role, Arg, Loc, Filled, Filling, LastChunk, RoleAt
<1>3. QED
  BY <1>1, <1>2, Unused

\* Every step of the cache is allowed by both components.
LEMMA StepUses ==
  ASSUME CacheInv, [Next]_vars
  PROVE  Used
<1> USE DEF CacheInv
<1>1. ASSUME NEW w \in Workers, Running, Worker(w) \/ SpuriousWakeup(w) PROVE Used
  <2>1. UsedBy(w)
    BY <1>1, PlainUses, CopyUses, FindUses, LeaveUses, GetUses, ReturnUses, UndoUses DEF Worker
  <2>2. QED
    BY <1>1, <2>1 DEF UsedBy, Used, Z!Next, Running
<1>2. ASSUME NEW t \in Threads, Running, Evict(t) PROVE Used
  BY <1>2, EvictUses
<1>3. CASE CheckDone \/ CheckFree
  BY <1>3, EvictorUses
<1>4. CASE UNCHANGED vars
  BY <1>4, StutterUses
<1>5. QED
  BY <1>1, <1>2, <1>3, <1>4 DEF Next, Evictions, Terminated, Threads

-----------------------------------------------------------------------------
(* The device: a chunk that was written stays as it is until its zone is   *)
(* reset.                                                                  *)

\* The zone is about to be reset; what was written in a zone that is not, stays.
Resetting(zone) == \E t \in Threads : pc[t] = "fg_reset" /\ victim[t] = zone

DiskKept ==
  \A pair \in Pairs : ~Resetting(pair.zone) /\ Written(pair) =>
    /\ Written(pair)'
    /\ disk'[pair.zone][pair.chunk_offset] = disk[pair.zone][pair.chunk_offset]

\* A chunk lent to a writer has not been written yet.
LEMMA HeldZone ==
  ASSUME TypeOK, ZonesSound, StepsShaped, NEW w \in Workers, pc[w] \in Writing
  PROVE  /\ location[w] \in Pairs /\ location[w].zone \in Zones
         /\ location[w].chunk_offset \in Nat
         /\ state[location[w].zone] = "WRITE_OCCURING"
         /\ chunk_offset[location[w].zone] = location[w].chunk_offset
         /\ ~Written(location[w])
         /\ location[w].zone \notin Filled
         /\ \A v \in Workers :
              pc[v] \in Writing /\ location[v].zone = location[w].zone => v = w
<1>1. location[w] \in Pairs /\ location[w].zone \in Zones /\ location[w].chunk_offset \in Nat
      /\ location[w].chunk_offset < max_zone_chunks
  BY ZNCacheAssumption DEF TypeOK, StepsShaped, Pairs, Chunks
<1>2. \A v \in Workers : pc[v] \in Writing => v \in Z!Holding /\ Lent[v] = location[v]
  BY DEF Z!Holding, Lent, StepsShaped
<1>3. /\ state[location[w].zone] = "WRITE_OCCURING"
      /\ chunk_offset[location[w].zone] = location[w].chunk_offset
      /\ \A v \in Workers :
           pc[v] \in Writing /\ location[v].zone = location[w].zone => v = w
  BY <1>2 DEF ZonesSound, Z!HeldZoneStable
<1>4. ~Written(location[w])
  BY <1>1, <1>3 DEF Written
<1>5. location[w].zone \notin Filled
  BY <1>1, <1>3, ZNCacheAssumption DEF ZonesSound
<1>6. QED
  BY <1>1, <1>3, <1>4, <1>5

\* The manager's types, in the cache's terms.
LEMMA ZoneTypes ==
  ASSUME Z!TypeOK
  PROVE  /\ state \in [Zones -> {"FREE", "FULL", "ACTIVE", "WRITE_OCCURING"}]
         /\ chunk_offset \in [Zones -> 0 .. max_zone_chunks]
         /\ active \in Seq(Zones) /\ free \in Seq(Zones)
BY DEF Z!TypeOK, Z!Zones, Zones, Z!Conditions

\* The manager's operations only move a zone's position forward, but for the
\* reset of a full zone.
LEMMA GetKeeps ==
  ASSUME Z!TypeOK, Z!QueuesSound, NEW p \in Pairs, Z!ReuseActiveZone(p) \/ Z!OpenFreeZone(p),
         NEW pair \in Pairs, Written(pair)
  PROVE  Written(pair)'
<1>1. p.zone \in Zones /\ pair.zone \in Zones /\ pair.chunk_offset \in Nat
  BY ZNCacheAssumption DEF Pairs, Chunks
<1>2. CASE Z!ReuseActiveZone(p)
  <2>1. p.zone = Head(active) /\ active # <<>>
    BY <1>2 DEF Z!ReuseActiveZone
  <2>2. state[p.zone] = "ACTIVE"
    <3>1. Head(active) = active[1] /\ 1 \in DOMAIN active
      BY <2>1, ZoneTypes
    <3>2. QED
      BY <2>1, <3>1 DEF Z!QueuesSound, Z!Range
  <2>3. chunk_offset' = chunk_offset /\ state' = [state EXCEPT ![p.zone] = "WRITE_OCCURING"]
    BY <1>2 DEF Z!ReuseActiveZone, Z!Lend
  <2>4. QED
    BY <1>1, <2>2, <2>3, ZoneTypes DEF Written
<1>3. CASE Z!OpenFreeZone(p)
  <2>1. p.zone = Head(free) /\ free # <<>>
    BY <1>3 DEF Z!OpenFreeZone, Z!CanOpen
  <2>2. state[p.zone] = "FREE" /\ chunk_offset[p.zone] = 0
    <3>1. Head(free) = free[1] /\ 1 \in DOMAIN free
      BY <2>1, ZoneTypes
    <3>2. QED
      BY <2>1, <3>1 DEF Z!QueuesSound, Z!Range
  <2>3. /\ chunk_offset' = [chunk_offset EXCEPT ![p.zone] = 0]
        /\ state' = [state EXCEPT ![p.zone] = "WRITE_OCCURING"]
    BY <1>3 DEF Z!OpenFreeZone, Z!Lend
  <2>4. pair.zone # p.zone
    BY <1>1, <2>2 DEF Written
  <2>5. QED
    BY <1>1, <2>3, <2>4, ZoneTypes DEF Written
<1>4. QED
  BY <1>2, <1>3

\* A chunk given back, written or not, leaves the written chunks of every zone
\* written.
LEMMA GiveBackKeeps ==
  ASSUME Z!TypeOK, NEW p \in Pairs, Z!ReturnActiveZone(p) \/ Z!FailedToWrite(p),
         NEW pair \in Pairs, Written(pair)
  PROVE  Written(pair)'
<1>1. /\ p.zone \in Zones /\ pair.zone \in Zones /\ pair.chunk_offset \in Nat
      /\ state[p.zone] = "WRITE_OCCURING" /\ chunk_offset[p.zone] \in Nat
  BY ZNCacheAssumption, ZoneTypes
     DEF Pairs, Chunks, Z!ReturnActiveZone, Z!FailedToWrite, Z!WriterAsserts
<1>2. \/ /\ state' = [state EXCEPT ![p.zone] = "FULL"]
         /\ chunk_offset' = [chunk_offset EXCEPT ![p.zone] = 0]
      \/ /\ state' \in {state, [state EXCEPT ![p.zone] = "ACTIVE"]}
         /\ chunk_offset' \in {chunk_offset, [chunk_offset EXCEPT ![p.zone] = @ + 1]}
  BY DEF Z!ReturnActiveZone, Z!FailedToWrite, Z!CloseZone, Z!Reactivate
<1>3. QED
  BY <1>1, <1>2, ZoneTypes DEF Written

\* A write goes to the next chunk of a zone lent to the writer.
LEMMA WriteKeepsDisk ==
  ASSUME TypeOK, ZonesSound, StepsShaped, NEW w \in Workers, pc[w] = "write",
         NEW id, disk' = [disk EXCEPT ![location[w].zone][location[w].chunk_offset] = id],
         UNCHANGED zsmVars
  PROVE  DiskKept
<1>1. ~Written(location[w]) /\ location[w] \in Pairs
  BY HeldZone DEF Writing
<1>2. ASSUME NEW pair \in Pairs, Written(pair)
      PROVE  /\ Written(pair)'
             /\ disk'[pair.zone][pair.chunk_offset] = disk[pair.zone][pair.chunk_offset]
  <2>1. Written(pair)'
    BY <1>2 DEF Written, zsmVars
  <2>2. pair.zone # location[w].zone \/ pair.chunk_offset # location[w].chunk_offset
    BY <1>1, <1>2 DEF Pairs
  <2>3. QED
    BY <1>1, <2>1, <2>2 DEF TypeOK, Pairs
<1>3. QED
  BY <1>2 DEF DiskKept

\* Every step keeps what was written in a zone that is not being reset.
LEMMA DiskStep ==
  ASSUME TypeOK, ZonesSound, StepsShaped, [Next]_vars
  PROVE  DiskKept
<1> USE DEF ZonesSound
<1>1. CASE UNCHANGED <<zsmVars, disk>>
  BY <1>1 DEF DiskKept, Written, zsmVars
<1>2. ASSUME NEW w \in Workers, GetActiveZone(w) PROVE DiskKept
  <2>1. UNCHANGED disk
    BY <1>2 DEF GetActiveZone, deviceVars
  <2>2. CASE \E p \in Pairs : Z!ReuseActiveZone(p) \/ Z!OpenFreeZone(p)
    BY <2>1, <2>2, GetKeeps DEF DiskKept
  <2>3. CASE UNCHANGED <<state, chunk_offset>>
    BY <2>1, <2>3 DEF DiskKept, Written
  <2>4. QED
    BY <1>2, <2>2, <2>3 DEF GetActiveZone, Z!OpenFails, zsmVars
<1>3. ASSUME NEW w \in Workers, ReturnActiveZone(w) \/ UndoZoneGet(w) PROVE DiskKept
  <2>1. UNCHANGED disk
    BY <1>3 DEF ReturnActiveZone, UndoZoneGet, deviceVars
  <2>2. /\ location[w] \in Pairs
        /\ Z!ReturnActiveZone(location[w]) \/ Z!FailedToWrite(location[w])
    BY <1>3, HeldZone DEF ReturnActiveZone, UndoZoneGet, Goto, Writing
  <2>3. QED
    BY <2>1, <2>2, GiveBackKeeps DEF DiskKept
<1>4. ASSUME NEW w \in Workers, Write(w) \/ WriteFails(w) PROVE DiskKept
  BY <1>4, WriteKeepsDisk DEF Write, WriteFails, Goto
<1>5. ASSUME NEW t \in Threads, ResetZone(t) PROVE DiskKept
  <2> DEFINE z == victim[t]
  <2>1. /\ pc[t] = "fg_reset" /\ z \in Zones
        /\ state' = [state EXCEPT ![z] = "FREE"] /\ chunk_offset' = [chunk_offset EXCEPT ![z] = 0]
        /\ \/ UNCHANGED disk
           \/ disk' = [disk EXCEPT ![z] = [c \in Chunks |-> NoId]]
    BY <1>5 DEF ResetZone, Goto, Z!Evict, StepsShaped, TypeOK, Evicting
  <2>2. ASSUME NEW pair \in Pairs, ~Resetting(pair.zone), Written(pair)
        PROVE  /\ Written(pair)'
               /\ disk'[pair.zone][pair.chunk_offset] = disk[pair.zone][pair.chunk_offset]
    <3>1. pair.zone # z /\ pair.zone \in Zones
      BY <2>1, <2>2 DEF Resetting, Pairs
    <3>2. QED
      BY <2>1, <2>2, <3>1, ZoneTypes DEF Written, TypeOK
  <2>3. QED
    BY <2>2 DEF DiskKept
<1>6. ASSUME NEW t \in Threads, Evict(t) PROVE DiskKept
  <2>1. CASE ResetZone(t)
    BY <1>5, <2>1
  <2>2. CASE ~ResetZone(t)
    BY <1>1, <1>6, <2>2
       DEF Evict, StartEviction, PickVictim, ClearZone, ReadersGone, ResetAborts, ClearZoneAborts,
           deviceVars
  <2>3. QED
    BY <2>1, <2>2
<1>7. ASSUME NEW w \in Workers, Worker(w) \/ SpuriousWakeup(w) PROVE DiskKept
  <2>1. CASE \/ TakeQuery(w) \/ EndTask(w) \/ SpuriousWakeup(w)
             \/ Find(w) \/ Copy(w) \/ CopyGarbage(w)
             \/ Read(w) \/ Touch(w) \/ DecReaders(w) \/ UpdatePolicy(w) \/ Insert(w) \/ UndoMap(w)
    BY <1>1, <2>1
       DEF TakeQuery, EndTask, SpuriousWakeup, Find, Copy, CopyGarbage, Read, Touch, DecReaders,
           UpdatePolicy, Insert, UndoMap, deviceVars
  <2>2. QED
    BY <1>2, <1>3, <1>4, <1>7, <2>1 DEF Worker
<1>8. CASE CheckDone \/ CheckFree \/ UNCHANGED vars
  BY <1>1, <1>8 DEF CheckDone, CheckFree, vars, deviceVars
<1>9. QED
  BY <1>6, <1>7, <1>8 DEF Next, Evictions, Terminated, Threads

-----------------------------------------------------------------------------
(* What is mapped, and what is about to be, is on the device.              *)

\* A writer that wrote its chunk still finds its data in it.
WroteIt ==
  \A w \in Workers :
    pc[w] = "return" => disk[location[w].zone][location[w].chunk_offset] = data_id[w]

\* Nobody else writes where a writer just wrote.
LEMMA WroteStep ==
  ASSUME TypeOK, ZonesSound, StepsShaped, WroteIt, [Next]_vars
  PROVE  WroteIt'
<1>1. ASSUME UNCHANGED disk,
             \A w \in Workers : pc'[w] = "return" =>
               pc[w] = "return" /\ UNCHANGED <<location[w], data_id[w]>>
      PROVE  WroteIt'
  BY <1>1 DEF WroteIt
<1>2. ASSUME NEW w \in Workers, Write(w) \/ WriteFails(w) PROVE WroteIt'
  <2>1. /\ pc[w] = "write" /\ UNCHANGED <<location, data_id>>
        /\ \A v \in Workers : pc'[v] = "return" => pc[v] = "return" \/ (v = w /\ Write(w))
    BY <1>2 DEF Write, WriteFails, Goto, TypeOK, Threads
  <2>2. /\ location[w] \in Pairs
        /\ \A v \in Workers : pc[v] = "return" => /\ location[v].zone # location[w].zone
                                                  /\ location[v] \in Pairs
    BY <2>1, HeldZone DEF Writing
  <2>3. CASE Write(w)
    <3>1. disk' = [disk EXCEPT ![location[w].zone][location[w].chunk_offset] = data_id[w]]
      BY <2>3 DEF Write
    <3>2. /\ disk'[location[w].zone][location[w].chunk_offset] = data_id[w]
          /\ \A v \in Workers : pc[v] = "return" =>
               disk'[location[v].zone][location[v].chunk_offset]
                 = disk[location[v].zone][location[v].chunk_offset]
      BY <2>2, <3>1 DEF TypeOK, Pairs
    <3>3. QED
      BY <2>1, <3>2 DEF WroteIt
  <2>4. CASE WriteFails(w)
    <3>1. disk' = [disk EXCEPT ![location[w].zone][location[w].chunk_offset] = NoId]
          /\ \A v \in Workers : pc'[v] = "return" => pc[v] = "return"
      BY <2>4 DEF WriteFails, Goto, TypeOK, Threads
    <3>2. \A v \in Workers : pc[v] = "return" =>
            disk'[location[v].zone][location[v].chunk_offset]
              = disk[location[v].zone][location[v].chunk_offset]
      BY <2>2, <3>1 DEF TypeOK, Pairs
    <3>3. QED
      BY <2>1, <3>1, <3>2 DEF WroteIt
  <2>5. QED
    BY <1>2, <2>3, <2>4
<1>3. ASSUME NEW t \in Threads, ResetZone(t) PROVE WroteIt'
  <2>1. /\ UNCHANGED <<location, data_id>>
        /\ pc' = [pc EXCEPT ![t] = IF todo[t] = 1 THEN Back(t) ELSE "fg_loop"]
        /\ pc[t] = "fg_reset" /\ Back(t) # "return"
        /\ \/ UNCHANGED disk
           \/ disk' = [disk EXCEPT ![victim[t]] = [c \in Chunks |-> NoId]]
    BY <1>3 DEF ResetZone, Goto, Back
  <2>2. \A v \in Workers : pc'[v] = "return" => pc[v] = "return"
    BY <2>1 DEF TypeOK
  <2>3. victim[t] \in Filled
    BY <2>1, VictimFilled DEF StepsShaped, Evicting
  <2>4. \A v \in Workers :
          pc[v] = "return" => location[v].zone \in Zones /\ location[v].zone # victim[t]
    BY <2>3, HeldZone DEF Writing
  <2>5. \A v \in Workers : pc[v] = "return" =>
          disk'[location[v].zone] = disk[location[v].zone]
    BY <2>1, <2>4 DEF TypeOK
  <2>6. QED
    BY <2>1, <2>2, <2>5 DEF WroteIt
<1>4. ASSUME NEW t \in Threads, Evict(t) PROVE WroteIt'
  <2>1. CASE ResetZone(t)
    BY <1>3, <2>1
  <2>2. CASE StartEviction(t) \/ PickVictim(t) \/ ClearZone(t) \/ ReadersGone(t) \/ ResetAborts(t) \/ ClearZoneAborts(t)
    <3>1. UNCHANGED <<disk, location, data_id>>
      BY <2>2
         DEF StartEviction, PickVictim, ClearZone, ReadersGone, ResetAborts, ClearZoneAborts,
             deviceVars
    <3>2. \A w \in Workers : pc'[w] = "return" => pc[w] = "return"
      <4>1. PICK to \in EvictSteps \union {Back(t)} : pc' = [pc EXCEPT ![t] = to]
        BY <1>4, EvictMoves
      <4>2. to # "return"
        BY <4>1 DEF EvictSteps, Evicting, Back
      <4>3. QED
        BY <4>1, <4>2 DEF TypeOK, Threads
    <3>3. QED
      BY <1>1, <3>1, <3>2
  <2>3. QED
    BY <1>4, <2>1, <2>2 DEF Evict
<1>5. ASSUME NEW w \in Workers, Worker(w) \/ SpuriousWakeup(w) PROVE WroteIt'
  <2>1. CASE Write(w) \/ WriteFails(w)
    BY <1>2, <2>1
  <2>2. CASE EndTask(w) \/ SpuriousWakeup(w) \/ Copy(w) \/ CopyGarbage(w) \/ Read(w) \/ Touch(w)
             \/ ReturnActiveZone(w) \/ UpdatePolicy(w)
    <3>1. UNCHANGED <<disk, location, data_id>>
      BY <2>2
         DEF EndTask, SpuriousWakeup, Copy, CopyGarbage, Read, Touch, ReturnActiveZone,
             UpdatePolicy, deviceVars
    <3>2. \A v \in Workers : pc'[v] = "return" => pc[v] = "return"
      BY <2>2
         DEF EndTask, SpuriousWakeup, Copy, CopyGarbage, Read, Touch, ReturnActiveZone,
             UpdatePolicy, Goto, TypeOK, Threads
    <3>3. QED
      BY <1>1, <3>1, <3>2
  <2>3. CASE \/ TakeQuery(w) \/ Find(w) \/ DecReaders(w)
             \/ Insert(w) \/ GetActiveZone(w) \/ UndoZoneGet(w)
             \/ UndoMap(w)
    <3>1. UNCHANGED disk /\ pc[w] # "return"
      BY <2>3
         DEF TakeQuery, Find, DecReaders, Insert, GetActiveZone, UndoZoneGet, UndoMap, LeaveGet,
             Goto, deviceVars
    <3>2. \A v \in Workers : v # w => UNCHANGED <<pc[v], location[v], data_id[v]>>
      BY <2>3
         DEF TakeQuery, Find, DecReaders, Insert, GetActiveZone, UndoZoneGet, UndoMap, LeaveGet,
             Goto, TypeOK, Threads
    <3>3. pc'[w] # "return"
      BY <2>3
         DEF TakeQuery, Find, DecReaders, Insert, GetActiveZone, UndoZoneGet, UndoMap, LeaveGet,
             Goto, TypeOK, Threads
    <3>4. QED
      BY <1>1, <3>1, <3>2, <3>3
  <2>4. QED
    BY <1>5, <2>1, <2>2, <2>3 DEF Worker
<1>6. CASE CheckDone \/ CheckFree
  <2>1. UNCHANGED <<disk, location, data_id>> /\ \A v \in Workers : pc'[v] = pc[v]
    BY <1>6, ZNCacheAssumption DEF CheckDone, CheckFree, deviceVars, Goto, TypeOK, Threads
  <2>2. QED
    BY <1>1, <2>1
<1>7. CASE UNCHANGED vars
  BY <1>1, <1>7 DEF vars, deviceVars
<1>8. QED
  BY <1>4, <1>5, <1>6, <1>7 DEF Next, Evictions, Terminated, Threads

\* What the map holds of an id, and what it does not.
LEMMA Entries ==
  /\ \A pair : M!Located(pair) # M!Absent /\ M!Located(pair).type # "COND"
  /\ \A p, q : M!Located(p) = M!Located(q) => p = q
  /\ \A pair, c : M!Located(pair) # M!Waiting(c)
<1>1. \A pair : M!Located(pair).type = "LOC" /\ M!Located(pair).location = pair
  BY DEF M!Located
<1>2. M!Absent.type = "NONE" /\ \A c : M!Waiting(c).type = "COND"
  BY DEF M!Absent, M!Waiting
<1>3. QED
  BY <1>1, <1>2

\* The map's types, in the cache's terms.
LEMMA MapTypes ==
  ASSUME M!MapInv
  PROVE  /\ DOMAIN zone_map = DataIds
         /\ data_map \in [Zones -> [Chunks -> DataIds \union {NoId}]]
         /\ active_readers \in [Zones -> Int]
<1>1. M!TypeOK
  BY DEF M!MapInv
<1>2. QED
  BY <1>1 DEF M!TypeOK, M!Zones, M!Chunks, Zones, Chunks

\* The three parts of DataPlaced.
MappedPlaced ==
  \A id \in DataIds \ late, pair \in Pairs : zone_map[id] = M!Located(pair) =>
       /\ Holds(pair, id)
       /\ ~Cleared(pair.zone)
       /\ data_map[pair.zone][pair.chunk_offset] = id
       /\ \A w \in Placing : location[w] # pair

PlacingPlaced ==
  \A w \in Placing :
       /\ Holds(location[w], data_id[w])
       /\ ~Cleared(location[w].zone)
       /\ \A v \in Placing : location[v] = location[w] => v = w

\* The parts of DataPlaced, which the steps below treat one at a time.
LEMMA PlacedParts ==
  /\ DataPlaced <=> MappedPlaced /\ PlacingPlaced /\ WroteIt
  /\ DataPlaced' <=> MappedPlaced' /\ PlacingPlaced' /\ WroteIt'
BY DEF DataPlaced, MappedPlaced, PlacingPlaced, WroteIt

\* A cleared zone is a victim of a round.
LEMMA NotCleared ==
  ASSUME NEW zone, ~Cleared(zone)
  PROVE  ~Resetting(zone)
BY DEF Cleared, Resetting

\* What was written in a zone that was not cleared stays.
DiskStays ==
  \A pair \in Pairs : ~Cleared(pair.zone) /\ Written(pair) =>
    /\ Written(pair)'
    /\ disk'[pair.zone][pair.chunk_offset] = disk[pair.zone][pair.chunk_offset]

LEMMA KeptStays == DiskKept => DiskStays
BY NotCleared DEF DiskKept, DiskStays

\* A chunk that holds an id keeps it.
LEMMA HoldsKept ==
  ASSUME DiskStays, NEW pair \in Pairs, NEW id, ~Cleared(pair.zone), Holds(pair, id)
  PROVE  Holds(pair, id)'
BY DEF DiskStays, Holds

\* The steps that map nothing, place nothing and clear nothing.
LEMMA PlacedKept ==
  ASSUME StepsShaped, TypeOK, MappedPlaced, PlacingPlaced, DiskStays,
         \A id \in DataIds \ late', pair \in Pairs : zone_map'[id] = M!Located(pair) =>
           /\ id \notin late /\ zone_map[id] = M!Located(pair)
           /\ data_map'[pair.zone][pair.chunk_offset] = data_map[pair.zone][pair.chunk_offset],
         \A w \in Placing' : w \in Placing /\ UNCHANGED <<location[w], data_id[w]>>,
         \A zone \in Zones : Cleared(zone)' => Cleared(zone)
  PROVE  MappedPlaced' /\ PlacingPlaced'
<1>1. MappedPlaced'
  <2> SUFFICES ASSUME NEW id \in DataIds \ late', NEW pair \in Pairs,
                      zone_map'[id] = M!Located(pair)
               PROVE  /\ Holds(pair, id)'
                      /\ ~Cleared(pair.zone)'
                      /\ data_map'[pair.zone][pair.chunk_offset] = id
                      /\ \A w \in Placing' : location'[w] # pair
    BY DEF MappedPlaced
  <2>1. /\ Holds(pair, id) /\ ~Cleared(pair.zone)
        /\ data_map[pair.zone][pair.chunk_offset] = id
        /\ \A w \in Placing : location[w] # pair
    BY DEF MappedPlaced
  <2>2. pair.zone \in Zones
    BY DEF Pairs
  <2>3. QED
    BY <2>1, <2>2, HoldsKept
<1>2. PlacingPlaced'
  <2> SUFFICES ASSUME NEW w \in Placing'
               PROVE  /\ Holds(location[w], data_id[w])'
                      /\ ~Cleared(location[w].zone)'
                      /\ \A v \in Placing' : location'[v] = location'[w] => v = w
    BY DEF PlacingPlaced
  <2>1. /\ w \in Placing /\ UNCHANGED <<location[w], data_id[w]>>
        /\ Holds(location[w], data_id[w]) /\ ~Cleared(location[w].zone)
    BY DEF PlacingPlaced
  <2>2. location[w] \in Pairs /\ location[w].zone \in Zones
    BY <2>1 DEF Placing, StepsShaped, TypeOK, Pairs
  <2> DEFINE p == location[w]
             id == data_id[w]
  <2>3. Holds(p, id)' /\ ~Cleared(p.zone)'
    <3>1. Written(p) /\ disk[p.zone][p.chunk_offset] = id
      BY <2>1 DEF Holds
    <3>2. Written(p)' /\ disk'[p.zone][p.chunk_offset] = id
      BY <2>1, <2>2, <3>1 DEF DiskStays, Written
    <3>3. QED
      BY <2>1, <2>2, <3>2 DEF Holds
  <2>4. \A v \in Placing' : location'[v] = location'[w] => v = w
    BY <2>1 DEF PlacingPlaced
  <2>5. QED
    BY <2>1, <2>3, <2>4
<1>3. QED
  BY <1>1, <1>2

\* A step that clears no zone.
LEMMA ClearedKept ==
  ASSUME TypeOK, NEW t \in Threads, NEW to, pc' = [pc EXCEPT ![t] = to],
         to \in {"fg_spin", "fg_reset"} =>
           pc[t] \in {"fg_spin", "fg_reset"} /\ victim'[t] = victim[t],
         \A u \in Threads : u # t => victim'[u] = victim[u]
  PROVE  \A zone : Cleared(zone)' => Cleared(zone)
BY DEF Cleared, TypeOK

Placed == MappedPlaced /\ PlacingPlaced

\* Steps of a worker that neither change the reverse index nor bring a new
\* chunk.
LEMMA QuietPlaced ==
  ASSUME TypeOK, ZonesSound, M!MapInv, StepsShaped, Placed, DiskStays,
         NEW w \in Workers, NEW to, pc' = [pc EXCEPT ![w] = to],
         to \notin {"policy", "fg_spin", "fg_reset"}, to = "insert" => pc[w] = "policy",
         UNCHANGED <<data_map, overtaken, late, victim>>,
         \A v \in Workers : v # w \/ to = "insert" => UNCHANGED <<location[v], data_id[v]>>,
         \A id \in DataIds, pair \in Pairs :
           zone_map'[id] = M!Located(pair) => zone_map[id] = M!Located(pair)
  PROVE  Placed'
<1>1. w \in Threads /\ \A u \in Threads : pc'[u] = IF u = w THEN to ELSE pc[u]
  BY DEF TypeOK, Threads
<1>2. \A v \in Placing' : v \in Placing /\ UNCHANGED <<location[v], data_id[v]>>
  BY <1>1 DEF Placing, Threads
<1>3. \A zone : Cleared(zone)' => Cleared(zone)
  BY <1>1, ClearedKept
<1>4. QED
  BY <1>2, <1>3, PlacedKept DEF Placed

\* Steps of a thread outside of zn_cache_get's own part.
LEMMA StillPlaced ==
  ASSUME TypeOK, StepsShaped, Placed, DiskStays,
         UNCHANGED <<zone_map, data_map, overtaken, late, location, data_id>>,
         \A v \in Workers : pc'[v] \in {"policy", "insert"} => pc'[v] = pc[v],
         \A zone \in Zones : Cleared(zone)' => Cleared(zone)
  PROVE  Placed'
<1>1. \A v \in Placing' : v \in Placing /\ UNCHANGED <<location[v], data_id[v]>>
  BY DEF Placing
<1>2. QED
  BY <1>1, PlacedKept DEF Placed

\* zn_cachemap_insert maps the chunk of a writer that was not overtaken, which
\* no other writer has and no other id is mapped to.
LEMMA InsertPlaced ==
  ASSUME TypeOK, ZonesSound, M!MapInv, StepsShaped, Placed, DiskStays,
         NEW w \in Workers, Insert(w)
  PROVE  Placed'
<1> DEFINE p == location[w]
           i == data_id[w]
<1>1. /\ pc[w] = "insert" /\ pc' = [pc EXCEPT ![w] = "idle"] /\ w \in Threads
      /\ location' = [location EXCEPT ![w] = NoPair] /\ data_id' = [data_id EXCEPT ![w] = NoId]
      /\ UNCHANGED <<victim, state, chunk_offset, disk>>
      /\ overtaken' = overtaken \ {w}
      /\ zone_map' = [zone_map EXCEPT ![i] = M!Located(p)]
      /\ data_map' = [data_map EXCEPT ![p.zone][p.chunk_offset] = i]
  BY DEF Insert, LeaveGet, Goto, M!Insert, evictVars, zsmVars, deviceVars, Threads
<1>2. p \in Pairs /\ p.zone \in Zones /\ p.chunk_offset \in Chunks /\ i \in DataIds
  BY <1>1 DEF StepsShaped, TypeOK, Pairs
<1>3. /\ \A id \in DataIds : zone_map'[id] = IF id = i THEN M!Located(p) ELSE zone_map[id]
      /\ data_map'[p.zone][p.chunk_offset] = i
      /\ \A q \in Pairs : q # p =>
           data_map'[q.zone][q.chunk_offset] = data_map[q.zone][q.chunk_offset]
  BY <1>1, <1>2, MapTypes DEF Pairs
<1>4. \A u \in Threads : pc'[u] = IF u = w THEN "idle" ELSE pc[u]
  BY <1>1 DEF TypeOK
<1>5. Placing' = Placing \ {w}
  BY <1>1, <1>4 DEF Placing, Threads
<1>6. \A v \in Placing' : v \in Placing /\ UNCHANGED <<location[v], data_id[v]>>
  BY <1>1, <1>5 DEF TypeOK, Placing
<1>7. \A zone : Cleared(zone)' => Cleared(zone)
  BY <1>1, ClearedKept
<1>8. \A q, id : Holds(q, id)' <=> Holds(q, id)
  BY <1>1 DEF Holds, Written
<1>9. late \subseteq late' /\ \A id \in DataIds \ late' : id # i => zone_map[id] # M!Located(p)
  <2>1. CASE w \in overtaken
    BY <2>1 DEF Insert
  <2>2. CASE w \notin overtaken
    <3>1. w \in Placing /\ late' = late
      BY <1>1, <2>2 DEF Placing, Insert
    <3>2. QED
      BY <1>2, <3>1 DEF Placed, MappedPlaced
  <2>3. QED
    BY <2>1, <2>2
<1>10. i \notin late' => w \in Placing
  BY <1>1, <1>2 DEF Placing, Insert
<1>11. MappedPlaced'
  <2> SUFFICES ASSUME NEW id \in DataIds \ late', NEW q \in Pairs, zone_map'[id] = M!Located(q)
               PROVE  /\ Holds(q, id)' /\ ~Cleared(q.zone)'
                      /\ data_map'[q.zone][q.chunk_offset] = id
                      /\ \A v \in Placing' : location'[v] # q
    BY DEF MappedPlaced
  <2>1. CASE id = i
    <3>1. q = p /\ w \in Placing
      BY <1>3, <1>10, <2>1, Entries
    <3>2. Holds(p, i) /\ ~Cleared(p.zone) /\ \A v \in Placing : location[v] = p => v = w
      BY <3>1 DEF Placed, PlacingPlaced
    <3>3. QED
      BY <1>3, <1>5, <1>6, <1>7, <1>8, <2>1, <3>1, <3>2
  <2>2. CASE id # i
    <3>1. zone_map[id] = M!Located(q) /\ q # p /\ id \notin late
      BY <1>3, <1>9, <2>2
    <3>2. /\ Holds(q, id) /\ ~Cleared(q.zone) /\ data_map[q.zone][q.chunk_offset] = id
          /\ \A v \in Placing : location[v] # q
      BY <3>1 DEF Placed, MappedPlaced
    <3>3. QED
      BY <1>3, <1>6, <1>7, <1>8, <3>1, <3>2
  <2>3. QED
    BY <2>1, <2>2
<1>12. PlacingPlaced'
  <2> SUFFICES ASSUME NEW v \in Placing'
               PROVE  /\ Holds(location[v], data_id[v])' /\ ~Cleared(location[v].zone)'
                      /\ \A u \in Placing' : location'[u] = location'[v] => u = v
    BY DEF PlacingPlaced
  <2>1. /\ v \in Placing /\ UNCHANGED <<location[v], data_id[v]>>
        /\ Holds(location[v], data_id[v]) /\ ~Cleared(location[v].zone)
        /\ \A u \in Placing : location[u] = location[v] => u = v
    BY <1>6 DEF Placed, PlacingPlaced
  <2>2. Holds(location[v], data_id[v])'
    BY <1>1, <2>1 DEF Holds, Written
  <2>3. ~Cleared(location[v].zone)'
    BY <1>1, <1>4, <2>1 DEF Cleared
  <2>4. QED
    BY <1>6, <2>1, <2>2, <2>3
<1>13. QED
  BY <1>11, <1>12 DEF Placed

\* A chunk that was given back becomes the writer's to publish.
LEMMA ReturnPlaced ==
  ASSUME TypeOK, ZonesSound, M!MapInv, StepsShaped, Placed, WroteIt, DiskStays,
         NEW w \in Workers, ReturnActiveZone(w)
  PROVE  Placed'
<1> DEFINE p == location[w]
           i == data_id[w]
<1>1. /\ pc[w] = "return" /\ pc' = [pc EXCEPT ![w] = "policy"] /\ w \in Threads
      /\ UNCHANGED <<zone_map, data_map, overtaken, late, location, data_id, victim, disk>>
      /\ Z!ReturnActiveZone(p)
  BY DEF ReturnActiveZone, Goto, mapVars, evictVars, historyVars, deviceVars, Threads
<1>2. /\ p \in Pairs /\ p.zone \in Zones /\ p.chunk_offset \in Nat /\ ~Written(p)
      /\ state[p.zone] = "WRITE_OCCURING" /\ chunk_offset[p.zone] = p.chunk_offset
      /\ p.zone \notin Filled
  BY <1>1, HeldZone DEF Writing
<1>3. Written(p)'
  <2>1. \/ state' = [state EXCEPT ![p.zone] = "FULL"]
        \/ chunk_offset' = [chunk_offset EXCEPT ![p.zone] = @ + 1]
    BY <1>1 DEF Z!ReturnActiveZone, Z!CloseZone, Z!Reactivate
  <2>2. state \in [Zones -> {"FREE", "FULL", "ACTIVE", "WRITE_OCCURING"}]
        /\ chunk_offset \in [Zones -> 0 .. max_zone_chunks]
    BY ZoneTypes DEF ZonesSound
  <2>3. QED
    BY <1>1, <1>2, <2>1, <2>2 DEF Written
<1>4. disk'[p.zone][p.chunk_offset] = i
  BY <1>1 DEF WroteIt
<1>5. \A u \in Threads : pc'[u] = IF u = w THEN "policy" ELSE pc[u]
  BY <1>1 DEF TypeOK
<1>6. \A zone : Cleared(zone)' => Cleared(zone)
  BY <1>1, ClearedKept
<1>7. ~Cleared(p.zone)
  BY <1>2, FilledCases DEF Cleared, Evicting
<1>8. Placing' \subseteq Placing \union {w} /\ Placing \subseteq Workers
  BY <1>1, <1>5 DEF Placing, Threads
<1>9. \A v \in Placing : location[v] # p
  BY <1>2 DEF Placed, PlacingPlaced, Holds
<1>10. MappedPlaced'
  <2> SUFFICES ASSUME NEW id \in DataIds \ late, NEW q \in Pairs, zone_map[id] = M!Located(q)
               PROVE  /\ Holds(q, id)' /\ ~Cleared(q.zone)'
                      /\ data_map[q.zone][q.chunk_offset] = id
                      /\ \A v \in Placing' : location[v] # q
    BY <1>1 DEF MappedPlaced
  <2>1. /\ Holds(q, id) /\ ~Cleared(q.zone) /\ data_map[q.zone][q.chunk_offset] = id
        /\ \A v \in Placing : location[v] # q
    BY DEF Placed, MappedPlaced
  <2>2. q # p
    BY <1>2, <2>1 DEF Holds
  <2>3. QED
    BY <1>6, <1>8, <2>1, <2>2, HoldsKept
<1>11. PlacingPlaced'
  <2> SUFFICES ASSUME NEW v \in Placing'
               PROVE  /\ Holds(location[v], data_id[v])' /\ ~Cleared(location[v].zone)'
                      /\ \A u \in Placing' : location[u] = location[v] => u = v
    BY <1>1 DEF PlacingPlaced
  <2>1. CASE v = w
    <3>1. Holds(location[v], data_id[v])' /\ ~Cleared(location[v].zone)'
      BY <1>1, <1>3, <1>4, <1>5, <1>7, <2>1 DEF Holds, Written, Cleared
    <3>2. QED
      BY <1>8, <1>9, <2>1, <3>1
  <2>2. CASE v # w
    <3>1. /\ v \in Placing /\ Holds(location[v], data_id[v]) /\ ~Cleared(location[v].zone)
          /\ \A u \in Placing : location[u] = location[v] => u = v
      BY <1>8, <2>2 DEF Placed, PlacingPlaced
    <3>2. location[v] \in Pairs
      BY <3>1 DEF Placing, StepsShaped, TypeOK
    <3>3. Holds(location[v], data_id[v])' /\ ~Cleared(location[v].zone)'
      <4>1. ~Resetting(location[v].zone) /\ Written(location[v])
        BY <3>1, NotCleared DEF Holds
      <4>2. /\ Written(location[v])'
            /\ disk'[location[v].zone][location[v].chunk_offset] = data_id[v]
        BY <1>1, <3>1, <3>2, <4>1 DEF DiskStays, Holds, Written
      <4>3. QED
        BY <1>1, <1>5, <3>1, <4>2 DEF Holds, Cleared
    <3>4. QED
      BY <1>8, <1>9, <3>1, <3>3
  <2>3. QED
    BY <2>1, <2>2
<1>12. QED
  BY <1>10, <1>11 DEF Placed

\* zn_cachemap_clear_zone drops every id of the zone, and the writers it
\* overtakes are no longer trusted.
LEMMA ClearPlaced ==
  ASSUME TypeOK, M!MapInv, StepsShaped, Placed, DiskStays, NEW t \in Threads, ClearZone(t)
  PROVE  Placed'
<1> DEFINE z == victim[t]
<1>1. /\ pc[t] = "fg_clear" /\ pc' = [pc EXCEPT ![t] = "fg_spin"]
      /\ UNCHANGED <<location, data_id, victim>> /\ z \in Zones
      /\ overtaken' = overtaken \union {w \in Workers :
           pc[w] \in {"return", "policy", "insert"} /\ location[w].zone = z}
      /\ late' = late \ M!IdsIn(z)
      /\ zone_map' = [id \in DataIds |-> IF id \in M!IdsIn(z) THEN M!Absent ELSE zone_map[id]]
      /\ data_map' = [data_map EXCEPT ![z] = [c \in M!Chunks |-> NoId]]
  BY DEF ClearZone, Goto, evictVars, M!ClearZone, StepsShaped, TypeOK, Evicting
<1>2. \A u \in Threads : pc'[u] = IF u = t THEN "fg_spin" ELSE pc[u]
  BY <1>1 DEF TypeOK
<1>3. \A zone : Cleared(zone)' => Cleared(zone) \/ zone = z
  BY <1>1, <1>2 DEF Cleared
<1>4. \A v \in Placing' : v \in Placing /\ location[v].zone # z
  BY <1>1, <1>2 DEF Placing, Threads
<1>5. ASSUME NEW id \in DataIds \ late', NEW q \in Pairs, zone_map'[id] = M!Located(q)
      PROVE  /\ id \notin late /\ zone_map[id] = M!Located(q) /\ q.zone # z
             /\ data_map'[q.zone][q.chunk_offset] = data_map[q.zone][q.chunk_offset]
  <2>1. id \notin M!IdsIn(z) /\ id \notin late /\ zone_map[id] = M!Located(q)
    BY <1>1, <1>5, Entries
  <2>2. data_map[q.zone][q.chunk_offset] = id /\ id # NoId
    BY <2>1, ZNCacheAssumption DEF Placed, MappedPlaced
  <2>3. q.zone # z
    BY <2>1, <2>2 DEF M!IdsIn, M!Chunks, Pairs, Chunks
  <2>4. QED
    BY <1>1, <2>1, <2>3, MapTypes DEF Pairs
<1>6. MappedPlaced'
  <2> SUFFICES ASSUME NEW id \in DataIds \ late', NEW q \in Pairs, zone_map'[id] = M!Located(q)
               PROVE  /\ Holds(q, id)' /\ ~Cleared(q.zone)'
                      /\ data_map'[q.zone][q.chunk_offset] = id
                      /\ \A v \in Placing' : location[v] # q
    BY <1>1 DEF MappedPlaced
  <2>1. /\ id \notin late /\ zone_map[id] = M!Located(q) /\ q.zone # z
        /\ data_map'[q.zone][q.chunk_offset] = data_map[q.zone][q.chunk_offset]
    BY <1>5
  <2>2. /\ Holds(q, id) /\ ~Cleared(q.zone) /\ data_map[q.zone][q.chunk_offset] = id
        /\ \A v \in Placing : location[v] # q
    BY <2>1 DEF Placed, MappedPlaced
  <2>3. QED
    BY <1>3, <1>4, <2>1, <2>2, HoldsKept
<1>7. PlacingPlaced'
  <2> SUFFICES ASSUME NEW v \in Placing'
               PROVE  /\ Holds(location[v], data_id[v])' /\ ~Cleared(location[v].zone)'
                      /\ \A u \in Placing' : location[u] = location[v] => u = v
    BY <1>1 DEF PlacingPlaced
  <2>1. /\ v \in Placing /\ Holds(location[v], data_id[v]) /\ ~Cleared(location[v].zone)
        /\ \A u \in Placing : location[u] = location[v] => u = v
        /\ location[v].zone # z
    BY <1>4 DEF Placed, PlacingPlaced
  <2>2. location[v] \in Pairs
    BY <2>1 DEF Placing, StepsShaped, TypeOK
  <2>3. Holds(location[v], data_id[v])' /\ ~Cleared(location[v].zone)'
    <3>1. ~Resetting(location[v].zone) /\ Written(location[v])
      BY <2>1, NotCleared DEF Holds
    <3>2. /\ Written(location[v])'
          /\ disk'[location[v].zone][location[v].chunk_offset] = data_id[v]
      BY <1>1, <2>1, <2>2, <3>1 DEF DiskStays, Holds, Written
    <3>3. ~Cleared(location[v].zone)'
      BY <1>1, <1>2, <2>1 DEF Cleared
    <3>4. QED
      BY <1>1, <3>2, <3>3 DEF Holds
  <2>4. QED
    BY <1>4, <2>1, <2>3
<1>8. QED
  BY <1>6, <1>7 DEF Placed

\* Every step keeps what is mapped, or about to be, on the device.
LEMMA PlacedStep ==
  ASSUME TypeOK, ZonesSound, M!MapInv, StepsShaped, DataPlaced, [Next]_vars
  PROVE  DataPlaced'
<1>1. Placed /\ WroteIt /\ DiskStays /\ WroteIt'
  BY PlacedParts, DiskStep, KeptStays, WroteStep DEF Placed
<1>2. ASSUME NEW t \in Threads, Evict(t) PROVE Placed'
  <2>1. CASE ClearZone(t)
    BY <1>1, <2>1, ClearPlaced
  <2>2. CASE ~ClearZone(t)
    <3>1. PICK to \in EvictSteps \union {Back(t)} :
            pc' = [pc EXCEPT ![t] = to] /\ pc[t] \in EvictSteps
      BY <1>2, EvictMoves
    <3>2. /\ UNCHANGED <<zone_map, data_map, overtaken, late, location, data_id>>
          /\ \A u \in Threads : u # t => victim'[u] = victim[u]
          /\ pc'[t] \in {"fg_spin", "fg_reset"} =>
               pc[t] \in {"fg_spin", "fg_reset"} /\ victim'[t] = victim[t]
      <4>1. CASE StartEviction(t)
        <5>1. pc' = [pc EXCEPT ![t] = IF NumFree = LOW THEN Back(t) ELSE "fg_loop"]
          BY <4>1 DEF StartEviction, Goto
        <5>2. pc'[t] \notin {"fg_spin", "fg_reset"}
          BY <5>1 DEF Back, TypeOK
        <5>3. QED
          BY <4>1, <5>2 DEF StartEviction, mapVars, evictVars, historyVars
      <4>2. CASE PickVictim(t)
        <5>1. pc'[t] \notin {"fg_spin", "fg_reset"}
          BY <4>2 DEF PickVictim, Goto, Back, TypeOK
        <5>2. QED
          BY <4>2, <5>1 DEF PickVictim, mapVars, historyVars, TypeOK
      <4>3. CASE ReadersGone(t) \/ ResetAborts(t) \/ ClearZoneAborts(t)
        BY <4>3
           DEF ReadersGone, ResetAborts, ClearZoneAborts, Goto, mapVars, evictVars, historyVars,
               TypeOK
      <4>4. CASE ResetZone(t)
        <5>1. pc' = [pc EXCEPT ![t] = IF todo[t] = 1 THEN Back(t) ELSE "fg_loop"]
          BY <4>4 DEF ResetZone, Goto
        <5>2. pc'[t] \notin {"fg_spin", "fg_reset"}
          BY <5>1 DEF Back, TypeOK
        <5>3. QED
          BY <4>4, <5>2 DEF ResetZone, mapVars, historyVars, TypeOK
      <4>5. QED
        BY <1>2, <2>2, <4>1, <4>2, <4>3, <4>4 DEF Evict
    <3>3. \A zone : Cleared(zone)' => Cleared(zone)
      <4>1. pc'[t] = to
        BY <3>1 DEF TypeOK
      <4>2. QED
        BY <3>1, <3>2, <4>1, ClearedKept
    <3>4. to \notin {"policy", "insert"}
      BY DEF EvictSteps, Evicting, Back
    <3>5. \A v \in Workers : pc'[v] \in {"policy", "insert"} => pc'[v] = pc[v]
      BY <3>1, <3>4 DEF TypeOK, Threads
    <3>6. QED
      BY <1>1, <3>2, <3>3, <3>5, StillPlaced
  <2>3. QED
    BY <2>1, <2>2
<1>3. ASSUME NEW w \in Workers, Worker(w) \/ SpuriousWakeup(w) PROVE Placed'
  <2>1. CASE Insert(w)
    BY <1>1, <2>1, InsertPlaced
  <2>2. CASE ReturnActiveZone(w)
    BY <1>1, <2>2, ReturnPlaced
  <2>3. CASE SpuriousWakeup(w) \/ CopyGarbage(w)
    <3>1. UNCHANGED <<zone_map, data_map, overtaken, late, location, data_id, pc, victim>>
      BY <2>3 DEF SpuriousWakeup, CopyGarbage, M!SpuriousWakeup, mapVars, evictVars, historyVars
    <3>2. QED
      BY <1>1, <3>1, StillPlaced DEF Cleared
  <2>4. CASE \/ TakeQuery(w) \/ EndTask(w) \/ Copy(w) \/ Read(w) \/ Touch(w)
             \/ Write(w) \/ WriteFails(w)
             \/ UpdatePolicy(w)
    <3>1. PICK to : /\ pc' = [pc EXCEPT ![w] = to] /\ to \notin {"policy", "fg_spin", "fg_reset"}
                    /\ to = "insert" => pc[w] = "policy" /\ UNCHANGED data_id
      BY <2>4 DEF TakeQuery, EndTask, Copy, Read, Touch, Write, WriteFails, UpdatePolicy, Goto
    <3>2. UNCHANGED <<zone_map, data_map, overtaken, late, location, victim>>
      BY <2>4
         DEF TakeQuery, EndTask, Copy, Read, Touch, Write, WriteFails, UpdatePolicy, mapVars,
             evictVars, historyVars
    <3>3. \A v \in Workers : v # w => data_id'[v] = data_id[v]
      BY <2>4 DEF TakeQuery, EndTask, Copy, Read, Touch, Write, WriteFails, UpdatePolicy, TypeOK
    <3>4. \A v \in Workers : v # w \/ to = "insert" => UNCHANGED <<location[v], data_id[v]>>
      BY <3>1, <3>2, <3>3
    <3>5. QED
      BY <1>1, <3>1, <3>2, <3>4, QuietPlaced
  <2>5. CASE Find(w) \/ DecReaders(w) \/ GetActiveZone(w) \/ UndoZoneGet(w) \/ UndoMap(w)
    <3>1. PICK to : /\ pc' = [pc EXCEPT ![w] = to]
                    /\ to \notin {"policy", "fg_spin", "fg_reset", "insert"}
      BY <2>5 DEF Find, DecReaders, GetActiveZone, UndoZoneGet, UndoMap, LeaveGet, Goto
    <3>2. UNCHANGED <<data_map, overtaken, late, victim>>
      BY <2>5
         DEF Find, DecReaders, GetActiveZone, UndoZoneGet, UndoMap, M!FindHit, M!FindSleep,
             M!FindMiss, M!ReaderDone, M!Fail, mapVars, evictVars, historyVars
    <3>3. \A v \in Workers : v # w => UNCHANGED <<location[v], data_id[v]>>
      BY <2>5 DEF Find, DecReaders, GetActiveZone, UndoZoneGet, UndoMap, LeaveGet, TypeOK
    <3>4. \A id \in DataIds, pair \in Pairs :
            zone_map'[id] = M!Located(pair) => zone_map[id] = M!Located(pair)
      <4>1. \/ UNCHANGED zone_map
            \/ \E c : zone_map' = [zone_map EXCEPT ![data_id[w]] = M!Waiting(c)]
            \/ zone_map' = [zone_map EXCEPT ![data_id[w]] = M!Absent]
        BY <2>5
           DEF Find, DecReaders, GetActiveZone, UndoZoneGet, UndoMap, M!FindHit, M!FindSleep,
               M!FindMiss, M!ReaderDone, M!Fail, mapVars
      <4>2. QED
        BY <4>1, Entries, MapTypes
    <3>5. QED
      BY <1>1, <3>1, <3>2, <3>3, <3>4, QuietPlaced
  <2>6. QED
    BY <1>3, <2>1, <2>2, <2>3, <2>4, <2>5 DEF Worker
<1>4. ASSUME CheckDone \/ CheckFree PROVE Placed'
  <2>1. UNCHANGED <<zone_map, data_map, overtaken, late, location, data_id, victim>>
    BY <1>4 DEF CheckDone, CheckFree, mapVars, evictVars, historyVars
  <2>2. /\ \A v \in Workers : pc'[v] = pc[v]
        /\ \A u \in Threads : pc'[u] # pc[u] => pc'[u] \notin {"fg_spin", "fg_reset"}
    BY <1>4, ZNCacheAssumption DEF CheckDone, CheckFree, Goto, TypeOK, Threads
  <2>3. QED
    BY <1>1, <2>1, <2>2, StillPlaced DEF Cleared
<1>5. ASSUME UNCHANGED vars PROVE Placed'
  <2>1. UNCHANGED <<zone_map, data_map, overtaken, late, location, data_id, victim, pc>>
    BY <1>5 DEF vars, mapVars, evictVars, historyVars
  <2>2. QED
    BY <1>1, <2>1, StillPlaced DEF Cleared
<1>6. Placed'
  BY <1>2, <1>3, <1>4, <1>5 DEF Next, Evictions, Terminated, Threads
<1>7. QED
  BY <1>1, <1>6, PlacedParts DEF Placed

-----------------------------------------------------------------------------
(* Readers.                                                                *)

\* Both instances of the map count alike.
LEMMA CountsSame ==
  /\ M!ReaderCountExact <=> MP!ReaderCountExact
  /\ M!ReaderCountExact' <=> MP!ReaderCountExact'
BY DEF M!ReaderCountExact, MP!ReaderCountExact, M!Zones, MP!Zones, M!Cardinality, MP!Cardinality

\* The reader counts stay exact.
LEMMA CountsStep ==
  ASSUME M!MapInv, M!ReaderCountExact, [M!Next]_(M!vars)
  PROVE  M!ReaderCountExact'
BY CountsSame, MapNextSame, MapInvSame, MP!CountsExactStep, MapAssumption

\* They are exact at the start.
LEMMA CountsInit == M!Init => M!ReaderCountExact
<1>1. M!Init <=> MP!Init
  BY DEF M!Init, MP!Init, M!InitMap, MP!InitMap, M!Zones, MP!Zones, M!Chunks, MP!Chunks,
         M!Conds, MP!Conds, M!Absent, MP!Absent, M!Cardinality, MP!Cardinality
<1>2. QED
  BY <1>1, CountsSame, MP!CountsInit, MapAssumption

\* A zone whose counter is not above zero has no readers: this is what the spin
\* of the eviction relies on, and why the counters must start at zero or above.
LEMMA NoReadersLeft ==
  ASSUME InitialReaders \subseteq Nat, M!MapInv, M!ReaderCountExact, TypeOK, StepsShaped,
         NEW z \in Zones, active_readers[z] <= 0,
         NEW w \in Workers, pc[w] \in {"copy", "read"}
  PROVE  location[w].zone # z
<1>1. PICK base \in [Zones -> InitialReaders] :
        \A y \in Zones : active_readers[y] - base[y]
          = Cardinality({v \in Workers : Role[v] \in {"copy", "reader"} /\ Loc[v].zone = y})
  <2>1. \A S : M!Cardinality(S) = Cardinality(S)
    BY DEF M!Cardinality, Cardinality
  <2>2. QED
    BY <2>1 DEF M!ReaderCountExact, M!Zones, Zones
<1> DEFINE R == {v \in Workers : Role[v] \in {"copy", "reader"} /\ Loc[v].zone = z}
<1>2. IsFiniteSet(R)
  BY ZNCacheAssumption, FS_Subset
<1>3. active_readers[z] \in Int /\ base[z] \in Nat
  BY MapTypes
<1>4. Cardinality(R) \in Nat /\ active_readers[z] - base[z] = Cardinality(R)
  BY <1>1, <1>2, FS_CardinalityType
<1>5. R = {}
  <2>1. Cardinality(R) = 0
    BY <1>3, <1>4
  <2>2. QED
    BY <1>2, <2>1, FS_EmptySet
<1>6. Role[w] \in {"copy", "reader"} /\ Loc[w] = location[w]
  <2>1. Role[w] \in {"copy", "reader"}
    BY RolesAt DEF Role
  <2>2. QED
    BY <2>1 DEF Loc
<1>7. QED
  BY <1>5, <1>6

\* A reader goes on with what it found, or has just found it.
ReaderStays(w) ==
  w \notin misled /\ pc[w] \in {"copy", "read"} /\ UNCHANGED <<location[w], data_id[w]>>

ReaderFinds(w) ==
  /\ location'[w] \in Pairs /\ data_id[w] \in DataIds \ late
  /\ zone_map[data_id[w]] = M!Located(location'[w])
  /\ UNCHANGED <<data_id, victim, state, chunk_offset, disk>>
  /\ \A t \in Threads : pc'[t] = "fg_reset" => pc[t] = "fg_reset"

LEMMA ReadersMove ==
  ASSUME TypeOK, StepsShaped, [Next]_vars,
         NEW w \in Workers, w \notin misled', pc'[w] \in {"copy", "read"}
  PROVE  ReaderStays(w) \/ ReaderFinds(w)
<1>1. w \in Threads
  BY DEF Threads
<1>2. ASSUME Find(w) PROVE ReaderFinds(w)
  <2>1. /\ UNCHANGED <<data_id, victim, state, chunk_offset, disk>> /\ misled \subseteq misled'
        /\ pc[w] \in {"find", "wait"}
    BY <1>2 DEF Find, evictVars, deviceVars, zsmVars
  <2>2. PICK pair \in Pairs : /\ zone_map[data_id[w]] = M!Located(pair)
                              /\ pc' = [pc EXCEPT ![w] = "copy"]
                              /\ location' = [location EXCEPT ![w] = pair]
                              /\ misled' = misled \union {v \in {w} : data_id[v] \in late}
    BY <1>1, <1>2 DEF Find, Goto, M!FindHit, TypeOK
  <2>3. data_id[w] \in DataIds \ late
    BY <2>1, <2>2 DEF StepsShaped, TypeOK
  <2>4. location'[w] = pair /\ \A t \in Threads : pc'[t] = "fg_reset" => pc[t] = "fg_reset"
    BY <2>2 DEF TypeOK
  <2>5. QED
    BY <2>1, <2>2, <2>3, <2>4 DEF ReaderFinds
<1>3. ASSUME Copy(w) \/ CopyGarbage(w) \/ SpuriousWakeup(w) PROVE ReaderStays(w)
  BY <1>1, <1>3 DEF Copy, CopyGarbage, SpuriousWakeup, Goto, historyVars, TypeOK, ReaderStays
<1>4. ASSUME NEW v \in Workers, v # w, Worker(v) \/ SpuriousWakeup(v) PROVE ReaderStays(w)
  BY <1>1, <1>4
     DEF Worker, TakeQuery, EndTask, Find, Copy, CopyGarbage, Read, Touch, DecReaders,
         GetActiveZone, Write, WriteFails, ReturnActiveZone, UpdatePolicy, Insert, UndoZoneGet,
         UndoMap, SpuriousWakeup, LeaveGet, Goto, historyVars, TypeOK, ReaderStays
<1>5. ASSUME Worker(w), ~Find(w), ~(Copy(w) \/ CopyGarbage(w)) PROVE FALSE
  BY <1>1, <1>5
     DEF Worker, TakeQuery, EndTask, Read, Touch, DecReaders, GetActiveZone, Write, WriteFails,
         ReturnActiveZone, UpdatePolicy, Insert, UndoZoneGet, UndoMap, LeaveGet, Goto, TypeOK
<1>6. ASSUME NEW t \in Threads, Evict(t) PROVE ReaderStays(w)
  <2>1. PICK to \in EvictSteps \union {Back(t)} : pc' = [pc EXCEPT ![t] = to]
    BY <1>6, EvictMoves
  <2>2. to \notin {"copy", "read"}
    BY DEF EvictSteps, Evicting, Back
  <2>3. UNCHANGED <<location, data_id, misled>>
    BY <1>6
       DEF Evict, StartEviction, PickVictim, ClearZone, ReadersGone, ResetZone, ResetAborts,
           ClearZoneAborts, historyVars
  <2>4. QED
    BY <1>1, <2>1, <2>2, <2>3 DEF TypeOK, ReaderStays
<1>7. CASE CheckDone \/ CheckFree
  BY <1>1, <1>7 DEF CheckDone, CheckFree, Goto, historyVars, TypeOK, ReaderStays
<1>8. CASE UNCHANGED vars
  BY <1>8 DEF vars, historyVars, ReaderStays
<1>9. QED
  BY <1>2, <1>3, <1>4, <1>5, <1>6, <1>7, <1>8 DEF Next, Evictions, Terminated, Threads

\* What a reader holds is kept by a step that starts no reset of its zone.
LEMMA HeldKept ==
  ASSUME TypeOK, StepsShaped, ReadersHeld, DiskKept, NEW w \in Workers, ReaderStays(w),
         \A z \in Zones : ~Resetting(z) /\ Resetting(z)' => location[w].zone # z
  PROVE  /\ Holds(location[w], data_id[w])'
         /\ \A t \in Threads : pc'[t] = "fg_reset" => victim'[t] # location'[w].zone
<1>1. /\ w \notin misled /\ pc[w] \in {"copy", "read"} /\ UNCHANGED <<location[w], data_id[w]>>
      /\ Holds(location[w], data_id[w]) /\ ~Resetting(location[w].zone)
  BY DEF ReadersHeld, Resetting, ReaderStays
<1>2. location[w] \in Pairs /\ location[w].zone \in Zones
  BY <1>1 DEF StepsShaped, TypeOK, Pairs
<1>3. Written(location[w])' /\ disk'[location[w].zone][location[w].chunk_offset] = data_id[w]
  BY <1>1, <1>2 DEF DiskKept, Holds, Written
<1> DEFINE zone == location[w].zone
<1>4. \A t \in Threads : pc'[t] = "fg_reset" => victim'[t] # zone
  <2> HIDE DEF zone
  <2>1. \A z \in Zones : z = zone => ~Resetting(z)
    BY <1>1 DEF zone
  <2>2. \A z \in Zones : z = zone => ~Resetting(z)'
    BY <1>1, <2>1 DEF zone
  <2>3. zone \in Zones
    BY <1>2 DEF zone
  <2>4. QED
    BY <2>2, <2>3 DEF Resetting
<1>5. QED
  BY <1>1, <1>3, <1>4 DEF Holds

\* Only the end of a spin starts a reset.
LEMMA ResettingStep ==
  ASSUME TypeOK, [Next]_vars, NEW zone, ~Resetting(zone), Resetting(zone)'
  PROVE  \E t \in Threads : ReadersGone(t) /\ victim[t] = zone
<1>1. PICK t \in Threads : pc'[t] = "fg_reset" /\ victim'[t] = zone
  BY DEF Resetting
<1>2. pc[t] # "fg_reset" \/ victim'[t] # victim[t]
  BY <1>1 DEF Resetting
<1>3. ASSUME NEW u \in Threads, Evict(u) PROVE ReadersGone(t)
  <2>1. CASE ReadersGone(u)
    <3>1. u = t
      BY <1>1, <1>2, <2>1 DEF ReadersGone, Goto, evictVars, TypeOK
    <3>2. QED
      BY <2>1, <3>1
  <2>2. CASE ClearZone(u) \/ ResetAborts(u) \/ ClearZoneAborts(u)
    BY <1>1, <1>2, <2>2 DEF ClearZone, ResetAborts, ClearZoneAborts, Goto, evictVars, TypeOK
  <2>3. CASE PickVictim(u)
    BY <1>1, <1>2, <2>3 DEF PickVictim, Goto, Back, TypeOK
  <2>4. CASE StartEviction(u)
    <3>1. pc' = [pc EXCEPT ![u] = IF NumFree = LOW THEN Back(u) ELSE "fg_loop"] /\ UNCHANGED victim
      BY <2>4 DEF StartEviction, Goto
    <3>2. QED
      BY <1>1, <1>2, <3>1 DEF Back, TypeOK
  <2>5. CASE ResetZone(u)
    <3>1. /\ pc' = [pc EXCEPT ![u] = IF todo[u] = 1 THEN Back(u) ELSE "fg_loop"]
          /\ victim' = [victim EXCEPT ![u] = NoZone]
      BY <2>5 DEF ResetZone, Goto
    <3>2. QED
      BY <1>1, <1>2, <3>1 DEF Back, TypeOK
  <2>6. QED
    BY <1>3, <2>1, <2>2, <2>3, <2>4, <2>5 DEF Evict
<1>4. ASSUME NEW w \in Workers, Worker(w) \/ SpuriousWakeup(w) PROVE FALSE
  <2>1. UNCHANGED victim
    BY <1>4 DEF Worker, TakeQuery, EndTask, Find, Copy, CopyGarbage, Read, Touch, DecReaders,
         GetActiveZone, Write, WriteFails, ReturnActiveZone, UpdatePolicy, Insert, UndoZoneGet,
         UndoMap, SpuriousWakeup, evictVars
  <2>2. UNCHANGED pc \/ \E to : pc' = [pc EXCEPT ![w] = to] /\ to # "fg_reset"
    BY <1>4 DEF Worker, TakeQuery, EndTask, Find, Copy, CopyGarbage, Read, Touch, DecReaders,
         GetActiveZone, Write, WriteFails, ReturnActiveZone, UpdatePolicy, Insert, UndoZoneGet,
         UndoMap, SpuriousWakeup, LeaveGet, Goto
  <2>3. QED
    BY <1>1, <1>2, <2>1, <2>2 DEF TypeOK, Threads
<1>5. ASSUME CheckDone \/ CheckFree PROVE FALSE
  BY <1>1, <1>2, <1>5 DEF CheckDone, CheckFree, Goto, evictVars, TypeOK
<1>6. ASSUME UNCHANGED vars PROVE FALSE
  BY <1>1, <1>2, <1>6 DEF vars, evictVars
<1>7. ReadersGone(t)
  BY <1>3, <1>4, <1>5, <1>6 DEF Next, Evictions, Terminated, Threads
<1>8. QED
  BY <1>1, <1>7 DEF ReadersGone, evictVars

\* Every step keeps what the counted readers found.
LEMMA ReadersStep ==
  ASSUME InitialReaders \subseteq Nat, CacheInv, M!ReaderCountExact, ReadersHeld, [Next]_vars
  PROVE  ReadersHeld'
<1> USE DEF CacheInv
<1>1. DiskKept
  BY DiskStep, ZonesAreSound
<1>2. \A z \in Zones : ~Resetting(z) /\ Resetting(z)' =>
        \A w \in Workers : pc[w] \in {"copy", "read"} => location[w].zone # z
  <2> SUFFICES ASSUME NEW z \in Zones, ~Resetting(z), Resetting(z)',
                      NEW w \in Workers, pc[w] \in {"copy", "read"}
               PROVE  location[w].zone # z
    OBVIOUS
  <2>1. PICK t \in Threads : ReadersGone(t) /\ victim[t] = z
    BY ResettingStep
  <2>2. active_readers[z] <= 0
    BY <2>1 DEF ReadersGone
  <2>3. QED
    BY <2>2, NoReadersLeft
<1> SUFFICES ASSUME NEW w \in Workers, w \notin misled', pc'[w] \in {"copy", "read"}
             PROVE  /\ Holds(location[w], data_id[w])'
                    /\ \A t \in Threads : pc'[t] = "fg_reset" => victim'[t] # location'[w].zone
  BY DEF ReadersHeld
<1>3. CASE ReaderStays(w)
  BY <1>1, <1>2, <1>3, HeldKept DEF ReaderStays
<1>4. CASE ReaderFinds(w)
  <2>1. PICK pair \in Pairs : pair = location'[w]
    BY <1>4 DEF ReaderFinds
  <2>2. Holds(pair, data_id[w]) /\ ~Cleared(pair.zone)
    BY <1>4, <2>1 DEF ReaderFinds, DataPlaced
  <2>3. QED
    BY <1>4, <2>1, <2>2 DEF ReaderFinds, Holds, Written, Cleared
<1>5. QED
  BY <1>3, <1>4, ReadersMove

-----------------------------------------------------------------------------
(* The inductive invariant, and what follows from it.                      *)

\* At the start of the program no thread holds anything.
LEMMA StartViews ==
  ASSUME Init
  PROVE  /\ Lent = [w \in Workers |-> NoPair] /\ Filled = {}
         /\ Role = [w \in Workers |-> "idle"]
         /\ Arg = [w \in Workers |-> NoId] /\ Loc = [w \in Workers |-> NoPair]
<1>1. \A w \in Workers : pc[w] = "idle"
  BY ZNCacheAssumption DEF Init, Threads
<1>2. Lent = [w \in Workers |-> NoPair]
  BY <1>1 DEF Lent, Writing
<1>3. Role = [w \in Workers |-> "idle"]
  BY <1>1, RolesAt DEF Role
<1>4. Arg = [w \in Workers |-> NoId] /\ Loc = [w \in Workers |-> NoPair]
  BY <1>3 DEF Arg, Loc
<1>5. Filled = {}
  <2>1. \A t \in Threads : pc[t] \notin Evicting \union {"policy"}
    BY DEF Init, Evicting
  <2>2. Range(lru_queue) = {}
    BY DEF Init, P!InitPolicy, Range
  <2>3. QED
    BY <2>1, <2>2 DEF Filled, Filling, Threads
<1>6. QED
  BY <1>2, <1>3, <1>4, <1>5

\* The invariant holds at the start.
LEMMA CacheInit == Init => CacheInv
<1> SUFFICES ASSUME Init PROVE CacheInv
  OBVIOUS
<1> USE ZNCacheAssumption
<1>1. TypeOK
  <2>1. /\ disk \in [Zones -> [Chunks -> DataIds \union {NoId}]]
        /\ workload_index \in 0 .. MaxQueries
        /\ todo \in [Threads -> 0 .. UInt - 1]
    BY DEF Init
  <2>2. /\ pc \in [Threads -> {"idle", "evict_task"}]
        /\ \A t \in Threads : pc[t] = IF t = Evictor THEN "evict_task" ELSE "idle"
    BY DEF Init
  <2>3. /\ pc \in [Threads -> WorkerSteps \union EvictSteps \union EvictorSteps]
        /\ \A t \in Threads : IF t = Evictor THEN pc[t] \notin WorkerSteps
                                              ELSE pc[t] \notin EvictorSteps
    BY <2>2 DEF WorkerSteps, EvictorSteps
  <2>4. QED
    BY <2>1, <2>3 DEF Init, TypeOK
<1>2. Z!ZSMInv
  BY StartViews, ZoneInit DEF Init, Z!Init
<1>3. M!MapInv
  BY StartViews, MapInit DEF Init, M!Init
<1>4. \A t \in Threads : pc[t] \in {"idle", "evict_task"} /\ victim[t] = NoZone
  BY DEF Init
<1>5. StepsShaped
  BY <1>4 DEF Init, StepsShaped, Threads, Writing, Evicting
<1>9. RoundsGoOn
  BY <1>4 DEF RoundsGoOn
<1>6. OnePlace
  <2>1. lru_queue \in Seq(Zones) /\ P!NodesExact
    BY DEF Init, P!InitPolicy, P!NodesExact, P!IsInjective, P!Range
  <2>2. zone_to_lru_map = {} /\ Filling = {}
    BY <1>4 DEF Init, P!InitPolicy, Filling, Threads
  <2>3. QED
    BY <1>4, <2>1, <2>2 DEF OnePlace
<1>7. DataPlaced
  <2>1. \A id \in DataIds, pair \in Pairs : zone_map[id] # M!Located(pair)
    BY Entries DEF Init, M!InitMap
  <2>2. \A w \in Workers : pc[w] \notin {"policy", "insert", "return"}
    BY <1>4 DEF Threads
  <2>3. QED
    BY <2>1, <2>2 DEF DataPlaced, Placing
<1>8. QED
  BY <1>1, <1>2, <1>3, <1>5, <1>6, <1>7, <1>9 DEF CacheInv

\* Every step keeps the invariant: the components' own parts because every step
\* is a step of theirs, the others one by one.
LEMMA CacheStep ==
  ASSUME CacheInv, [Next]_vars
  PROVE  CacheInv'
<1>1. Z!ZSMInv' /\ M!MapInv'
  BY StepUses, ZoneStep, MapStep DEF Used, CacheInv
<1>2. TypeOK'
  BY TypeStep DEF CacheInv, Z!ZSMInv, RoundsGoOn
<1>3. StepsShaped' /\ RoundsGoOn'
  BY ShapeStep, RoundsStep DEF CacheInv, Z!ZSMInv
<1>4. OnePlace'
  BY OnePlaceStep, ZonesAreSound DEF CacheInv
<1>5. DataPlaced'
  BY PlacedStep, ZonesAreSound DEF CacheInv
<1>6. QED
  BY <1>1, <1>2, <1>3, <1>4, <1>5 DEF CacheInv

\* The inductive invariant of the cache.
THEOREM CacheInvariant == Spec => []CacheInv
BY CacheInit, CacheStep, PTL DEF Spec

\* Whatever the workers and the eviction thread do (cache.c, zncache.c), they use
\* the zone state manager as its specification allows: what is proved of the
\* manager with its most general client holds in the cache.
THEOREM ZoneManagerUsed == Spec => UsesZoneManager
<1>1. Init => Z!Init
  BY StartViews DEF Init, Z!Init
<1>2. CacheInv /\ [Next]_vars => [Z!Next]_(Z!vars)
  BY StepUses DEF Used
<1>3. QED
  BY <1>1, <1>2, CacheInvariant, PTL DEF Spec, Z!Spec, UsesZoneManager

\* And they use the cache map as its specification allows: no thread publishes an
\* id it is not the writer of, or drops a reader it did not count.
THEOREM CacheMapUsed == Spec => UsesCacheMap
<1>1. Init => M!Init
  BY StartViews DEF Init, M!Init
<1>2. CacheInv /\ [Next]_vars => [M!Next]_(M!vars)
  BY StepUses DEF Used
<1>3. QED
  BY <1>1, <1>2, CacheInvariant, PTL DEF Spec, M!Spec, UsesCacheMap

\* A mapped id is on the device where it is mapped to, whatever writes, failures,
\* evictions and retries went on, unless its writer was overtaken by an eviction
\* of its zone between cache.c:129 and cache.c:133.
THEOREM MappedDataSound == Spec => []MappingSound
<1>1. CacheInv => MappingSound
  BY DEF CacheInv, DataPlaced, MappingSound, Holds
<1>2. QED
  BY <1>1, CacheInvariant, PTL

\* A reader that zn_cachemap_find counted reads the data of its id, because the
\* spin at cache.c:29-31 waits for it; the counters must start at zero or above
\* (cache.c:165 allocates them and leaves them as they are).
THEOREM CountedReadersHeld ==
  ASSUME InitialReaders \subseteq Nat
  PROVE  Spec => [](ReadersHeld /\ ReadersProtected)
<1> DEFINE Inv == CacheInv /\ M!ReaderCountExact /\ ReadersHeld
<1>1. Init => Inv
  <2> SUFFICES ASSUME Init PROVE Inv
    OBVIOUS
  <2>1. M!ReaderCountExact
    BY StartViews, CountsInit DEF Init, M!Init
  <2>2. ReadersHeld
    BY ZNCacheAssumption DEF Init, ReadersHeld, Threads
  <2>3. QED
    BY <2>1, <2>2, CacheInit
<1>2. Inv /\ [Next]_vars => Inv'
  <2> SUFFICES ASSUME Inv, [Next]_vars PROVE Inv'
    OBVIOUS
  <2>1. CacheInv'
    BY CacheStep
  <2>2. M!ReaderCountExact'
    BY StepUses, CountsStep DEF Used, CacheInv
  <2>3. ReadersHeld'
    BY ReadersStep
  <2>4. QED
    BY <2>1, <2>2, <2>3
<1>3. Inv => ReadersHeld /\ ReadersProtected
  BY DEF ReadersHeld, ReadersProtected, Holds
<1> HIDE DEF Inv
<1>4. QED
  BY <1>1, <1>2, <1>3, PTL DEF Spec

\* When no finish fails, the zones known to the policy, its writers and its
\* rounds are the full ones.
LEMMA FilledFull ==
  ASSUME "finish" \notin Faults, CacheInv
  PROVE  \A z \in Zones : state[z] = "FULL" <=> z \in Filled
<1>1. Z!ZonesTracked /\ Z!Zones = Zones /\ "finish" \notin Faults \intersect ZoneCommands
  BY DEF CacheInv, Z!ZSMInv, Z!Zones, Zones
<1>2. QED
  BY <1>1 DEF Z!ZonesTracked

\* The full zones are exactly those in the policy's queue, with a writer on its
\* way to the policy, or in one eviction round (no failed finish: a zone that did
\* not finish is not full and yet known to the policy).
THEOREM FullZonesAccounted ==
  ASSUME "finish" \notin Faults
  PROVE  Spec => []FullZonesKnown
<1>1. CacheInv => FullZonesKnown
  <2> SUFFICES ASSUME CacheInv PROVE FullZonesKnown
    OBVIOUS
  <2>1. QED
    BY FilledFull DEF CacheInv, OnePlace, FullZonesKnown
<1>2. QED
  BY <1>1, CacheInvariant, PTL

-----------------------------------------------------------------------------
(* Where the program can stop.                                             *)

\* What a zone's reverse index names is where it says: only an id that is not
\* read back stops zn_cachemap_clear_zone.
LEMMA ClearsOrWide ==
  ASSUME CacheInv, NEW t \in Threads, pc[t] = "fg_clear"
  PROVE  M!ClearZoneAsserts(victim[t]) \/ MeetsWideId(t)
<1> DEFINE z == victim[t]
<1>1. z \in Zones
  BY DEF CacheInv, TypeOK, StepsShaped, Evicting
<1>2. ASSUME NEW id \in M!IdsIn(z)
      PROVE  zone_map[id].type = "LOC" /\ zone_map[id].location.zone = z
  <2>1. PICK c \in Chunks : data_map[z][c] = id /\ id # NoId
    BY <1>2 DEF M!IdsIn, M!Chunks, Chunks
  <2> DEFINE pair == [zone |-> z, chunk_offset |-> c]
  <2>2. pair \in Pairs /\ pair \in M!Pairs /\ data_map[pair.zone][pair.chunk_offset] = id
    BY <1>1, <2>1 DEF Pairs, M!Pairs, M!Zones, M!Chunks, Zones, Chunks
  <2>3. zone_map[id] = M!Located(pair)
    BY <2>1, <2>2 DEF CacheInv, M!MapInv, M!ReverseIndexBacked
  <2>4. QED
    BY <2>3 DEF M!Located
<1>3. CASE M!IdsIn(z) \intersect WideIds # {}
  BY <1>3 DEF MeetsWideId
<1>4. CASE M!IdsIn(z) \intersect WideIds = {}
  BY <1>2, <1>4 DEF M!ClearZoneAsserts, M!ReadBack
<1>5. QED
  BY <1>3, <1>4

\* A zone that is being reset is full, if no finish fails.
LEMMA ResetsFull ==
  ASSUME "finish" \notin Faults, CacheInv, NEW t \in Threads, pc[t] = "fg_reset"
  PROVE  state[victim[t]] = "FULL"
<1>1. victim[t] \in Zones
  BY DEF CacheInv, TypeOK, StepsShaped, Evicting
<1>2. victim[t] \in Filled
  BY FilledCases DEF Evicting
<1>3. QED
  BY <1>1, <1>2, FilledFull

\* What a thread that was stopped was doing.
StopsNamed ==
  /\ aborted => "reset" \in Faults /\ \E t \in Threads : pc[t] = "fg_reset"
  /\ map_aborted => \E t \in Threads : MeetsWideId(t)

LEMMA StopsStep ==
  ASSUME "finish" \notin Faults, CacheInv, StopsNamed, [Next]_vars
  PROVE  StopsNamed'
<1>1. CASE UNCHANGED vars
  BY <1>1 DEF StopsNamed, MeetsWideId, M!IdsIn, M!Chunks, vars, mapVars, evictVars, crashVars
<1>2. CASE ~aborted /\ ~map_aborted /\ UNCHANGED <<aborted, map_aborted>>
  BY <1>2 DEF StopsNamed
<1>3. ASSUME NEW t \in Threads, ResetAborts(t), ~map_aborted PROVE StopsNamed'
  <2>1. pc[t] = "fg_reset" /\ UNCHANGED <<pc, map_aborted>> /\ Z!EvictAborts(victim[t])
    BY <1>3 DEF ResetAborts
  <2>2. "reset" \in Faults
    BY <2>1, ResetsFull DEF Z!EvictAborts
  <2>3. QED
    BY <1>3, <2>1, <2>2 DEF StopsNamed
<1>4. ASSUME NEW t \in Threads, ClearZoneAborts(t), ~aborted PROVE StopsNamed'
  <2>1. MeetsWideId(t)
    BY <1>4, ClearsOrWide DEF ClearZoneAborts
  <2>2. UNCHANGED <<pc, data_map, victim, aborted>>
    BY <1>4 DEF ClearZoneAborts, mapVars, evictVars
  <2>3. MeetsWideId(t)'
    BY <2>1, <2>2 DEF MeetsWideId, M!IdsIn, M!Chunks
  <2>4. QED
    BY <1>4, <2>2, <2>3 DEF StopsNamed
<1>5. ASSUME NEW w \in Workers, Worker(w) \/ SpuriousWakeup(w)
      PROVE  UNCHANGED <<aborted, map_aborted>>
  BY <1>5 DEF Worker, TakeQuery, EndTask, Find, Copy, CopyGarbage, Read, Touch, DecReaders,
              GetActiveZone, Write, WriteFails, ReturnActiveZone, UpdatePolicy, Insert,
              UndoZoneGet, UndoMap, SpuriousWakeup, crashVars
<1>6. ASSUME NEW t \in Threads, Evict(t)
      PROVE  UNCHANGED <<aborted, map_aborted>> \/ ResetAborts(t) \/ ClearZoneAborts(t)
  BY <1>6 DEF Evict, StartEviction, PickVictim, ClearZone, ReadersGone, ResetZone, crashVars
<1>7. CheckDone \/ CheckFree => UNCHANGED <<aborted, map_aborted>>
  BY DEF CheckDone, CheckFree, crashVars
<1>8. QED
  BY <1>1, <1>2, <1>3, <1>4, <1>5, <1>6, <1>7
     DEF Next, Running, Evictions, Terminated, Threads

LEMMA StopsInvariant ==
  ASSUME "finish" \notin Faults
  PROVE  Spec => []StopsNamed
<1>1. Init => StopsNamed
  BY DEF Init, StopsNamed
<1>2. CacheInv /\ StopsNamed /\ [Next]_vars => StopsNamed'
  BY StopsStep
<1>3. QED
  BY <1>1, <1>2, CacheInvariant, PTL DEF Spec

\* No assertion of zone_state_manager.c or cachemap.c fails when it is evaluated,
\* but that of zn_cachemap_clear_zone on an id of 2^31 or above and that of
\* zsm_evict when the device refuses the reset (no failed finish: the reset of a
\* zone that did not finish does abort).
THEOREM NoAssertionFails ==
  ASSUME "finish" \notin Faults
  PROVE  Spec => []AssertionsHold
<1>1. CacheInv /\ StopsNamed => AssertionsHold
  <2> SUFFICES ASSUME CacheInv, StopsNamed PROVE AssertionsHold
    OBVIOUS
  <2>1. ASSUME NEW w \in Workers, pc[w] \in {"return", "undo_zone"}
        PROVE  Z!WriterAsserts(location[w])
    <3>1. w \in Z!Holding /\ Lent[w] = location[w]
      BY <2>1 DEF Z!Holding, Lent, CacheInv, StepsShaped, Writing
    <3>2. QED
      BY <3>1 DEF CacheInv, Z!ZSMInv, Z!HeldZoneStable, Z!ActiveLimit, Z!WriterAsserts
  <2>2. ASSUME NEW w \in Workers, pc[w] \in {"insert", "undo_map"}
        PROVE  M!WriterAsserts(data_id[w])
    <3>1. Role[w] = "writer" /\ Arg[w] = data_id[w]
      BY <2>2, RolesAt DEF Role, Arg
    <3>2. QED
      BY <3>1 DEF CacheInv, M!MapInv, M!SingleWriter
  <2>3. QED
    BY <2>1, <2>2, ClearsOrWide, ResetsFull DEF AssertionsHold, StopsNamed
<1>2. QED
  BY <1>1, CacheInvariant, StopsInvariant, PTL

\* On a device that refuses no finish and no reset, and with ids below 2^31, the
\* program is never stopped by an assertion of the manager or of the map.
THEOREM CacheNeverStopped ==
  ASSUME "finish" \notin Faults, "reset" \notin Faults, WideIds = {}
  PROVE  Spec => [](~aborted /\ ~map_aborted)
<1>1. StopsNamed => ~aborted /\ ~map_aborted
  BY DEF StopsNamed, MeetsWideId
<1>2. QED
  BY <1>1, StopsInvariant, PTL

=============================================================================
