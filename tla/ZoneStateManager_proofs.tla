---------------------- MODULE ZoneStateManager_proofs ----------------------
(***************************************************************************)
(* Proofs about ZoneStateManager for every number of zones, chunks,        *)
(* active zones and threads, and every set of failing device commands.     *)
(***************************************************************************)
EXTENDS ZoneStateManager, TLAPS, FiniteSetTheorems, SequenceTheorems

-----------------------------------------------------------------------------
(* Queues: what a push to the tail and a pop from the head do.             *)

\* A push adds one element to the queue's contents, and a queue without
\* repetitions keeps none when the element is new.
LEMMA PushTail ==
  ASSUME NEW S, NEW q \in Seq(S), NEW x \in S
  PROVE  /\ Append(q, x) \in Seq(S)
         /\ Len(Append(q, x)) = Len(q) + 1
         /\ Range(Append(q, x)) = Range(q) \union {x}
         /\ (IsInjective(q) /\ x \notin Range(q)) => IsInjective(Append(q, x))
<1> DEFINE r == Append(q, x)
<1>1. /\ r \in Seq(S)
      /\ Len(r) = Len(q) + 1
      /\ \A i \in 1 .. Len(q) : r[i] = q[i]
      /\ r[Len(q) + 1] = x
  BY AppendProperties
<1>2. Len(q) \in Nat /\ DOMAIN q = 1 .. Len(q) /\ DOMAIN r = 1 .. (Len(q) + 1)
  BY <1>1, LenProperties
<1>3. Range(r) = Range(q) \union {x}
  BY <1>1, <1>2 DEF Range
<1>4. ASSUME IsInjective(q), x \notin Range(q)
      PROVE  IsInjective(r)
  BY <1>1, <1>2, <1>4 DEF Range, IsInjective
<1>5. QED
  BY <1>1, <1>3, <1>4

\* A pop removes exactly the head from a queue without repetitions.
LEMMA PopHead ==
  ASSUME NEW S, NEW q \in Seq(S), q # <<>>, IsInjective(q)
  PROVE  /\ Head(q) \in S
         /\ Head(q) \in Range(q)
         /\ Tail(q) \in Seq(S)
         /\ Len(Tail(q)) = Len(q) - 1
         /\ Range(Tail(q)) = Range(q) \ {Head(q)}
         /\ IsInjective(Tail(q))
<1> DEFINE r == Tail(q)
<1>1. /\ Head(q) \in S
      /\ r \in Seq(S)
      /\ Len(r) = Len(q) - 1
      /\ \A i \in 1 .. Len(r) : r[i] = q[i + 1]
  BY HeadTailProperties
<1>2. Len(q) \in Nat /\ Len(q) # 0 /\ DOMAIN q = 1 .. Len(q)
  BY LenProperties, EmptySeq
<1>3. DOMAIN r = 1 .. (Len(q) - 1)
  BY <1>1, LenProperties
<1>4. Head(q) = q[1]
  OBVIOUS
<1>5. Range(r) = Range(q) \ {Head(q)}
  <2>1. ASSUME NEW y \in Range(r) PROVE y \in Range(q) /\ y # Head(q)
    BY <1>1, <1>2, <1>3, <1>4 DEF Range, IsInjective
  <2>2. ASSUME NEW y \in Range(q), y # Head(q) PROVE y \in Range(r)
    <3>1. PICK i \in 1 .. Len(q) : y = q[i]
      BY <1>2 DEF Range
    <3>2. i # 1
      BY <3>1, <2>2, <1>4
    <3>3. i - 1 \in 1 .. (Len(q) - 1) /\ r[i - 1] = q[i]
      BY <3>2, <1>1, <1>2
    <3>4. QED
      BY <3>1, <3>3, <1>3 DEF Range
  <2>3. QED
    BY <2>1, <2>2
<1>6. IsInjective(r)
  BY <1>1, <1>2, <1>3 DEF IsInjective
<1>7. Head(q) \in Range(q)
  BY <1>2, <1>4 DEF Range
<1>8. QED
  BY <1>1, <1>5, <1>6, <1>7

-----------------------------------------------------------------------------
(* Writers: the number of threads that hold a chunk.                       *)

\* The threads that hold a chunk are finitely many.
LEMMA HoldingFinite ==
  IsFiniteSet(Holding) /\ Cardinality(Holding) \in Nat
<1>1. Holding \subseteq Threads /\ IsFiniteSet(Threads)
  BY ZSMAssumption DEF Holding
<1>2. IsFiniteSet(Holding)
  BY <1>1, FS_Subset
<1>3. QED
  BY <1>2, FS_CardinalityType

\* A thread that is lent a chunk is one holder more.
LEMMA HoldOne ==
  ASSUME TypeOK, NEW t \in Threads, lent[t] = NoPair, NEW pair \in Pairs,
         lent' = [lent EXCEPT ![t] = pair]
  PROVE  /\ Holding' = Holding \union {t}
         /\ Cardinality(Holding)' = Cardinality(Holding) + 1
<1>1. pair # NoPair
  BY ZSMAssumption
<1>2. Holding' = Holding \union {t} /\ t \notin Holding
  BY <1>1 DEF Holding, TypeOK
<1>3. QED
  BY <1>2, HoldingFinite, FS_AddElement

\* A thread that gives its chunk back is one holder less.
LEMMA ReleaseOne ==
  ASSUME TypeOK, NEW t \in Threads, lent[t] # NoPair,
         lent' = [lent EXCEPT ![t] = NoPair]
  PROVE  /\ Holding' = Holding \ {t}
         /\ Cardinality(Holding)' = Cardinality(Holding) - 1
<1>1. Holding' = Holding \ {t} /\ t \in Holding
  BY DEF Holding, TypeOK
<1>2. QED
  BY <1>1, HoldingFinite, FS_RemoveElement

-----------------------------------------------------------------------------
(* The invariant holds initially.                                          *)

\* zsm_init establishes the invariant.
LEMMA InitInv == Init => ZSMInv
<1> SUFFICES ASSUME Init PROVE ZSMInv
  OBVIOUS
<1> USE ZSMAssumption DEF Init, InitZSM
<1>1. free \in Seq(Zones) /\ Len(free) = NumZones /\ DOMAIN free = 1 .. NumZones
  BY IsASeq DEF Zones
<1>2. Range(free) = Zones /\ IsInjective(free)
  <2>1. \A i \in 1 .. NumZones : free[i] = i - 1
    OBVIOUS
  <2>2. \A z \in Zones : z + 1 \in 1 .. NumZones /\ free[z + 1] = z
    BY <2>1 DEF Zones
  <2>3. Range(free) = Zones
    <3>1. \A y \in Range(free) : y \in Zones
      BY <1>1, <2>1 DEF Range, Zones
    <3>2. \A z \in Zones : z \in Range(free)
      BY <1>1, <2>2 DEF Range
    <3>3. QED
      BY <3>1, <3>2
  <2>4. IsInjective(free)
    BY <1>1, <2>1 DEF IsInjective
  <2>5. QED
    BY <2>3, <2>4
<1>3. active \in Seq(Zones) /\ Range(active) = {} /\ IsInjective(active) /\ Len(active) = 0
  BY EmptySeq DEF Range, IsInjective
<1>4. Holding = {}
  BY DEF Holding
<1>5. TypeOK
  <2>1. invalid \in [Zones -> Seq(0 .. max_zone_chunks - 1)]
    BY EmptySeq
  <2>2. chunk_offset \in [Zones -> 0 .. max_zone_chunks]
    OBVIOUS
  <2>3. state \in [Zones -> Conditions]
    BY DEF Conditions
  <2>4. lent \in [Threads -> Pairs \union {NoPair}]
    OBVIOUS
  <2>5. filled \subseteq Zones /\ marked \subseteq Pairs
    OBVIOUS
  <2>6. writes_occurring \in Int
    OBVIOUS
  <2>7. aborted \in BOOLEAN
    OBVIOUS
  <2>8. active \in Seq(Zones)
    BY <1>3
  <2>9. QED
    BY ONLY <1>1, <2>1, <2>2, <2>3, <2>4, <2>5, <2>6, <2>7, <2>8 DEF TypeOK
<1>6. HeldZoneStable
  BY <1>4 DEF HeldZoneStable
<1>7. WritesCounted
  BY <1>4, FS_EmptySet DEF WritesCounted
<1>8. ActiveLimit
  BY <1>3 DEF ActiveLimit, NumActive
<1>9. QueuesSound
  BY <1>2, <1>3 DEF QueuesSound
<1>10. ZonesTracked
  BY <1>2 DEF ZonesTracked
<1>11. QED
  BY <1>5, <1>6, <1>7, <1>8, <1>9, <1>10 DEF ZSMInv

-----------------------------------------------------------------------------
(* Lending and giving back.                                                *)

\* Lending a zone nobody holds keeps the holders apart and counted.
LEMMA LendInv ==
  ASSUME TypeOK, HeldZoneStable, WritesCounted,
         NEW t \in Threads, lent[t] = NoPair,
         NEW pair \in Pairs, state[pair.zone] # "WRITE_OCCURING",
         Lend(pair.zone),
         lent' = [lent EXCEPT ![t] = pair],
         chunk_offset' = [chunk_offset EXCEPT ![pair.zone] = pair.chunk_offset]
  PROVE  HeldZoneStable' /\ WritesCounted'
<1> USE DEF Lend
<1>1. pair.zone \in Zones /\ pair.chunk_offset \in 0 .. max_zone_chunks - 1
  BY DEF Pairs
<1>2. \A u \in Holding : lent[u] \in Pairs /\ lent[u].zone \in Zones /\ lent[u].zone # pair.zone
  BY DEF HeldZoneStable, Holding, TypeOK, Pairs
<1>3. Holding' = Holding \union {t} /\ t \notin Holding
  BY HoldOne DEF Holding
<1>4. lent'[t] = pair /\ \A u \in Holding : lent'[u] = lent[u]
  BY <1>3 DEF TypeOK, Holding
<1>5. ASSUME NEW u \in Holding'
      PROVE  /\ state'[lent'[u].zone] = "WRITE_OCCURING"
             /\ chunk_offset'[lent'[u].zone] = lent'[u].chunk_offset
  <2>1. CASE u = t
    BY <2>1, <1>1, <1>4 DEF TypeOK
  <2>2. CASE u \in Holding
    BY <2>2, <1>1, <1>2, <1>4 DEF TypeOK, HeldZoneStable
  <2>3. QED
    BY <1>3, <2>1, <2>2
<1>6. ASSUME NEW u \in Holding', NEW v \in Holding', lent'[u].zone = lent'[v].zone
      PROVE  u = v
  BY <1>2, <1>3, <1>4, <1>6 DEF HeldZoneStable
<1>7. HeldZoneStable'
  BY <1>5, <1>6 DEF HeldZoneStable
<1>8. WritesCounted'
  BY HoldOne DEF WritesCounted
<1>9. QED
  BY <1>7, <1>8

\* Giving a chunk back touches no other holder's zone.
LEMMA GiveBackInv ==
  ASSUME TypeOK, HeldZoneStable, WritesCounted,
         NEW t \in Threads, lent[t] # NoPair,
         lent' = [lent EXCEPT ![t] = NoPair],
         writes_occurring' = writes_occurring - 1,
         \A z \in Zones : z # lent[t].zone =>
            state'[z] = state[z] /\ chunk_offset'[z] = chunk_offset[z]
  PROVE  HeldZoneStable' /\ WritesCounted'
<1>1. Holding' = Holding \ {t} /\ t \in Holding
  BY ReleaseOne DEF Holding
<1>2. \A u \in Holding' : lent'[u] = lent[u] /\ lent[u].zone # lent[t].zone /\ lent[u].zone \in Zones
  BY <1>1 DEF HeldZoneStable, TypeOK, Holding, Pairs
<1>3. HeldZoneStable'
  BY <1>1, <1>2 DEF HeldZoneStable
<1>4. WritesCounted'
  BY ReleaseOne DEF WritesCounted
<1>5. QED
  BY <1>3, <1>4

-----------------------------------------------------------------------------
(* Every action preserves the invariant.                                   *)

\* Lending the head of the active queue (zone_state_manager.c:214-227).
LEMMA ReuseInv ==
  ASSUME ZSMInv, NEW t \in Threads, lent[t] = NoPair, NEW pair \in Pairs,
         ReuseActiveZone(pair),
         lent' = [lent EXCEPT ![t] = pair],
         UNCHANGED <<filled, marked, aborted>>
  PROVE  ZSMInv'
<1> DEFINE z == pair.zone
<1> USE DEF ZSMInv
<1>1. /\ active \in Seq(Zones) /\ active # <<>> /\ IsInjective(active)
      /\ z = Head(active) /\ active' = Tail(active)
      /\ pair.chunk_offset = chunk_offset[z]
      /\ UNCHANGED <<chunk_offset, invalid, free>>
  BY DEF ReuseActiveZone, TypeOK, QueuesSound
<1>2. /\ z \in Zones /\ z \in Range(active)
      /\ active' \in Seq(Zones)
      /\ Len(active') = Len(active) - 1
      /\ Range(active') = Range(active) \ {z}
      /\ IsInjective(active')
  BY <1>1, PopHead
<1>3. state[z] = "ACTIVE"
  BY <1>2 DEF QueuesSound
<1>4. /\ state' = [state EXCEPT ![z] = "WRITE_OCCURING"]
      /\ writes_occurring' = writes_occurring + 1
  BY DEF ReuseActiveZone, Lend
<1>5. Len(active) \in Nat
  BY <1>1, LenProperties
<1>6. TypeOK'
  BY <1>1, <1>2, <1>4 DEF TypeOK, Conditions
<1>7. HeldZoneStable' /\ WritesCounted'
  <2>1. Lend(pair.zone)
    BY DEF ReuseActiveZone
  <2>2. chunk_offset' = [chunk_offset EXCEPT ![pair.zone] = pair.chunk_offset]
    BY <1>1, <1>2 DEF TypeOK
  <2>3. QED
    BY <1>3, <2>1, <2>2, LendInv
<1>8. ActiveLimit'
  BY <1>1, <1>2, <1>4, <1>5 DEF ActiveLimit, NumActive, TypeOK
<1>9. QueuesSound'
  BY <1>1, <1>2, <1>3, <1>4 DEF QueuesSound, TypeOK
<1>10. ZonesTracked'
  <2>1. lent'[t] = pair /\ t \in Holding'
    BY ZSMAssumption DEF TypeOK, Holding
  <2>2. \A u \in Holding : u \in Holding' /\ lent'[u] = lent[u]
    BY ZSMAssumption DEF TypeOK, Holding
  <2>3. z \notin filled
    BY <1>3 DEF ZonesTracked
  <2>4. ASSUME NEW y \in Zones
        PROVE  /\ state'[y] = "FREE" => y \in Range(free') \/ "open" \in Faults
               /\ state'[y] = "ACTIVE" => y \in Range(active')
               /\ state'[y] = "FULL" => y \in filled' /\ chunk_offset'[y] = 0
               /\ state'[y] = "WRITE_OCCURING" =>
                    \/ \E u \in Holding' : lent'[u].zone = y
                    \/ "finish" \in Faults /\ y \in filled'
    <3>1. CASE y = z
      BY <3>1, <2>1, <1>2, <1>4 DEF TypeOK
    <3>2. CASE y # z
      BY <3>2, <2>2, <1>1, <1>2, <1>4 DEF TypeOK, ZonesTracked
    <3>3. QED
      BY <3>1, <3>2
  <2>5. \A y \in filled' :
          \/ state'[y] = "FULL"
          \/ /\ "finish" \in Faults
             /\ state'[y] = "WRITE_OCCURING"
             /\ chunk_offset'[y] = max_zone_chunks
    BY <2>3, <1>1, <1>4 DEF ZonesTracked, TypeOK
  <2>6. QED
    BY <2>4, <2>5 DEF ZonesTracked
<1>11. QED
  BY <1>6, <1>7, <1>8, <1>9, <1>10

\* Opening the first free zone and lending it (191-227).
LEMMA OpenInv ==
  ASSUME ZSMInv, NEW t \in Threads, lent[t] = NoPair, NEW pair \in Pairs,
         OpenFreeZone(pair),
         lent' = [lent EXCEPT ![t] = pair],
         UNCHANGED <<filled, marked, aborted>>
  PROVE  ZSMInv'
<1> DEFINE z == pair.zone
<1> USE DEF ZSMInv
<1>1. /\ free \in Seq(Zones) /\ free # <<>> /\ IsInjective(free)
      /\ z = Head(free) /\ free' = Tail(free)
      /\ pair.chunk_offset = 0
      /\ active = <<>> /\ NumActive < max_nr_active_zones
      /\ UNCHANGED <<invalid, active>>
  BY DEF OpenFreeZone, CanOpen, TypeOK, QueuesSound
<1>2. /\ z \in Zones /\ z \in Range(free)
      /\ free' \in Seq(Zones)
      /\ Range(free') = Range(free) \ {z}
      /\ IsInjective(free')
  BY <1>1, PopHead
<1>3. state[z] = "FREE"
  BY <1>2 DEF QueuesSound
<1>4. /\ state' = [state EXCEPT ![z] = "WRITE_OCCURING"]
      /\ chunk_offset' = [chunk_offset EXCEPT ![z] = 0]
      /\ writes_occurring' = writes_occurring + 1
  BY DEF OpenFreeZone, Lend
<1>5. TypeOK'
  BY <1>1, <1>2, <1>4, ZSMAssumption DEF TypeOK, Conditions
<1>6. HeldZoneStable' /\ WritesCounted'
  <2>1. Lend(pair.zone)
    BY DEF OpenFreeZone
  <2>2. chunk_offset' = [chunk_offset EXCEPT ![pair.zone] = pair.chunk_offset]
    BY <1>1, <1>4
  <2>3. QED
    BY <1>3, <2>1, <2>2, LendInv
<1>7. ActiveLimit'
  <2>1. Len(active) = 0
    BY <1>1, EmptySeq
  <2>2. QED
    BY <2>1, <1>1, <1>4, ZSMAssumption DEF ActiveLimit, NumActive, TypeOK
<1>8. QueuesSound'
  BY <1>1, <1>2, <1>3, <1>4 DEF QueuesSound, TypeOK
<1>9. ZonesTracked'
  <2>1. lent'[t] = pair /\ t \in Holding'
    BY ZSMAssumption DEF TypeOK, Holding
  <2>2. \A u \in Holding : u \in Holding' /\ lent'[u] = lent[u]
    BY ZSMAssumption DEF TypeOK, Holding
  <2>3. z \notin filled
    BY <1>3 DEF ZonesTracked
  <2>4. ASSUME NEW y \in Zones
        PROVE  /\ state'[y] = "FREE" => y \in Range(free') \/ "open" \in Faults
               /\ state'[y] = "ACTIVE" => y \in Range(active')
               /\ state'[y] = "FULL" => y \in filled' /\ chunk_offset'[y] = 0
               /\ state'[y] = "WRITE_OCCURING" =>
                    \/ \E u \in Holding' : lent'[u].zone = y
                    \/ "finish" \in Faults /\ y \in filled'
    <3>1. CASE y = z
      BY <3>1, <2>1, <1>2, <1>4 DEF TypeOK
    <3>2. CASE y # z
      BY <3>2, <2>2, <1>1, <1>2, <1>4 DEF TypeOK, ZonesTracked
    <3>3. QED
      BY <3>1, <3>2
  <2>5. \A y \in filled' :
          \/ state'[y] = "FULL"
          \/ /\ "finish" \in Faults
             /\ state'[y] = "WRITE_OCCURING"
             /\ chunk_offset'[y] = max_zone_chunks
    BY <2>3, <1>1, <1>4 DEF ZonesTracked, TypeOK
  <2>6. QED
    BY <2>4, <2>5 DEF ZonesTracked
<1>10. QED
  BY <1>5, <1>6, <1>7, <1>8, <1>9

\* Whichever way zsm_get_active_zone found a chunk, the invariant is kept.
LEMMA GetInv ==
  ASSUME ZSMInv, NEW t \in Threads, Get(t)
  PROVE  ZSMInv'
<1>1. PICK pair \in Pairs :
         /\ ReuseActiveZone(pair) \/ OpenFreeZone(pair)
         /\ lent' = [lent EXCEPT ![t] = pair]
  BY DEF Get
<1>2. lent[t] = NoPair /\ UNCHANGED <<filled, marked, aborted>>
  BY DEF Get
<1>3. CASE ReuseActiveZone(pair)
  BY <1>1, <1>2, <1>3, ReuseInv
<1>4. CASE OpenFreeZone(pair)
  BY <1>1, <1>2, <1>4, OpenInv
<1>5. QED
  BY <1>1, <1>3, <1>4

\* A free zone that would not open leaves the queue and stays FREE.
LEMMA GetErrorInv ==
  ASSUME ZSMInv, NEW t \in Threads, GetError(t)
  PROVE  ZSMInv'
<1> USE DEF ZSMInv
<1>1. /\ free \in Seq(Zones) /\ free # <<>> /\ IsInjective(free)
      /\ free' = Tail(free) /\ "open" \in Faults
      /\ UNCHANGED <<state, chunk_offset, invalid, active, writes_occurring,
                     clientVars, aborted>>
  BY DEF GetError, OpenFails, CanOpen, TypeOK, QueuesSound
<1>2. /\ free' \in Seq(Zones)
      /\ Range(free') \subseteq Range(free)
      /\ IsInjective(free')
  BY <1>1, PopHead
<1>3. TypeOK'
  BY <1>1, <1>2 DEF TypeOK, clientVars
<1>4. HeldZoneStable' /\ WritesCounted' /\ ActiveLimit'
  BY <1>1 DEF HeldZoneStable, WritesCounted, ActiveLimit, NumActive, Holding, clientVars
<1>5. QueuesSound'
  BY <1>1, <1>2 DEF QueuesSound
<1>6. ZonesTracked'
  BY <1>1, <1>2 DEF ZonesTracked, Holding, clientVars
<1>7. QED
  BY <1>3, <1>4, <1>5, <1>6

\* A held zone that goes back to the active queue, its write position moved
\* or not: the common part of zsm_return_active_zone and zsm_failed_to_write.
LEMMA ReactivateInv ==
  ASSUME ZSMInv, NEW t \in Threads, lent[t] # NoPair,
         lent' = [lent EXCEPT ![t] = NoPair],
         Reactivate(lent[t].zone),
         NEW n \in 0 .. max_zone_chunks - 1,
         chunk_offset' = [chunk_offset EXCEPT ![lent[t].zone] = n],
         writes_occurring' = writes_occurring - 1,
         UNCHANGED <<invalid, free, filled, marked, aborted>>
  PROVE  ZSMInv'
<1> DEFINE z == lent[t].zone
<1> USE DEF ZSMInv
<1>1. /\ z \in Zones /\ lent[t] \in Pairs /\ t \in Holding
      /\ state[z] = "WRITE_OCCURING" /\ chunk_offset[z] = lent[t].chunk_offset
      /\ lent[t].chunk_offset \in 0 .. max_zone_chunks - 1
  BY DEF TypeOK, Holding, HeldZoneStable, Pairs
<1>2. z \notin Range(active) /\ z \notin Range(free) /\ z \notin filled
  BY <1>1 DEF QueuesSound, ZonesTracked
<1>3. /\ state' = [state EXCEPT ![z] = "ACTIVE"]
      /\ active' = Append(active, z)
  BY DEF Reactivate
<1>4. /\ active' \in Seq(Zones)
      /\ Len(active') = Len(active) + 1
      /\ Range(active') = Range(active) \union {z}
      /\ IsInjective(active')
  BY <1>1, <1>2, <1>3, PushTail DEF TypeOK, QueuesSound
<1>5. Len(active) \in Nat
  BY LenProperties DEF TypeOK
<1>6. TypeOK'
  BY <1>1, <1>3, <1>4, ZSMAssumption DEF TypeOK, Conditions
<1>7. HeldZoneStable' /\ WritesCounted'
  <2>1. \A y \in Zones : y # z => state'[y] = state[y] /\ chunk_offset'[y] = chunk_offset[y]
    BY <1>3 DEF TypeOK
  <2>2. QED
    BY <2>1, GiveBackInv
<1>8. ActiveLimit'
  BY <1>4, <1>5 DEF ActiveLimit, NumActive, TypeOK
<1>9. QueuesSound'
  <2>1. ASSUME NEW y \in Range(active')
        PROVE  state'[y] = "ACTIVE" /\ chunk_offset'[y] < max_zone_chunks
    <3>1. CASE y = z
      BY <3>1, <1>1, <1>3, ZSMAssumption DEF TypeOK
    <3>2. CASE y # z
      BY <3>2, <1>3, <1>4 DEF QueuesSound, TypeOK
    <3>3. QED
      BY <3>1, <3>2
  <2>2. \A y \in Range(free') : state'[y] = "FREE" /\ chunk_offset'[y] = 0
    BY <1>2, <1>3 DEF QueuesSound, TypeOK
  <2>3. QED
    BY <2>1, <2>2, <1>4 DEF QueuesSound
<1>10. ZonesTracked'
  <2>1. \A u \in Holding : u # t => u \in Holding' /\ lent'[u] = lent[u]
    BY DEF TypeOK, Holding
  <2>2. ASSUME NEW y \in Zones
        PROVE  /\ state'[y] = "FREE" => y \in Range(free') \/ "open" \in Faults
               /\ state'[y] = "ACTIVE" => y \in Range(active')
               /\ state'[y] = "FULL" => y \in filled' /\ chunk_offset'[y] = 0
               /\ state'[y] = "WRITE_OCCURING" =>
                    \/ \E u \in Holding' : lent'[u].zone = y
                    \/ "finish" \in Faults /\ y \in filled'
    <3>1. CASE y = z
      BY <3>1, <1>1, <1>3, <1>4 DEF TypeOK
    <3>2. CASE y # z
      BY <3>2, <2>1, <1>3, <1>4 DEF TypeOK, ZonesTracked
    <3>3. QED
      BY <3>1, <3>2
  <2>3. \A y \in filled' :
          \/ state'[y] = "FULL"
          \/ /\ "finish" \in Faults
             /\ state'[y] = "WRITE_OCCURING"
             /\ chunk_offset'[y] = max_zone_chunks
    BY <1>2, <1>3 DEF ZonesTracked, TypeOK
  <2>4. QED
    BY <2>2, <2>3 DEF ZonesTracked
<1>11. QED
  BY <1>6, <1>7, <1>8, <1>9, <1>10

\* zsm_failed_to_write preserves the invariant.
LEMMA FailInv ==
  ASSUME ZSMInv, NEW t \in Threads, Fail(t)
  PROVE  ZSMInv'
<1> DEFINE z == lent[t].zone
            n == lent[t].chunk_offset
<1>1. /\ lent[t] # NoPair /\ lent' = [lent EXCEPT ![t] = NoPair]
      /\ Reactivate(z)
      /\ writes_occurring' = writes_occurring - 1
      /\ UNCHANGED <<chunk_offset, invalid, free, filled, marked, aborted>>
      /\ chunk_offset[z] = n
  BY DEF Fail, FailedToWrite, WriterAsserts
<1>2. z \in Zones /\ n \in 0 .. max_zone_chunks - 1
  BY <1>1 DEF ZSMInv, TypeOK, Pairs
<1>3. chunk_offset' = [chunk_offset EXCEPT ![z] = n]
  BY <1>1, <1>2 DEF ZSMInv, TypeOK
<1>4. QED
  BY <1>1, <1>2, <1>3, ReactivateInv

\* zsm_return_active_zone preserves it, for a zone that has room left, for a
\* zone that is finished and for one the device refuses to finish.
LEMMA ReturnInv ==
  ASSUME ZSMInv, NEW t \in Threads, Return(t)
  PROVE  ZSMInv'
<1> DEFINE z == lent[t].zone
            n == lent[t].chunk_offset
<1> USE DEF ZSMInv
<1>1. /\ lent[t] # NoPair /\ lent' = [lent EXCEPT ![t] = NoPair]
      /\ writes_occurring' = writes_occurring - 1
      /\ UNCHANGED <<invalid, free, marked, aborted>>
      /\ filled' = IF n = max_zone_chunks - 1 THEN filled \union {z} ELSE filled
      /\ chunk_offset[z] = n
  BY DEF Return, ReturnActiveZone, WriterAsserts
<1>2. /\ z \in Zones /\ n \in 0 .. max_zone_chunks - 1
      /\ t \in Holding /\ state[z] = "WRITE_OCCURING"
  BY <1>1 DEF TypeOK, Pairs, Holding, HeldZoneStable
<1>3. CASE /\ n + 1 # max_zone_chunks
           /\ chunk_offset' = [chunk_offset EXCEPT ![z] = @ + 1]
           /\ Reactivate(z)
  <2>1. n + 1 \in 0 .. max_zone_chunks - 1 /\ filled' = filled
    BY <1>1, <1>2, <1>3, ZSMAssumption
  <2>2. chunk_offset' = [chunk_offset EXCEPT ![z] = n + 1]
    BY <1>1, <1>2, <1>3 DEF TypeOK
  <2>3. QED
    BY <1>1, <1>3, <2>1, <2>2, ReactivateInv
<1>4. CASE n + 1 = max_zone_chunks /\ CloseZone(z) /\ UNCHANGED active
  <2>1. filled' = filled \union {z}
    BY <1>1, <1>2, <1>4, ZSMAssumption
  <2>2. \/ /\ state' = [state EXCEPT ![z] = "FULL"]
           /\ chunk_offset' = [chunk_offset EXCEPT ![z] = 0]
        \/ /\ "finish" \in Faults
           /\ chunk_offset' = [chunk_offset EXCEPT ![z] = max_zone_chunks]
           /\ state' = state
    BY <1>1, <1>2, <1>4 DEF CloseZone, TypeOK
  <2>3. z \notin Range(active) /\ z \notin Range(free)
    BY <1>2 DEF QueuesSound
  <2>4. \A y \in Zones : y # z => state'[y] = state[y] /\ chunk_offset'[y] = chunk_offset[y]
    BY <2>2 DEF TypeOK
  <2>5. TypeOK'
    <3>1. state' \in [Zones -> Conditions]
      BY <2>2 DEF TypeOK, Conditions
    <3>2. chunk_offset' \in [Zones -> 0 .. max_zone_chunks]
      <4>1. 0 \in 0 .. max_zone_chunks /\ max_zone_chunks \in 0 .. max_zone_chunks
        BY ZSMAssumption
      <4>2. QED
        BY <2>2, <4>1 DEF TypeOK
    <3>3. lent' \in [Threads -> Pairs \union {NoPair}]
      BY <1>1 DEF TypeOK
    <3>4. filled' \subseteq Zones
      BY <1>2, <2>1 DEF TypeOK
    <3>5. QED
      BY <1>1, <1>4, <3>1, <3>2, <3>3, <3>4 DEF TypeOK
  <2>6. HeldZoneStable' /\ WritesCounted'
    BY <1>1, <2>4, GiveBackInv
  <2>7. ActiveLimit'
    <3>1. Len(active) \in Nat
      BY LenProperties DEF TypeOK
    <3>2. QED
      BY <1>1, <1>4, <3>1, ZSMAssumption DEF ActiveLimit, NumActive, TypeOK
  <2>8. QueuesSound'
    <3>1. Range(active) \subseteq Zones /\ Range(free) \subseteq Zones
      BY RangeOfSeq DEF TypeOK, Range
    <3>2. QED
      BY <1>1, <1>4, <2>3, <2>4, <3>1 DEF QueuesSound
  <2>9. ZonesTracked'
    <3>1. \A u \in Holding : u # t => u \in Holding' /\ lent'[u] = lent[u]
      BY <1>1 DEF TypeOK, Holding
    <3>2. ASSUME NEW y \in Zones
          PROVE  /\ state'[y] = "FREE" => y \in Range(free') \/ "open" \in Faults
                 /\ state'[y] = "ACTIVE" => y \in Range(active')
                 /\ state'[y] = "FULL" => y \in filled' /\ chunk_offset'[y] = 0
                 /\ state'[y] = "WRITE_OCCURING" =>
                      \/ \E u \in Holding' : lent'[u].zone = y
                      \/ "finish" \in Faults /\ y \in filled'
      <4>1. CASE y = z
        BY <4>1, <1>2, <2>1, <2>2 DEF TypeOK
      <4>2. CASE y # z
        BY <4>2, <3>1, <1>1, <1>4, <2>1, <2>4 DEF ZonesTracked
      <4>3. QED
        BY <4>1, <4>2
    <3>3. \A y \in filled' :
            \/ state'[y] = "FULL"
            \/ /\ "finish" \in Faults
               /\ state'[y] = "WRITE_OCCURING"
               /\ chunk_offset'[y] = max_zone_chunks
      BY <1>2, <2>1, <2>2, <2>4 DEF ZonesTracked, TypeOK
    <3>4. QED
      BY <1>1, <3>2, <3>3 DEF ZonesTracked
  <2>10. QED
    BY <2>5, <2>6, <2>7, <2>8, <2>9
<1>5. QED
  BY <1>1, <1>3, <1>4 DEF Return, ReturnActiveZone

\* zsm_evict preserves the invariant: a full zone joins the free queue.
LEMMA EvictInv ==
  ASSUME ZSMInv, NEW z \in Zones, EvictZone(z)
  PROVE  ZSMInv'
<1> USE DEF ZSMInv
<1>1. /\ z \in filled /\ state[z] = "FULL"
      /\ state' = [state EXCEPT ![z] = "FREE"]
      /\ chunk_offset' = [chunk_offset EXCEPT ![z] = 0]
      /\ free' = Append(free, z)
      /\ filled' = filled \ {z} /\ marked' \subseteq marked
      /\ UNCHANGED <<invalid, active, writes_occurring, lent, aborted>>
  BY DEF EvictZone, Evict
<1>2. z \notin Range(active) /\ z \notin Range(free)
  BY <1>1 DEF QueuesSound
<1>3. /\ free' \in Seq(Zones)
      /\ Range(free') = Range(free) \union {z}
      /\ IsInjective(free')
  BY <1>1, <1>2, PushTail DEF TypeOK, QueuesSound
<1>4. \A y \in Zones : y # z => state'[y] = state[y] /\ chunk_offset'[y] = chunk_offset[y]
  BY <1>1 DEF TypeOK
<1>5. state'[z] = "FREE" /\ chunk_offset'[z] = 0
  BY <1>1 DEF TypeOK
<1>6. Range(active) \subseteq Zones /\ Range(free) \subseteq Zones
  BY RangeOfSeq DEF TypeOK, Range
<1>7. TypeOK'
  BY <1>1, <1>3, ZSMAssumption DEF TypeOK, Conditions
<1>8. HeldZoneStable' /\ WritesCounted' /\ ActiveLimit'
  <2>1. Holding' = Holding /\ \A t \in Holding : lent[t].zone \in Zones /\ lent[t].zone # z
    BY <1>1 DEF Holding, TypeOK, HeldZoneStable, Pairs
  <2>2. HeldZoneStable'
    BY <2>1, <1>1, <1>4 DEF HeldZoneStable
  <2>3. QED
    BY <2>1, <2>2, <1>1 DEF WritesCounted, ActiveLimit, NumActive
<1>9. QueuesSound'
  BY <1>1, <1>2, <1>3, <1>4, <1>5, <1>6 DEF QueuesSound
<1>10. ZonesTracked'
  <2>1. ASSUME NEW y \in Zones
        PROVE  /\ state'[y] = "FREE" => y \in Range(free') \/ "open" \in Faults
               /\ state'[y] = "ACTIVE" => y \in Range(active')
               /\ state'[y] = "FULL" => y \in filled' /\ chunk_offset'[y] = 0
               /\ state'[y] = "WRITE_OCCURING" =>
                    \/ \E u \in Holding' : lent'[u].zone = y
                    \/ "finish" \in Faults /\ y \in filled'
    BY <1>1, <1>3, <1>4, <1>5 DEF ZonesTracked, Holding
  <2>2. \A y \in filled' :
          \/ state'[y] = "FULL"
          \/ /\ "finish" \in Faults
             /\ state'[y] = "WRITE_OCCURING"
             /\ chunk_offset'[y] = max_zone_chunks
    BY <1>1, <1>4 DEF ZonesTracked, TypeOK
  <2>3. QED
    BY <1>1, <2>1, <2>2 DEF ZonesTracked
<1>11. QED
  BY <1>7, <1>8, <1>9, <1>10

\* Only a failing finish or reset command leads to a failed assertion.
LEMMA AbortInv ==
  ASSUME ZSMInv, NEW z \in Zones, EvictAbort(z)
  PROVE  ZSMInv'
<1> USE DEF ZSMInv
<1>1. aborted' = TRUE /\ UNCHANGED <<zsmVars, clientVars>>
  BY DEF EvictAbort, Abort
<1>2. Faults \intersect {"finish", "reset"} # {}
  BY DEF EvictAbort, EvictAborts, ZonesTracked
<1>3. TypeOK'
  BY <1>1 DEF TypeOK, zsmVars, clientVars
<1>4. HeldZoneStable' /\ WritesCounted' /\ ActiveLimit' /\ QueuesSound'
  BY <1>1 DEF HeldZoneStable, WritesCounted, ActiveLimit, NumActive, QueuesSound, Holding,
              zsmVars, clientVars
<1>5. ZonesTracked'
  BY <1>1, <1>2 DEF ZonesTracked, Holding, zsmVars, clientVars
<1>6. QED
  BY <1>3, <1>4, <1>5

\* zsm_mark_chunk_invalid only grows the invalid queue of a zone.
LEMMA MarkInv ==
  ASSUME ZSMInv, NEW pair \in Pairs, Mark(pair)
  PROVE  ZSMInv'
<1> USE DEF ZSMInv
<1>1. /\ invalid' = [invalid EXCEPT ![pair.zone] = Append(@, pair.chunk_offset)]
      /\ marked' = marked \union {pair}
      /\ UNCHANGED <<state, chunk_offset, active, free, writes_occurring,
                     lent, filled, aborted>>
  BY DEF Mark, MarkChunkInvalid
<1>2. invalid' \in [Zones -> Seq(0 .. max_zone_chunks - 1)]
  <2>1. /\ pair.zone \in Zones /\ pair.chunk_offset \in 0 .. max_zone_chunks - 1
        /\ invalid[pair.zone] \in Seq(0 .. max_zone_chunks - 1)
    BY DEF Pairs, TypeOK
  <2>2. Append(invalid[pair.zone], pair.chunk_offset) \in Seq(0 .. max_zone_chunks - 1)
    BY <2>1, AppendProperties
  <2>3. QED
    BY <1>1, <2>1, <2>2 DEF TypeOK
<1>3. TypeOK'
  BY <1>1, <1>2 DEF TypeOK
<1>4. HeldZoneStable' /\ WritesCounted' /\ ActiveLimit' /\ QueuesSound' /\ ZonesTracked'
  BY <1>1 DEF HeldZoneStable, WritesCounted, ActiveLimit, NumActive, QueuesSound, ZonesTracked,
              Holding
<1>5. QED
  BY <1>3, <1>4

\* A step that changes nothing preserves the invariant.
LEMMA StutterInv ==
  ASSUME ZSMInv, UNCHANGED vars
  PROVE  ZSMInv'
  BY DEF ZSMInv, TypeOK, HeldZoneStable, WritesCounted, ActiveLimit, NumActive, QueuesSound,
         ZonesTracked, Holding, vars, zsmVars, clientVars

\* Every step of the manager and its clients preserves the invariant.
LEMMA NextInv ==
  ASSUME ZSMInv, [Next]_vars
  PROVE  ZSMInv'
<1>1. ASSUME NEW t \in Threads, Get(t) PROVE ZSMInv'
  BY <1>1, GetInv
<1>2. ASSUME NEW t \in Threads, GetError(t) PROVE ZSMInv'
  BY <1>2, GetErrorInv
<1>3. ASSUME NEW t \in Threads, Return(t) PROVE ZSMInv'
  BY <1>3, ReturnInv
<1>4. ASSUME NEW t \in Threads, Fail(t) PROVE ZSMInv'
  BY <1>4, FailInv
<1>5. ASSUME NEW z \in Zones, EvictZone(z) PROVE ZSMInv'
  BY <1>5, EvictInv
<1>6. ASSUME NEW z \in Zones, EvictAbort(z) PROVE ZSMInv'
  BY <1>6, AbortInv
<1>7. ASSUME NEW pair \in Pairs, Mark(pair) PROVE ZSMInv'
  BY <1>7, MarkInv
<1>8. CASE UNCHANGED vars
  BY <1>8, StutterInv
<1>9. QED
  BY <1>1, <1>2, <1>3, <1>4, <1>5, <1>6, <1>7, <1>8 DEF Next

-----------------------------------------------------------------------------
(* Theorems.                                                               *)

\* The inductive invariant holds in every reachable state.
THEOREM Invariance == Spec => []ZSMInv
<1>1. Init => ZSMInv
  BY InitInv
<1>2. ZSMInv /\ [Next]_vars => ZSMInv'
  BY NextInv
<1>3. QED
  BY <1>1, <1>2, PTL DEF Spec

\* Every variable of the manager and of its clients keeps its type.
THEOREM TypeCorrect == Spec => []TypeOK
<1>1. ZSMInv => TypeOK
  BY DEF ZSMInv
<1>2. QED
  BY <1>1, Invariance, PTL

\* Writers never share a zone and always find theirs as they left it: the
\* assertions zsm_return_active_zone and zsm_failed_to_write make about the
\* zone they are given cannot fail.
THEOREM WritersExclusive == Spec => []HeldZoneStable
<1>1. ZSMInv => HeldZoneStable
  BY DEF ZSMInv
<1>2. QED
  BY <1>1, Invariance, PTL

\* The counter of writes is the number of writers, and the limit on active
\* zones that both giving-back functions assert is never exceeded.
THEOREM LimitRespected == Spec => [](WritesCounted /\ ActiveLimit)
<1>1. ZSMInv => WritesCounted /\ ActiveLimit
  BY DEF ZSMInv
<1>2. QED
  BY <1>1, Invariance, PTL

\* The queues hold no zone twice and only zones in the queue's state.
THEOREM QueuesCorrect == Spec => []QueuesSound
<1>1. ZSMInv => QueuesSound
  BY DEF ZSMInv
<1>2. QED
  BY <1>1, Invariance, PTL

\* Without a failing open or finish command no zone is ever lost.
THEOREM NothingLost ==
  ASSUME Faults \intersect {"open", "finish"} = {}
  PROVE  Spec => []NoZoneLost
<1>1. ZSMInv => NoZoneLost
  BY DEF ZSMInv, ZonesTracked, NoZoneLost
<1>2. QED
  BY <1>1, Invariance, PTL

\* Without a failing finish or reset command no assertion of zsm_evict fails.
THEOREM NoAbort ==
  ASSUME Faults \intersect {"finish", "reset"} = {}
  PROVE  Spec => []NeverAborts
<1>1. ZSMInv => NeverAborts
  BY DEF ZSMInv, ZonesTracked, NeverAborts
<1>2. QED
  BY <1>1, Invariance, PTL

-----------------------------------------------------------------------------
(* The number of open zones.                                               *)

\* A queue has at most as many members as its length.
LEMMA QueueCardinality ==
  ASSUME NEW S, NEW q \in Seq(S)
  PROVE  IsFiniteSet(Range(q)) /\ Cardinality(Range(q)) <= Len(q)
<1>1. Len(q) \in Nat /\ DOMAIN q = 1 .. Len(q) /\ q \in [1 .. Len(q) -> Range(q)]
  BY LenProperties DEF Range
<1>2. q \in Surjection(1 .. Len(q), Range(q))
  BY <1>1 DEF Surjection, Range
<1>3. IsFiniteSet(1 .. Len(q)) /\ Cardinality(1 .. Len(q)) = Len(q)
  BY <1>1, FS_Interval
<1>4. QED
  BY <1>2, <1>3, FS_Surjection

\* Writers hold at most one zone each.
LEMMA HeldCardinality ==
  LET held == {lent[t].zone : t \in Holding}
  IN  IsFiniteSet(held) /\ Cardinality(held) <= Cardinality(Holding)
<1> DEFINE held == {lent[t].zone : t \in Holding}
           f == [t \in Holding |-> lent[t].zone]
<1>1. f \in Surjection(Holding, held)
  BY DEF Surjection
<1>2. QED
  BY <1>1, HoldingFinite, FS_Surjection

\* The zones the device has open are the queued and the held ones, no more
\* than the manager's arithmetic counts.
LEMMA OpenZonesBounded ==
  ZSMInv => IsFiniteSet(OpenZones) /\ Cardinality(OpenZones) <= max_nr_active_zones
<1> SUFFICES ASSUME ZSMInv
             PROVE  IsFiniteSet(OpenZones) /\ Cardinality(OpenZones) <= max_nr_active_zones
  OBVIOUS
<1> DEFINE held == {lent[t].zone : t \in Holding}
<1>1. IsFiniteSet(Range(active)) /\ Cardinality(Range(active)) <= Len(active)
  BY QueueCardinality DEF ZSMInv, TypeOK
<1>2. IsFiniteSet(held) /\ Cardinality(held) <= Cardinality(Holding)
  BY HeldCardinality
<1>3. /\ IsFiniteSet(Range(active) \union held)
      /\ Cardinality(Range(active) \union held) =
           Cardinality(Range(active)) + Cardinality(held)
             - Cardinality(Range(active) \intersect held)
  BY <1>1, <1>2, FS_Union
<1>4. IsFiniteSet(Range(active) \intersect held)
  BY <1>1, FS_Subset
<1>5. /\ Cardinality(Range(active)) \in Nat /\ Cardinality(held) \in Nat
      /\ Cardinality(Range(active) \intersect held) \in Nat
      /\ Cardinality(Holding) \in Nat
  BY <1>1, <1>2, <1>4, FS_CardinalityType, HoldingFinite
<1>6. Len(active) \in Nat
  BY LenProperties DEF ZSMInv, TypeOK
<1>7. Len(active) + Cardinality(Holding) <= max_nr_active_zones
  BY DEF ZSMInv, ActiveLimit, NumActive, WritesCounted
<1>8. Cardinality(Range(active) \union held) <= max_nr_active_zones
  BY <1>1, <1>2, <1>3, <1>5, <1>6, <1>7, ZSMAssumption
<1>9. QED
  BY <1>3, <1>8 DEF OpenZones

\* The same bound in the state a step leads to.
LEMMA OpenZonesBoundedNext ==
  ZSMInv' => (IsFiniteSet(OpenZones) /\ Cardinality(OpenZones) <= max_nr_active_zones)'
BY OpenZonesBounded, PTL

\* The device never has more zones open than it allows, as long as it
\* finishes the zones it is told to finish.
THEOREM DeviceLimitRespected ==
  ASSUME "finish" \notin Faults
  PROVE  Spec => []DeviceActiveLimit
<1> DEFINE O == {z \in Zones : state[z] \in {"ACTIVE", "WRITE_OCCURING"}}
<1>1. ASSUME ZSMInv PROVE DeviceActiveLimit
  <2>1. O \subseteq OpenZones
    BY <1>1 DEF ZSMInv, ZonesTracked, OpenZones
  <2>2. IsFiniteSet(OpenZones) /\ Cardinality(OpenZones) <= max_nr_active_zones
    BY <1>1, OpenZonesBounded
  <2>3. IsFiniteSet(O) /\ Cardinality(O) <= Cardinality(OpenZones)
    BY <2>1, <2>2, FS_Subset
  <2>4. Cardinality(O) \in Nat /\ Cardinality(OpenZones) \in Nat
    BY <2>2, <2>3, FS_CardinalityType
  <2>5. Cardinality(O) <= max_nr_active_zones
    BY <2>2, <2>3, <2>4, ZSMAssumption
  <2>6. QED
    BY <2>5 DEF DeviceActiveLimit
<1>2. QED
  BY <1>1, Invariance, PTL

-----------------------------------------------------------------------------
(* Steps.                                                                  *)

\* A zone is emptied only when it is full and nobody holds it.
THEOREM ResetsOnlyFull == Spec => ResetOnlyFull
<1> DEFINE A == \A z \in Zones :
                  (state'[z] = "FREE" /\ state[z] # "FREE") =>
                    state[z] = "FULL"
                      /\ \A t \in Threads : lent[t] = NoPair \/ lent[t].zone # z
<1>1. ASSUME ZSMInv, [Next]_vars PROVE [A]_vars
  <2> SUFFICES ASSUME Next, NEW z \in Zones, state'[z] = "FREE", state[z] # "FREE"
               PROVE  state[z] = "FULL"
                        /\ \A t \in Threads : lent[t] = NoPair \/ lent[t].zone # z
    BY <1>1
  <2> USE DEF ZSMInv
  <2>1. ASSUME state[z] = "FULL"
        PROVE  \A t \in Threads : lent[t] = NoPair \/ lent[t].zone # z
    BY <1>1, <2>1 DEF HeldZoneStable, Holding
  <2>2. ASSUME NEW t \in Threads, Get(t) \/ GetError(t) \/ Return(t) \/ Fail(t)
        PROVE  FALSE
    BY <1>1, <2>2 DEF Get, GetError, Return, Fail, ReuseActiveZone, OpenFreeZone, OpenFails, Lend,
       ReturnActiveZone, FailedToWrite, Reactivate, CloseZone, TypeOK
  <2>3. ASSUME NEW y \in Zones, EvictZone(y)
        PROVE  state[z] = "FULL"
    BY <1>1, <2>3 DEF EvictZone, Evict, TypeOK
  <2>4. ASSUME NEW y \in Zones, EvictAbort(y)
        PROVE  FALSE
    BY <2>4 DEF EvictAbort, Abort, zsmVars
  <2>5. ASSUME NEW pair \in Pairs, Mark(pair)
        PROVE  FALSE
    BY <2>5 DEF Mark, MarkChunkInvalid
  <2>6. QED
    BY <2>1, <2>2, <2>3, <2>4, <2>5 DEF Next
<1>2. QED
  BY <1>1, Invariance, PTL DEF Spec, ResetOnlyFull

\* Between two resets a zone's position moves forward one chunk at a time,
\* and only when the chunk's writer gives it back.
THEOREM FillsSequentially == Spec => SequentialFill
<1> DEFINE A == \A z \in Zones :
                  chunk_offset'[z] # chunk_offset[z] =>
                    /\ \E t \in Holding : lent[t].zone = z /\ lent'[t] = NoPair
                    /\ \/ chunk_offset'[z] = chunk_offset[z] + 1
                       \/ state'[z] = "FULL" /\ chunk_offset[z] = max_zone_chunks - 1
<1>1. ASSUME ZSMInv, [Next]_vars PROVE [A]_vars
  <2> SUFFICES ASSUME Next, NEW z \in Zones, chunk_offset'[z] # chunk_offset[z]
               PROVE  /\ \E t \in Holding : lent[t].zone = z /\ lent'[t] = NoPair
                      /\ \/ chunk_offset'[z] = chunk_offset[z] + 1
                         \/ state'[z] = "FULL" /\ chunk_offset[z] = max_zone_chunks - 1
    BY <1>1
  <2> USE DEF ZSMInv
  <2>1. ASSUME NEW t \in Threads, NEW pair \in Pairs, ReuseActiveZone(pair)
        PROVE  FALSE
    BY <2>1 DEF ReuseActiveZone
  <2>2. ASSUME NEW t \in Threads, NEW pair \in Pairs, OpenFreeZone(pair)
        PROVE  FALSE
    <3>1. free # <<>> /\ free \in Seq(Zones) /\ pair.zone = Head(free)
      BY <1>1, <2>2 DEF OpenFreeZone, CanOpen, TypeOK
    <3>2. pair.zone \in Range(free) /\ pair.zone \in Zones
      BY <1>1, <3>1, PopHead DEF QueuesSound
    <3>3. chunk_offset[pair.zone] = 0
      BY <1>1, <3>2 DEF QueuesSound
    <3>4. chunk_offset' = [chunk_offset EXCEPT ![pair.zone] = 0]
      BY <2>2 DEF OpenFreeZone
    <3>5. QED
      BY <1>1, <3>2, <3>3, <3>4 DEF TypeOK
  <2>3. ASSUME NEW t \in Threads, Return(t)
        PROVE  /\ \E u \in Holding : lent[u].zone = z /\ lent'[u] = NoPair
               /\ \/ chunk_offset'[z] = chunk_offset[z] + 1
                  \/ state'[z] = "FULL" /\ chunk_offset[z] = max_zone_chunks - 1
    <3>1. /\ t \in Holding /\ lent'[t] = NoPair /\ lent[t].zone \in Zones
          /\ chunk_offset[lent[t].zone] \in 0 .. max_zone_chunks
      BY <1>1, <2>3 DEF Return, Holding, TypeOK, Pairs
    <3>2. \/ chunk_offset' = [chunk_offset EXCEPT ![lent[t].zone] = @ + 1]
          \/ /\ chunk_offset' = [chunk_offset EXCEPT ![lent[t].zone] = 0]
             /\ state' = [state EXCEPT ![lent[t].zone] = "FULL"]
             /\ chunk_offset[lent[t].zone] + 1 = max_zone_chunks
      BY <2>3 DEF Return, ReturnActiveZone, CloseZone
    <3>3. lent[t].zone = z
      BY <1>1, <3>1, <3>2 DEF TypeOK
    <3>4. QED
      BY <1>1, <3>1, <3>2, <3>3 DEF TypeOK
  <2>4. ASSUME NEW t \in Threads, GetError(t) \/ Fail(t)
        PROVE  FALSE
    BY <2>4 DEF GetError, OpenFails, Fail, FailedToWrite
  <2>5. ASSUME NEW y \in Zones, EvictZone(y)
        PROVE  FALSE
    <3>1. state[y] = "FULL" /\ chunk_offset' = [chunk_offset EXCEPT ![y] = 0]
      BY <2>5 DEF EvictZone, Evict
    <3>2. chunk_offset[y] = 0
      BY <1>1, <3>1 DEF ZonesTracked
    <3>3. QED
      BY <1>1, <3>1, <3>2 DEF TypeOK
  <2>6. ASSUME NEW y \in Zones, EvictAbort(y)
        PROVE  FALSE
    BY <2>6 DEF EvictAbort, Abort, zsmVars
  <2>7. ASSUME NEW pair \in Pairs, Mark(pair)
        PROVE  FALSE
    BY <2>7 DEF Mark, MarkChunkInvalid
  <2>8. QED
    BY <2>1, <2>2, <2>3, <2>4, <2>5, <2>6, <2>7 DEF Next, Get
<1>2. QED
  BY <1>1, Invariance, PTL DEF Spec, SequentialFill

-----------------------------------------------------------------------------
(* The manager implements the abstract zone lifecycle.                     *)

\* The cardinality the abstract module counts with is the same operator.
LEMMA SameCardinality == \A S : ZL!Cardinality(S) = Cardinality(S)
BY DEF ZL!Cardinality, Cardinality

\* Getting a chunk is acquiring the zone's next unwritten chunk.
LEMMA GetRefines ==
  ASSUME ZSMInv, ZSMInv', NEW t \in Threads, Get(t)
  PROVE  \E z \in Zones : ZL!Acquire(t, z)
<1> USE DEF ZSMInv
<1>1. PICK pair \in Pairs :
         /\ ReuseActiveZone(pair) \/ OpenFreeZone(pair)
         /\ lent' = [lent EXCEPT ![t] = pair]
  BY DEF Get
<1> DEFINE z == pair.zone
<1>2. z \in Zones /\ pair.chunk_offset \in 0 .. max_zone_chunks - 1 /\ lent[t] = NoPair
  BY DEF Get, Pairs
<1>3. /\ state[z] \in {"ACTIVE", "FREE"}
      /\ chunk_offset[z] = pair.chunk_offset
      /\ z \in Range(active) <=> active # <<>>
      /\ active' = IF active = <<>> THEN active ELSE Tail(active)
      /\ active # <<>> => z = Head(active)
  <2>1. CASE ReuseActiveZone(pair)
    <3>1. active \in Seq(Zones) /\ active # <<>> /\ z = Head(active) /\ active' = Tail(active)
          /\ pair.chunk_offset = chunk_offset[z]
      BY <2>1 DEF ReuseActiveZone, TypeOK
    <3>2. z \in Range(active)
      BY <3>1, PopHead DEF QueuesSound
    <3>3. QED
      BY <3>1, <3>2 DEF QueuesSound
  <2>2. CASE OpenFreeZone(pair)
    <3>1. free \in Seq(Zones) /\ free # <<>> /\ z = Head(free) /\ active = <<>> /\ active' = active
          /\ pair.chunk_offset = 0
      BY <2>2 DEF OpenFreeZone, CanOpen, TypeOK
    <3>2. z \in Range(free)
      BY <3>1, PopHead DEF QueuesSound
    <3>3. z \notin Range(active)
      BY <3>2 DEF QueuesSound
    <3>4. QED
      BY <3>1, <3>2, <3>3 DEF QueuesSound
  <2>3. QED
    BY <1>1, <2>1, <2>2
<1>4. \A u \in Threads : lent[u] = NoPair \/ lent[u].zone # z
  BY <1>3 DEF HeldZoneStable, Holding
<1>5. Fill[z] = pair.chunk_offset /\ Fill[z] < max_zone_chunks
  BY <1>2, <1>3, ZSMAssumption DEF Fill
<1>6. Fill' = Fill
  <2>1. /\ state' = [state EXCEPT ![z] = "WRITE_OCCURING"]
        /\ \/ chunk_offset' = chunk_offset
           \/ pair.chunk_offset = 0 /\ chunk_offset' = [chunk_offset EXCEPT ![z] = 0]
    BY <1>1 DEF ReuseActiveZone, OpenFreeZone, Lend
  <2>2. chunk_offset' = chunk_offset
    BY <2>1, <1>2, <1>3 DEF TypeOK
  <2>3. \A y \in Zones : state'[y] = "FULL" <=> state[y] = "FULL"
    BY <2>1, <1>2, <1>3 DEF TypeOK
  <2>4. QED
    BY <2>2, <2>3 DEF Fill
<1>7. OpenZones' = OpenZones \union {z}
  <2>1. Holding' = Holding \union {t} /\ lent'[t] = pair /\ t \notin Holding
    BY <1>1, <1>2, HoldOne DEF TypeOK, Holding
  <2>2. \A u \in Holding : lent'[u] = lent[u]
    BY <1>1, <2>1 DEF TypeOK, Holding
  <2>3. {lent'[u].zone : u \in Holding'} = {lent[u].zone : u \in Holding} \union {z}
    BY <2>1, <2>2
  <2>4. Range(active') \union {z} = Range(active) \union {z}
    <3>1. CASE active = <<>>
      BY <3>1, <1>3
    <3>2. CASE active # <<>>
      BY <3>2, <1>3, PopHead DEF TypeOK, QueuesSound
    <3>3. QED
      BY <3>1, <3>2
  <2>5. QED
    BY <2>3, <2>4 DEF OpenZones
<1>8. Cardinality(OpenZones') <= max_nr_active_zones
  BY OpenZonesBoundedNext
<1>9. ZL!Acquire(t, z)
  <2>1. pair = [zone |-> z, chunk_offset |-> Fill[z]]
    BY <1>5 DEF Pairs
  <2>2. lent' = [lent EXCEPT ![t] = [zone |-> z, chunk_offset |-> Fill[z]]]
    BY <1>1, <2>1
  <2>3. QED
    BY <1>2, <1>4, <1>5, <1>6, <1>7, <1>8, <2>2, SameCardinality DEF ZL!Acquire
<1>10. QED
  BY <1>2, <1>9

\* What giving a chunk back does to the open zones: the zone stays open
\* exactly when it went back to the active queue.
LEMMA GiveBackOpen ==
  ASSUME ZSMInv, NEW t \in Threads, lent[t] # NoPair,
         lent' = [lent EXCEPT ![t] = NoPair]
  PROVE  /\ active' = Append(active, lent[t].zone) => OpenZones' = OpenZones
         /\ active' = active => OpenZones' = OpenZones \ {lent[t].zone}
<1> DEFINE z == lent[t].zone
<1> USE DEF ZSMInv
<1>1. Holding' = Holding \ {t} /\ t \in Holding /\ \A u \in Holding' : lent'[u] = lent[u]
  BY ReleaseOne DEF TypeOK, Holding
<1>2. {lent'[u].zone : u \in Holding'} = {lent[u].zone : u \in Holding} \ {z}
  BY <1>1 DEF HeldZoneStable
<1>3. z \in Zones /\ z \in {lent[u].zone : u \in Holding}
  BY <1>1 DEF TypeOK, Pairs
<1>4. z \notin Range(active)
  BY <1>1 DEF QueuesSound, HeldZoneStable
<1>5. active' = Append(active, z) => Range(active') = Range(active) \union {z}
  BY <1>3, PushTail DEF TypeOK
<1>6. QED
  BY <1>2, <1>3, <1>4, <1>5 DEF OpenZones

\* Giving a written chunk back is committing it, whatever the device answers.
LEMMA ReturnRefines ==
  ASSUME ZSMInv, NEW t \in Threads, Return(t)
  PROVE  ZL!Commit(t)
<1> DEFINE z == lent[t].zone
            n == lent[t].chunk_offset
<1> USE DEF ZSMInv
<1>1. /\ lent[t] # NoPair /\ lent' = [lent EXCEPT ![t] = NoPair]
      /\ chunk_offset[z] = n /\ state[z] = "WRITE_OCCURING"
  BY DEF Return, ReturnActiveZone, WriterAsserts
<1>2. z \in Zones /\ n \in 0 .. max_zone_chunks - 1
  BY <1>1 DEF TypeOK, Pairs
<1>3. CASE /\ n + 1 # max_zone_chunks
           /\ chunk_offset' = [chunk_offset EXCEPT ![z] = @ + 1]
           /\ Reactivate(z)
  <2>1. Fill' = [Fill EXCEPT ![z] = n + 1]
    BY <1>1, <1>2, <1>3 DEF Fill, Reactivate, TypeOK
  <2>2. OpenZones' = OpenZones
    BY <1>1, <1>3, GiveBackOpen DEF Reactivate
  <2>3. Fill'[z] # max_zone_chunks
    BY <1>2, <1>3, <2>1 DEF Fill
  <2>4. QED
    BY <1>1, <2>1, <2>2, <2>3 DEF ZL!Commit
<1>4. CASE n + 1 = max_zone_chunks /\ CloseZone(z) /\ UNCHANGED active
  <2>1. \/ /\ state' = [state EXCEPT ![z] = "FULL"]
           /\ chunk_offset' = [chunk_offset EXCEPT ![z] = 0]
        \/ /\ chunk_offset' = [chunk_offset EXCEPT ![z] = n + 1]
           /\ state' = state
    BY <1>1, <1>2, <1>4 DEF CloseZone, TypeOK
  <2>2. Fill' = [Fill EXCEPT ![z] = n + 1]
    <3>1. Fill'[z] = n + 1
      BY <1>1, <1>2, <1>4, <2>1 DEF Fill, TypeOK
    <3>2. \A y \in Zones : y # z => Fill'[y] = Fill[y]
      BY <1>2, <2>1 DEF Fill, TypeOK
    <3>3. QED
      BY <1>2, <3>1, <3>2 DEF Fill
  <2>3. OpenZones' = OpenZones \ {z}
    BY <1>1, <1>4, GiveBackOpen
  <2>4. Fill'[z] = max_zone_chunks
    BY <1>2, <1>4, <2>2 DEF Fill
  <2>5. QED
    BY <1>1, <2>2, <2>3, <2>4 DEF ZL!Commit
<1>5. QED
  BY <1>1, <1>3, <1>4 DEF Return, ReturnActiveZone

\* A failed write gives up the chunk and leaves the zone as it was.
LEMMA FailRefines ==
  ASSUME ZSMInv, NEW t \in Threads, Fail(t)
  PROVE  ZL!Abandon(t)
<1> USE DEF ZSMInv
<1>1. /\ lent[t] # NoPair /\ lent' = [lent EXCEPT ![t] = NoPair]
      /\ state[lent[t].zone] = "WRITE_OCCURING"
      /\ Reactivate(lent[t].zone) /\ chunk_offset' = chunk_offset
  BY DEF Fail, FailedToWrite, WriterAsserts
<1>2. Fill' = Fill
  BY <1>1 DEF Reactivate, Fill, TypeOK
<1>3. OpenZones' = OpenZones
  BY <1>1, GiveBackOpen DEF Reactivate
<1>4. QED
  BY <1>1, <1>2, <1>3 DEF ZL!Abandon

\* Evicting a full zone empties it.
LEMMA EvictRefines ==
  ASSUME ZSMInv, NEW z \in Zones, EvictZone(z)
  PROVE  ZL!Recycle(z)
<1> USE DEF ZSMInv
<1>1. /\ state[z] = "FULL"
      /\ state' = [state EXCEPT ![z] = "FREE"]
      /\ chunk_offset' = [chunk_offset EXCEPT ![z] = 0]
      /\ UNCHANGED <<active, lent>>
  BY DEF EvictZone, Evict
<1>2. Fill[z] = max_zone_chunks /\ Fill' = [Fill EXCEPT ![z] = 0]
  BY <1>1 DEF Fill, TypeOK
<1>3. OpenZones' = OpenZones
  BY <1>1 DEF OpenZones, Holding
<1>4. QED
  BY <1>1, <1>2, <1>3 DEF ZL!Recycle

\* Queues, states, offsets and counters together implement the promise of the
\* manager: each step is a step of the abstract zone lifecycle or changes
\* nothing the callers can see.
THEOREM Refinement == Spec => ImplementsLifecycle
<1>1. Init => ZL!Init
  <2> SUFFICES ASSUME Init PROVE ZL!Init
    OBVIOUS
  <2>1. Fill = [z \in Zones |-> 0]
    BY DEF Fill, Init, InitZSM
  <2>2. Range(active) = {} /\ Holding = {}
    BY DEF Init, InitZSM, Range, Holding
  <2>3. QED
    BY <2>1, <2>2 DEF ZL!Init, ZL!Zones, Zones, OpenZones, Init
<1>2. ASSUME ZSMInv, ZSMInv', [Next]_vars
      PROVE  [ZL!Next]_(ZL!vars)
  <2>1. ASSUME NEW t \in Threads, Get(t) PROVE ZL!Next
    <3>1. PICK z \in Zones : ZL!Acquire(t, z)
      BY <1>2, <2>1, GetRefines
    <3>2. QED
      BY <3>1 DEF ZL!Next, ZL!Zones, Zones
  <2>2. ASSUME NEW t \in Threads, Return(t) PROVE ZL!Next
    BY <1>2, <2>2, ReturnRefines DEF ZL!Next
  <2>3. ASSUME NEW t \in Threads, Fail(t) PROVE ZL!Next
    BY <1>2, <2>3, FailRefines DEF ZL!Next
  <2>4. ASSUME NEW z \in Zones, EvictZone(z) PROVE ZL!Next
    BY <1>2, <2>4, EvictRefines DEF ZL!Next, ZL!Zones, Zones
  <2>5. ASSUME UNCHANGED <<state, chunk_offset, active, lent>>
        PROVE  UNCHANGED ZL!vars
    BY <2>5 DEF ZL!vars, Fill, OpenZones, Holding
  <2>6. ASSUME NEW t \in Threads, GetError(t) PROVE UNCHANGED ZL!vars
    BY <2>5, <2>6 DEF GetError, OpenFails, clientVars
  <2>7. ASSUME NEW z \in Zones, EvictAbort(z) PROVE UNCHANGED ZL!vars
    BY <2>5, <2>7 DEF EvictAbort, Abort, zsmVars, clientVars
  <2>8. ASSUME NEW pair \in Pairs, Mark(pair) PROVE UNCHANGED ZL!vars
    BY <2>5, <2>8 DEF Mark, MarkChunkInvalid
  <2>9. CASE UNCHANGED vars
    BY <2>5, <2>9 DEF vars, zsmVars, clientVars
  <2>10. QED
    BY <1>2, <2>1, <2>2, <2>3, <2>4, <2>6, <2>7, <2>8, <2>9 DEF Next
<1>3. QED
  BY <1>1, <1>2, Invariance, PTL DEF Spec, ImplementsLifecycle, ZL!Spec

=============================================================================
