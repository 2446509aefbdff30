--------------------- MODULE PromotionalPolicy_proofs ---------------------
(***************************************************************************)
(* Proofs about PromotionalPolicy for every number of zones and chunks and *)
(* every sequence of fills, late writes, reads and evictions.              *)
(***************************************************************************)
EXTENDS PromotionalPolicy, LruQueue_proofs, TLAPS

\* No zone was used after the last update.
UsesPast == \A z \in Zones : last_use[z] <= uses

\* The inductive invariant: that the tail of the queue is the last zone used
\* needs the clock.
PolicyInv == QueueIsFullZones /\ LeastRecentlyUsedFirst /\ UsesPast

-----------------------------------------------------------------------------
(* Queues as functions.                                                    *)

LEMMA QueueFacts ==
  ASSUME PolicyInv
  PROVE  /\ lru_queue \in Seq(Zones) /\ full \subseteq Zones /\ zone_to_lru_map = full
         /\ uses \in 0 .. MaxUses /\ last_use \in [Zones -> 0 .. MaxUses]
         /\ \A k \in DOMAIN lru_queue : lru_queue[k] \in full
         /\ \A z \in full : \E k \in DOMAIN lru_queue : lru_queue[k] = z
         /\ \A i, j \in DOMAIN lru_queue : lru_queue[i] = lru_queue[j] => i = j
BY DEF PolicyInv, QueueIsFullZones, TypeOK, NodesExact, Range, IsInjective

\* The other way round: what has to be shown of a new queue.
LEMMA QueueMade ==
  ASSUME NEW q, NEW f, \A k \in DOMAIN q : q[k] \in f, \A z \in f : \E k \in DOMAIN q : q[k] = z,
         \A i, j \in DOMAIN q : q[i] = q[j] => i = j
  PROVE  Range(q) = f /\ IsInjective(q)
BY DEF Range, IsInjective

LEMMA Clock ==
  ASSUME PolicyInv, NEW z \in Zones, Use(z)
  PROVE  /\ uses' \in 0 .. MaxUses /\ last_use' \in [Zones -> 0 .. MaxUses] /\ UsesPast'
         /\ last_use'[z] = uses + 1
         /\ \A y \in Zones : last_use[y] < uses + 1 /\ (y # z => last_use'[y] = last_use[y])
<1>1. uses \in 0 .. MaxUses /\ last_use \in [Zones -> 0 .. MaxUses] /\ MaxUses \in Nat
  BY QueueFacts, PolicyAssumption
<1>2. \A y \in Zones : last_use[y] <= uses /\ last_use[y] \in Nat
  BY <1>1 DEF PolicyInv, UsesPast
<1>3. uses' = uses + 1 /\ uses' \in 0 .. MaxUses
  BY <1>1 DEF Use, Tick
<1>4. /\ last_use'[z] = uses + 1 /\ last_use' \in [Zones -> 0 .. MaxUses]
      /\ \A y \in Zones : y # z => last_use'[y] = last_use[y]
  BY <1>1, <1>3 DEF Use
<1>5. UsesPast'
  BY <1>1, <1>2, <1>3, <1>4 DEF UsesPast
<1>6. QED
  BY <1>1, <1>2, <1>3, <1>4, <1>5

-----------------------------------------------------------------------------
(* The steps.                                                              *)

LEMMA InitInv == Init => PolicyInv
<1> SUFFICES ASSUME Init PROVE PolicyInv
  OBVIOUS
<1>1. /\ lru_queue = <<>> /\ zone_to_lru_map = {} /\ full = {} /\ uses = 0
      /\ last_use = [z \in Zones |-> 0] /\ MaxUses \in Nat
  BY PolicyAssumption DEF Init, InitPolicy
<1>2. LeastRecentlyUsedFirst /\ UsesPast
  BY <1>1 DEF LeastRecentlyUsedFirst, UsesPast
<1>3. /\ lru_queue \in Seq(Zones) /\ DOMAIN lru_queue = {}
      /\ uses \in 0 .. MaxUses /\ last_use \in [Zones -> 0 .. MaxUses]
  BY <1>1
<1>4. Range(lru_queue) = {} /\ IsInjective(lru_queue)
  BY <1>3, QueueMade
<1>5. QED
  BY <1>1, <1>2, <1>3, <1>4 DEF PolicyInv, QueueIsFullZones, TypeOK, NodesExact

\* The write of a zone's last chunk puts the zone at the tail.
LEMMA FillKeeps ==
  ASSUME PolicyInv, NEW pair \in Pairs, Fill(pair)
  PROVE  PolicyInv'
<1> DEFINE z == pair.zone
           n == Len(lru_queue)
<1>1. z \in Zones /\ z \notin full /\ Use(z)
  BY DEF Fill, Pairs
<1>2. /\ lru_queue' = Append(lru_queue, z) /\ full' = full \union {z}
      /\ zone_to_lru_map' = full'
  BY QueueFacts DEF Fill, UpdateWrite
<1>3. /\ n \in Nat /\ DOMAIN lru_queue = 1 .. n
      /\ lru_queue' \in Seq(Zones) /\ DOMAIN lru_queue' = 1 .. n + 1
      /\ \A k \in 1 .. n : lru_queue'[k] = lru_queue[k]
      /\ lru_queue'[n + 1] = z
  BY <1>1, <1>2, QueueFacts, QueueOps
<1> HIDE DEF n, z
<1>4. \A k \in DOMAIN lru_queue' : lru_queue'[k] \in full'
  BY <1>2, <1>3, QueueFacts
<1>5. \A y \in full' : \E k \in DOMAIN lru_queue' : lru_queue'[k] = y
  BY <1>2, <1>3, QueueFacts
<1>6. \A i, j \in DOMAIN lru_queue' : lru_queue'[i] = lru_queue'[j] => i = j
  BY <1>1, <1>2, <1>3, QueueFacts
<1>7. LeastRecentlyUsedFirst'
  <2> SUFFICES ASSUME NEW i \in 1 .. n + 1, NEW j \in 1 .. n + 1, i < j
               PROVE  last_use'[lru_queue'[i]] < last_use'[lru_queue'[j]]
    BY <1>3 DEF LeastRecentlyUsedFirst
  <2>1. i \in 1 .. n /\ lru_queue'[i] = lru_queue[i] /\ lru_queue[i] \in Zones /\ lru_queue[i] # z
    BY <1>1, <1>3, QueueFacts
  <2>2. CASE j = n + 1
    BY <1>1, <1>3, <2>1, <2>2, Clock
  <2>3. CASE j \in 1 .. n
    <3>1. lru_queue'[j] = lru_queue[j] /\ lru_queue[j] \in Zones /\ lru_queue[j] # z
      BY <1>1, <1>3, <2>3, QueueFacts
    <3>2. last_use[lru_queue[i]] < last_use[lru_queue[j]]
      BY <1>3, <2>1, <2>3 DEF PolicyInv, LeastRecentlyUsedFirst
    <3>3. QED
      BY <1>1, <2>1, <3>1, <3>2, Clock
  <2>4. QED
    BY <1>3, <2>2, <2>3
<1>8. /\ uses' \in 0 .. MaxUses /\ last_use' \in [Zones -> 0 .. MaxUses] /\ UsesPast'
      /\ full' \subseteq Zones
  BY <1>1, <1>2, Clock, QueueFacts
<1>9. Range(lru_queue') = full' /\ IsInjective(lru_queue')
  BY <1>4, <1>5, <1>6, QueueMade
<1>10. QED
  BY <1>2, <1>3, <1>7, <1>8, <1>9 DEF PolicyInv, QueueIsFullZones, TypeOK, NodesExact

\* The write of another chunk leaves the queue as it is.
LEMMA WriteKeeps ==
  ASSUME PolicyInv, NEW pair \in Pairs, Write(pair)
  PROVE  PolicyInv'
<1>1. UNCHANGED <<lru_queue, zone_to_lru_map, full, last_use>> /\ Tick
  BY DEF Write, UpdateWrite, policyVars
<1>2. /\ uses \in 0 .. MaxUses /\ last_use \in [Zones -> 0 .. MaxUses] /\ MaxUses \in Nat
      /\ \A z \in Zones : last_use[z] <= uses
  BY QueueFacts, PolicyAssumption DEF PolicyInv, UsesPast
<1>3. uses' \in 0 .. MaxUses /\ UsesPast'
  BY <1>1, <1>2 DEF Tick, UsesPast
<1>4. LeastRecentlyUsedFirst'
  BY <1>1 DEF PolicyInv, LeastRecentlyUsedFirst
<1>5. QED
  BY <1>1, <1>3, <1>4, QueueFacts DEF PolicyInv, QueueIsFullZones, TypeOK, NodesExact

(***************************************************************************)
(* What the policy's operations do to its two variables, whoever calls     *)
(* them.                                                                   *)
(***************************************************************************)

LEMMA UpdateReadSound ==
  ASSUME lru_queue \in Seq(Zones), NodesExact, NEW pair, UpdateRead(pair)
  PROVE  /\ lru_queue' \in Seq(Zones) /\ NodesExact'
         /\ UNCHANGED zone_to_lru_map /\ Range(lru_queue') = Range(lru_queue)
<1>1. CASE \E d \in DOMAIN lru_queue : lru_queue' = ToTail(lru_queue, d)
  BY <1>1, ToTailKeeps DEF UpdateRead, NodesExact
<1>2. CASE UNCHANGED lru_queue
  BY <1>2 DEF UpdateRead, NodesExact
<1>3. QED
  BY <1>1, <1>2 DEF UpdateRead

LEMMA UpdateWriteSound ==
  ASSUME lru_queue \in Seq(Zones), NodesExact, NEW pair \in Pairs,
         pair.zone \notin zone_to_lru_map, UpdateWrite(pair)
  PROVE  /\ lru_queue' \in Seq(Zones) /\ NodesExact'
         /\ Range(lru_queue') = IF pair.chunk_offset = max_zone_chunks - 1
                                THEN Range(lru_queue) \union {pair.zone} ELSE Range(lru_queue)
<1>1. CASE pair.chunk_offset = max_zone_chunks - 1
  <2>1. /\ pair.zone \in Zones /\ lru_queue' = Append(lru_queue, pair.zone)
        /\ zone_to_lru_map' = zone_to_lru_map \union {pair.zone}
    BY <1>1 DEF Pairs, UpdateWrite
  <2>2. QED
    BY <1>1, <2>1, AppendKeeps DEF NodesExact
<1>2. CASE pair.chunk_offset # max_zone_chunks - 1
  BY <1>2 DEF UpdateWrite, policyVars, NodesExact
<1>3. QED
  BY <1>1, <1>2

LEMMA GetZoneSound ==
  ASSUME lru_queue \in Seq(Zones), NodesExact, NEW z, GetZoneToEvict(z)
  PROVE  /\ lru_queue' \in Seq(Zones) /\ NodesExact'
         /\ z \in Range(lru_queue) /\ Range(lru_queue') = Range(lru_queue) \ {z}
BY TailKeeps DEF GetZoneToEvict, NodesExact

\* A read of a queued zone moves it to the tail, of another changes nothing.
LEMMA ReadKeeps ==
  ASSUME PolicyInv, NEW pair \in Pairs, Read(pair)
  PROVE  PolicyInv'
<1> DEFINE z == pair.zone
           n == Len(lru_queue)
<1>1. z \in Zones /\ Use(z) /\ UNCHANGED <<full, zone_to_lru_map>>
  BY DEF Read, UpdateRead, Pairs
<1>2. uses' \in 0 .. MaxUses /\ last_use' \in [Zones -> 0 .. MaxUses] /\ UsesPast'
  BY <1>1, Clock
<1>3. CASE z \in zone_to_lru_map
  <2>1. PICK d \in DOMAIN lru_queue : lru_queue[d] = z /\ lru_queue' = ToTail(lru_queue, d)
    BY <1>3 DEF Read, UpdateRead
  <2>2. /\ n \in Nat /\ DOMAIN lru_queue = 1 .. n /\ d \in 1 .. n
        /\ \A k \in 1 .. n : lru_queue[k] \in Zones
    BY <2>1, QueueFacts, QueueOps
  <2>3. /\ \A k \in 1 .. n : lru_queue'[k] = IF k < d THEN lru_queue[k]
                                             ELSE IF k < n THEN lru_queue[k + 1] ELSE z
        /\ DOMAIN lru_queue' = 1 .. n
    BY <2>1, <2>2 DEF ToTail
  <2> HIDE DEF n, z
  <2> DEFINE old(k) == Old(n, d, k)
  <2>5. \A k \in 1 .. n : old(k) \in 1 .. n /\ lru_queue'[k] = lru_queue[old(k)]
    BY <2>1, <2>2, <2>3 DEF Old
  <2>8. ASSUME NEW k \in 1 .. n, k # n PROVE lru_queue'[k] # z
    <3>1. old(k) # d
      BY <2>2, <2>8 DEF Old
    <3>2. QED
      BY <2>1, <2>2, <2>5, <3>1, QueueFacts
  <2>9. ASSUME NEW i \in 1 .. n, NEW j \in 1 .. n, i < j, j # n PROVE old(i) < old(j)
    BY <2>2, <2>9, OldMonotone
  <2> HIDE DEF old
  <2>10. LeastRecentlyUsedFirst'
    <3> SUFFICES ASSUME NEW i \in 1 .. n, NEW j \in 1 .. n, i < j
                 PROVE  last_use'[lru_queue'[i]] < last_use'[lru_queue'[j]]
      BY <2>3 DEF LeastRecentlyUsedFirst
    <3>1. i # n /\ lru_queue'[i] # z /\ lru_queue'[i] \in Zones
      BY <2>2, <2>5, <2>8
    <3>2. CASE j = n
      <4>1. lru_queue'[j] = z
        BY <2>2, <2>3, <3>2
      <4>2. QED
        BY <1>1, <3>1, <4>1, Clock
    <3>3. CASE j # n
      <4>1. lru_queue'[j] # z /\ lru_queue'[j] \in Zones
        BY <2>2, <2>5, <2>8, <3>3
      <4>2. last_use[lru_queue[old(i)]] < last_use[lru_queue[old(j)]]
        BY <2>2, <2>5, <2>9, <3>3 DEF PolicyInv, LeastRecentlyUsedFirst
      <4>3. QED
        BY <1>1, <2>5, <3>1, <4>1, <4>2, Clock
    <3>4. QED
      BY <3>2, <3>3
  <2>11. lru_queue' \in Seq(Zones) /\ Range(lru_queue') = full /\ IsInjective(lru_queue')
    BY <2>1, ToTailKeeps, QueueFacts DEF PolicyInv, QueueIsFullZones, NodesExact
  <2>12. QED
    BY <1>1, <1>2, <2>10, <2>11, QueueFacts
       DEF PolicyInv, QueueIsFullZones, TypeOK, NodesExact
<1>4. CASE z \notin zone_to_lru_map
  <2>1. UNCHANGED lru_queue /\ z \notin full
    BY <1>4, QueueFacts DEF Read, UpdateRead
  <2>2. LeastRecentlyUsedFirst'
    <3> SUFFICES ASSUME NEW i \in DOMAIN lru_queue, NEW j \in DOMAIN lru_queue, i < j
                 PROVE  last_use'[lru_queue[i]] < last_use'[lru_queue[j]]
      BY <2>1 DEF LeastRecentlyUsedFirst
    <3>1. last_use[lru_queue[i]] < last_use[lru_queue[j]]
      BY DEF PolicyInv, LeastRecentlyUsedFirst
    <3>2. lru_queue[i] \in Zones \ {z} /\ lru_queue[j] \in Zones \ {z}
      BY <2>1, QueueFacts
    <3>3. QED
      BY <1>1, <3>1, <3>2, Clock
  <2>3. QED
    BY <1>1, <1>2, <2>1, <2>2 DEF PolicyInv, QueueIsFullZones, TypeOK, NodesExact
<1>5. QED
  BY <1>3, <1>4

LEMMA EvictKeeps ==
  ASSUME PolicyInv, NEW z \in Zones, Evict(z)
  PROVE  PolicyInv'
<1> DEFINE n == Len(lru_queue)
<1>1. /\ lru_queue # <<>> /\ z = Head(lru_queue) /\ lru_queue' = Tail(lru_queue)
      /\ full' = full \ {z} /\ zone_to_lru_map' = full' /\ UNCHANGED <<uses, last_use>>
  BY QueueFacts DEF Evict, GetZoneToEvict
<1>2. /\ n \in Nat /\ n >= 1 /\ DOMAIN lru_queue = 1 .. n /\ lru_queue[1] = z
      /\ lru_queue' \in Seq(Zones) /\ DOMAIN lru_queue' = 1 .. n - 1
      /\ \A k \in 1 .. n - 1 : lru_queue'[k] = lru_queue[k + 1]
  <2>1. lru_queue' \in Seq(Zones) /\ Len(lru_queue') = n - 1
    BY <1>1, QueueFacts, QueueOps
  <2>2. DOMAIN lru_queue' = 1 .. n - 1
    BY <2>1
  <2>3. QED
    BY <1>1, <2>1, <2>2, QueueFacts, QueueOps
<1> HIDE DEF n
<1>3. \A k \in DOMAIN lru_queue' : lru_queue'[k] \in full'
  BY <1>1, <1>2, QueueFacts
<1>4. \A y \in full' : \E k \in DOMAIN lru_queue' : lru_queue'[k] = y
  <2> SUFFICES ASSUME NEW y \in full, y # z PROVE \E k \in 1 .. n - 1 : lru_queue'[k] = y
    BY <1>1, <1>2
  <2>1. PICK m \in 1 .. n : lru_queue[m] = y
    BY <1>2, QueueFacts
  <2>2. m - 1 \in 1 .. n - 1 /\ lru_queue'[m - 1] = y
    BY <1>2, <2>1
  <2>3. QED
    BY <2>2
<1>5. \A i, j \in DOMAIN lru_queue' : lru_queue'[i] = lru_queue'[j] => i = j
  <2> SUFFICES ASSUME NEW i \in 1 .. n - 1, NEW j \in 1 .. n - 1, lru_queue'[i] = lru_queue'[j]
               PROVE  i = j
    BY <1>2
  <2>1. i + 1 \in 1 .. n /\ j + 1 \in 1 .. n /\ lru_queue[i + 1] = lru_queue[j + 1]
    BY <1>2
  <2>2. i + 1 = j + 1
    BY <1>2, <2>1, QueueFacts
  <2>3. QED
    BY <2>2
<1>6. LeastRecentlyUsedFirst'
  BY <1>1, <1>2 DEF PolicyInv, LeastRecentlyUsedFirst
<1>7. Range(lru_queue') = full' /\ IsInjective(lru_queue')
  BY <1>3, <1>4, <1>5, QueueMade
<1>8. full' \subseteq Zones /\ UsesPast'
  BY <1>1, QueueFacts DEF PolicyInv, UsesPast
<1>9. QED
  BY <1>1, <1>2, <1>6, <1>7, <1>8, QueueFacts
     DEF PolicyInv, QueueIsFullZones, TypeOK, NodesExact

-----------------------------------------------------------------------------

\* In every reachable state the policy is sound.
THEOREM PolicyInvariant == Spec => []PolicyInv
<1>1. PolicyInv /\ [Next]_vars => PolicyInv'
  <2>1. ASSUME PolicyInv, UNCHANGED vars PROVE PolicyInv'
    BY <2>1 DEF PolicyInv, QueueIsFullZones, TypeOK, NodesExact, LeastRecentlyUsedFirst, UsesPast,
               vars, policyVars, clientVars
  <2>2. QED
    BY <2>1, FillKeeps, WriteKeeps, ReadKeeps, EvictKeeps DEF Next
<1>2. QED
  BY InitInv, <1>1, PTL DEF Spec

\* The queue holds exactly the full zones, each once, and each has a node.
THEOREM FullZonesQueued == Spec => []QueueIsFullZones
<1>1. PolicyInv => QueueIsFullZones
  BY DEF PolicyInv
<1>2. QED
  BY <1>1, PolicyInvariant, PTL

\* The victim is the zone whose last use is longest ago.
THEOREM VictimIsOldest == Spec => []LeastRecentlyUsedFirst
<1>1. PolicyInv => LeastRecentlyUsedFirst
  BY DEF PolicyInv
<1>2. QED
  BY <1>1, PolicyInvariant, PTL
===========================================================================
