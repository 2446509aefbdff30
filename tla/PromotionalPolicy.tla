------------------------- MODULE PromotionalPolicy -------------------------
(***************************************************************************)
(* The promotional eviction policy (src/src/eviction/promotional.c): an    *)
(* LRU queue of the full zones and a map from a zone to its queue node.    *)
(* Both functions run under policy_mutex.                                  *)
(*                                                                         *)
(* A node of the queue is modelled by its zone: the map is the set of the  *)
(* zones whose entry is not NULL, and the entry of a zone points to the    *)
(* queue's link that holds it (NodesExact says there is exactly one).      *)
(***************************************************************************)
EXTENDS Integers, Sequences, Functions, LruQueue

CONSTANTS
  NumZones,
  max_zone_chunks,
  MaxUses          \* bound on the policy updates the client makes

Zones == 0 .. NumZones - 1
Pairs == [zone : Zones, chunk_offset : 0 .. max_zone_chunks - 1]

ASSUME PolicyAssumption ==
  /\ NumZones \in Nat \ {0}
  /\ max_zone_chunks \in Nat \ {0}
  /\ MaxUses \in Nat

VARIABLES
  lru_queue,
  zone_to_lru_map,   \* the zones with a node
  full,              \* client: zones filled and not evicted
  uses,              \* client: number of updates so far
  last_use           \* client: zone -> the update that filled it or read it last

policyVars == <<lru_queue, zone_to_lru_map>>
clientVars == <<full, uses, last_use>>
vars == <<policyVars, clientVars>>

InitPolicy ==
  /\ lru_queue = <<>>
  /\ zone_to_lru_map = {}

-----------------------------------------------------------------------------
(* zn_policy_promotional_update *)

\* Mutant: a zone enters the queue with the write of the chunk before its last.
UpdateWrite_Early(pair) ==
  IF pair.chunk_offset = max_zone_chunks - 2
  THEN /\ lru_queue' = Append(lru_queue, pair.zone)
       /\ zone_to_lru_map' = zone_to_lru_map \union {pair.zone}
  ELSE UNCHANGED policyVars

\* A zone enters the queue with the write of its last chunk.
UpdateWrite(pair) ==
  IF pair.chunk_offset = max_zone_chunks - 1
  THEN /\ lru_queue' = Append(lru_queue, pair.zone)
       /\ zone_to_lru_map' = zone_to_lru_map \union {pair.zone}
  ELSE UNCHANGED policyVars

\* Mutant: a read moves the zone to the head.
UpdateRead_ToHead(pair) ==
  /\ IF pair.zone \in zone_to_lru_map
     THEN lru_queue' = <<pair.zone>> \o SelectSeq(lru_queue, LAMBDA z : z # pair.zone)
     ELSE UNCHANGED lru_queue
  /\ UNCHANGED zone_to_lru_map

\* A read moves a queued zone to the tail and leaves every other zone alone.
UpdateRead(pair) ==
  /\ \/ /\ pair.zone \in zone_to_lru_map
        /\ \E i \in DOMAIN lru_queue : lru_queue[i] = pair.zone /\ lru_queue' = ToTail(lru_queue, i)
     \/ /\ pair.zone \notin zone_to_lru_map
        /\ UNCHANGED lru_queue
  /\ UNCHANGED zone_to_lru_map

\* Mutant: the victim stays in the queue.
GetZoneToEvict_Peek(z) ==
  /\ lru_queue # <<>>
  /\ z = Head(lru_queue)
  /\ UNCHANGED policyVars

\* zn_policy_promotional_get_zone_to_evict; with an empty queue it returns -1.
GetZoneToEvict(z) ==
  /\ lru_queue # <<>>
  /\ z = Head(lru_queue)
  /\ lru_queue' = Tail(lru_queue)
  /\ zone_to_lru_map' = zone_to_lru_map \ {z}

-----------------------------------------------------------------------------
(* The most general client: a zone is filled at most once between two      *)
(* evictions; any zone may be read at any time, and the writer of another  *)
(* chunk may come late, when the zone is full or was evicted already.      *)

Init ==
  /\ InitPolicy
  /\ full = {}
  /\ uses = 0
  /\ last_use = [z \in Zones |-> 0]

Tick == uses < MaxUses /\ uses' = uses + 1

Use(z) == Tick /\ last_use' = [last_use EXCEPT ![z] = uses + 1]

Fill(pair) ==
  /\ pair.chunk_offset = max_zone_chunks - 1
  /\ pair.zone \notin full
  /\ UpdateWrite(pair)
  /\ full' = full \union {pair.zone}
  /\ Use(pair.zone)

\* The update after a write of another chunk promotes no zone, full or not.
Write(pair) ==
  /\ pair.chunk_offset # max_zone_chunks - 1
  /\ UpdateWrite(pair)
  /\ Tick
  /\ UNCHANGED <<full, last_use>>

Read(pair) ==
  /\ UpdateRead(pair)
  /\ Use(pair.zone)
  /\ UNCHANGED full

Evict(z) ==
  /\ GetZoneToEvict(z)
  /\ full' = full \ {z}
  /\ UNCHANGED <<uses, last_use>>

Next ==
  \/ \E pair \in Pairs : Fill(pair) \/ Write(pair) \/ Read(pair)
  \/ \E z \in Zones : Evict(z)

Spec == Init /\ [][Next]_vars

-----------------------------------------------------------------------------
(* Correctness.                                                            *)

\* Types of the policy's and the client's variables.
TypeOK ==
  /\ lru_queue \in Seq(Zones)
  /\ zone_to_lru_map \subseteq Zones
  /\ full \subseteq Zones
  /\ uses \in 0 .. MaxUses
  /\ last_use \in [Zones -> 0 .. MaxUses]

\* The map has a node exactly for the zones of the queue, which holds each
\* once: no entry points to a link g_queue_delete_link already freed.
NodesExact ==
  /\ IsInjective(lru_queue)
  /\ Range(lru_queue) = zone_to_lru_map

\* No full zone is forgotten, none is queued twice, and no zone that is not
\* full can be chosen, through the queue or through a node of the map.
QueueIsFullZones ==
  /\ TypeOK
  /\ NodesExact
  /\ Range(lru_queue) = full

\* The victim is the least recently used: whatever order fills, reads, late
\* writers and evictions came in, the queue is sorted by the time a zone was
\* filled or last read.
LeastRecentlyUsedFirst ==
  \A i, j \in DOMAIN lru_queue :
    i < j => last_use[lru_queue[i]] < last_use[lru_queue[j]]

=============================================================================
