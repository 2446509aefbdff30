--------------------------- MODULE ZoneLifecycle ---------------------------
(***************************************************************************)
(* What the zone state manager promises its callers, without queues,       *)
(* states or counters: a zone is filled one chunk after the other, by one  *)
(* writer at a time; only a bounded number of zones is open; and only a    *)
(* zone whose last chunk was written is ever emptied.                      *)
(***************************************************************************)
EXTENDS Integers, FiniteSets

CONSTANTS NumZones, max_zone_chunks, max_nr_active_zones, Threads, NoPair

Zones == 0 .. NumZones - 1
Pairs == [zone : Zones, chunk_offset : 0 .. max_zone_chunks - 1]

VARIABLES
  fill,   \* zone -> number of its chunks that are written
  open,   \* zones that are started and not finished
  lent    \* thread -> chunk it may write

vars == <<fill, open, lent>>

Init ==
  /\ fill = [z \in Zones |-> 0]
  /\ open = {}
  /\ lent = [t \in Threads |-> NoPair]

Acquire(t, z) ==
  /\ lent[t] = NoPair
  /\ \A u \in Threads : lent[u] = NoPair \/ lent[u].zone # z
  /\ fill[z] < max_zone_chunks
  /\ open' = open \union {z}
  /\ Cardinality(open') <= max_nr_active_zones
  /\ lent' = [lent EXCEPT ![t] = [zone |-> z, chunk_offset |-> fill[z]]]
  /\ UNCHANGED fill

Commit(t) ==
  /\ lent[t] # NoPair
  /\ fill' = [fill EXCEPT ![lent[t].zone] = lent[t].chunk_offset + 1]
  /\ open' = IF fill'[lent[t].zone] = max_zone_chunks THEN open \ {lent[t].zone}
                                                      ELSE open
  /\ lent' = [lent EXCEPT ![t] = NoPair]

Abandon(t) ==
  /\ lent[t] # NoPair
  /\ lent' = [lent EXCEPT ![t] = NoPair]
  /\ UNCHANGED <<fill, open>>

Recycle(z) ==
  /\ fill[z] = max_zone_chunks
  /\ fill' = [fill EXCEPT ![z] = 0]
  /\ UNCHANGED <<open, lent>>

Next ==
  \/ \E t \in Threads : Commit(t) \/ Abandon(t) \/ \E z \in Zones : Acquire(t, z)
  \/ \E z \in Zones : Recycle(z)

Spec == Init /\ [][Next]_vars
=============================================================================
