-------------------------- MODULE ZoneStateManager --------------------------
(***************************************************************************)
(* The zone state manager (src/src/zone_state_manager.c): the queues of    *)
(* free and active zones, the state and write position of every zone, and  *)
(* the number of zones lent to writers.  Every function of the module runs *)
(* under state_mutex, so every function is one step.                       *)
(*                                                                         *)
(* The operations are operators over the manager's variables only, so that *)
(* a module that composes the cache can use them.  The second half of this *)
(* module closes them with the most general client the cache can be: any   *)
(* number of threads that get a chunk, write it and give it back, and an   *)
(* evictor that returns filled zones in any order.                         *)
(***************************************************************************)
EXTENDS Integers, FiniteSets, Sequences, Functions

CONSTANTS
  NumZones,             \* num_zones
  max_zone_chunks,      \* zone_cap / chunk_size
  max_nr_active_zones,
  Threads,
  NoPair,               \* "holds no chunk"
  Faults,               \* the device commands that may fail
  MaxInvalid            \* bound on a zone's invalid queue; 0 when the eviction
                        \* policy never marks chunks (promotional)

Zones == 0 .. NumZones - 1
Pairs == [zone : Zones, chunk_offset : 0 .. max_zone_chunks - 1]
DeviceCommands == {"open", "finish", "reset"}

ASSUME ZSMAssumption ==
  /\ NumZones \in Nat \ {0}
  /\ max_zone_chunks \in Nat \ {0}
  /\ max_nr_active_zones \in Nat \ {0}
  /\ IsFiniteSet(Threads)
  /\ NoPair \notin Pairs
  /\ Faults \subseteq DeviceCommands
  /\ MaxInvalid \in Nat

VARIABLES
  state,            \* zone -> enum zn_zone_condition
  chunk_offset,     \* zone -> next chunk of the zone to be written
  invalid,          \* zone -> queue of invalidated chunks
  active,           \* queue of zones with room that nobody is writing
  free,             \* queue of reset zones
  writes_occurring, \* zones lent to a writer
  aborted,          \* an assert() of the program has failed
  lent,             \* client: thread -> chunk it is writing
  filled,           \* client: zones the eviction policy may name
  marked            \* client: chunks invalidated since their zone was reset

zsmVars == <<state, chunk_offset, invalid, active, free, writes_occurring>>
clientVars == <<lent, filled, marked>>
vars == <<zsmVars, clientVars, aborted>>

Conditions == {"FREE", "FULL", "ACTIVE", "WRITE_OCCURING"}

NumActive == Len(active) + writes_occurring      \* zsm_get_num_active_zones
NumFree == Len(free)                             \* zsm_get_num_free_zones

InitZSM ==
  /\ state = [z \in Zones |-> "FREE"]
  /\ chunk_offset = [z \in Zones |-> 0]
  /\ invalid = [z \in Zones |-> <<>>]
  /\ active = <<>>
  /\ free = [i \in 1 .. NumZones |-> i - 1]
  /\ writes_occurring = 0

-----------------------------------------------------------------------------
(* zsm_get_active_zone: its four answers.  The answers EVICT and RETRY     *)
(* change nothing.                                                         *)

MustEvict == NumActive = 0 /\ free = <<>>
\* Mutant: one zone over the limit.
CanOpen_OffByOne == active = <<>> /\ NumActive <= max_nr_active_zones /\ free # <<>>

CanOpen == active = <<>> /\ NumActive < max_nr_active_zones /\ free # <<>>

Lend(z) ==
  /\ state' = [state EXCEPT ![z] = "WRITE_OCCURING"]
  /\ writes_occurring' = writes_occurring + 1

\* Mutant: the offset advances when the chunk is lent.
ReuseActiveZone_Advance(pair) ==
  /\ active # <<>>
  /\ pair = [zone |-> Head(active), chunk_offset |-> chunk_offset[Head(active)]]
  /\ Lend(pair.zone)
  /\ active' = Tail(active)
  /\ chunk_offset' = [chunk_offset EXCEPT ![pair.zone] = @ + 1]
  /\ UNCHANGED <<invalid, free>>

\* The head of the active queue is lent.
ReuseActiveZone(pair) ==
  /\ active # <<>>
  /\ pair = [zone |-> Head(active), chunk_offset |-> chunk_offset[Head(active)]]
  /\ Lend(pair.zone)
  /\ active' = Tail(active)
  /\ UNCHANGED <<chunk_offset, invalid, free>>

\* No zone is active: open_zone puts the first free zone on the empty active
\* queue, and it is popped and lent at once.
OpenFreeZone(pair) ==
  /\ CanOpen
  /\ pair = [zone |-> Head(free), chunk_offset |-> 0]
  /\ Lend(pair.zone)
  /\ chunk_offset' = [chunk_offset EXCEPT ![pair.zone] = 0]
  /\ free' = Tail(free)
  /\ UNCHANGED <<invalid, active>>

\* zbd_open_zones fails after the zone left the free queue: it stays in none.
OpenFails ==
  /\ CanOpen
  /\ "open" \in Faults
  /\ free' = Tail(free)
  /\ UNCHANGED <<state, chunk_offset, invalid, active, writes_occurring>>

-----------------------------------------------------------------------------
(* A writer gives its chunk back.  The assertions of the two functions are *)
(* their guards; HeldZoneStable and ActiveLimit below say that no thread   *)
(* that holds a chunk can find them false.                                 *)

WriterAsserts(pair) ==
  /\ NumActive <= max_nr_active_zones
  /\ state[pair.zone] = "WRITE_OCCURING"
  /\ chunk_offset[pair.zone] = pair.chunk_offset

\* Mutant: the zone is not queued again.
Reactivate_Lost(z) ==
  /\ state' = [state EXCEPT ![z] = "ACTIVE"]
  /\ UNCHANGED active

Reactivate(z) ==
  /\ state' = [state EXCEPT ![z] = "ACTIVE"]
  /\ active' = Append(active, z)

\* Mutant: the state of a finished zone is not set.
CloseZone_NotFull(z) ==
  /\ chunk_offset' = [chunk_offset EXCEPT ![z] = 0]
  /\ UNCHANGED state

\* close_zone: a zone finished on the device is FULL; when the device refuses,
\* zsm_return_active_zone leaves the zone as it is and its caller goes on.
CloseZone(z) ==
  \/ /\ state' = [state EXCEPT ![z] = "FULL"]
     /\ chunk_offset' = [chunk_offset EXCEPT ![z] = 0]
  \/ /\ "finish" \in Faults
     /\ chunk_offset' = [chunk_offset EXCEPT ![z] = @ + 1]
     /\ UNCHANGED state

ReturnActiveZone(pair) ==
  /\ WriterAsserts(pair)
  /\ writes_occurring' = writes_occurring - 1
  /\ \/ /\ chunk_offset[pair.zone] + 1 = max_zone_chunks
        /\ CloseZone(pair.zone)
        /\ UNCHANGED active
     \/ /\ chunk_offset[pair.zone] + 1 # max_zone_chunks
        /\ chunk_offset' = [chunk_offset EXCEPT ![pair.zone] = @ + 1]
        /\ Reactivate(pair.zone)
  /\ UNCHANGED <<invalid, free>>

\* Mutant: the failed write still counts as going on.
FailedToWrite_Counted(pair) ==
  /\ WriterAsserts(pair)
  /\ chunk_offset[pair.zone] < max_zone_chunks
  /\ Reactivate(pair.zone)
  /\ UNCHANGED <<writes_occurring, chunk_offset, invalid, free>>

\* Mutant: the chunk that could not be written is skipped.
FailedToWrite_Skip(pair) ==
  /\ WriterAsserts(pair)
  /\ writes_occurring' = writes_occurring - 1
  /\ chunk_offset' = [chunk_offset EXCEPT ![pair.zone] = @ + 1]
  /\ Reactivate(pair.zone)
  /\ UNCHANGED <<invalid, free>>

FailedToWrite(pair) ==
  /\ WriterAsserts(pair)
  /\ chunk_offset[pair.zone] < max_zone_chunks
  /\ writes_occurring' = writes_occurring - 1
  /\ Reactivate(pair.zone)
  /\ UNCHANGED <<chunk_offset, invalid, free>>

-----------------------------------------------------------------------------
(* zsm_evict.  A successful reset_zone takes the early return, which skips *)
(* the clearing of the invalid queue; a failed one runs into the assertion *)
(* that the zone is free.                                                  *)

Evict(z) ==
  /\ state[z] = "FULL"
  /\ state' = [state EXCEPT ![z] = "FREE"]
  /\ chunk_offset' = [chunk_offset EXCEPT ![z] = 0]
  /\ free' = Append(free, z)
  /\ UNCHANGED <<invalid, active, writes_occurring>>

EvictAborts(z) == state[z] # "FULL" \/ "reset" \in Faults

MarkChunkInvalid(pair) ==
  /\ invalid' = [invalid EXCEPT ![pair.zone] = Append(@, pair.chunk_offset)]
  /\ UNCHANGED <<state, chunk_offset, active, free, writes_occurring>>

-----------------------------------------------------------------------------
(* The most general client.                                                *)

Init ==
  /\ InitZSM
  /\ aborted = FALSE
  /\ lent = [t \in Threads |-> NoPair]
  /\ filled = {}
  /\ marked = {}

Abort ==
  /\ aborted' = TRUE
  /\ UNCHANGED <<zsmVars, clientVars>>

Get(t) ==
  /\ lent[t] = NoPair
  /\ \E pair \in Pairs :
       /\ ReuseActiveZone(pair) \/ OpenFreeZone(pair)
       /\ lent' = [lent EXCEPT ![t] = pair]
  /\ UNCHANGED <<filled, marked, aborted>>

GetError(t) ==
  /\ lent[t] = NoPair
  /\ OpenFails
  /\ UNCHANGED <<clientVars, aborted>>

\* The writer of a zone's last chunk hands the zone to the eviction policy,
\* whatever zsm_return_active_zone returned (src/src/cache.c:129-131).
Return(t) ==
  /\ lent[t] # NoPair
  /\ ReturnActiveZone(lent[t])
  /\ lent' = [lent EXCEPT ![t] = NoPair]
  /\ filled' = IF lent[t].chunk_offset = max_zone_chunks - 1
               THEN filled \union {lent[t].zone} ELSE filled
  /\ UNCHANGED <<marked, aborted>>

Fail(t) ==
  /\ lent[t] # NoPair
  /\ FailedToWrite(lent[t])
  /\ lent' = [lent EXCEPT ![t] = NoPair]
  /\ UNCHANGED <<filled, marked, aborted>>

EvictZone(z) ==
  /\ z \in filled
  /\ Evict(z)
  /\ filled' = filled \ {z}
  /\ marked' = {pair \in marked : pair.zone # z}
  /\ UNCHANGED <<lent, aborted>>

EvictAbort(z) ==
  /\ z \in filled
  /\ EvictAborts(z)
  /\ Abort

\* The chunk policy invalidates a chunk once, after it was written.
Mark(pair) ==
  /\ pair \notin marked
  /\ \/ pair.chunk_offset < chunk_offset[pair.zone]
     \/ state[pair.zone] = "FULL"
  /\ Len(invalid[pair.zone]) < MaxInvalid
  /\ MarkChunkInvalid(pair)
  /\ marked' = marked \union {pair}
  /\ UNCHANGED <<lent, filled, aborted>>

Next ==
  /\ ~aborted
  /\ \/ \E t \in Threads : Get(t) \/ GetError(t) \/ Return(t) \/ Fail(t)
     \/ \E z \in Zones : EvictZone(z) \/ EvictAbort(z)
     \/ \E pair \in Pairs : Mark(pair)

Spec == Init /\ [][Next]_vars

-----------------------------------------------------------------------------
(* Correctness.                                                            *)

\* Types of the manager's and the client's variables.  chunk_offset reaches
\* max_zone_chunks only in a zone the device refused to finish.
TypeOK ==
  /\ state \in [Zones -> Conditions]
  /\ chunk_offset \in [Zones -> 0 .. max_zone_chunks]
  /\ invalid \in [Zones -> Seq(0 .. max_zone_chunks - 1)]
  /\ active \in Seq(Zones)
  /\ free \in Seq(Zones)
  /\ writes_occurring \in Int
  /\ aborted \in BOOLEAN
  /\ lent \in [Threads -> Pairs \union {NoPair}]
  /\ filled \subseteq Zones
  /\ marked \subseteq Pairs

Holding == {t \in Threads : lent[t] # NoPair}

\* Two threads never write to the same zone, and until a writer gives its
\* zone back nobody moves it: the assertions at zone_state_manager.c:248-249
\* and 299-301 hold at whatever moment it comes back.
HeldZoneStable ==
  /\ \A t \in Holding :
       /\ state[lent[t].zone] = "WRITE_OCCURING"
       /\ chunk_offset[lent[t].zone] = lent[t].chunk_offset
  /\ \A t, u \in Holding : lent[t].zone = lent[u].zone => t = u

\* writes_occurring is the number of threads that hold a chunk, whichever of
\* the two ways (zsm_return_active_zone, zsm_failed_to_write) each came back.
WritesCounted == writes_occurring = Cardinality(Holding)

\* The limit asserted at zone_state_manager.c:244 and :296.
ActiveLimit == NumActive <= max_nr_active_zones

\* No queue holds a zone twice, and the zones in a queue are in its state.
QueuesSound ==
  /\ IsInjective(active) /\ IsInjective(free)
  /\ \A z \in Range(active) : state[z] = "ACTIVE" /\ chunk_offset[z] < max_zone_chunks
  /\ \A z \in Range(free) : state[z] = "FREE" /\ chunk_offset[z] = 0

\* Every zone can still be reached: it is queued, lent, or full and known to
\* the eviction policy.  (A failed open or finish breaks this.)
NoZoneLost ==
  \A z \in Zones :
    /\ state[z] = "FREE" => z \in Range(free)
    /\ state[z] = "ACTIVE" => z \in Range(active)
    /\ state[z] = "FULL" => z \in filled
    /\ state[z] = "WRITE_OCCURING" => \E t \in Holding : lent[t].zone = z

\* zone_state_manager.h:62, "Maximum number of zones that can be active at
\* once": the zones the device has open, counted by their states and not by
\* the manager's own arithmetic.
DeviceActiveLimit ==
  Cardinality({z \in Zones : state[z] \in {"ACTIVE", "WRITE_OCCURING"}})
    <= max_nr_active_zones

\* No assertion of the zone state manager fails.
NeverAborts == ~aborted

\* A chunk that was handed out and not given back is never handed out again,
\* and the chunks of a zone are handed out in the order of their offsets:
\* between two resets the position of a zone only moves forward, one chunk at
\* a time, and only when its writer returns it.
SequentialFill ==
  [][\A z \in Zones :
       chunk_offset'[z] # chunk_offset[z] =>
         /\ \E t \in Holding : lent[t].zone = z /\ lent'[t] = NoPair
         /\ \/ chunk_offset'[z] = chunk_offset[z] + 1
            \/ state'[z] = "FULL" /\ chunk_offset[z] = max_zone_chunks - 1]_vars

\* A zone is emptied only by the evictor and only when it is full, never
\* under a writer.
ResetOnlyFull ==
  [][\A z \in Zones :
       (state'[z] = "FREE" /\ state[z] # "FREE") =>
         state[z] = "FULL" /\ \A t \in Threads : lent[t] = NoPair \/ lent[t].zone # z]_vars

\* Where every zone is, with the two ways the device can make the manager
\* lose one: a free zone that would not open, a written one that would not
\* finish.
ZonesTracked ==
  /\ \A z \in Zones :
       /\ state[z] = "FREE" => z \in Range(free) \/ "open" \in Faults
       /\ state[z] = "ACTIVE" => z \in Range(active)
       /\ state[z] = "FULL" => z \in filled /\ chunk_offset[z] = 0
       /\ state[z] = "WRITE_OCCURING" =>
            \/ \E t \in Holding : lent[t].zone = z
            \/ "finish" \in Faults /\ z \in filled
  /\ \A z \in filled :
       \/ state[z] = "FULL"
       \/ /\ "finish" \in Faults
          /\ state[z] = "WRITE_OCCURING"
          /\ chunk_offset[z] = max_zone_chunks
  /\ aborted => Faults \intersect {"finish", "reset"} # {}

\* The inductive invariant: what the manager's lock protects.
ZSMInv ==
  /\ TypeOK
  /\ HeldZoneStable
  /\ WritesCounted
  /\ ActiveLimit
  /\ QueuesSound
  /\ ZonesTracked

\* The manager implements the abstract zone lifecycle: a queue, a state and an
\* offset per zone amount to "how many chunks are written" and "is it open".
Fill == [z \in Zones |-> IF state[z] = "FULL" THEN max_zone_chunks ELSE chunk_offset[z]]
OpenZones == Range(active) \union {lent[t].zone : t \in Holding}

ZL == INSTANCE ZoneLifecycle WITH fill <- Fill, open <- OpenZones

ImplementsLifecycle == ZL!Spec

=============================================================================
