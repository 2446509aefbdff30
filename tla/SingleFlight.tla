---------------------------- MODULE SingleFlight ----------------------------
(***************************************************************************)
(* What the cache map promises (src/include/cachemap.h): of the threads    *)
(* that want an id that is nowhere, one brings it in and the others wait;  *)
(* a thread that finds an id is told the place it was brought to; an id    *)
(* leaves the map by eviction only, whole and never while it is brought    *)
(* in.  Nothing is said of mutexes, condition variables, reference counts  *)
(* or the reverse index: they are how CacheMap keeps the promise.          *)
(***************************************************************************)
CONSTANTS
  Threads, DataIds, Places,
  Nowhere, Coming,     \* an id nobody has, and one that is being brought in
  NoId

VARIABLES
  place,     \* id -> where it is
  doing,     \* thread -> what it does and with which id
  told       \* thread -> the place a thread that uses an id was told

vars == <<place, doing, told>>

Idle == [what |-> "nothing", id |-> NoId]
Does(t, what, id) == doing[t] = [what |-> what, id |-> id]
Begins(t, what, id) == doing' = [doing EXCEPT ![t] = [what |-> what, id |-> id]]

Init ==
  /\ place = [id \in DataIds |-> Nowhere]
  /\ doing = [t \in Threads |-> Idle]
  /\ told = [t \in Threads |-> Nowhere]

Wants(t, id) == doing[t] = Idle \/ Does(t, "wait", id)

Hit(t, id) ==
  /\ Wants(t, id) /\ place[id] \in Places
  /\ Begins(t, "use", id)
  /\ told' = [told EXCEPT ![t] = place[id]]
  /\ UNCHANGED place

Wait(t, id) ==
  /\ Wants(t, id) /\ place[id] = Coming
  /\ Begins(t, "wait", id)
  /\ UNCHANGED <<place, told>>

Miss(t, id) ==
  /\ Wants(t, id) /\ place[id] = Nowhere
  /\ Begins(t, "bring", id)
  /\ place' = [place EXCEPT ![id] = Coming]
  /\ UNCHANGED told

Leave(t, id, what) ==
  /\ Does(t, what, id)
  /\ doing' = [doing EXCEPT ![t] = Idle]
  /\ told' = [told EXCEPT ![t] = Nowhere]

Used(t, id) == Leave(t, id, "use") /\ UNCHANGED place

Bring(t, id) ==
  /\ Leave(t, id, "bring")
  /\ \E p \in Places \union {Nowhere} : place' = [place EXCEPT ![id] = p]

\* Any ids that are somewhere, at once.
Evict ==
  /\ \E ids \in SUBSET {id \in DataIds : place[id] \in Places} :
       place' = [id \in DataIds |-> IF id \in ids THEN Nowhere ELSE place[id]]
  /\ UNCHANGED <<doing, told>>

Next ==
  \/ \E t \in Threads, id \in DataIds :
       Hit(t, id) \/ Wait(t, id) \/ Miss(t, id) \/ Used(t, id) \/ Bring(t, id)
  \/ Evict

Spec == Init /\ [][Next]_vars
=============================================================================
