--------------------------- MODULE PriorityQueue ---------------------------
(***************************************************************************)
(* What the min-heap promises (src/include/minheap.h): a set of entries    *)
(* with priorities, from which an entry of the lowest priority is taken.   *)
(* An entry that was taken still exists, and its priority may change.      *)
(***************************************************************************)
EXTENDS Integers

CONSTANTS Entries, Priorities

VARIABLES
  members,    \* the entries in the queue
  priority

vars == <<members, priority>>

Init ==
  /\ members = {}
  /\ priority \in [Entries -> Priorities]

Insert(e, p) ==
  /\ e \notin members
  /\ members' = members \union {e}
  /\ priority' = [priority EXCEPT ![e] = p]

ExtractMin(e) ==
  /\ e \in members
  /\ \A f \in members : priority[e] <= priority[f]
  /\ members' = members \ {e}
  /\ UNCHANGED priority

Update(e, p) ==
  /\ priority' = [priority EXCEPT ![e] = p]
  /\ UNCHANGED members

Next ==
  \/ \E e \in Entries, p \in Priorities : Insert(e, p) \/ Update(e, p)
  \/ \E e \in Entries : ExtractMin(e)

Spec == Init /\ [][Next]_vars
=============================================================================
