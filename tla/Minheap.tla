------------------------------ MODULE Minheap ------------------------------
(***************************************************************************)
(* The min-heap of the chunk policy (src/src/minheap.c): an array of       *)
(* pointers to entries, each of which knows its index, so that a caller    *)
(* can change the priority of an entry it holds a pointer to.              *)
(*                                                                         *)
(* Every function runs under the heap's mutex.  The loops of bubble_up and *)
(* bubble_down are unrolled, one step per turn; while one is running,      *)
(* "bubbling" says which and no other function can start.                  *)
(***************************************************************************)
EXTENDS Integers, FiniteSets

CONSTANTS
  Entries,     \* as many as exist at a time (malloc)
  Priorities

ASSUME MinheapAssumption ==
  /\ IsFiniteSet(Entries)
  /\ Priorities \subseteq Nat /\ Priorities # {}

\* The array doubles its capacity when it is full; an entry is in it at most
\* once, so it never needs more slots than this.
Slots == 0 .. Cardinality(Entries) - 1

VARIABLES
  arr,        \* slot below size -> entry; nothing is read beyond size
  size,
  priority,   \* entry -> priority
  index,      \* entry -> its slot, kept when the entry is extracted
  status,     \* entry -> "unused", "queued", or "extracted" and owned by a caller
  bubbling,   \* "no", "up" or "down"
  at          \* the slot the running loop has reached, else 0

heapVars == <<arr, size, index>>
vars == <<heapVars, priority, status, bubbling, at>>

\* The fields of memory that is not allocated have no meaning.
Unset == CHOOSE p \in Priorities : TRUE

InHeap == 0 .. size - 1

Init ==
  /\ arr = <<>>
  /\ size = 0
  /\ priority = [e \in Entries |-> Unset]
  /\ index = [e \in Entries |-> 0]
  /\ status = [e \in Entries |-> "unused"]
  /\ bubbling = "no"
  /\ at = 0

Parent(i) == (i - 1) \div 2
Prio(i) == priority[arr[i]]

Bubble(direction, i) ==
  /\ bubbling' = direction
  /\ at' = i

Stop == bubbling' = "no" /\ at' = 0

-----------------------------------------------------------------------------
(* The three functions, up to the loop they end with.                      *)

AddLast(e) ==
  /\ arr' = [i \in 0 .. size |-> IF i = size THEN e ELSE arr[i]]
  /\ index' = [index EXCEPT ![e] = size]
  /\ size' = size + 1

Insert(e, p) ==
  /\ bubbling = "no" /\ status[e] = "unused"
  /\ status' = [status EXCEPT ![e] = "queued"]
  /\ priority' = [priority EXCEPT ![e] = p]
  /\ AddLast(e)
  /\ Bubble("up", size)

\* The last entry moves to the root.
LastToRoot ==
  /\ arr' = [i \in 0 .. size - 2 |-> IF i = 0 THEN arr[size - 1] ELSE arr[i]]
  /\ index' = [index EXCEPT ![arr[size - 1]] = 0]

\* Mutant: bubble_down does not start at the root.
SiftLast_Stay == LastToRoot /\ UNCHANGED <<bubbling, at>>

SiftLast == LastToRoot /\ Bubble("down", 0)

\* The root is returned to the caller, which owns it from now on.
ExtractMin ==
  /\ bubbling = "no" /\ size > 0
  /\ status' = [status EXCEPT ![arr[0]] = "extracted"]
  /\ size' = size - 1
  /\ \/ size = 1 /\ arr' = <<>> /\ UNCHANGED <<index, bubbling, at>>
     \/ size > 1 /\ SiftLast
  /\ UNCHANGED priority

\* The entry may have been extracted before: only its index is looked at.
UpdateByEntry(e, p) ==
  /\ bubbling = "no" /\ status[e] # "unused"
  /\ index[e] < size
  /\ priority' = [priority EXCEPT ![e] = p]
  /\ \/ p < priority[e] /\ Bubble("up", index[e])
     \/ p > priority[e] /\ Bubble("down", index[e])
     \/ p = priority[e] /\ UNCHANGED <<bubbling, at>>
  /\ UNCHANGED <<heapVars, status>>

\* The caller frees an entry it has extracted.
Free(e) ==
  /\ status[e] = "extracted"
  /\ status' = [status EXCEPT ![e] = "unused"]
  /\ priority' = [priority EXCEPT ![e] = Unset]
  /\ UNCHANGED <<heapVars, bubbling, at>>

-----------------------------------------------------------------------------
(* The loops.                                                              *)

Swap(i, j) ==
  /\ arr' = [arr EXCEPT ![i] = arr[j], ![j] = arr[i]]
  /\ index' = [index EXCEPT ![arr[i]] = j, ![arr[j]] = i]

BubbleUp ==
  /\ bubbling = "up"
  /\ \/ /\ at > 0 /\ Prio(at) < Prio(Parent(at))
        /\ Swap(at, Parent(at))
        /\ Bubble("up", Parent(at))
     \/ /\ at > 0 => Prio(at) >= Prio(Parent(at))
        /\ Stop
        /\ UNCHANGED <<arr, index>>
  /\ UNCHANGED <<size, priority, status>>

Children(i) == {c \in {2 * i + 1, 2 * i + 2} : c < size}

\* Mutant: the right child is not compared.
Smallest_Left(i) ==
  IF 2 * i + 1 \in Children(i) /\ Prio(2 * i + 1) < Prio(i) THEN 2 * i + 1 ELSE i

\* The slot among i and its children with the lowest priority, the first of
\* them when some are equal.
Smallest(i) ==
  CHOOSE s \in Children(i) \union {i} :
    \A o \in (Children(i) \union {i}) \ {s} :
      Prio(s) < Prio(o) \/ (Prio(s) = Prio(o) /\ s < o)

BubbleDown ==
  /\ bubbling = "down"
  /\ LET smallest == Smallest(at)
     IN  \/ /\ smallest # at
            /\ Swap(at, smallest)
            /\ Bubble("down", smallest)
         \/ /\ smallest = at
            /\ Stop
            /\ UNCHANGED <<arr, index>>
  /\ UNCHANGED <<size, priority, status>>

Next ==
  \/ \E e \in Entries, p \in Priorities : Insert(e, p) \/ UpdateByEntry(e, p)
  \/ ExtractMin
  \/ \E e \in Entries : Free(e)
  \/ BubbleUp
  \/ BubbleDown

Spec == Init /\ [][Next]_vars

-----------------------------------------------------------------------------
(* Correctness.                                                            *)

Queued == {e \in Entries : status[e] = "queued"}

\* Types of the heap's variables.
TypeOK ==
  /\ size \in 0 .. Cardinality(Entries)
  /\ arr \in [InHeap -> Entries]
  /\ priority \in [Entries -> Priorities]
  /\ index \in [Entries -> Slots]
  /\ status \in [Entries -> {"unused", "queued", "extracted"}]
  /\ bubbling \in {"no", "up", "down"}
  /\ at \in Nat

\* A loop is at a slot of the heap, whatever was extracted before it began.
AtInHeap == IF bubbling = "no" THEN at = 0 ELSE at \in InHeap

\* The array holds exactly the queued entries, and each of them knows where it
\* is, after any sequence of swaps: a pointer kept by a caller finds its entry.
IndexExact ==
  /\ \A i \in InHeap : arr[i] \in Queued /\ index[arr[i]] = i
  /\ \A e \in Queued : index[e] \in InHeap /\ arr[index[e]] = e

\* No entry has a lower priority than its parent, but for the one slot a loop
\* is working on, whose children are then no lower than its parent: a running
\* bubble_up has nothing to repair below it, a running bubble_down nothing
\* above, even when it was started by an update of an extracted entry.
HeapOrdered ==
  /\ \A i \in InHeap \ {0} :
       \/ Prio(Parent(i)) <= Prio(i)
       \/ bubbling = "up" /\ i = at
       \/ bubbling = "down" /\ Parent(i) = at
  /\ bubbling # "no" =>
       \A i \in InHeap \ {0} :
         at # 0 /\ Parent(i) = at => Prio(Parent(at)) <= Prio(i)

\* The invariant of the heap at every moment, also inside its loops.
HeapInv == TypeOK /\ IndexExact /\ AtInHeap /\ HeapOrdered

\* The heap is a priority queue: what zn_minheap_extract_min returns has the
\* lowest priority of all queued entries.
PQ == INSTANCE PriorityQueue WITH members <- Queued
ImplementsQueue == PQ!Spec

=============================================================================
