--------------------------- MODULE Minheap_proofs ---------------------------
(***************************************************************************)
(* Proofs about the min-heap: HeapInv is an invariant, for any number of   *)
(* entries and any set of priorities, and the heap is a priority queue.    *)
(***************************************************************************)
EXTENDS Minheap, TLAPS, FiniteSetTheorems, WellFoundedInduction

-----------------------------------------------------------------------------
(* Slots, priorities and numbers.                                          *)

\* A parent comes before its children.
LEMMA ParentBefore ==
  ASSUME NEW i \in Nat \ {0}
  PROVE  Parent(i) \in Nat /\ Parent(i) < i
BY DEF Parent

\* The children of a slot are the two slots it is the parent of.
LEMMA ChildrenOf ==
  ASSUME NEW i \in Nat, NEW c \in Nat \ {0}
  PROVE  Parent(c) = i <=> c \in {2 * i + 1, 2 * i + 2}
BY DEF Parent

\* A set of numbers that is not empty has a least one.
LEMMA Least ==
  ASSUME NEW S \in SUBSET Nat, S # {}
  PROVE  \E m \in S : \A k \in S : m <= k
<1>1. PICK m \in S : \A k \in S : <<k, m>> \notin OpToRel(<, Nat)
  BY WFMin, NatLessThanWellFounded
<1>2. \A k \in Nat, l \in Nat : k < l => <<k, l>> \in OpToRel(<, Nat)
  BY DEF OpToRel
<1>3. \A k \in S : m <= k
  <2> TAKE k \in S
  <2>1. k \in Nat /\ m \in Nat
    OBVIOUS
  <2>2. ~ (k < m)
    BY <1>1, <1>2, <2>1
  <2> QED
    BY <2>1, <2>2
<1> QED
  BY <1>3

\* Every slot of the heap holds an entry, and its priority is a number.
LEMMA SlotTypes ==
  ASSUME TypeOK
  PROVE  /\ size \in Nat
         /\ \A i \in InHeap : i \in Nat /\ i < size /\ arr[i] \in Entries /\ Prio(i) \in Nat
         /\ \A i \in Nat : i < size => i \in InHeap
         /\ \A i \in InHeap \ {0} : Parent(i) \in InHeap /\ Parent(i) < i
<1>1. Cardinality(Entries) \in Nat /\ Priorities \subseteq Nat
  BY MinheapAssumption, FS_CardinalityType
<1>2. size \in Nat
  BY <1>1 DEF TypeOK
<1>3. \A i \in InHeap : i \in Nat /\ i < size /\ arr[i] \in Entries /\ Prio(i) \in Nat
  <2> TAKE i \in InHeap
  <2>1. i \in Nat /\ i < size
    BY <1>2 DEF InHeap
  <2>2. arr[i] \in Entries
    BY DEF TypeOK
  <2>3. priority[arr[i]] \in Priorities
    BY <2>2 DEF TypeOK
  <2> QED
    BY <2>1, <2>2, <2>3, <1>1 DEF Prio
<1>4. \A i \in Nat : i < size => i \in InHeap
  BY <1>2 DEF InHeap
<1>5. \A i \in InHeap \ {0} : Parent(i) \in InHeap /\ Parent(i) < i
  <2> TAKE i \in InHeap \ {0}
  <2>1. i \in Nat \ {0} /\ i < size
    BY <1>3
  <2>2. Parent(i) \in Nat /\ Parent(i) < i
    BY <2>1, ParentBefore
  <2>3. Parent(i) < size
    BY <2>1, <2>2, <1>2
  <2> QED
    BY <2>2, <2>3, <1>4
<1> QED
  BY <1>2, <1>3, <1>4, <1>5

\* The value of memory that is not allocated is some priority.
LEMMA UnsetType == Unset \in Priorities
BY MinheapAssumption DEF Unset

\* An entry that is not queued leaves a slot for itself.
LEMMA RoomLeft ==
  ASSUME TypeOK, IndexExact, NEW e \in Entries, e \notin Queued
  PROVE  size < Cardinality(Entries)
<1>1. size \in Nat /\ Cardinality(Entries) \in Nat
  BY SlotTypes, MinheapAssumption, FS_CardinalityType
<1>2. IsFiniteSet(Entries \ {e}) /\ Cardinality(Entries \ {e}) = Cardinality(Entries) - 1
  BY MinheapAssumption, FS_RemoveElement
<1>3. arr \in [InHeap -> Entries \ {e}]
  BY DEF TypeOK, IndexExact
<1>4. \A i, j \in InHeap : arr[i] = arr[j] => i = j
  BY DEF IndexExact
<1>5. arr \in Injection(InHeap, Entries \ {e})
  BY <1>3, <1>4 DEF Injection, IsInjective
<1>6. Cardinality(InHeap) <= Cardinality(Entries) - 1
  BY <1>2, <1>5, FS_Injection
<1>7. Cardinality(InHeap) = size
  BY <1>1, FS_Interval, 0 \in Int, size - 1 \in Int DEF InHeap
<1> QED
  BY <1>1, <1>6, <1>7

\* Outside of a loop, the root has the lowest priority.  If some slots had a
\* lower one, so would the parent of the first of them.
LEMMA RootLowest ==
  ASSUME HeapInv, bubbling = "no", size > 0
  PROVE  0 \in InHeap /\ \A i \in InHeap : Prio(0) <= Prio(i)
<1>1. TypeOK /\ HeapOrdered
  BY DEF HeapInv
<1>2. /\ size \in Nat
      /\ \A i \in InHeap : i \in Nat /\ i < size /\ arr[i] \in Entries /\ Prio(i) \in Nat
      /\ \A i \in Nat : i < size => i \in InHeap
      /\ \A i \in InHeap \ {0} : Parent(i) \in InHeap /\ Parent(i) < i
  BY <1>1, SlotTypes
<1>3. \A i \in InHeap \ {0} : Prio(Parent(i)) <= Prio(i)
  BY <1>1 DEF HeapOrdered
<1>4. 0 \in InHeap
  BY <1>2
<1> DEFINE Lower == {i \in InHeap : ~ (Prio(0) <= Prio(i))}
<1>5. Lower = {}
  <2> SUFFICES ASSUME Lower # {} PROVE FALSE
    OBVIOUS
  <2>1. Lower \in SUBSET Nat
    BY <1>2
  <2>2. PICK m \in Lower : \A k \in Lower : m <= k
    BY <2>1, Least
  <2>3. m \in InHeap \ {0}
    BY <1>2, <1>4
  <2>4. Parent(m) \in InHeap /\ Parent(m) < m
    BY <1>2, <2>3
  <2>5. Parent(m) \notin Lower
    BY <2>2, <2>4, <1>2, <2>3
  <2>6. Prio(0) <= Prio(Parent(m)) /\ Prio(Parent(m)) <= Prio(m)
    BY <2>4, <2>5, <2>3, <1>3
  <2>7. Prio(0) \in Nat /\ Prio(m) \in Nat /\ Prio(Parent(m)) \in Nat
    BY <1>2, <1>4, <2>3, <2>4
  <2>8. Prio(0) <= Prio(m)
    BY <2>6, <2>7
  <2> QED
    BY <2>8
<1> QED
  BY <1>4, <1>5

\* What bubble_down compares: the slot it chooses is no higher than the others
\* and, when it is a child, lower than the slot itself.
LEMMA SmallestIs ==
  ASSUME TypeOK, NEW i \in InHeap
  PROVE  /\ Smallest(i) = i \/ (Smallest(i) \in InHeap \ {0} /\ Parent(Smallest(i)) = i)
         /\ Smallest(i) # i => Prio(Smallest(i)) < Prio(i)
         /\ \A c \in InHeap \ {0} : Parent(c) = i => Prio(Smallest(i)) <= Prio(c)
<1>1. /\ size \in Nat
      /\ \A k \in InHeap : k \in Nat /\ k < size /\ arr[k] \in Entries /\ Prio(k) \in Nat
      /\ \A k \in Nat : k < size => k \in InHeap
      /\ \A k \in InHeap \ {0} : Parent(k) \in InHeap /\ Parent(k) < k
  BY SlotTypes
<1>2. i \in Nat
  BY <1>1
<1> DEFINE S == Children(i) \union {i}
           Q(s) == \A o \in S \ {s} : Prio(s) < Prio(o) \/ (Prio(s) = Prio(o) /\ s < o)
<1>3. \A c : c \in S <=> c = i \/ (c < size /\ (c = 2 * i + 1 \/ c = 2 * i + 2))
  BY DEF Children
<1>4. S \subseteq InHeap
  BY <1>1, <1>2, <1>3
<1>5. \E s \in S : Q(s)
  <2>1. CASE ~ (2 * i + 1 < size)
    BY <2>1, <1>1, <1>2, <1>3
  <2>2. CASE 2 * i + 1 < size /\ ~ (2 * i + 2 < size)
    BY <2>2, <1>1, <1>2, <1>3
  <2>3. CASE 2 * i + 1 < size /\ 2 * i + 2 < size
    <3>1. i \in S /\ 2 * i + 1 \in S /\ 2 * i + 2 \in S
      BY <2>3, <1>3
    <3>2. Prio(i) \in Nat /\ Prio(2 * i + 1) \in Nat /\ Prio(2 * i + 2) \in Nat
      BY <3>1, <1>1, <1>4
    <3>3. CASE Prio(i) <= Prio(2 * i + 1) /\ Prio(i) <= Prio(2 * i + 2)
      <4>1. Q(i)
        BY <3>2, <3>3, <1>2, <1>3
      <4> QED
        BY <4>1, <3>1
    <3>4. CASE Prio(2 * i + 1) < Prio(i) /\ Prio(2 * i + 1) <= Prio(2 * i + 2)
      <4>1. Q(2 * i + 1)
        BY <3>2, <3>4, <1>2, <1>3
      <4> QED
        BY <4>1, <3>1
    <3>5. CASE Prio(2 * i + 2) < Prio(i) /\ Prio(2 * i + 2) < Prio(2 * i + 1)
      <4>1. Q(2 * i + 2)
        BY <3>2, <3>5, <1>2, <1>3
      <4> QED
        BY <4>1, <3>1
    <3> QED
      BY <3>2, <3>3, <3>4, <3>5
  <2> QED
    BY <2>1, <2>2, <2>3, <1>1, <1>2
<1>6. Smallest(i) \in S /\ Q(Smallest(i))
  <2>1. Smallest(i) = CHOOSE s \in S : Q(s)
    BY DEF Smallest
  <2> QED
    BY <1>5, <2>1
<1> HIDE DEF Q
<1>7. PICK s \in S : s = Smallest(i) /\ Q(s)
  BY <1>6
<1>8. \A c \in InHeap \ {0} : Parent(c) = i => c \in S
  <2> TAKE c \in InHeap \ {0}
  <2>1. c \in Nat \ {0} /\ c < size
    BY <1>1
  <2> QED
    BY <2>1, <1>2, <1>3, ChildrenOf
<1>9. s = i \/ (s \in InHeap \ {0} /\ Parent(s) = i)
  <2> SUFFICES ASSUME s # i PROVE s \in InHeap \ {0} /\ Parent(s) = i
    OBVIOUS
  <2>1. s \in Nat \ {0} /\ s \in {2 * i + 1, 2 * i + 2}
    BY <1>2, <1>3
  <2>2. Parent(s) = i
    BY <2>1, <1>2, ChildrenOf
  <2> QED
    BY <2>1, <2>2, <1>4
<1>10. s # i => Prio(s) < Prio(i)
  <2> SUFFICES ASSUME s # i PROVE Prio(s) < Prio(i)
    OBVIOUS
  <2>1. i \in S \ {s}
    BY <1>3
  <2>2. i < s
    BY <1>2, <1>3
  <2>3. s \in Nat
    BY <1>4, <1>1
  <2>4. ~ (s < i)
    BY <2>2, <2>3, <1>2
  <2> QED
    BY <2>1, <2>4, <1>7 DEF Q
<1>11. \A c \in S : Prio(s) <= Prio(c)
  BY <1>7, <1>1, <1>4 DEF Q
<1> QED
  BY <1>7, <1>8, <1>9, <1>10, <1>11

-----------------------------------------------------------------------------
(* Every step keeps the invariant.                                         *)

\* The empty heap.
LEMMA InitHeap == Init => HeapInv
<1> SUFFICES ASSUME Init PROVE HeapInv
  OBVIOUS
<1>1. Cardinality(Entries) \in Nat
  BY MinheapAssumption, FS_CardinalityType
<1>2. InHeap = {} /\ Queued = {}
  BY DEF Init, InHeap, Queued
<1>3. index \in [Entries -> Slots]
  <2>1. \A e \in Entries : 0 \in Slots
    <3> TAKE e \in Entries
    <3>1. IsFiniteSet(Entries \ {e}) /\ Cardinality(Entries \ {e}) = Cardinality(Entries) - 1
      BY MinheapAssumption, FS_RemoveElement
    <3>2. Cardinality(Entries \ {e}) \in Nat
      BY <3>1, FS_CardinalityType
    <3> QED
      BY <1>1, <3>1, <3>2 DEF Slots
  <2> QED
    BY <2>1 DEF Init
<1>4. arr \in [InHeap -> Entries]
  BY DEF Init, InHeap
<1>5. TypeOK
  BY <1>1, <1>3, <1>4, UnsetType DEF Init, TypeOK
<1> QED
  BY <1>2, <1>5 DEF HeapInv, IndexExact, AtInHeap, HeapOrdered, Init

\* An entry that is queued goes to the last slot, which nothing is below.
LEMMA InsertKeeps ==
  ASSUME HeapInv, NEW e \in Entries, NEW p \in Priorities, Insert(e, p)
  PROVE  HeapInv'
<1>1. TypeOK /\ IndexExact /\ AtInHeap /\ HeapOrdered
  BY DEF HeapInv
<1>2. /\ size \in Nat
      /\ \A i \in InHeap : i \in Nat /\ i < size /\ arr[i] \in Entries /\ Prio(i) \in Nat
      /\ \A i \in Nat : i < size => i \in InHeap
      /\ \A i \in InHeap \ {0} : Parent(i) \in InHeap /\ Parent(i) < i
  BY <1>1, SlotTypes
<1>3. /\ bubbling = "no" /\ status[e] = "unused"
      /\ status' = [status EXCEPT ![e] = "queued"]
      /\ priority' = [priority EXCEPT ![e] = p]
      /\ arr' = [i \in 0 .. size |-> IF i = size THEN e ELSE arr[i]]
      /\ index' = [index EXCEPT ![e] = size]
      /\ size' = size + 1
      /\ bubbling' = "up" /\ at' = size
  BY DEF Insert, AddLast, Bubble
<1>4. e \notin Queued /\ size < Cardinality(Entries) /\ Cardinality(Entries) \in Nat
  BY <1>1, <1>3, RoomLeft, MinheapAssumption, FS_CardinalityType DEF Queued
<1>5. /\ \A i : i \in InHeap' <=> i \in InHeap \/ i = size
      /\ size \notin InHeap /\ InHeap' = 0 .. size
  BY <1>2, <1>3 DEF InHeap
<1>6. \A f : f \in Queued' <=> f \in Queued \/ f = e
  BY <1>1, <1>3 DEF Queued, TypeOK
<1>7. \A i \in InHeap : arr'[i] = arr[i] /\ arr[i] \in Queued /\ arr[i] # e
  BY <1>1, <1>3, <1>4, <1>5 DEF IndexExact
<1>8. arr'[size] = e
  BY <1>2, <1>3
<1>9. TypeOK'
  <2>1. size' \in 0 .. Cardinality(Entries)
    BY <1>2, <1>3, <1>4
  <2>2. arr' \in [InHeap' -> Entries]
    BY <1>2, <1>3, <1>5
  <2>3. index' \in [Entries -> Slots]
    <3>1. size \in Slots
      BY <1>2, <1>4 DEF Slots
    <3> QED
      BY <1>1, <1>3, <3>1 DEF TypeOK
  <2>4. priority' \in [Entries -> Priorities]
    BY <1>1, <1>3 DEF TypeOK
  <2>5. status' \in [Entries -> {"unused", "queued", "extracted"}]
    BY <1>1, <1>3 DEF TypeOK
  <2> QED
    BY <2>1, <2>2, <2>3, <2>4, <2>5, <1>2, <1>3 DEF TypeOK
<1>10. \A f \in Entries : index'[f] = IF f = e THEN size ELSE index[f]
  BY <1>1, <1>3 DEF TypeOK
<1>11. IndexExact'
  <2>1. \A i \in InHeap' : arr'[i] \in Queued' /\ index'[arr'[i]] = i
    <3> TAKE i \in InHeap'
    <3>1. CASE i \in InHeap
      BY <3>1, <1>1, <1>2, <1>6, <1>7, <1>10 DEF IndexExact
    <3>2. CASE i = size
      BY <3>2, <1>6, <1>8, <1>10
    <3> QED
      BY <3>1, <3>2, <1>5
  <2>2. \A f \in Queued' : index'[f] \in InHeap' /\ arr'[index'[f]] = f
    <3> TAKE f \in Queued'
    <3>1. CASE f = e
      BY <3>1, <1>5, <1>8, <1>10
    <3>2. CASE f # e
      <4>1. f \in Queued /\ f \in Entries
        BY <3>2, <1>6 DEF Queued
      <4>2. index[f] \in InHeap /\ arr[index[f]] = f
        BY <4>1, <1>1 DEF IndexExact
      <4> QED
        BY <3>2, <4>1, <4>2, <1>5, <1>7, <1>10
    <3> QED
      BY <3>1, <3>2
  <2> QED
    BY <2>1, <2>2 DEF IndexExact
<1>12. AtInHeap'
  BY <1>3, <1>5 DEF AtInHeap
<1>13. \A i \in InHeap : Prio(i)' = Prio(i)
  BY <1>1, <1>2, <1>3, <1>7 DEF Prio, TypeOK
<1>14. HeapOrdered'
  <2>1. \A i \in InHeap' \ {0} : Parent(i) \in InHeap
    <3> TAKE i \in InHeap' \ {0}
    <3>1. CASE i \in InHeap
      BY <3>1, <1>2
    <3>2. CASE i = size
      <4>1. size \in Nat \ {0}
        BY <3>2, <1>2
      <4> QED
        BY <3>2, <4>1, <1>2, ParentBefore
    <3> QED
      BY <3>1, <3>2, <1>5
  <2>2. \A i \in InHeap \ {0} : Prio(Parent(i)) <= Prio(i)
    BY <1>1, <1>3 DEF HeapOrdered
  <2>3. \A i \in InHeap' \ {0} : i = size \/ Prio(Parent(i))' <= Prio(i)'
    BY <2>1, <2>2, <1>5, <1>13
  <2>4. \A i \in InHeap' \ {0} : Parent(i) # size
    BY <2>1, <1>5
  <2> QED
    BY <2>3, <2>4, <1>3 DEF HeapOrdered
<1> QED
  BY <1>9, <1>11, <1>12, <1>14 DEF HeapInv

\* The root leaves; the last entry takes its place, whose children may then be
\* lower than it.
LEMMA ExtractKeeps ==
  ASSUME HeapInv, ExtractMin
  PROVE  HeapInv'
<1>1. TypeOK /\ IndexExact /\ AtInHeap /\ HeapOrdered
  BY DEF HeapInv
<1>2. /\ size \in Nat
      /\ \A i \in InHeap : i \in Nat /\ i < size /\ arr[i] \in Entries /\ Prio(i) \in Nat
      /\ \A i \in Nat : i < size => i \in InHeap
      /\ \A i \in InHeap \ {0} : Parent(i) \in InHeap /\ Parent(i) < i
  BY <1>1, SlotTypes
<1>3. /\ bubbling = "no" /\ size > 0
      /\ status' = [status EXCEPT ![arr[0]] = "extracted"]
      /\ size' = size - 1 /\ priority' = priority
  BY DEF ExtractMin
<1>4. Cardinality(Entries) \in Nat /\ size <= Cardinality(Entries) /\ at = 0
  BY <1>1, <1>3, MinheapAssumption, FS_CardinalityType DEF TypeOK, AtInHeap
<1>5. /\ \A i : i \in InHeap' <=> i \in InHeap /\ i # size - 1
      /\ InHeap' = 0 .. size - 2 /\ 0 \in InHeap /\ size - 1 \in InHeap
  BY <1>2, <1>3 DEF InHeap
<1>6. \A f : f \in Queued' <=> f \in Queued /\ f # arr[0]
  BY <1>1, <1>3 DEF Queued, TypeOK
<1>7. status' \in [Entries -> {"unused", "queued", "extracted"}]
  BY <1>1, <1>3 DEF TypeOK
<1>8. \A i, j \in InHeap : arr[i] = arr[j] => i = j
  BY <1>1 DEF IndexExact
<1>9. CASE size = 1
  <2>1. arr' = <<>> /\ index' = index /\ bubbling' = "no" /\ at' = 0
    BY <1>3, <1>4, <1>9 DEF ExtractMin
  <2>2. InHeap' = {}
    BY <1>5, <1>9
  <2>3. Queued' = {}
    <3>1. \A f \in Queued : f = arr[0]
      <4> TAKE f \in Queued
      <4>1. index[f] \in InHeap /\ arr[index[f]] = f
        BY <1>1 DEF IndexExact
      <4>2. index[f] = 0
        BY <4>1, <1>2, <1>9
      <4> QED
        BY <4>1, <4>2
    <3> QED
      BY <3>1, <1>6
  <2>4. arr' \in [InHeap' -> Entries]
    BY <2>1, <2>2
  <2>5. size' \in 0 .. Cardinality(Entries)
    BY <1>2, <1>3, <1>4
  <2>6. TypeOK'
    BY <1>1, <1>3, <1>7, <2>1, <2>4, <2>5 DEF TypeOK
  <2> QED
    BY <2>1, <2>2, <2>3, <2>6 DEF HeapInv, IndexExact, AtInHeap, HeapOrdered
<1>10. CASE size > 1
  <2>1. /\ arr' = [i \in 0 .. size - 2 |-> IF i = 0 THEN arr[size - 1] ELSE arr[i]]
        /\ index' = [index EXCEPT ![arr[size - 1]] = 0]
        /\ bubbling' = "down" /\ at' = 0
    BY <1>2, <1>10 DEF ExtractMin, SiftLast, LastToRoot, Bubble
  <2>2. \A i \in InHeap' : arr'[i] = IF i = 0 THEN arr[size - 1] ELSE arr[i]
    BY <2>1, <1>5
  <2>3. 0 \in InHeap' /\ size - 1 # 0
    BY <1>2, <1>5, <1>10
  <2>4. arr[size - 1] \in Entries /\ arr[size - 1] # arr[0]
    BY <1>2, <1>5, <1>8, <2>3
  <2>5. \A f \in Entries : index'[f] = IF f = arr[size - 1] THEN 0 ELSE index[f]
    BY <1>1, <2>1 DEF TypeOK
  <2>6. TypeOK'
    <3>1. size' \in 0 .. Cardinality(Entries)
      BY <1>2, <1>3, <1>4
    <3>2. arr' \in [InHeap' -> Entries]
      BY <1>2, <1>5, <2>1, <2>4
    <3>3. 0 \in Slots
      BY <1>3, <1>4, <1>2 DEF Slots
    <3>4. index' \in [Entries -> Slots]
      BY <1>1, <2>1, <3>3 DEF TypeOK
    <3> QED
      BY <3>1, <3>2, <3>4, <1>1, <1>3, <1>7, <2>1 DEF TypeOK
  <2>7. IndexExact'
    <3>1. \A i \in InHeap' : arr'[i] \in Queued' /\ index'[arr'[i]] = i
      <4> TAKE i \in InHeap'
      <4>1. CASE i = 0
        <5>1. arr[size - 1] \in Queued
          BY <1>1, <1>5 DEF IndexExact
        <5> QED
          BY <4>1, <5>1, <2>2, <2>4, <2>5, <1>6
      <4>2. CASE i # 0
        <5>1. i \in InHeap /\ i # size - 1 /\ arr'[i] = arr[i]
          BY <4>2, <1>5, <2>2
        <5>2. arr[i] \in Queued /\ index[arr[i]] = i /\ arr[i] # arr[size - 1] /\ arr[i] # arr[0]
          BY <4>2, <5>1, <1>1, <1>5, <1>8 DEF IndexExact
        <5> QED
          BY <5>1, <5>2, <1>6, <2>5 DEF Queued
      <4> QED
        BY <4>1, <4>2
    <3>2. \A f \in Queued' : index'[f] \in InHeap' /\ arr'[index'[f]] = f
      <4> TAKE f \in Queued'
      <4>1. f \in Queued /\ f \in Entries /\ f # arr[0]
        BY <1>6 DEF Queued
      <4>2. index[f] \in InHeap /\ arr[index[f]] = f
        BY <4>1, <1>1 DEF IndexExact
      <4>3. CASE f = arr[size - 1]
        BY <4>1, <4>3, <2>2, <2>3, <2>5
      <4>4. CASE f # arr[size - 1]
        <5>1. index[f] # size - 1 /\ index[f] # 0 /\ index'[f] = index[f]
          BY <4>1, <4>2, <4>4, <2>5
        <5> QED
          BY <5>1, <4>2, <1>5, <2>2
      <4> QED
        BY <4>3, <4>4
    <3> QED
      BY <3>1, <3>2 DEF IndexExact
  <2>8. AtInHeap'
    BY <2>1, <2>3 DEF AtInHeap
  <2>9. \A i \in InHeap' \ {0} : Prio(i)' = Prio(i)
    BY <2>2, <1>3 DEF Prio
  <2>10. \A i \in InHeap' \ {0} :
           i \in InHeap \ {0} /\ (Parent(i) = 0 \/ Parent(i) \in InHeap' \ {0})
    <3> TAKE i \in InHeap' \ {0}
    <3>1. i \in InHeap \ {0} /\ i # size - 1
      BY <1>5
    <3>2. Parent(i) \in InHeap /\ Parent(i) < i /\ i < size /\ i \in Nat /\ Parent(i) \in Nat
      BY <3>1, <1>2
    <3>3. Parent(i) # size - 1
      BY <3>2, <1>2
    <3> QED
      BY <3>1, <3>2, <3>3, <1>5
  <2>11. \A i \in InHeap \ {0} : Prio(Parent(i)) <= Prio(i)
    BY <1>1, <1>3 DEF HeapOrdered
  <2>12. HeapOrdered'
    BY <2>1, <2>9, <2>10, <2>11 DEF HeapOrdered
  <2> QED
    BY <2>6, <2>7, <2>8, <2>12 DEF HeapInv
<1> QED
  BY <1>2, <1>3, <1>9, <1>10

\* Only the entry whose priority changed may be out of order, to the side its
\* loop starts towards; when it is not in the heap any more, none is.
LEMMA UpdateKeeps ==
  ASSUME HeapInv, NEW e \in Entries, NEW p \in Priorities, UpdateByEntry(e, p)
  PROVE  HeapInv'
<1>1. TypeOK /\ IndexExact /\ AtInHeap /\ HeapOrdered
  BY DEF HeapInv
<1>2. /\ size \in Nat
      /\ \A i \in InHeap : i \in Nat /\ i < size /\ arr[i] \in Entries /\ Prio(i) \in Nat
      /\ \A i \in Nat : i < size => i \in InHeap
      /\ \A i \in InHeap \ {0} : Parent(i) \in InHeap /\ Parent(i) < i
  BY <1>1, SlotTypes
<1>3. /\ bubbling = "no" /\ index[e] < size
      /\ priority' = [priority EXCEPT ![e] = p]
      /\ arr' = arr /\ size' = size /\ index' = index /\ status' = status
  BY DEF UpdateByEntry, heapVars
<1>4. \/ p < priority[e] /\ bubbling' = "up" /\ at' = index[e]
      \/ p > priority[e] /\ bubbling' = "down" /\ at' = index[e]
      \/ p = priority[e] /\ bubbling' = "no" /\ at' = at
  BY <1>3 DEF UpdateByEntry, Bubble
<1>5. p \in Nat /\ priority[e] \in Nat
  BY <1>1, MinheapAssumption DEF TypeOK
<1>6. index[e] \in InHeap /\ index[e] \in Nat
  <2>1. Cardinality(Entries) \in Nat
    BY MinheapAssumption, FS_CardinalityType
  <2>2. index[e] \in Nat
    BY <2>1, <1>1 DEF TypeOK, Slots
  <2> QED
    BY <2>2, <1>2, <1>3
<1>7. InHeap' = InHeap /\ Queued' = Queued
  BY <1>3 DEF InHeap, Queued
<1>8. TypeOK'
  <2>1. priority' \in [Entries -> Priorities]
    BY <1>1, <1>3 DEF TypeOK
  <2>2. at' \in Nat
    BY <1>1, <1>4, <1>6 DEF TypeOK
  <2>3. bubbling' \in {"no", "up", "down"}
    BY <1>4
  <2> QED
    BY <2>1, <2>2, <2>3, <1>1, <1>3, <1>7 DEF TypeOK
<1>9. IndexExact'
  BY <1>1, <1>3, <1>7 DEF IndexExact
<1>10. AtInHeap'
  BY <1>1, <1>3, <1>4, <1>6, <1>7 DEF AtInHeap
<1>11. \A i \in InHeap : Prio(i)' = IF arr[i] = e THEN p ELSE Prio(i)
  BY <1>1, <1>2, <1>3 DEF Prio, TypeOK
<1>12. \A i \in InHeap : arr[i] = e => i = index[e]
  BY <1>1 DEF IndexExact
<1>13. \A i \in InHeap \ {0} : Prio(Parent(i)) <= Prio(i)
  BY <1>1, <1>3 DEF HeapOrdered
<1>14. CASE arr[index[e]] # e
  <2>1. \A i \in InHeap : Prio(i)' = Prio(i)
    BY <1>11, <1>12, <1>14
  <2>2. \A i \in InHeap' \ {0} : Prio(Parent(i))' <= Prio(i)'
    BY <2>1, <1>2, <1>7, <1>13
  <2>3. PICK k \in InHeap : k = index[e]
    BY <1>6
  <2>4. k # 0 => \A i \in InHeap \ {0} : Parent(i) = k => Prio(Parent(k))' <= Prio(i)'
    <3> SUFFICES ASSUME k # 0, NEW i \in InHeap \ {0}, Parent(i) = k
                 PROVE  Prio(Parent(k))' <= Prio(i)'
      OBVIOUS
    <3>1. Parent(k) \in InHeap
      BY <1>2
    <3>2. Prio(Parent(k)) <= Prio(k) /\ Prio(k) <= Prio(i)
      BY <1>13
    <3>3. Prio(Parent(k)) \in Nat /\ Prio(k) \in Nat /\ Prio(i) \in Nat
      BY <3>1, <1>2
    <3> QED
      BY <3>1, <3>2, <3>3, <2>1
  <2>5. bubbling' # "no" => at' = k
    BY <2>3, <1>3, <1>4
  <2>6. HeapOrdered'
    BY <2>2, <2>4, <2>5, <1>7 DEF HeapOrdered
  <2> QED
    BY <2>6, <1>8, <1>9, <1>10 DEF HeapInv
<1>15. CASE arr[index[e]] = e
  <2>1. PICK k \in InHeap : k = index[e]
    BY <1>6
  <2>2. \A i \in InHeap : Prio(i)' = IF i = k THEN p ELSE Prio(i)
    BY <2>1, <1>11, <1>12, <1>15
  <2>3. Prio(k) = priority[e]
    BY <2>1, <1>15 DEF Prio
  <2>4. k # 0 => \A i \in InHeap \ {0} : Parent(i) = k => Prio(Parent(k))' <= Prio(i)'
    <3> SUFFICES ASSUME k # 0, NEW i \in InHeap \ {0}, Parent(i) = k
                 PROVE  Prio(Parent(k))' <= Prio(i)'
      OBVIOUS
    <3>1. /\ Parent(k) \in InHeap /\ Parent(k) < k /\ k < i
          /\ Parent(k) \in Nat /\ k \in Nat /\ i \in Nat
      BY <1>2
    <3>2. Prio(Parent(k))' = Prio(Parent(k)) /\ Prio(i)' = Prio(i)
      BY <3>1, <2>2
    <3>3. Prio(Parent(k)) <= Prio(k) /\ Prio(k) <= Prio(i)
      BY <1>13
    <3>4. Prio(Parent(k)) \in Nat /\ Prio(k) \in Nat /\ Prio(i) \in Nat
      BY <3>1, <1>2
    <3> QED
      BY <3>2, <3>3, <3>4
  <2>5. \A i \in InHeap \ {0} :
          \/ Prio(Parent(i))' <= Prio(i)'
          \/ p < priority[e] /\ i = k
          \/ p > priority[e] /\ Parent(i) = k
    <3> TAKE i \in InHeap \ {0}
    <3>1. /\ Prio(Parent(i)) <= Prio(i) /\ Parent(i) \in InHeap /\ Parent(i) # i
          /\ Prio(Parent(i)) \in Nat /\ Prio(i) \in Nat
      BY <1>2, <1>13
    <3> QED
      BY <3>1, <2>2, <2>3, <1>5
  <2>6. CASE bubbling' = "no"
    <3>1. \A i \in InHeap' \ {0} : Prio(Parent(i))' <= Prio(i)'
      BY <2>5, <2>6, <1>4, <1>5, <1>7
    <3>2. HeapOrdered'
      BY <3>1, <2>6 DEF HeapOrdered
    <3> QED
      BY <3>2, <1>8, <1>9, <1>10 DEF HeapInv
  <2>7. CASE bubbling' # "no"
    <3>1. /\ at' = k
          /\ p < priority[e] => bubbling' = "up"
          /\ p > priority[e] => bubbling' = "down"
      BY <2>1, <2>7, <1>4, <1>5
    <3>2. at' # 0 => \A i \in InHeap' \ {0} : Parent(i) = at' => Prio(Parent(k))' <= Prio(i)'
      BY <3>1, <2>4, <1>7
    <3>3. HeapOrdered'
      BY <3>1, <3>2, <2>5, <1>7 DEF HeapOrdered
    <3> QED
      BY <3>3, <1>8, <1>9, <1>10 DEF HeapInv
  <2> QED
    BY <2>6, <2>7
<1> QED
  BY <1>14, <1>15

\* An entry that is freed is in no slot.
LEMMA FreeKeeps ==
  ASSUME HeapInv, NEW e \in Entries, Free(e)
  PROVE  HeapInv'
<1>1. TypeOK /\ IndexExact /\ AtInHeap /\ HeapOrdered
  BY DEF HeapInv
<1>2. /\ \A i \in InHeap : i \in Nat /\ i < size /\ arr[i] \in Entries /\ Prio(i) \in Nat
      /\ \A i \in InHeap \ {0} : Parent(i) \in InHeap /\ Parent(i) < i
  BY <1>1, SlotTypes
<1>3. /\ status[e] = "extracted"
      /\ status' = [status EXCEPT ![e] = "unused"]
      /\ priority' = [priority EXCEPT ![e] = Unset]
      /\ arr' = arr /\ size' = size /\ index' = index /\ bubbling' = bubbling /\ at' = at
  BY DEF Free, heapVars
<1>4. InHeap' = InHeap
  BY <1>3 DEF InHeap
<1>5. Queued' = Queued
  BY <1>1, <1>3 DEF Queued, TypeOK
<1>6. TypeOK'
  BY <1>1, <1>3, <1>4, UnsetType DEF TypeOK
<1>7. IndexExact' /\ AtInHeap'
  BY <1>1, <1>3, <1>4, <1>5 DEF IndexExact, AtInHeap
<1>8. \A i \in InHeap : Prio(i)' = Prio(i)
  <2> TAKE i \in InHeap
  <2>1. arr[i] \in Entries /\ arr[i] # e
    BY <1>1, <1>2, <1>3 DEF IndexExact, Queued
  <2> QED
    BY <2>1, <1>1, <1>3 DEF Prio, TypeOK
<1>9. \A i \in InHeap \ {0} : Prio(Parent(i))' = Prio(Parent(i)) /\ Prio(i)' = Prio(i)
  BY <1>2, <1>8
<1>10. at # 0 /\ bubbling # "no" => priority'[arr'[Parent(at)]] = Prio(Parent(at))
  BY <1>1, <1>9 DEF AtInHeap, Prio
<1>11. HeapOrdered'
  BY <1>1, <1>3, <1>4, <1>9, <1>10 DEF HeapOrdered, Prio
<1> QED
  BY <1>6, <1>7, <1>11 DEF HeapInv

\* Two slots change places.  Every entry still knows its slot.
LEMMA SwapKeeps ==
  ASSUME TypeOK, IndexExact, NEW i \in InHeap, NEW j \in InHeap, i # j, Swap(i, j),
         UNCHANGED <<size, priority, status>>
  PROVE  /\ InHeap' = InHeap
         /\ arr' \in [InHeap' -> Entries] /\ index' \in [Entries -> Slots]
         /\ IndexExact'
         /\ \A k \in InHeap :
              Prio(k)' = IF k = i THEN Prio(j) ELSE IF k = j THEN Prio(i) ELSE Prio(k)
<1>1. /\ \A k \in InHeap : k \in Nat /\ k < size /\ arr[k] \in Entries /\ Prio(k) \in Nat
      /\ size \in Nat
  BY SlotTypes
<1>2. /\ arr' = [arr EXCEPT ![i] = arr[j], ![j] = arr[i]]
      /\ index' = [index EXCEPT ![arr[i]] = j, ![arr[j]] = i]
      /\ size' = size /\ priority' = priority /\ status' = status
  BY DEF Swap
<1>3. InHeap' = InHeap /\ Queued' = Queued
  BY <1>2 DEF InHeap, Queued
<1>4. \A k \in InHeap : arr'[k] = IF k = i THEN arr[j] ELSE IF k = j THEN arr[i] ELSE arr[k]
  BY <1>2 DEF TypeOK
<1>5. arr[i] # arr[j] /\ index[arr[i]] = i /\ index[arr[j]] = j
  BY DEF IndexExact
<1>6. \A f \in Entries :
        index'[f] = IF f = arr[i] THEN j ELSE IF f = arr[j] THEN i ELSE index[f]
  BY <1>1, <1>2, <1>5 DEF TypeOK
<1>7. arr' \in [InHeap' -> Entries]
  BY <1>1, <1>2, <1>3 DEF TypeOK
<1>8. index' \in [Entries -> Slots]
  <2>1. i \in Slots /\ j \in Slots
    BY <1>1, <1>5 DEF TypeOK
  <2> QED
    BY <2>1, <1>2 DEF TypeOK
<1>9. \A k \in InHeap : arr'[k] \in Queued /\ index'[arr'[k]] = k
  <2> TAKE k \in InHeap
  <2>1. CASE k = i
    BY <2>1, <1>1, <1>4, <1>5, <1>6 DEF IndexExact
  <2>2. CASE k = j
    BY <2>2, <1>1, <1>4, <1>5, <1>6 DEF IndexExact
  <2>3. CASE k # i /\ k # j
    <3>1. arr'[k] = arr[k] /\ arr[k] \in Queued /\ index[arr[k]] = k /\ arr[k] \in Entries
      BY <2>3, <1>1, <1>4 DEF IndexExact
    <3> QED
      BY <2>3, <3>1, <1>5, <1>6
  <2> QED
    BY <2>1, <2>2, <2>3
<1>10. \A f \in Queued : index'[f] \in InHeap /\ arr'[index'[f]] = f
  <2> TAKE f \in Queued
  <2>1. f \in Entries /\ index[f] \in InHeap /\ arr[index[f]] = f
    BY DEF IndexExact, Queued
  <2>2. CASE f = arr[i]
    BY <2>1, <2>2, <1>4, <1>6
  <2>3. CASE f = arr[j]
    BY <2>1, <2>3, <1>4, <1>5, <1>6
  <2>4. CASE f # arr[i] /\ f # arr[j]
    <3>1. index'[f] = index[f] /\ index[f] # i /\ index[f] # j
      BY <2>1, <2>4, <1>6
    <3> QED
      BY <2>1, <3>1, <1>4
  <2> QED
    BY <2>2, <2>3, <2>4
<1>11. IndexExact'
  BY <1>3, <1>9, <1>10 DEF IndexExact
<1>12. \A k \in InHeap :
        Prio(k)' = IF k = i THEN Prio(j) ELSE IF k = j THEN Prio(i) ELSE Prio(k)
  <2> TAKE k \in InHeap
  <2>1. Prio(k)' = priority[arr'[k]]
    BY <1>2 DEF Prio
  <2>2. CASE k = i
    BY <2>1, <2>2, <1>4 DEF Prio
  <2>3. CASE k # i
    BY <2>1, <2>3, <1>4 DEF Prio
  <2> QED
    BY <2>2, <2>3
<1> QED
  BY <1>3, <1>7, <1>8, <1>11, <1>12

\* A turn of bubble_up moves the entry to its parent's slot.  The old parent
\* was no higher than what was below the entry.
LEMMA BubbleUpKeeps ==
  ASSUME HeapInv, BubbleUp
  PROVE  HeapInv'
<1>1. TypeOK /\ IndexExact /\ AtInHeap /\ HeapOrdered
  BY DEF HeapInv
<1>2. /\ \A i \in InHeap : i \in Nat /\ i < size /\ arr[i] \in Entries /\ Prio(i) \in Nat
      /\ \A i \in InHeap \ {0} : Parent(i) \in InHeap /\ Parent(i) < i
  BY <1>1, SlotTypes
<1>3. bubbling = "up" /\ size' = size /\ priority' = priority /\ status' = status
  BY DEF BubbleUp
<1>4. PICK a \in InHeap : a = at
  BY <1>1, <1>3 DEF AtInHeap
<1>5. \A i \in InHeap \ {0} : Prio(Parent(i)) <= Prio(i) \/ i = a
  BY <1>1, <1>3, <1>4 DEF HeapOrdered
<1>6. a # 0 => \A i \in InHeap \ {0} : Parent(i) = a => Prio(Parent(a)) <= Prio(i)
  BY <1>1, <1>3, <1>4 DEF HeapOrdered
<1>7. CASE /\ at > 0 /\ Prio(at) < Prio(Parent(at))
           /\ Swap(at, Parent(at)) /\ Bubble("up", Parent(at))
  <2>1. PICK b \in InHeap : b = Parent(a) /\ b # a /\ a # 0
    BY <1>2, <1>4, <1>7
  <2>2. Prio(a) < Prio(b) /\ Swap(a, b) /\ bubbling' = "up" /\ at' = b
    BY <1>4, <1>7, <2>1 DEF Bubble
  <2>3. /\ InHeap' = InHeap
        /\ arr' \in [InHeap' -> Entries] /\ index' \in [Entries -> Slots]
        /\ IndexExact'
        /\ \A k \in InHeap :
             Prio(k)' = IF k = a THEN Prio(b) ELSE IF k = b THEN Prio(a) ELSE Prio(k)
    BY <1>1, <1>3, <2>1, <2>2, SwapKeeps
  <2>4. TypeOK'
    <3>1. at' \in Nat
      BY <1>2, <2>2
    <3> QED
      BY <3>1, <1>1, <1>3, <2>2, <2>3 DEF TypeOK
  <2>5. AtInHeap'
    BY <2>2, <2>3 DEF AtInHeap
  <2>6. \A i \in InHeap \ {0} : Prio(Parent(i))' <= Prio(i)' \/ i = b
    <3> TAKE i \in InHeap \ {0}
    <3>1. PICK k \in InHeap : k = Parent(i) /\ k # i
      BY <1>2
    <3>2. Prio(i) \in Nat /\ Prio(k) \in Nat /\ Prio(a) \in Nat /\ Prio(b) \in Nat
      BY <1>2
    <3>3. i # a => Prio(k) <= Prio(i)
      BY <3>1, <1>5
    <3>4. k = a => Prio(b) <= Prio(i)
      BY <3>1, <2>1, <1>6
    <3>5. i = a => k = b
      BY <3>1, <2>1
    <3>6. Prio(k)' <= Prio(i)' \/ i = b
      BY <3>1, <3>2, <3>3, <3>4, <3>5, <2>1, <2>2, <2>3
    <3> QED
      BY <3>1, <3>6
  <2>7. b # 0 => \A i \in InHeap \ {0} : Parent(i) = b => Prio(Parent(b))' <= Prio(i)'
    <3> SUFFICES ASSUME b # 0, NEW i \in InHeap \ {0}, Parent(i) = b
                 PROVE  Prio(Parent(b))' <= Prio(i)'
      OBVIOUS
    <3>1. PICK c \in InHeap : c = Parent(b) /\ c < b /\ b < a /\ b < i
      BY <1>2, <2>1
    <3>2. c # a /\ c # b /\ i # b
      BY <3>1, <1>2
    <3>3. Prio(i) \in Nat /\ Prio(c) \in Nat /\ Prio(a) \in Nat /\ Prio(b) \in Nat
      BY <1>2
    <3>4. Prio(c) <= Prio(b)
      BY <3>1, <2>1, <1>5
    <3>5. i # a => Prio(b) <= Prio(i)
      BY <1>5
    <3>6. Prio(c)' <= Prio(i)'
      BY <3>2, <3>3, <3>4, <3>5, <2>1, <2>2, <2>3
    <3> QED
      BY <3>1, <3>6
  <2>8. HeapOrdered'
    BY <2>2, <2>3, <2>6, <2>7 DEF HeapOrdered
  <2> QED
    BY <2>3, <2>4, <2>5, <2>8 DEF HeapInv
<1>8. CASE /\ at > 0 => Prio(at) >= Prio(Parent(at))
           /\ Stop /\ UNCHANGED <<arr, index>>
  <2>1. bubbling' = "no" /\ at' = 0 /\ arr' = arr /\ index' = index
    BY <1>8 DEF Stop
  <2>2. InHeap' = InHeap /\ Queued' = Queued
    BY <1>3 DEF InHeap, Queued
  <2>3. \A i \in InHeap : Prio(i)' = Prio(i)
    BY <1>3, <2>1 DEF Prio
  <2>4. \A i \in InHeap \ {0} : Prio(Parent(i)) <= Prio(i)
    BY <1>2, <1>4, <1>5, <1>8
  <2>5. \A i \in InHeap \ {0} : Prio(Parent(i))' <= Prio(i)'
    BY <1>2, <2>3, <2>4
  <2>6. TypeOK'
    BY <1>1, <1>3, <2>1, <2>2 DEF TypeOK
  <2>7. IndexExact'
    BY <1>1, <2>1, <2>2 DEF IndexExact
  <2> QED
    BY <2>1, <2>2, <2>5, <2>6, <2>7 DEF HeapInv, AtInHeap, HeapOrdered
<1> QED
  BY <1>7, <1>8 DEF BubbleUp

\* A turn of bubble_down moves the smallest child up.  What was above the entry
\* is no higher than its children.
LEMMA BubbleDownKeeps ==
  ASSUME HeapInv, BubbleDown
  PROVE  HeapInv'
<1>1. TypeOK /\ IndexExact /\ AtInHeap /\ HeapOrdered
  BY DEF HeapInv
<1>2. /\ \A i \in InHeap : i \in Nat /\ i < size /\ arr[i] \in Entries /\ Prio(i) \in Nat
      /\ \A i \in InHeap \ {0} : Parent(i) \in InHeap /\ Parent(i) < i
  BY <1>1, SlotTypes
<1>3. bubbling = "down" /\ size' = size /\ priority' = priority /\ status' = status
  BY DEF BubbleDown
<1>4. PICK a \in InHeap : a = at
  BY <1>1, <1>3 DEF AtInHeap
<1>5. \A i \in InHeap \ {0} : Prio(Parent(i)) <= Prio(i) \/ Parent(i) = a
  BY <1>1, <1>3, <1>4 DEF HeapOrdered
<1>6. a # 0 => \A i \in InHeap \ {0} : Parent(i) = a => Prio(Parent(a)) <= Prio(i)
  BY <1>1, <1>3, <1>4 DEF HeapOrdered
<1>7. /\ Smallest(a) = a \/ (Smallest(a) \in InHeap \ {0} /\ Parent(Smallest(a)) = a)
      /\ Smallest(a) # a => Prio(Smallest(a)) < Prio(a)
      /\ \A c \in InHeap \ {0} : Parent(c) = a => Prio(Smallest(a)) <= Prio(c)
  BY <1>1, SmallestIs
<1>8. \/ /\ Smallest(a) # a /\ Swap(a, Smallest(a)) /\ Bubble("down", Smallest(a))
      \/ /\ Smallest(a) = a /\ Stop /\ UNCHANGED <<arr, index>>
  BY <1>4 DEF BubbleDown
<1>9. CASE Smallest(a) # a /\ Swap(a, Smallest(a)) /\ Bubble("down", Smallest(a))
  <2>1. PICK b \in InHeap : b = Smallest(a) /\ b # a /\ b # 0 /\ Parent(b) = a /\ a < b
    BY <1>2, <1>7, <1>9
  <2>2. Prio(b) < Prio(a) /\ Swap(a, b) /\ bubbling' = "down" /\ at' = b
    BY <1>7, <1>9, <2>1 DEF Bubble
  <2>3. /\ InHeap' = InHeap
        /\ arr' \in [InHeap' -> Entries] /\ index' \in [Entries -> Slots]
        /\ IndexExact'
        /\ \A k \in InHeap :
             Prio(k)' = IF k = a THEN Prio(b) ELSE IF k = b THEN Prio(a) ELSE Prio(k)
    BY <1>1, <1>3, <2>1, <2>2, SwapKeeps
  <2>4. TypeOK'
    <3>1. at' \in Nat
      BY <1>2, <2>2
    <3> QED
      BY <3>1, <1>1, <1>3, <2>2, <2>3 DEF TypeOK
  <2>5. AtInHeap'
    BY <2>2, <2>3 DEF AtInHeap
  <2>6. \A i \in InHeap \ {0} : Prio(Parent(i))' <= Prio(i)' \/ Parent(i) = b
    <3> TAKE i \in InHeap \ {0}
    <3>1. PICK k \in InHeap : k = Parent(i) /\ k # i
      BY <1>2
    <3>2. Prio(i) \in Nat /\ Prio(k) \in Nat /\ Prio(a) \in Nat /\ Prio(b) \in Nat
      BY <1>2
    <3>3. k # a => Prio(k) <= Prio(i)
      BY <3>1, <1>5
    <3>4. k = a => Prio(b) <= Prio(i)
      BY <3>1, <2>1, <1>7
    <3>5. i = a => Prio(k) <= Prio(b)
      BY <3>1, <2>1, <1>6
    <3>6. i = b => k = a
      BY <3>1, <2>1
    <3>7. Prio(k)' <= Prio(i)' \/ k = b
      BY <3>1, <3>2, <3>3, <3>4, <3>5, <3>6, <2>1, <2>2, <2>3
    <3> QED
      BY <3>1, <3>7
  <2>7. \A i \in InHeap \ {0} : Parent(i) = b => Prio(Parent(b))' <= Prio(i)'
    <3> SUFFICES ASSUME NEW i \in InHeap \ {0}, Parent(i) = b
                 PROVE  Prio(Parent(b))' <= Prio(i)'
      OBVIOUS
    <3>1. i # b /\ i # a
      BY <1>2, <2>1
    <3>2. Prio(b) <= Prio(i)
      BY <2>1, <1>5
    <3>3. Prio(a)' <= Prio(i)'
      BY <3>1, <3>2, <2>3
    <3> QED
      BY <3>3, <2>1
  <2>8. HeapOrdered'
    BY <2>2, <2>3, <2>6, <2>7 DEF HeapOrdered
  <2> QED
    BY <2>3, <2>4, <2>5, <2>8 DEF HeapInv
<1>10. CASE Smallest(a) = a /\ Stop /\ UNCHANGED <<arr, index>>
  <2>1. bubbling' = "no" /\ at' = 0 /\ arr' = arr /\ index' = index
    BY <1>10 DEF Stop
  <2>2. InHeap' = InHeap /\ Queued' = Queued
    BY <1>3 DEF InHeap, Queued
  <2>3. \A i \in InHeap : Prio(i)' = Prio(i)
    BY <1>3, <2>1 DEF Prio
  <2>4. \A i \in InHeap \ {0} : Prio(Parent(i)) <= Prio(i)
    BY <1>5, <1>7, <1>10
  <2>5. \A i \in InHeap \ {0} : Prio(Parent(i))' <= Prio(i)'
    BY <1>2, <2>3, <2>4
  <2>6. TypeOK'
    BY <1>1, <1>3, <2>1, <2>2 DEF TypeOK
  <2>7. IndexExact'
    BY <1>1, <2>1, <2>2 DEF IndexExact
  <2> QED
    BY <2>1, <2>2, <2>5, <2>6, <2>7 DEF HeapInv, AtInHeap, HeapOrdered
<1> QED
  BY <1>8, <1>9, <1>10

-----------------------------------------------------------------------------
(* The theorems.                                                           *)

\* At every moment, also inside the loops of bubble_up and bubble_down: the
\* array holds exactly the queued entries, each of them knows its slot, and the
\* heap is in order but for the slot the loop is at.
THEOREM HeapInvariant == Spec => []HeapInv
<1>1. HeapInv /\ [Next]_vars => HeapInv'
  <2> SUFFICES ASSUME HeapInv, [Next]_vars PROVE HeapInv'
    OBVIOUS
  <2>1. ASSUME NEW e \in Entries, NEW p \in Priorities, Insert(e, p) PROVE HeapInv'
    BY <2>1, InsertKeeps
  <2>2. ASSUME NEW e \in Entries, NEW p \in Priorities, UpdateByEntry(e, p) PROVE HeapInv'
    BY <2>2, UpdateKeeps
  <2>3. CASE ExtractMin
    BY <2>3, ExtractKeeps
  <2>4. ASSUME NEW e \in Entries, Free(e) PROVE HeapInv'
    BY <2>4, FreeKeeps
  <2>5. CASE BubbleUp
    BY <2>5, BubbleUpKeeps
  <2>6. CASE BubbleDown
    BY <2>6, BubbleDownKeeps
  <2>7. CASE UNCHANGED vars
    BY <2>7 DEF vars, heapVars, HeapInv, TypeOK, IndexExact, AtInHeap, HeapOrdered, InHeap,
                Queued, Prio
  <2> QED
    BY <2>1, <2>2, <2>3, <2>4, <2>5, <2>6, <2>7 DEF Next
<1> QED
  BY InitHeap, <1>1, PTL DEF Spec

\* The heap implements the priority queue: an entry it inserts was not in it,
\* what it extracts was in it and has the lowest priority of all, and the loops
\* and the callers' free are invisible but for the priority of a freed entry.
THEOREM HeapRefines == Spec => ImplementsQueue
<1>1. Init => PQ!Init
  BY UnsetType DEF Init, PQ!Init, Queued
<1>2. HeapInv /\ [Next]_vars => [PQ!Next]_(PQ!vars)
  <2> SUFFICES ASSUME HeapInv, [Next]_vars PROVE [PQ!Next]_(PQ!vars)
    OBVIOUS
  <2>1. TypeOK /\ IndexExact
    BY DEF HeapInv
  <2>2. ASSUME NEW e \in Entries, NEW p \in Priorities, Insert(e, p) PROVE PQ!Insert(e, p)
    <3>1. /\ status[e] = "unused" /\ status' = [status EXCEPT ![e] = "queued"]
          /\ priority' = [priority EXCEPT ![e] = p]
      BY <2>2 DEF Insert
    <3>2. e \notin Queued /\ Queued' = Queued \union {e}
      BY <2>1, <3>1 DEF Queued, TypeOK
    <3> QED
      BY <3>1, <3>2 DEF PQ!Insert
  <2>3. ASSUME NEW e \in Entries, NEW p \in Priorities, UpdateByEntry(e, p) PROVE PQ!Update(e, p)
    BY <2>3 DEF UpdateByEntry, heapVars, PQ!Update, Queued
  <2>4. ASSUME ExtractMin PROVE \E e \in Entries : PQ!ExtractMin(e)
    <3>1. /\ bubbling = "no" /\ size > 0
          /\ status' = [status EXCEPT ![arr[0]] = "extracted"] /\ priority' = priority
      BY <2>4 DEF ExtractMin
    <3>2. 0 \in InHeap /\ \A i \in InHeap : Prio(0) <= Prio(i)
      BY <3>1, RootLowest
    <3>3. PICK e \in Entries : e = arr[0] /\ e \in Queued
      BY <2>1, <3>2 DEF TypeOK, IndexExact
    <3>4. Queued' = Queued \ {e}
      BY <2>1, <3>1, <3>3 DEF Queued, TypeOK
    <3>5. \A f \in Queued : priority[e] <= priority[f]
      <4> TAKE f \in Queued
      <4>1. index[f] \in InHeap /\ arr[index[f]] = f
        BY <2>1 DEF IndexExact
      <4> QED
        BY <4>1, <3>2, <3>3 DEF Prio
    <3> QED
      BY <3>1, <3>3, <3>4, <3>5 DEF PQ!ExtractMin
  <2>5. ASSUME NEW e \in Entries, Free(e) PROVE PQ!Update(e, Unset)
    <3>1. Queued' = Queued
      BY <2>1, <2>5 DEF Free, Queued, TypeOK
    <3> QED
      BY <2>5, <3>1 DEF Free, PQ!Update
  <2>6. ASSUME BubbleUp \/ BubbleDown \/ UNCHANGED vars PROVE UNCHANGED PQ!vars
    <3>1. priority' = priority /\ status' = status
      BY <2>6 DEF BubbleUp, BubbleDown, vars
    <3> QED
      BY <3>1 DEF PQ!vars, Queued
  <2> QED
    BY <2>2, <2>3, <2>4, <2>5, <2>6, UnsetType DEF Next, PQ!Next
<1> QED
  BY <1>1, <1>2, HeapInvariant, PTL DEF Spec, ImplementsQueue, PQ!Spec
=============================================================================
