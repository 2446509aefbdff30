-------------------------- MODULE LruQueue_proofs --------------------------
(***************************************************************************)
(* What the operations of a queue do to the set of its elements: queues    *)
(* without duplicates stay so, and none of the operations but Append and   *)
(* Tail changes the set.                                                   *)
(***************************************************************************)
EXTENDS LruQueue, Functions, TLAPS

\* Append, Head and Tail, slot by slot.
LEMMA QueueOps ==
  ASSUME NEW S, NEW q \in Seq(S), NEW x \in S
  PROVE  /\ DOMAIN q = 1 .. Len(q) /\ Len(q) \in Nat
         /\ \A k \in 1 .. Len(q) : q[k] \in S
         /\ Append(q, x) \in Seq(S) /\ Len(Append(q, x)) = Len(q) + 1
         /\ \A k \in 1 .. Len(q) : Append(q, x)[k] = q[k]
         /\ Append(q, x)[Len(q) + 1] = x
         /\ q # <<>> => /\ Len(q) >= 1 /\ Head(q) = q[1]
                        /\ Tail(q) \in Seq(S) /\ Len(Tail(q)) = Len(q) - 1
                        /\ \A k \in 1 .. Len(q) - 1 : Tail(q)[k] = q[k + 1]
OBVIOUS

\* An element that is not in the queue enters it at the tail.
LEMMA AppendKeeps ==
  ASSUME NEW S, NEW q \in Seq(S), IsInjective(q), NEW x \in S, x \notin Range(q)
  PROVE  /\ Append(q, x) \in Seq(S) /\ IsInjective(Append(q, x))
         /\ Range(Append(q, x)) = Range(q) \union {x}
<1> DEFINE n == Len(q)
           p == Append(q, x)
<1>1. /\ n \in Nat /\ DOMAIN q = 1 .. n /\ p \in Seq(S) /\ DOMAIN p = 1 .. n + 1
      /\ \A k \in 1 .. n : p[k] = q[k]
      /\ p[n + 1] = x
  BY QueueOps
<1>2. \A k \in 1 .. n : q[k] # x
  BY <1>1 DEF Range
<1> HIDE DEF p, n
<1>3. IsInjective(p)
  <2>1. \A k \in 1 .. n + 1 : k \in 1 .. n \/ k = n + 1
    BY <1>1
  <2>2. \A i, j \in 1 .. n : q[i] = q[j] => i = j
    BY <1>1 DEF IsInjective
  <2>3. \A i, j \in 1 .. n + 1 : p[i] = p[j] => i = j
    BY <1>1, <1>2, <2>1, <2>2
  <2>4. QED
    BY <1>1, <2>3 DEF IsInjective
<1>4. Range(p) = Range(q) \union {x}
  <2>1. 1 .. n + 1 = 1 .. n \union {n + 1}
    BY <1>1
  <2>2. QED
    BY <1>1, <2>1 DEF Range
<1>5. QED
  BY <1>1, <1>3, <1>4 DEF p

\* The head leaves the queue.
LEMMA TailKeeps ==
  ASSUME NEW S, NEW q \in Seq(S), IsInjective(q), q # <<>>
  PROVE  /\ Tail(q) \in Seq(S) /\ IsInjective(Tail(q))
         /\ Head(q) \in Range(q) /\ Range(Tail(q)) = Range(q) \ {Head(q)}
<1> DEFINE n == Len(q)
           p == Tail(q)
           x == Head(q)
<1>1. /\ n \in Nat /\ n >= 1 /\ DOMAIN q = 1 .. n /\ x = q[1]
      /\ p \in Seq(S) /\ DOMAIN p = 1 .. n - 1
      /\ \A k \in 1 .. n - 1 : p[k] = q[k + 1]
  OBVIOUS
<1>2. \A i, j \in 1 .. n : q[i] = q[j] => i = j
  BY <1>1 DEF IsInjective
<1> HIDE DEF p, n, x
<1>3. IsInjective(p)
  BY <1>1, <1>2 DEF IsInjective
<1>4. x \in Range(q)
  BY <1>1 DEF Range
<1>5. Range(p) = Range(q) \ {x}
  <2>1. ASSUME NEW k \in 1 .. n - 1 PROVE p[k] \in Range(q) /\ p[k] # x
    BY <1>1, <1>2 DEF Range
  <2>2. ASSUME NEW i \in 1 .. n, q[i] # x PROVE q[i] \in Range(p)
    <3>1. i - 1 \in 1 .. n - 1 /\ p[i - 1] = q[i]
      BY <1>1, <2>2
    <3>2. QED
      BY <1>1, <3>1 DEF Range
  <2>3. \A y \in Range(p) : y \in Range(q) \ {x}
    BY <1>1, <2>1 DEF Range
  <2>4. \A y \in Range(q) \ {x} : y \in Range(p)
    <3>1. \A y \in Range(q) : \E i \in 1 .. n : y = q[i]
      BY <1>1 DEF Range
    <3>2. QED
      BY <2>2, <3>1
  <2>5. QED
    BY <2>3, <2>4
<1>6. QED
  BY <1>1, <1>3, <1>4, <1>5 DEF p, x

-----------------------------------------------------------------------------
(* Moving an element to the tail.                                          *)

\* Where the element at k comes from when the element at d of n moves to the tail.
Old(n, d, k) == IF k < d THEN k ELSE IF k < n THEN k + 1 ELSE d

LEMMA OldInjective ==
  ASSUME NEW n \in Nat, NEW d \in 1 .. n, NEW i \in 1 .. n, NEW j \in 1 .. n,
         Old(n, d, i) = Old(n, d, j)
  PROVE  i = j
<1>1. CASE i < d
  BY <1>1 DEF Old
<1>2. CASE ~(i < d) /\ i < n
  <2>1. Old(n, d, i) = i + 1
    BY <1>2 DEF Old
  <2>2. QED
    BY <1>2, <2>1 DEF Old
<1>3. CASE ~(i < d) /\ ~(i < n)
  <2>1. Old(n, d, i) = d /\ i = n
    BY <1>3 DEF Old
  <2>2. QED
    BY <1>3, <2>1 DEF Old
<1>4. QED
  BY <1>1, <1>2, <1>3

LEMMA OldMonotone ==
  ASSUME NEW n \in Nat, NEW d \in 1 .. n, NEW i \in 1 .. n, NEW j \in 1 .. n, i < j, j # n
  PROVE  Old(n, d, i) < Old(n, d, j)
<1>1. j < n /\ i < n
  OBVIOUS
<1>2. CASE j < d
  BY <1>2 DEF Old
<1>3. CASE ~(j < d)
  <2>1. Old(n, d, j) = j + 1
    BY <1>1, <1>3 DEF Old
  <2>2. Old(n, d, i) = i \/ Old(n, d, i) = i + 1
    BY <1>1 DEF Old
  <2>3. QED
    BY <2>1, <2>2
<1>4. QED
  BY <1>2, <1>3

\* A queue with one node moved to the tail has the same elements, each once.
LEMMA ToTailKeeps ==
  ASSUME NEW S, NEW queue \in Seq(S), IsInjective(queue), NEW d \in DOMAIN queue
  PROVE  /\ ToTail(queue, d) \in Seq(S) /\ DOMAIN ToTail(queue, d) = DOMAIN queue
         /\ IsInjective(ToTail(queue, d)) /\ Range(ToTail(queue, d)) = Range(queue)
<1> DEFINE n == Len(queue)
           q == ToTail(queue, d)
           old(k) == Old(n, d, k)
<1>1. /\ n \in Nat /\ DOMAIN queue = 1 .. n /\ d \in 1 .. n
      /\ \A k \in 1 .. n : queue[k] \in S
  OBVIOUS
<1>2. DOMAIN q = 1 .. n /\ \A k \in 1 .. n : old(k) \in 1 .. n /\ q[k] = queue[old(k)]
  BY <1>1 DEF ToTail, Old
<1>3. q \in Seq(S)
  <2>1. q \in [1 .. n -> S]
    BY <1>1 DEF ToTail
  <2>2. QED
    BY <1>1, <2>1
<1>4. ASSUME NEW i \in 1 .. n, NEW j \in 1 .. n, old(i) = old(j) PROVE i = j
  BY <1>1, <1>4, OldInjective
<1>5. ASSUME NEW k \in 1 .. n PROVE \E j \in 1 .. n : old(j) = k
  <2>1. CASE k < d
    BY <1>1, <2>1 DEF Old
  <2>2. CASE k = d
    <3>1. old(n) = k /\ n \in 1 .. n
      BY <1>1, <2>2 DEF Old
    <3>2. QED
      BY <3>1
  <2>3. CASE k > d
    <3>1. old(k - 1) = k /\ k - 1 \in 1 .. n
      BY <1>1, <2>3 DEF Old
    <3>2. QED
      BY <3>1
  <2>4. QED
    BY <1>1, <2>1, <2>2, <2>3
<1> HIDE DEF n, q, old
<1>6. IsInjective(q)
  BY <1>1, <1>2, <1>4 DEF IsInjective
<1>7. Range(q) = Range(queue)
  <2>1. ASSUME NEW i \in 1 .. n PROVE q[i] \in Range(queue)
    BY <1>1, <1>2 DEF Range
  <2>2. ASSUME NEW i \in 1 .. n PROVE queue[i] \in Range(q)
    <3>1. PICK k \in 1 .. n : old(k) = i
      BY <1>5
    <3>2. q[k] = queue[i]
      BY <1>2, <3>1
    <3>3. QED
      BY <1>2, <3>2 DEF Range
  <2>3. QED
    BY <1>1, <1>2, <2>1, <2>2 DEF Range
<1>8. QED
  BY <1>1, <1>2, <1>3, <1>6, <1>7 DEF q
=============================================================================
