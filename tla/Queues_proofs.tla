---------------------------- MODULE Queues_proofs ----------------------------
(***************************************************************************)
(* What removing an element of a list, and moving it to the tail, do.       *)
(***************************************************************************)
EXTENDS Queues, TLAPS

\* queue_remove leaves the other elements in their order.
LEMMA WithoutShape ==
  ASSUME NEW S, NEW q \in Seq(S), NEW i \in DOMAIN q
  PROVE  LET r == Without(q, i) IN
         /\ r \in Seq(S)
         /\ Len(r) = Len(q) - 1
         /\ DOMAIN r = 1..(Len(q) - 1)
         /\ \A k \in DOMAIN r : r[k] = IF k < i THEN q[k] ELSE q[k + 1]
<1>1. Len(q) \in Nat /\ DOMAIN q = 1..Len(q) /\ Len(q) - 1 \in Nat
  OBVIOUS
<1>2. \A k \in 1..(Len(q) - 1) : k \in DOMAIN q /\ k + 1 \in DOMAIN q
  BY <1>1
<1>3. \A k \in 1..(Len(q) - 1) : (IF k < i THEN q[k] ELSE q[k + 1]) \in S
  BY <1>1, <1>2
<1>4. Without(q, i) \in Seq(S) /\ Len(Without(q, i)) = Len(q) - 1
  BY <1>1, <1>3 DEF Without
<1> QED
  BY <1>1, <1>4 DEF Without

\* Where the elements of the shortened list were, and where the elements of
\* the old list are in it.
LEMMA WithoutPlaces ==
  ASSUME NEW S, NEW q \in Seq(S), NEW i \in DOMAIN q
  PROVE  LET r == Without(q, i)
             Old(k) == IF k < i THEN k ELSE k + 1
         IN /\ \A k \in DOMAIN r : Old(k) \in DOMAIN q /\ Old(k) # i /\ r[k] = q[Old(k)]
            /\ \A k, l \in DOMAIN r : k <= l <=> Old(k) <= Old(l)
            /\ \A j \in DOMAIN q : j # i =>
                 \E k \in DOMAIN r : Old(k) = j /\ r[k] = q[j]
<1> DEFINE r == Without(q, i)
           Old(k) == IF k < i THEN k ELSE k + 1
<1>1. Len(q) \in Nat /\ DOMAIN q = 1..Len(q) /\ i \in Nat
  OBVIOUS
<1>2. /\ DOMAIN r = 1..(Len(q) - 1)
      /\ \A k \in DOMAIN r : r[k] = IF k < i THEN q[k] ELSE q[k + 1]
  BY WithoutShape
<1> HIDE DEF r
<1>3. \A k \in DOMAIN r : Old(k) \in DOMAIN q /\ Old(k) # i /\ r[k] = q[Old(k)]
  BY <1>1, <1>2
<1>4. \A k, l \in DOMAIN r : k <= l <=> Old(k) <= Old(l)
  BY <1>1, <1>2
<1>5. ASSUME NEW j \in DOMAIN q, j # i
      PROVE  \E k \in DOMAIN r : Old(k) = j /\ r[k] = q[j]
  <2> DEFINE k == IF j < i THEN j ELSE j - 1
  <2>1. k \in DOMAIN r /\ Old(k) = j
    BY <1>1, <1>2, <1>5
  <2> QED
    BY <2>1, <1>3
<1> QED
  BY <1>3, <1>4, <1>5 DEF r

\* r is q with the element at i moved to the tail, where it is e: the others
\* keep their order.
Moved(q, i, e, r) ==
  LET n == Len(q)
      Old(k) == IF k < i THEN k ELSE k + 1
  IN /\ DOMAIN r = 1..n /\ n \in DOMAIN r /\ r[n] = e
     /\ \A k \in DOMAIN r : k # n =>
          Old(k) \in DOMAIN q /\ Old(k) # i /\ r[k] = q[Old(k)]
     /\ \A k, l \in DOMAIN r : k # n /\ l # n => (k <= l <=> Old(k) <= Old(l))
     /\ \A j \in DOMAIN q : j # i => \E k \in DOMAIN r : k # n /\ r[k] = q[j]

\* That is what queue_remove and queue_insert_tail do.
LEMMA ToTailShape ==
  ASSUME NEW S, NEW q \in Seq(S), NEW i \in DOMAIN q, NEW e \in S
  PROVE  ToTail(q, i, e) \in Seq(S) /\ Moved(q, i, e, ToTail(q, i, e))
<1> DEFINE w == Without(q, i)
           r == ToTail(q, i, e)
           n == Len(q)
           Old(k) == IF k < i THEN k ELSE k + 1
<1>1. n \in Nat /\ DOMAIN q = 1..n /\ i \in 1..n /\ n - 1 \in Nat
  OBVIOUS
<1>2. w \in Seq(S) /\ Len(w) = n - 1 /\ DOMAIN w = 1..(n - 1)
  BY WithoutShape
<1>3. /\ \A k \in DOMAIN w : Old(k) \in DOMAIN q /\ Old(k) # i /\ w[k] = q[Old(k)]
      /\ \A k, l \in DOMAIN w : k <= l <=> Old(k) <= Old(l)
      /\ \A j \in DOMAIN q : j # i => \E k \in DOMAIN w : Old(k) = j /\ w[k] = q[j]
  BY WithoutPlaces
<1>4. r = Append(w, e)
  BY DEF ToTail
<1> HIDE DEF w, r
<1>5. r \in Seq(S) /\ Len(r) = n /\ r[n] = e /\ \A k \in 1..(n - 1) : r[k] = w[k]
  <2>1. /\ r \in Seq(S) /\ Len(r) = Len(w) + 1 /\ r[Len(w) + 1] = e
        /\ \A k \in 1..Len(w) : r[k] = w[k]
    BY <1>2, <1>4
  <2> QED
    BY <1>1, <1>2, <2>1
<1>6. DOMAIN r = 1..n /\ n \in DOMAIN r
  BY <1>1, <1>5
<1>7. \A k \in DOMAIN r : k # n => k \in DOMAIN w
  BY <1>1, <1>2, <1>6
<1>8. \A k \in DOMAIN w : k \in DOMAIN r /\ k # n
  BY <1>1, <1>2, <1>6
<1> QED
  BY <1>2, <1>3, <1>5, <1>6, <1>7, <1>8 DEF r, Moved
=============================================================================
