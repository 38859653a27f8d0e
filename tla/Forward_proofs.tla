--------------------------- MODULE Forward_proofs ----------------------------
(***************************************************************************)
(* Proof that the forwarding of requests delivers the client's bytes once,  *)
(* in order and with the id head behind each request line, within the       *)
(* memory it is allowed, and that it implements the pipe of requests; for   *)
(* any stream of requests, limits and length of the id head, as long as no  *)
(* read ends within a request line (or no id head is inserted).             *)
(***************************************************************************)
EXTENDS Forward, WellFoundedInduction, SequenceTheorems, TLAPS

-----------------------------------------------------------------------------
(* Induction, for sets of numbers: a counterexample would have a least one. *)

LEMMA SetInduction ==
  ASSUME NEW N \in Nat, NEW A, 0 \in A,
         \A n \in 0..(N - 1) : n \in A => n + 1 \in A
  PROVE  0..N \subseteq A
<1> DEFINE B == {n \in 0..N : n \notin A}
           Less == {p \in Nat \X Nat : p[1] < p[2]}
<1>1. SUFFICES ASSUME B # {} PROVE FALSE
  OBVIOUS
<1>2. IsWellFoundedOn(Less, Nat)
  BY NatLessThanWellFounded DEF OpToRel
<1>3. B \in SUBSET Nat
  OBVIOUS
<1>4. \E b \in B : \A h \in B : <<h, b>> \notin Less
  <2> HIDE DEF B, Less
  <2> QED
    BY <1>1, <1>2, <1>3, WFMin
<1>5. PICK b \in B : \A h \in B : <<h, b>> \notin Less
  BY <1>4
<1>6. b # 0 /\ b \in 0..N /\ b \notin A
  OBVIOUS
<1>7. b - 1 \in 0..(N - 1) /\ <<b - 1, b>> \in Less
  BY <1>6
<1>8. b - 1 \in A
  BY <1>5, <1>7
<1> QED
  BY <1>6, <1>7, <1>8

\* The steps of a recursion over 1..N with values in S.
Steps(N, S) == [(1..N) \X S -> S]

\* g begins with b and goes on by F.
Recurs(g, N, b, F) == g[0] = b /\ \A i \in 1..N : g[i] = F[<<i, g[i - 1]>>]

\* A function on 0..N that is given by its first value and by a step exists.
LEMMA Recursion ==
  ASSUME NEW S, NEW b \in S, NEW N \in Nat, NEW F \in Steps(N, S)
  PROVE  \E g \in [0..N -> S] : Recurs(g, N, b, F)
<1> USE DEF Steps, Recurs
<1> DEFINE Defined(n) ==
             \E g \in [0..n -> S] : g[0] = b /\ \A i \in 1..n : g[i] = F[<<i, g[i - 1]>>]
           A == {n \in 0..N : Defined(n)}
<1>1. 0 \in A
  <2>1. [i \in 0..0 |-> b] \in [0..0 -> S] /\ [i \in 0..0 |-> b][0] = b
    OBVIOUS
  <2>2. PICK g \in [0..0 -> S] : g[0] = b
    BY <2>1
  <2>3. \A i \in 1..0 : g[i] = F[<<i, g[i - 1]>>]
    OBVIOUS
  <2>4. Defined(0)
    BY <2>2, <2>3
  <2> QED
    BY <2>4
<1>2. \A n \in 0..(N - 1) : n \in A => n + 1 \in A
  <2> SUFFICES ASSUME NEW n \in 0..(N - 1), Defined(n)
               PROVE  Defined(n + 1)
    BY DEF A
  <2>1. PICK g \in [0..n -> S] : g[0] = b /\ \A i \in 1..n : g[i] = F[<<i, g[i - 1]>>]
    OBVIOUS
  <2>2. g[n] \in S /\ n + 1 \in 1..N
    BY <2>1
  <2>3. F[<<n + 1, g[n]>>] \in S
    BY <2>2
  <2> DEFINE h == [i \in 0..(n + 1) |-> IF i = n + 1 THEN F[<<n + 1, g[n]>>] ELSE g[i]]
  <2>4. h \in [0..(n + 1) -> S] /\ h[0] = b
    BY <2>1, <2>3
  <2>5. \A i \in 1..(n + 1) : h[i] = F[<<i, h[i - 1]>>]
    <3> SUFFICES ASSUME NEW i \in 1..(n + 1) PROVE h[i] = F[<<i, h[i - 1]>>]
      OBVIOUS
    <3>1. CASE i = n + 1
      BY <3>1
    <3>2. CASE i # n + 1
      <4>1. i \in 1..n /\ i - 1 \in 0..n
        BY <3>2
      <4>2. h[i] = g[i] /\ h[i - 1] = g[i - 1]
        BY <4>1
      <4> QED
        BY <2>1, <4>1, <4>2
    <3> QED
      BY <3>1, <3>2
  <2> QED
    BY <2>4, <2>5
<1>3. 0..N \subseteq A
  <2> HIDE DEF A
  <2> QED
    BY <1>1, <1>2, SetInduction
<1> QED
  BY <1>3

-----------------------------------------------------------------------------
(* Sums.                                                                    *)

LEMMA SumSteps ==
  ASSUME NEW s \in Seq(Nat)
  PROVE  /\ SumTo(s) \in [0..Len(s) -> Nat]
         /\ SumTo(s)[0] = 0
         /\ \A k \in 1..Len(s) : SumTo(s)[k] = SumTo(s)[k - 1] + s[k]
<1> DEFINE N == Len(s)
           F == [p \in (1..N) \X Nat |-> p[2] + s[p[1]]]
           IsSum(g) == g = [k \in 0..N |-> IF k = 0 THEN 0 ELSE g[k - 1] + s[k]]
<1>0. N \in Nat /\ \A k \in 1..N : s[k] \in Nat
  OBVIOUS
<1>1. F \in [(1..N) \X Nat -> Nat]
  BY <1>0
<1>2. \E g \in [0..N -> Nat] : Recurs(g, N, 0, F)
  <2>1. N \in Nat /\ 0 \in Nat /\ F \in Steps(N, Nat)
    BY <1>0, <1>1 DEF Steps
  <2> HIDE DEF N, F
  <2> QED
    BY <2>1, Recursion, Zenon
<1>3. PICK g \in [0..N -> Nat] : g[0] = 0 /\ \A i \in 1..N : g[i] = F[<<i, g[i - 1]>>]
  BY <1>2 DEF Recurs
<1>4. \A i \in 1..N : g[i] = g[i - 1] + s[i]
  <2> SUFFICES ASSUME NEW i \in 1..N PROVE g[i] = g[i - 1] + s[i]
    OBVIOUS
  <2>1. g[i - 1] \in Nat
    BY <1>0, SMTT(30)
  <2> QED
    BY <1>3, <2>1
<1>5. IsSum(g)
  BY <1>0, <1>3, <1>4
<1>6. SumTo(s) = CHOOSE h : IsSum(h)
  BY DEF SumTo
<1>7. IsSum(SumTo(s))
  <2> HIDE DEF IsSum
  <2> QED
    BY <1>5, <1>6
<1> DEFINE h == SumTo(s)
<1>8. h[0] = 0 /\ \A k \in 1..N : h[k] = h[k - 1] + s[k]
  <2> HIDE DEF h
  <2> QED
    BY <1>0, <1>7 DEF h
<1>9. DOMAIN h = 0..N /\ h = [k \in 0..N |-> h[k]]
  BY <1>7
<1>10. 0..N \subseteq {k \in 0..N : h[k] \in Nat}
  <2> DEFINE A == {k \in 0..N : h[k] \in Nat}
  <2> HIDE DEF h
  <2>1. 0 \in A
    BY <1>0, <1>8
  <2>2. \A n \in 0..(N - 1) : n \in A => n + 1 \in A
    BY <1>0, <1>8, SMTT(30)
  <2> HIDE DEF A
  <2>3. 0..N \subseteq A
    BY <1>0, <2>1, <2>2, SetInduction
  <2> QED
    BY <2>3 DEF A
<1> QED
  BY <1>8, <1>9, <1>10

\* The running sum up to k depends on the first k numbers only.
LEMMA SumPrefix ==
  ASSUME NEW s \in Seq(Nat), NEW t \in Seq(Nat), NEW n \in Nat,
         n <= Len(s), n <= Len(t), \A i \in 1..n : s[i] = t[i]
  PROVE  \A k \in 0..n : SumTo(s)[k] = SumTo(t)[k]
<1> DEFINE A == {k \in 0..n : SumTo(s)[k] = SumTo(t)[k]}
<1>1. /\ SumTo(s)[0] = 0 /\ \A k \in 1..Len(s) : SumTo(s)[k] = SumTo(s)[k - 1] + s[k]
      /\ SumTo(t)[0] = 0 /\ \A k \in 1..Len(t) : SumTo(t)[k] = SumTo(t)[k - 1] + t[k]
  BY SumSteps
<1>2. 0 \in A
  BY <1>1
<1>3. \A k \in 0..(n - 1) : k \in A => k + 1 \in A
  <2> SUFFICES ASSUME NEW k \in 0..(n - 1), SumTo(s)[k] = SumTo(t)[k]
               PROVE  SumTo(s)[k + 1] = SumTo(t)[k + 1]
    OBVIOUS
  <2>1. k + 1 \in 1..Len(s) /\ k + 1 \in 1..Len(t) /\ k + 1 \in 1..n /\ (k + 1) - 1 = k
    OBVIOUS
  <2> QED
    BY <1>1, <2>1
<1> HIDE DEF A
<1>4. 0..n \subseteq A
  BY <1>2, <1>3, SetInduction
<1> QED
  BY <1>4 DEF A

LEMMA TotalType == ASSUME NEW s \in Seq(Nat) PROVE Total(s) \in Nat
BY SumSteps DEF Total

LEMMA TotalEmpty == Total(<<>>) = 0
<1>1. <<>> \in Seq(Nat) /\ Len(<<>>) = 0
  OBVIOUS
<1> QED
  BY <1>1, SumSteps DEF Total

LEMMA TotalOne ==
  ASSUME NEW n \in Nat
  PROVE  Total(<<n>>) = n
<1>1. <<n>> \in Seq(Nat) /\ Len(<<n>>) = 1 /\ <<n>>[1] = n /\ 1 \in 1..1 /\ 1 - 1 = 0
  OBVIOUS
<1>2. SumTo(<<n>>)[0] = 0 /\ SumTo(<<n>>)[1] = SumTo(<<n>>)[1 - 1] + n
  BY <1>1, SumSteps
<1> QED
  BY <1>1, <1>2 DEF Total

LEMMA SumConcat ==
  ASSUME NEW s \in Seq(Nat), NEW t \in Seq(Nat)
  PROVE  Total(s \o t) = Total(s) + Total(t)
<1> DEFINE u == s \o t
           N == Len(t)
           A == {k \in 0..N : SumTo(u)[Len(s) + k] = Total(s) + SumTo(t)[k]}
<1>1. /\ u \in Seq(Nat) /\ Len(u) = Len(s) + N /\ N \in Nat /\ Len(s) \in Nat
      /\ \A i \in 1..Len(s) : u[i] = s[i]
      /\ \A i \in 1..N : u[Len(s) + i] = t[i]
  OBVIOUS
<1> HIDE DEF u
<1>2. /\ \A k \in 1..Len(u) : SumTo(u)[k] = SumTo(u)[k - 1] + u[k]
      /\ SumTo(t)[0] = 0 /\ \A k \in 1..N : SumTo(t)[k] = SumTo(t)[k - 1] + t[k]
      /\ SumTo(t) \in [0..N -> Nat] /\ SumTo(s) \in [0..Len(s) -> Nat]
  BY <1>1, SumSteps
<1>3. 0 \in A
  <2>1. \A k \in 0..Len(s) : SumTo(u)[k] = SumTo(s)[k]
    <3>1. Len(s) <= Len(u) /\ Len(s) <= Len(s)
      BY <1>1
    <3> QED
      BY <1>1, <3>1, SumPrefix
  <2>2. SumTo(u)[Len(s) + 0] = SumTo(s)[Len(s)]
    BY <1>1, <2>1
  <2>3. Total(s) \in Nat
    BY TotalType
  <2> QED
    BY <1>1, <1>2, <2>2, <2>3 DEF Total
<1>4. \A k \in 0..(N - 1) : k \in A => k + 1 \in A
  <2> SUFFICES ASSUME NEW k \in 0..(N - 1), SumTo(u)[Len(s) + k] = Total(s) + SumTo(t)[k]
               PROVE  SumTo(u)[Len(s) + (k + 1)] = Total(s) + SumTo(t)[k + 1]
    BY <1>1
  <2>1. PICK m \in 1..Len(u) : m = Len(s) + (k + 1) /\ m - 1 = Len(s) + k
    BY <1>1
  <2>2. SumTo(u)[m] = SumTo(u)[Len(s) + k] + u[m]
    BY <1>2, <2>1
  <2>3. k + 1 \in 1..N /\ (k + 1) - 1 = k
    BY <1>1
  <2>4. u[m] = t[k + 1]
    BY <1>1, <2>1, <2>3
  <2>5. SumTo(t)[k + 1] = SumTo(t)[k] + t[k + 1]
    BY <1>2, <2>3
  <2>6. Total(s) \in Nat
    BY TotalType
  <2>7. t[k + 1] \in Nat
    BY <2>3
  <2>8. SumTo(t)[k] \in Nat
    <3>1. \A n \in 0..Len(t) : SumTo(t)[n] \in Nat
      BY SumSteps
    <3>2. k \in 0..Len(t)
      BY <1>1
    <3> QED
      BY <3>1, <3>2
  <2> QED
    BY <2>1, <2>2, <2>4, <2>5, <2>6, <2>7, <2>8
<1>5. 0..N \subseteq A
  <2> HIDE DEF A, N
  <2> QED
    BY <1>1, <1>3, <1>4, SetInduction
<1>6. N \in 0..N
  BY <1>1
<1>7. SumTo(u)[Len(s) + N] = Total(s) + SumTo(t)[N]
  BY <1>5, <1>6
<1> QED
  BY <1>1, <1>7 DEF Total, u

\* Running sums only grow.
LEMMA SumGrows ==
  ASSUME NEW s \in Seq(Nat), NEW k \in 0..Len(s), NEW l \in k..Len(s)
  PROVE  SumTo(s)[k] <= SumTo(s)[l]
<1> DEFINE N == Len(s) - k
           A == {d \in 0..N : SumTo(s)[k] <= SumTo(s)[k + d]}
<1>1. N \in Nat /\ Len(s) \in Nat /\ k \in Nat
  OBVIOUS
<1>2. /\ \A i \in 1..Len(s) : SumTo(s)[i] = SumTo(s)[i - 1] + s[i]
      /\ \A i \in 0..Len(s) : SumTo(s)[i] \in Nat
  BY SumSteps
<1>3. 0 \in A
  BY <1>1, <1>2
<1>4. \A d \in 0..(N - 1) : d \in A => d + 1 \in A
  <2> SUFFICES ASSUME NEW d \in 0..(N - 1), SumTo(s)[k] <= SumTo(s)[k + d]
               PROVE  SumTo(s)[k] <= SumTo(s)[k + (d + 1)]
    BY <1>1
  <2>1. PICK m \in 1..Len(s) : m = k + (d + 1) /\ m - 1 = k + d
    BY <1>1
  <2>2. SumTo(s)[m] = SumTo(s)[k + d] + s[m] /\ s[m] \in Nat
    BY <1>2, <2>1
  <2>3. SumTo(s)[k] \in Nat /\ SumTo(s)[k + d] \in Nat
    BY <1>1, <1>2
  <2> QED
    BY <2>1, <2>2, <2>3
<1>5. 0..N \subseteq A
  <2> HIDE DEF A, N
  <2> QED
    BY <1>1, <1>3, <1>4, SetInduction
<1>6. l - k \in 0..N /\ k + (l - k) = l
  BY <1>1
<1> QED
  BY <1>5, <1>6

LEMMA SumLeq ==
  ASSUME NEW s \in Seq(Nat), NEW t \in Seq(Nat), Len(s) = Len(t),
         \A i \in 1..Len(s) : s[i] <= t[i]
  PROVE  Total(s) <= Total(t)
<1> DEFINE N == Len(s)
           A == {k \in 0..N : SumTo(s)[k] <= SumTo(t)[k]}
<1>1. N \in Nat
  OBVIOUS
<1>2. /\ SumTo(s)[0] = 0 /\ \A k \in 1..N : SumTo(s)[k] = SumTo(s)[k - 1] + s[k]
      /\ SumTo(t)[0] = 0 /\ \A k \in 1..N : SumTo(t)[k] = SumTo(t)[k - 1] + t[k]
      /\ \A k \in 0..N : SumTo(s)[k] \in Nat /\ SumTo(t)[k] \in Nat
  BY SumSteps
<1>3. 0 \in A
  BY <1>2, <1>1
<1>4. \A k \in 0..(N - 1) : k \in A => k + 1 \in A
  <2> SUFFICES ASSUME NEW k \in 0..(N - 1), SumTo(s)[k] <= SumTo(t)[k]
               PROVE  SumTo(s)[k + 1] <= SumTo(t)[k + 1]
    BY <1>1
  <2>1. k + 1 \in 1..N /\ (k + 1) - 1 = k /\ k \in 0..N
    BY <1>1
  <2>2. SumTo(s)[k + 1] = SumTo(s)[k] + s[k + 1] /\ SumTo(t)[k + 1] = SumTo(t)[k] + t[k + 1]
    BY <1>2, <2>1
  <2>3. s[k + 1] \in Nat /\ t[k + 1] \in Nat /\ s[k + 1] <= t[k + 1]
    BY <2>1
  <2>4. SumTo(s)[k] \in Nat /\ SumTo(t)[k] \in Nat
    BY <1>2, <2>1
  <2> QED
    BY <2>2, <2>3, <2>4
<1>5. 0..N \subseteq A
  <2> HIDE DEF A, N
  <2> QED
    BY <1>1, <1>3, <1>4, SetInduction
<1> QED
  BY <1>1, <1>5 DEF Total

-----------------------------------------------------------------------------
(* Joining sequences of sequences.                                          *)

\* The joints of s: g[i] is the first i sequences, joined.
Joints(g, s) ==
  /\ DOMAIN g = 0..Len(s)
  /\ g[0] = <<>>
  /\ \A i \in 1..Len(s) : g[i] = g[i - 1] \o s[i]

LEMMA FlattenJoints ==
  ASSUME NEW T, NEW s \in Seq(Seq(T))
  PROVE  \E g \in [0..Len(s) -> Seq(T)] : Joints(g, s) /\ FlattenSeq(s) = g[Len(s)]
<1> DEFINE N == Len(s)
           F == [p \in (1..N) \X Seq(T) |-> p[2] \o s[p[1]]]
           IsFlat(g) == g = [i \in 1..N |-> IF i = 1 THEN s[i] ELSE g[i - 1] \o s[i]]
<1>0. N \in Nat /\ (\A k \in 1..N : s[k] \in Seq(T)) /\ <<>> \in Seq(T)
  OBVIOUS
<1>1. F \in [(1..N) \X Seq(T) -> Seq(T)]
  BY <1>0
<1>2. \E g \in [0..N -> Seq(T)] : Recurs(g, N, <<>>, F)
  <2>1. N \in Nat /\ <<>> \in Seq(T) /\ F \in Steps(N, Seq(T))
    BY <1>0, <1>1 DEF Steps
  <2> HIDE DEF N, F
  <2> QED
    BY <2>1, Recursion, Zenon
<1>3. PICK g \in [0..N -> Seq(T)] :
        g[0] = <<>> /\ \A i \in 1..N : g[i] = F[<<i, g[i - 1]>>]
  BY <1>2 DEF Recurs
<1>4. \A i \in 1..N : g[i] = g[i - 1] \o s[i]
  <2> SUFFICES ASSUME NEW i \in 1..N PROVE g[i] = g[i - 1] \o s[i]
    OBVIOUS
  <2>1. i - 1 \in 0..N
    BY <1>0
  <2>2. g[i - 1] \in Seq(T)
    BY <2>1
  <2>3. F[<<i, g[i - 1]>>] = g[i - 1] \o s[i]
    BY <2>2
  <2> QED
    BY <1>3, <2>3
<1>5. CASE N = 0
  <2>1. FlattenSeq(s) = <<>>
    BY <1>5 DEF FlattenSeq
  <2> QED
    BY <1>3, <1>4, <1>5, <2>1 DEF Joints
<1>6. CASE N # 0
  <2> DEFINE h == [i \in 1..N |-> g[i]]
             f == CHOOSE x : IsFlat(x)
  <2>1. IsFlat(h)
    <3>1. g[1] = <<>> \o s[1]
      <4>1. 1 \in 1..N /\ 1 - 1 = 0
        BY <1>0, <1>6
      <4>2. g[1] = g[1 - 1] \o s[1]
        BY <1>4, <4>1, Zenon
      <4>3. g[1 - 1] = g[0]
        BY <4>1
      <4> QED
        BY <1>3, <4>2, <4>3, Zenon
    <3>2. g[1] = s[1]
      BY <1>0, <1>6, <3>1
    <3>3. ASSUME NEW i \in 1..N PROVE h[i] = IF i = 1 THEN s[i] ELSE h[i - 1] \o s[i]
      <4>1. CASE i = 1
        BY <3>2, <4>1
      <4>2. CASE i # 1
        <5>1. i - 1 \in 1..N
          BY <1>0, <4>2
        <5>2. h[i - 1] = g[i - 1] /\ h[i] = g[i]
          BY <5>1
        <5> QED
          BY <1>4, <4>2, <5>2
      <4> QED
        BY <4>1, <4>2
    <3> QED
      BY <3>3
  <2>2. IsFlat(f)
    <3> HIDE DEF IsFlat, h
    <3> QED
      BY <2>1
  <2>3. FlattenSeq(s) = f[N]
    BY <1>6 DEF FlattenSeq
  <2> HIDE DEF f
  <2>4. \A i \in 1..N : f[i] = IF i = 1 THEN s[i] ELSE f[i - 1] \o s[i]
    BY <2>2
  <2> DEFINE A == {k \in 0..N : k > 0 => f[k] = g[k]}
  <2>5. 0 \in A
    BY <1>0
  <2>6. \A n \in 0..(N - 1) : n \in A => n + 1 \in A
    <3> SUFFICES ASSUME NEW n \in 0..(N - 1), n > 0 => f[n] = g[n]
                 PROVE  f[n + 1] = g[n + 1]
      BY <1>0
    <3>1. n + 1 \in 1..N /\ (n + 1) - 1 = n
      BY <1>0
    <3>2. CASE n = 0
      <4>1. 1 \in 1..N /\ 1 - 1 = 0 /\ n + 1 = 1
        BY <3>1, <3>2
      <4>2. g[1] = g[1 - 1] \o s[1]
        BY <1>4, <4>1
      <4>3. g[1] = <<>> \o s[1] /\ s[1] \in Seq(T)
        BY <1>0, <1>3, <4>1, <4>2
      <4>4. g[1] = s[1]
        BY <4>3
      <4>5. f[1] = s[1]
        BY <2>4, <4>1
      <4> QED
        BY <4>1, <4>4, <4>5
    <3>3. CASE n # 0
      <4>1. n > 0 /\ n + 1 # 1
        BY <1>0, <3>3
      <4>2. f[n + 1] = f[n] \o s[n + 1]
        BY <2>4, <3>1, <4>1
      <4>3. g[n + 1] = g[n] \o s[n + 1]
        BY <1>4, <3>1
      <4> QED
        BY <4>1, <4>2, <4>3
    <3> QED
      BY <3>2, <3>3
  <2>7. 0..N \subseteq A
    <3> HIDE DEF A, N
    <3> QED
      BY <1>0, <2>5, <2>6, SetInduction
  <2>8. N \in A
    BY <1>0, <2>7, SMTT(30)
  <2>9. f[N] = g[N]
    BY <1>0, <1>6, <2>8
  <2> QED
    BY <1>3, <1>4, <2>3, <2>9 DEF Joints
<1> QED
  BY <1>5, <1>6

LEMMA FlattenType ==
  ASSUME NEW T, NEW s \in Seq(Seq(T))
  PROVE  FlattenSeq(s) \in Seq(T)
<1>1. PICK g \in [0..Len(s) -> Seq(T)] : FlattenSeq(s) = g[Len(s)]
  BY FlattenJoints
<1> QED
  BY <1>1

\* One more sequence is joined to the end.
LEMMA FlattenAppend ==
  ASSUME NEW T, NEW s \in Seq(Seq(T)), NEW x \in Seq(T)
  PROVE  FlattenSeq(Append(s, x)) = FlattenSeq(s) \o x
<1> DEFINE t == Append(s, x)
           N == Len(s)
<1>1. /\ t \in Seq(Seq(T)) /\ Len(t) = N + 1 /\ t[N + 1] = x
      /\ N \in Nat /\ \A i \in 1..N : t[i] = s[i]
  OBVIOUS
<1> HIDE DEF t
<1>2. PICK g \in [0..Len(s) -> Seq(T)] : Joints(g, s) /\ FlattenSeq(s) = g[Len(s)]
  BY FlattenJoints
<1>3. PICK h \in [0..Len(t) -> Seq(T)] : Joints(h, t) /\ FlattenSeq(t) = h[Len(t)]
  BY <1>1, FlattenJoints
<1> DEFINE A == {k \in 0..N : g[k] = h[k]}
<1>4. 0 \in A
  BY <1>1, <1>2, <1>3 DEF Joints
<1>5. \A n \in 0..(N - 1) : n \in A => n + 1 \in A
  <2> SUFFICES ASSUME NEW n \in 0..(N - 1), n \in A
               PROVE  n + 1 \in A
    OBVIOUS
  <2>1. n + 1 \in 1..Len(s) /\ n + 1 \in 1..Len(t) /\ (n + 1) - 1 = n
    BY <1>1
  <2>2. g[n + 1] = g[n] \o s[n + 1] /\ h[n + 1] = h[n] \o t[n + 1]
    BY <1>2, <1>3, <2>1 DEF Joints
  <2>3. n + 1 \in 0..N /\ g[n] = h[n] /\ n + 1 \in 1..N
    BY <1>1
  <2>4. s[n + 1] = t[n + 1]
    BY <1>1, <2>3
  <2>5. g[n + 1] = h[n + 1]
    BY <2>2, <2>3, <2>4
  <2> QED
    BY <2>3, <2>5
<1>6. 0..N \subseteq A
  <2> HIDE DEF A, N
  <2> QED
    BY <1>1, <1>4, <1>5, SetInduction
<1>7. g[N] = h[N]
  BY <1>1, <1>6, SMTT(30)
<1>8. N + 1 \in 1..Len(t) /\ (N + 1) - 1 = N
  BY <1>1
<1>9. h[N + 1] = h[N] \o t[N + 1]
  BY <1>3, <1>8 DEF Joints
<1> QED
  BY <1>1, <1>2, <1>3, <1>7, <1>9 DEF t

LEMMA FlattenEmpty == FlattenSeq(<<>>) = <<>>
BY DEF FlattenSeq

LEMMA FlattenConcat ==
  ASSUME NEW T, NEW s \in Seq(Seq(T)), NEW t \in Seq(Seq(T))
  PROVE  FlattenSeq(s \o t) = FlattenSeq(s) \o FlattenSeq(t)
<1> DEFINE N == Len(t)
           Part(k) == SubSeq(t, 1, k)
           A == {k \in 0..N : FlattenSeq(s \o Part(k)) = FlattenSeq(s) \o FlattenSeq(Part(k))}
<1>1. N \in Nat /\ \A k \in 0..N : Part(k) \in Seq(Seq(T))
  OBVIOUS
<1>2. 0 \in A
  <2>1. Part(0) = <<>> /\ s \o <<>> = s
    OBVIOUS
  <2>2. FlattenSeq(s) \in Seq(T)
    BY FlattenType
  <2>3. FlattenSeq(s) \o <<>> = FlattenSeq(s)
    BY <2>2
  <2>4. FlattenSeq(s \o Part(0)) = FlattenSeq(s) \o FlattenSeq(Part(0))
    BY <2>1, <2>3, FlattenEmpty, Zenon
  <2> QED
    BY <1>1, <2>4
<1>3. \A n \in 0..(N - 1) : n \in A => n + 1 \in A
  <2> SUFFICES ASSUME NEW n \in 0..(N - 1), n \in A
               PROVE  n + 1 \in A
    OBVIOUS
  <2>1. n + 1 \in 1..N /\ n \in 0..N
    BY <1>1
  <2>2. t[n + 1] \in Seq(T)
    BY <2>1
  <2>3. PICK u \in Seq(Seq(T)) : u = Part(n)
    BY <1>1, <2>1
  <2>4. PICK x \in Seq(T) : x = t[n + 1]
    BY <2>2
  <2>5. Part(n + 1) = Append(u, x)
    BY <2>1, <2>3, <2>4
  <2> HIDE DEF N, Part, A
  <2>6. s \o Append(u, x) = Append(s \o u, x) /\ s \o u \in Seq(Seq(T))
    <3> DEFINE S == Seq(T)
    <3>1. s \in Seq(S) /\ u \in Seq(S) /\ x \in S
      OBVIOUS
    <3> HIDE DEF S
    <3>2. s \o Append(u, x) = Append(s \o u, x) /\ s \o u \in Seq(S)
      BY <3>1
    <3> QED
      BY <3>2 DEF S
  <2>7. FlattenSeq(Append(s \o u, x)) = FlattenSeq(s \o u) \o x
    BY <2>6, FlattenAppend
  <2>8. FlattenSeq(Append(u, x)) = FlattenSeq(u) \o x
    BY FlattenAppend
  <2>9. FlattenSeq(s) \in Seq(T) /\ FlattenSeq(u) \in Seq(T)
    BY FlattenType
  <2>10. \A a, b, c \in Seq(T) : (a \o b) \o c = a \o (b \o c)
    BY ConcatAssociative, SMTT(30)
  <2>11. (FlattenSeq(s) \o FlattenSeq(u)) \o x = FlattenSeq(s) \o (FlattenSeq(u) \o x)
    BY <2>9, <2>10
  <2>12. FlattenSeq(s \o u) = FlattenSeq(s) \o FlattenSeq(u)
    BY <2>3 DEF A
  <2>13. FlattenSeq(s \o Part(n + 1)) = FlattenSeq(s) \o FlattenSeq(Part(n + 1))
    BY <2>5, <2>6, <2>7, <2>8, <2>11, <2>12
  <2> QED
    BY <1>1, <2>1, <2>13, SMTT(30) DEF A, N
<1>4. 0..N \subseteq A
  <2> HIDE DEF A, N
  <2> QED
    BY <1>1, <1>2, <1>3, SetInduction
<1>5. N \in A /\ Part(N) = t
  BY <1>1, <1>4, SMTT(30)
<1> QED
  BY <1>5

LEMMA FlattenOne ==
  ASSUME NEW T, NEW x \in Seq(T)
  PROVE  FlattenSeq(<<x>>) = x
<1>1. <<x>> = Append(<<>>, x) /\ <<>> \in Seq(Seq(T)) /\ <<>> \o x = x
  OBVIOUS
<1> QED
  BY <1>1, FlattenAppend, FlattenEmpty

-----------------------------------------------------------------------------
(* Lists of buffers.                                                        *)

DatasOf(q) == [i \in DOMAIN q |-> q[i].data]

LEMMA BufferFacts ==
  ASSUME NEW b \in Buffer
  PROVE  /\ b.off \in Nat /\ b.data \in Seq(Nat)
         /\ Used(b) \in Nat /\ Mused(b) \in Nat /\ Used(b) <= Mused(b)
BY DEF Buffer, Used, Mused

LEMMA ListsOf ==
  ASSUME NEW q \in Seq(Buffer)
  PROVE  /\ Len(q) \in Nat /\ DOMAIN q = 1..Len(q)
         /\ UsedOf(q) \in Seq(Nat) /\ Len(UsedOf(q)) = Len(q)
         /\ MusedOf(q) \in Seq(Nat) /\ Len(MusedOf(q)) = Len(q)
         /\ DatasOf(q) \in Seq(Seq(Nat)) /\ Len(DatasOf(q)) = Len(q)
         /\ \A i \in 1..Len(q) :
              /\ q[i] \in Buffer
              /\ UsedOf(q)[i] = Used(q[i])
              /\ MusedOf(q)[i] = Mused(q[i])
              /\ DatasOf(q)[i] = q[i].data
<1>1. Len(q) \in Nat /\ DOMAIN q = 1..Len(q) /\ \A i \in 1..Len(q) : q[i] \in Buffer
  OBVIOUS
<1>2. \A i \in 1..Len(q) : Used(q[i]) \in Nat /\ Mused(q[i]) \in Nat /\ q[i].data \in Seq(Nat)
  BY <1>1, BufferFacts
<1>3. UsedOf(q) \in Seq(Nat) /\ Len(UsedOf(q)) = Len(q)
  BY <1>1, <1>2 DEF UsedOf
<1>4. MusedOf(q) \in Seq(Nat) /\ Len(MusedOf(q)) = Len(q)
  BY <1>1, <1>2 DEF MusedOf
<1>5. DatasOf(q) \in Seq(Seq(Nat)) /\ Len(DatasOf(q)) = Len(q)
  BY <1>1, <1>2 DEF DatasOf
<1> QED
  BY <1>1, <1>3, <1>4, <1>5 DEF UsedOf, MusedOf, DatasOf

LEMMA BytesType ==
  ASSUME NEW q \in Seq(Buffer)
  PROVE  Bytes(q) \in Seq(Nat) /\ Len(Bytes(q)) \in Nat
<1>1. Bytes(q) = FlattenSeq(DatasOf(q))
  BY DEF Bytes, DatasOf
<1>2. Bytes(q) \in Seq(Nat)
  BY <1>1, ListsOf, FlattenType
<1> QED
  BY <1>2

\* A sequence that begins with a and goes on with b.
LEMMA Joined ==
  ASSUME NEW S, NEW a \in Seq(S), NEW b \in Seq(S), NEW c \in Seq(S),
         Len(c) = Len(a) + Len(b),
         \A i \in 1..Len(a) : c[i] = a[i],
         \A i \in 1..Len(b) : c[Len(a) + i] = b[i]
  PROVE  c = a \o b
<1>1. /\ a \o b \in Seq(S) /\ Len(a \o b) = Len(a) + Len(b)
      /\ Len(a) \in Nat /\ Len(b) \in Nat
  OBVIOUS
<1>2. ASSUME NEW i \in 1..Len(c) PROVE c[i] = (a \o b)[i]
  <2>1. CASE i <= Len(a)
    <3>1. i \in 1..Len(a)
      BY <2>1
    <3> QED
      BY <3>1
  <2>2. CASE i > Len(a)
    <3>1. i - Len(a) \in 1..Len(b) /\ i = Len(a) + (i - Len(a))
      BY <2>2
    <3>2. c[i] = b[i - Len(a)]
      BY <3>1
    <3> QED
      BY <2>2, <3>1, <3>2
  <2> QED
    BY <1>1, <2>1, <2>2
<1> QED
  BY <1>1, <1>2, SeqEqual

LEMMA ListsConcat ==
  ASSUME NEW q \in Seq(Buffer), NEW r \in Seq(Buffer)
  PROVE  /\ q \o r \in Seq(Buffer) /\ Len(q \o r) = Len(q) + Len(r)
         /\ UsedOf(q \o r) = UsedOf(q) \o UsedOf(r)
         /\ MusedOf(q \o r) = MusedOf(q) \o MusedOf(r)
         /\ DatasOf(q \o r) = DatasOf(q) \o DatasOf(r)
<1>1. PICK u \in Seq(Buffer) : u = q \o r
  <2>1. q \o r \in Seq(Buffer)
    OBVIOUS
  <2> QED
    BY <2>1
<1>2. /\ Len(u) = Len(q) + Len(r)
      /\ \A i \in 1..Len(q) : i \in 1..Len(u) /\ u[i] = q[i]
      /\ \A i \in 1..Len(r) : Len(q) + i \in 1..Len(u) /\ u[Len(q) + i] = r[i]
  BY <1>1
<1>3. UsedOf(u) = UsedOf(q) \o UsedOf(r)
  <2>1. /\ UsedOf(q) \in Seq(Nat) /\ Len(UsedOf(q)) = Len(q)
        /\ UsedOf(r) \in Seq(Nat) /\ Len(UsedOf(r)) = Len(r)
        /\ UsedOf(u) \in Seq(Nat) /\ Len(UsedOf(u)) = Len(u)
    BY ListsOf
  <2>2. ASSUME NEW i \in 1..Len(UsedOf(q))
        PROVE  UsedOf(u)[i] = UsedOf(q)[i]
    <3>1. i \in 1..Len(u) /\ i \in 1..Len(q) /\ u[i] = q[i]
      BY <1>2, <2>1
    <3>2. UsedOf(u)[i] = Used(u[i]) /\ UsedOf(q)[i] = Used(q[i])
      BY <3>1, ListsOf
    <3> QED
      BY <3>1, <3>2
  <2>3. ASSUME NEW i \in 1..Len(UsedOf(r))
        PROVE  UsedOf(u)[Len(UsedOf(q)) + i] = UsedOf(r)[i]
    <3>1. PICK j \in 1..Len(u) : j = Len(q) + i /\ u[j] = r[i]
      BY <1>2, <2>1
    <3>2. UsedOf(u)[j] = Used(u[j])
      BY ListsOf
    <3>3. UsedOf(r)[i] = Used(r[i])
      BY <2>1, ListsOf
    <3> QED
      BY <2>1, <3>1, <3>2, <3>3
  <2>4. Len(UsedOf(u)) = Len(UsedOf(q)) + Len(UsedOf(r))
    BY <1>2, <2>1
  <2> QED
    BY <2>1, <2>2, <2>3, <2>4, Joined
<1>4. MusedOf(u) = MusedOf(q) \o MusedOf(r)
  <2>1. /\ MusedOf(q) \in Seq(Nat) /\ Len(MusedOf(q)) = Len(q)
        /\ MusedOf(r) \in Seq(Nat) /\ Len(MusedOf(r)) = Len(r)
        /\ MusedOf(u) \in Seq(Nat) /\ Len(MusedOf(u)) = Len(u)
    BY ListsOf
  <2>2. ASSUME NEW i \in 1..Len(MusedOf(q))
        PROVE  MusedOf(u)[i] = MusedOf(q)[i]
    <3>1. i \in 1..Len(u) /\ i \in 1..Len(q) /\ u[i] = q[i]
      BY <1>2, <2>1
    <3>2. MusedOf(u)[i] = Mused(u[i]) /\ MusedOf(q)[i] = Mused(q[i])
      BY <3>1, ListsOf
    <3> QED
      BY <3>1, <3>2
  <2>3. ASSUME NEW i \in 1..Len(MusedOf(r))
        PROVE  MusedOf(u)[Len(MusedOf(q)) + i] = MusedOf(r)[i]
    <3>1. PICK j \in 1..Len(u) : j = Len(q) + i /\ u[j] = r[i]
      BY <1>2, <2>1
    <3>2. MusedOf(u)[j] = Mused(u[j])
      BY ListsOf
    <3>3. MusedOf(r)[i] = Mused(r[i])
      BY <2>1, ListsOf
    <3> QED
      BY <2>1, <3>1, <3>2, <3>3
  <2>4. Len(MusedOf(u)) = Len(MusedOf(q)) + Len(MusedOf(r))
    BY <1>2, <2>1
  <2> QED
    BY <2>1, <2>2, <2>3, <2>4, Joined
<1>5. DatasOf(u) = DatasOf(q) \o DatasOf(r)
  <2> DEFINE S == Seq(Nat)
  <2>1. /\ DatasOf(q) \in Seq(S) /\ Len(DatasOf(q)) = Len(q)
        /\ DatasOf(r) \in Seq(S) /\ Len(DatasOf(r)) = Len(r)
        /\ DatasOf(u) \in Seq(S) /\ Len(DatasOf(u)) = Len(u)
    BY ListsOf
  <2>2. ASSUME NEW i \in 1..Len(DatasOf(q))
        PROVE  DatasOf(u)[i] = DatasOf(q)[i]
    <3>1. i \in 1..Len(u) /\ i \in 1..Len(q) /\ u[i] = q[i]
      BY <1>2, <2>1
    <3>2. DatasOf(u)[i] = u[i].data /\ DatasOf(q)[i] = q[i].data
      BY <3>1, ListsOf
    <3> QED
      BY <3>1, <3>2
  <2>3. ASSUME NEW i \in 1..Len(DatasOf(r))
        PROVE  DatasOf(u)[Len(DatasOf(q)) + i] = DatasOf(r)[i]
    <3>1. PICK j \in 1..Len(u) : j = Len(q) + i /\ u[j] = r[i]
      BY <1>2, <2>1
    <3>2. DatasOf(u)[j] = u[j].data
      BY ListsOf
    <3>3. DatasOf(r)[i] = r[i].data
      BY <2>1, ListsOf
    <3> QED
      BY <2>1, <3>1, <3>2, <3>3
  <2>4. Len(DatasOf(u)) = Len(DatasOf(q)) + Len(DatasOf(r))
    BY <1>2, <2>1
  <2> HIDE DEF S
  <2> QED
    BY <2>1, <2>2, <2>3, <2>4, Joined
<1> QED
  BY <1>1, <1>2, <1>3, <1>4, <1>5

LEMMA BytesConcat ==
  ASSUME NEW q \in Seq(Buffer), NEW r \in Seq(Buffer)
  PROVE  Bytes(q \o r) = Bytes(q) \o Bytes(r)
<1>1. PICK s \in Seq(Seq(Nat)) : s = DatasOf(q)
  BY ListsOf
<1>2. PICK t \in Seq(Seq(Nat)) : t = DatasOf(r)
  BY ListsOf
<1>3. FlattenSeq(s \o t) = FlattenSeq(s) \o FlattenSeq(t)
  BY FlattenConcat
<1>4. DatasOf(q \o r) = s \o t
  BY <1>1, <1>2, ListsConcat
<1>5. \A x : Bytes(x) = FlattenSeq(DatasOf(x))
  BY DEF Bytes, DatasOf
<1> QED
  BY <1>1, <1>2, <1>3, <1>4, <1>5

LEMMA TotalsConcat ==
  ASSUME NEW q \in Seq(Buffer), NEW r \in Seq(Buffer)
  PROVE  /\ Total(UsedOf(q \o r)) = Total(UsedOf(q)) + Total(UsedOf(r))
         /\ Total(MusedOf(q \o r)) = Total(MusedOf(q)) + Total(MusedOf(r))
<1>1. /\ UsedOf(q) \in Seq(Nat) /\ MusedOf(q) \in Seq(Nat)
      /\ UsedOf(r) \in Seq(Nat) /\ MusedOf(r) \in Seq(Nat)
  BY ListsOf
<1>2. UsedOf(q \o r) = UsedOf(q) \o UsedOf(r) /\ MusedOf(q \o r) = MusedOf(q) \o MusedOf(r)
  BY ListsConcat
<1>3. Total(UsedOf(q) \o UsedOf(r)) = Total(UsedOf(q)) + Total(UsedOf(r))
  BY <1>1, SumConcat
<1>4. Total(MusedOf(q) \o MusedOf(r)) = Total(MusedOf(q)) + Total(MusedOf(r))
  BY <1>1, SumConcat
<1> QED
  BY <1>2, <1>3, <1>4

\* No buffers, and one.
LEMMA EmptyList ==
  /\ <<>> \in Seq(Buffer) /\ Bytes(<<>>) = <<>>
  /\ Total(UsedOf(<<>>)) = 0 /\ Total(MusedOf(<<>>)) = 0
<1>1. <<>> \in Seq(Buffer) /\ Len(<<>>) = 0 /\ DOMAIN <<>> = {}
  OBVIOUS
<1>2. DatasOf(<<>>) = <<>> /\ UsedOf(<<>>) = <<>> /\ MusedOf(<<>>) = <<>>
  BY <1>1 DEF DatasOf, UsedOf, MusedOf
<1>3. Bytes(<<>>) = FlattenSeq(DatasOf(<<>>))
  BY DEF Bytes, DatasOf
<1> QED
  BY <1>1, <1>2, <1>3, FlattenEmpty, TotalEmpty

LEMMA OneBuffer ==
  ASSUME NEW b \in Buffer
  PROVE  /\ <<b>> \in Seq(Buffer) /\ Bytes(<<b>>) = b.data
         /\ Total(UsedOf(<<b>>)) = Used(b) /\ Total(MusedOf(<<b>>)) = Mused(b)
<1>1. <<b>> \in Seq(Buffer) /\ Len(<<b>>) = 1 /\ DOMAIN <<b>> = 1..1 /\ <<b>>[1] = b
  OBVIOUS
<1>2. DatasOf(<<b>>) = <<b.data>>
  BY <1>1 DEF DatasOf
<1>3. UsedOf(<<b>>) = <<Used(b)>>
  BY <1>1 DEF UsedOf
<1>4. MusedOf(<<b>>) = <<Mused(b)>>
  BY <1>1 DEF MusedOf
<1>5. Bytes(<<b>>) = FlattenSeq(DatasOf(<<b>>))
  BY DEF Bytes, DatasOf
<1>6. b.data \in Seq(Nat) /\ Used(b) \in Nat /\ Mused(b) \in Nat
  BY BufferFacts
<1>7. FlattenSeq(<<b.data>>) = b.data
  BY <1>6, FlattenOne
<1>8. Total(<<Used(b)>>) = Used(b) /\ Total(<<Mused(b)>>) = Mused(b)
  BY <1>6, TotalOne
<1> QED
  BY <1>1, <1>2, <1>3, <1>4, <1>5, <1>7, <1>8

\* A list ends with its first k buffers and the rest.
LEMMA ListParts ==
  ASSUME NEW q \in Seq(Buffer), NEW k \in 0..Len(q)
  PROVE  /\ SubSeq(q, 1, k) \in Seq(Buffer) /\ Len(SubSeq(q, 1, k)) = k
         /\ SubSeq(q, k + 1, Len(q)) \in Seq(Buffer)
         /\ Len(SubSeq(q, k + 1, Len(q))) = Len(q) - k
         /\ q = SubSeq(q, 1, k) \o SubSeq(q, k + 1, Len(q))
         /\ SumTo(UsedOf(q))[k] = Total(UsedOf(SubSeq(q, 1, k)))
<1>1. Len(q) \in Nat /\ k \in Nat /\ k <= Len(q)
  OBVIOUS
<1>2. /\ SubSeq(q, 1, k) \in Seq(Buffer) /\ Len(SubSeq(q, 1, k)) = k
      /\ \A i \in 1..k : SubSeq(q, 1, k)[i] = q[i]
  BY <1>1
<1>3. PICK p \in Seq(Buffer) : p = SubSeq(q, 1, k)
  BY <1>2
<1>4. /\ SubSeq(q, k + 1, Len(q)) \in Seq(Buffer)
      /\ Len(SubSeq(q, k + 1, Len(q))) = Len(q) - k
      /\ \A i \in 1..(Len(q) - k) : SubSeq(q, k + 1, Len(q))[i] = q[k + i]
  BY <1>1
<1>5. q = SubSeq(q, 1, k) \o SubSeq(q, k + 1, Len(q))
  <2> DEFINE a == SubSeq(q, 1, k)
             b == SubSeq(q, k + 1, Len(q))
  <2>1. a \in Seq(Buffer) /\ Len(a) = k
    BY <1>2
  <2>2. b \in Seq(Buffer) /\ Len(b) = Len(q) - k
    BY <1>4
  <2>3. \A i \in 1..Len(a) : q[i] = a[i]
    BY <1>2
  <2>4. \A i \in 1..Len(b) : q[Len(a) + i] = b[i]
    BY <1>4, <2>1, <2>2
  <2> HIDE DEF a, b
  <2>5. Len(q) = Len(a) + Len(b)
    BY <1>1, <2>1, <2>2
  <2>6. q = a \o b
    BY <2>1, <2>2, <2>3, <2>4, <2>5, Joined
  <2> QED
    BY <2>6 DEF a, b
<1>6. \A j \in 0..k : SumTo(UsedOf(q))[j] = SumTo(UsedOf(p))[j]
  <2>1. /\ UsedOf(q) \in Seq(Nat) /\ Len(UsedOf(q)) = Len(q)
        /\ UsedOf(p) \in Seq(Nat) /\ Len(UsedOf(p)) = k
        /\ \A i \in 1..k : UsedOf(q)[i] = UsedOf(p)[i]
    <3>1. Len(p) = k /\ \A i \in 1..k : p[i] = q[i] /\ i \in 1..Len(q) /\ i \in 1..Len(p)
      BY <1>1, <1>2, <1>3
    <3>2. \A i \in 1..k : UsedOf(q)[i] = Used(q[i]) /\ UsedOf(p)[i] = Used(p[i])
      BY <3>1, ListsOf
    <3>3. /\ UsedOf(q) \in Seq(Nat) /\ Len(UsedOf(q)) = Len(q)
          /\ UsedOf(p) \in Seq(Nat) /\ Len(UsedOf(p)) = Len(p)
      BY ListsOf
    <3>4. \A i \in 1..k : UsedOf(q)[i] = UsedOf(p)[i]
      BY <3>1, <3>2
    <3> QED
      BY <3>1, <3>3, <3>4
  <2>2. k <= Len(UsedOf(q)) /\ k <= Len(UsedOf(p))
    BY <1>1, <2>1
  <2> QED
    BY <1>1, <2>1, <2>2, SumPrefix
<1>7. Len(UsedOf(p)) = k
  BY <1>2, <1>3, ListsOf
<1>8. SumTo(UsedOf(q))[k] = Total(UsedOf(p))
  BY <1>1, <1>6, <1>7 DEF Total
<1> QED
  BY <1>2, <1>3, <1>4, <1>5, <1>8

LEMMA BytesLength ==
  ASSUME NEW q \in Seq(Buffer)
  PROVE  Len(Bytes(q)) = Total(UsedOf(q))
<1> DEFINE N == Len(q)
           Part(k) == SubSeq(q, 1, k)
           A == {k \in 0..N : Len(Bytes(Part(k))) = Total(UsedOf(Part(k)))}
<1>1. N \in Nat /\ \A k \in 0..N : Part(k) \in Seq(Buffer)
  OBVIOUS
<1>2. 0 \in A
  <2>1. Part(0) = <<>> /\ Len(<<>>) = 0
    OBVIOUS
  <2>2. Len(Bytes(Part(0))) = Total(UsedOf(Part(0)))
    BY <2>1, EmptyList, Zenon
  <2> QED
    BY <1>1, <2>2
<1>3. \A n \in 0..(N - 1) : n \in A => n + 1 \in A
  <2> SUFFICES ASSUME NEW n \in 0..(N - 1), n \in A
               PROVE  n + 1 \in A
    OBVIOUS
  <2>1. n + 1 \in 1..N /\ n \in 0..N /\ n + 1 \in 0..N
    BY <1>1
  <2>2. PICK p \in Seq(Buffer) : p = Part(n)
    BY <1>1, <2>1
  <2>3. PICK b \in Buffer : b = q[n + 1]
    BY <2>1
  <2>4. Part(n + 1) = p \o <<b>>
    BY <2>1, <2>2, <2>3
  <2>5. <<b>> \in Seq(Buffer) /\ Bytes(<<b>>) = b.data /\ Total(UsedOf(<<b>>)) = Used(b)
    BY OneBuffer
  <2>6. Bytes(p \o <<b>>) = Bytes(p) \o b.data
    BY <2>5, BytesConcat
  <2>7. Total(UsedOf(p \o <<b>>)) = Total(UsedOf(p)) + Used(b)
    BY <2>5, TotalsConcat
  <2>8. Bytes(p) \in Seq(Nat) /\ b.data \in Seq(Nat)
    BY BytesType, BufferFacts
  <2>9. Len(Bytes(p) \o b.data) = Len(Bytes(p)) + Len(b.data)
    BY <2>8
  <2>10. Len(Bytes(p)) = Total(UsedOf(p))
    BY <2>2
  <2>11. Len(Bytes(Part(n + 1))) = Total(UsedOf(Part(n + 1)))
    BY <2>4, <2>6, <2>7, <2>9, <2>10 DEF Used
  <2> QED
    BY <2>1, <2>11
<1>4. 0..N \subseteq A
  <2> HIDE DEF A, N
  <2> QED
    BY <1>1, <1>2, <1>3, SetInduction
<1>5. N \in A /\ Part(N) = q
  BY <1>1, <1>4
<1> QED
  BY <1>5

LEMMA UsedWithinMused ==
  ASSUME NEW q \in Seq(Buffer)
  PROVE  /\ Total(UsedOf(q)) \in Nat /\ Total(MusedOf(q)) \in Nat
         /\ Total(UsedOf(q)) <= Total(MusedOf(q))
<1>1. \A i \in 1..Len(UsedOf(q)) : UsedOf(q)[i] <= MusedOf(q)[i]
  BY ListsOf, BufferFacts
<1> QED
  BY <1>1, ListsOf, SumLeq, TotalType

-----------------------------------------------------------------------------
(* Runs of the client's bytes, id heads, and how many bytes are a client's. *)

Run(a, b) == [i \in 1..(b - a) |-> a + i]
Zeros(n) == [i \in 1..n |-> 0]

Ones(w) == [i \in DOMAIN w |-> IF w[i] = 0 THEN 0 ELSE 1]
ClientBytes(w) == Total(Ones(w))

LEMMA Assoc ==
  ASSUME NEW u \in Seq(Nat), NEW v \in Seq(Nat), NEW w \in Seq(Nat)
  PROVE  u \o v \in Seq(Nat) /\ (u \o v) \o w = u \o (v \o w)
<1>1. (u \o v) \o w = u \o (v \o w)
  BY ConcatAssociative, SMTT(30)
<1>2. u \o v \in Seq(Nat)
  OBVIOUS
<1> QED
  BY <1>1, <1>2

\* Associativity, as a relation the provers need not look into.
Regrouped(a, b, c) == a \o (b \o c) = (a \o b) \o c

LEMMA Grouped ==
  ASSUME NEW a \in Seq(Nat), NEW b \in Seq(Nat), NEW c \in Seq(Nat)
  PROVE  Regrouped(a, b, c)
BY SMTT(30) DEF Regrouped

LEMMA Joining ==
  ASSUME NEW a \in Seq(Nat), NEW b \in Seq(Nat)
  PROVE  \E c \in Seq(Nat) : c = a \o b /\ Len(c) = Len(a) + Len(b)
<1>1. a \o b \in Seq(Nat) /\ Len(a \o b) = Len(a) + Len(b)
  OBVIOUS
<1> QED
  BY <1>1

LEMMA RunFacts ==
  ASSUME NEW a \in Nat, NEW b \in Nat, a <= b
  PROVE  /\ Run(a, b) \in Seq(Nat) /\ Len(Run(a, b)) = b - a
         /\ \A i \in 1..(b - a) : Run(a, b)[i] = a + i
<1>1. b - a \in Nat
  OBVIOUS
<1> QED
  BY <1>1 DEF Run

LEMMA ZerosFacts ==
  ASSUME NEW n \in Nat
  PROVE  /\ Zeros(n) \in Seq(Nat) /\ Len(Zeros(n)) = n
         /\ \A i \in 1..n : Zeros(n)[i] = 0
BY DEF Zeros

LEMMA RunSplit ==
  ASSUME NEW a \in Nat, NEW b \in Nat, NEW c \in Nat, a <= b, b <= c
  PROVE  Run(a, c) = Run(a, b) \o Run(b, c)
<1>1. /\ Run(a, b) \in Seq(Nat) /\ Len(Run(a, b)) = b - a
      /\ \A i \in 1..(b - a) : Run(a, b)[i] = a + i
  BY RunFacts
<1>2. /\ Run(b, c) \in Seq(Nat) /\ Len(Run(b, c)) = c - b
      /\ \A i \in 1..(c - b) : Run(b, c)[i] = b + i
  BY RunFacts
<1>3. a <= c
  OBVIOUS
<1>4. /\ Run(a, c) \in Seq(Nat) /\ Len(Run(a, c)) = c - a
      /\ \A i \in 1..(c - a) : Run(a, c)[i] = a + i
  BY <1>3, RunFacts
<1>5. Len(Run(a, c)) = Len(Run(a, b)) + Len(Run(b, c))
  BY <1>1, <1>2, <1>4
<1>6. \A i \in 1..Len(Run(a, b)) : Run(a, c)[i] = Run(a, b)[i]
  BY <1>1, <1>4
<1>7. ASSUME NEW i \in 1..Len(Run(b, c))
      PROVE  Run(a, c)[Len(Run(a, b)) + i] = Run(b, c)[i]
  <2>1. i \in 1..(c - b) /\ (b - a) + i \in 1..(c - a) /\ a + ((b - a) + i) = b + i
    BY <1>2
  <2>2. Run(a, c)[(b - a) + i] = b + i
    BY <1>4, <2>1
  <2> QED
    BY <1>1, <1>2, <2>1, <2>2
<1> QED
  BY <1>1, <1>2, <1>4, <1>5, <1>6, <1>7, Joined

\* Two ways to cut a sequence at the same place are one.
\* t cut in two, as a relation the provers need not look into.
Cuts(t, a, b) == t = a \o b

LEMMA SameHalves ==
  ASSUME NEW t \in Seq(Nat), NEW a \in Seq(Nat), NEW b \in Seq(Nat),
         NEW c \in Seq(Nat), NEW d \in Seq(Nat),
         Cuts(t, a, b), Cuts(t, c, d), Len(b) = Len(d)
  PROVE  a = c /\ b = d
<1>1. t = a \o b /\ t = c \o d
  BY DEF Cuts
<1>2. /\ Len(a) \in Nat /\ Len(b) \in Nat /\ Len(c) \in Nat /\ Len(d) \in Nat
      /\ Len(a \o b) = Len(a) + Len(b) /\ Len(c \o d) = Len(c) + Len(d)
  BY ConcatProperties, LenProperties
<1>3. Len(a) = Len(c)
  BY <1>1, <1>2
<1>4. /\ \A i \in 1..Len(a) : (a \o b)[i] = a[i]
      /\ \A i \in 1..Len(c) : (c \o d)[i] = c[i]
  BY <1>2
<1>5. \A i \in 1..Len(a) : a[i] = c[i]
  BY <1>1, <1>3, <1>4
<1>6. a = c
  BY <1>3, <1>5, SeqEqual
<1>7. ASSUME NEW i \in 1..Len(b) PROVE b[i] = d[i]
  <2>1. PICK j \in 1..(Len(a) + Len(b)) : j = Len(a) + i
    <3>1. Len(a) + i \in 1..(Len(a) + Len(b))
      BY <1>2, i \in 1..Len(b)
    <3> QED
      BY <3>1
  <2>2. (a \o b)[j] = b[i]
    BY <2>1
  <2>3. (c \o d)[j] = d[i]
    BY <1>3, <2>1
  <2> QED
    BY <1>1, <2>2, <2>3
<1>8. b = d
  BY <1>7, SeqEqual
<1> QED
  BY <1>6, <1>8

LEMMA OnesFacts ==
  ASSUME NEW w \in Seq(Nat)
  PROVE  /\ Ones(w) \in Seq(Nat) /\ Len(Ones(w)) = Len(w)
         /\ \A i \in 1..Len(w) : Ones(w)[i] = IF w[i] = 0 THEN 0 ELSE 1
BY DEF Ones

LEMMA ClientBytesType ==
  ASSUME NEW w \in Seq(Nat)
  PROVE  ClientBytes(w) \in Nat
BY OnesFacts, TotalType DEF ClientBytes

LEMMA ClientBytesConcat ==
  ASSUME NEW v \in Seq(Nat), NEW w \in Seq(Nat)
  PROVE  ClientBytes(v \o w) = ClientBytes(v) + ClientBytes(w)
<1>1. PICK u \in Seq(Nat) : u = v \o w
  <2>1. v \o w \in Seq(Nat)
    OBVIOUS
  <2> QED
    BY <2>1
<1>2. /\ Len(u) = Len(v) + Len(w)
      /\ \A i \in 1..Len(v) : i \in 1..Len(u) /\ u[i] = v[i]
      /\ \A i \in 1..Len(w) : Len(v) + i \in 1..Len(u) /\ u[Len(v) + i] = w[i]
  BY <1>1
<1>3. /\ Ones(u) \in Seq(Nat) /\ Len(Ones(u)) = Len(u)
      /\ Ones(v) \in Seq(Nat) /\ Len(Ones(v)) = Len(v)
      /\ Ones(w) \in Seq(Nat) /\ Len(Ones(w)) = Len(w)
  BY OnesFacts
<1>4. Len(Ones(u)) = Len(Ones(v)) + Len(Ones(w))
  BY <1>2, <1>3
<1>5. ASSUME NEW i \in 1..Len(Ones(v)) PROVE Ones(u)[i] = Ones(v)[i]
  <2>1. i \in 1..Len(u) /\ i \in 1..Len(v) /\ u[i] = v[i]
    BY <1>2, <1>3
  <2> QED
    BY <2>1, OnesFacts
<1>6. ASSUME NEW i \in 1..Len(Ones(w)) PROVE Ones(u)[Len(Ones(v)) + i] = Ones(w)[i]
  <2>1. PICK j \in 1..Len(u) : j = Len(v) + i /\ u[j] = w[i]
    BY <1>2, <1>3
  <2>2. i \in 1..Len(w)
    BY <1>3
  <2>3. Ones(u)[j] = IF u[j] = 0 THEN 0 ELSE 1
    BY OnesFacts
  <2>4. Ones(w)[i] = IF w[i] = 0 THEN 0 ELSE 1
    BY <2>2, OnesFacts
  <2> QED
    BY <1>3, <2>1, <2>3, <2>4
<1>7. Ones(u) = Ones(v) \o Ones(w)
  BY <1>3, <1>4, <1>5, <1>6, Joined
<1>8. Total(Ones(v) \o Ones(w)) = Total(Ones(v)) + Total(Ones(w))
  BY <1>3, SumConcat
<1> QED
  BY <1>1, <1>7, <1>8 DEF ClientBytes

\* All bytes of w are the client's, or none is.
LEMMA AllOrNone ==
  ASSUME NEW w \in Seq(Nat)
  PROVE  /\ (\A i \in 1..Len(w) : w[i] # 0) => ClientBytes(w) = Len(w)
         /\ (\A i \in 1..Len(w) : w[i] = 0) => ClientBytes(w) = 0
<1> DEFINE N == Len(w)
           s == SumTo(Ones(w))
<1>1. N \in Nat /\ Len(Ones(w)) = N /\ s[0] = 0
      /\ \A k \in 1..N : s[k] = s[k - 1] + (IF w[k] = 0 THEN 0 ELSE 1)
  BY OnesFacts, SumSteps
<1>2. ASSUME \A i \in 1..N : w[i] # 0 PROVE ClientBytes(w) = N
  <2> DEFINE A == {k \in 0..N : s[k] = k}
  <2> HIDE DEF s
  <2>1. 0 \in A
    BY <1>1
  <2>2. \A n \in 0..(N - 1) : n \in A => n + 1 \in A
    <3> SUFFICES ASSUME NEW n \in 0..(N - 1), n \in A PROVE n + 1 \in A
      OBVIOUS
    <3>1. n + 1 \in 1..N /\ (n + 1) - 1 = n /\ n + 1 \in 0..N /\ s[n] = n /\ n \in Nat
      BY <1>1
    <3>2. s[n + 1] = s[n] + 1
      BY <1>1, <1>2, <3>1
    <3> QED
      BY <3>1, <3>2
  <2>3. 0..N \subseteq A
    <3> HIDE DEF A, N
    <3> QED
      BY <1>1, <2>1, <2>2, SetInduction
  <2>4. s[N] = N
    BY <1>1, <2>3
  <2> QED
    BY <1>1, <2>4 DEF ClientBytes, Total, s
<1>3. ASSUME \A i \in 1..N : w[i] = 0 PROVE ClientBytes(w) = 0
  <2> DEFINE A == {k \in 0..N : s[k] = 0}
  <2> HIDE DEF s
  <2>1. 0 \in A
    BY <1>1
  <2>2. \A n \in 0..(N - 1) : n \in A => n + 1 \in A
    <3> SUFFICES ASSUME NEW n \in 0..(N - 1), n \in A PROVE n + 1 \in A
      OBVIOUS
    <3>1. n + 1 \in 1..N /\ (n + 1) - 1 = n /\ n + 1 \in 0..N /\ s[n] = 0 /\ n \in Nat
      BY <1>1
    <3>2. s[n + 1] = s[n] + 0
      BY <1>1, <1>3, <3>1
    <3> QED
      BY <3>1, <3>2
  <2>3. 0..N \subseteq A
    <3> HIDE DEF A, N
    <3> QED
      BY <1>1, <2>1, <2>2, SetInduction
  <2>4. s[N] = 0
    BY <1>1, <2>3
  <2> QED
    BY <1>1, <2>4 DEF ClientBytes, Total, s
<1> QED
  BY <1>2, <1>3

LEMMA ClientBytesOfRun ==
  ASSUME NEW a \in Nat, NEW b \in Nat, a <= b
  PROVE  ClientBytes(Run(a, b)) = b - a
<1>1. ASSUME NEW i \in 1..Len(Run(a, b)) PROVE Run(a, b)[i] # 0
  <2>1. i \in 1..(b - a)
    BY RunFacts
  <2>2. Run(a, b)[i] = a + i
    BY <2>1, RunFacts
  <2> QED
    BY <2>1, <2>2
<1> QED
  BY <1>1, RunFacts, AllOrNone

LEMMA ClientBytesOfZeros ==
  ASSUME NEW n \in Nat
  PROVE  ClientBytes(Zeros(n)) = 0
BY ZerosFacts, AllOrNone

-----------------------------------------------------------------------------
(* The stream, and what the backend is to be sent of it.                    *)

Request == [line : Nat \ {0}, head : Nat \ {0}, body : Nat]

Sizes(s) == [i \in DOMAIN s |-> s[i].line + s[i].head + s[i].body]
End(s, k) == SumTo(Sizes(s))[k]
LineOf(s, k) == End(s, k - 1) + s[k].line
HeadOf(s, k) == LineOf(s, k) + s[k].head

LEMMA Positions ==
  /\ \A k : EndOf(k) = End(stream, k) /\ LineEnd(k) = LineOf(stream, k)
            /\ HeadEnd(k) = HeadOf(stream, k)
  /\ Length = End(stream, Len(stream))
BY DEF EndOf, LineEnd, HeadEnd, Length, End, LineOf, HeadOf, Sizes

LEMMA SizesFacts ==
  ASSUME NEW s \in Seq(Request)
  PROVE  /\ Sizes(s) \in Seq(Nat) /\ Len(Sizes(s)) = Len(s)
         /\ \A k \in 1..Len(s) :
              /\ Sizes(s)[k] = s[k].line + s[k].head + s[k].body
              /\ s[k].line \in Nat \ {0} /\ s[k].head \in Nat \ {0} /\ s[k].body \in Nat
<1>1. \A k \in 1..Len(s) : s[k] \in Request
  OBVIOUS
<1>2. \A k \in 1..Len(s) : s[k].line \in Nat \ {0} /\ s[k].head \in Nat \ {0} /\ s[k].body \in Nat
  BY <1>1 DEF Request
<1>3. \A k \in 1..Len(s) : s[k].line + s[k].head + s[k].body \in Nat
  BY <1>2
<1>4. DOMAIN s = 1..Len(s) /\ Len(s) \in Nat
  OBVIOUS
<1>5. Sizes(s) \in Seq(Nat) /\ Len(Sizes(s)) = Len(s)
  BY <1>3, <1>4 DEF Sizes
<1> QED
  BY <1>2, <1>4, <1>5 DEF Sizes

LEMMA EndFacts ==
  ASSUME NEW s \in Seq(Request)
  PROVE  /\ Len(s) \in Nat
         /\ End(s, 0) = 0
         /\ \A k \in 0..Len(s) : End(s, k) \in Nat
         /\ \A k \in 0..Len(s) : \A l \in k..Len(s) : End(s, k) <= End(s, l)
<1>1. Sizes(s) \in Seq(Nat) /\ Len(Sizes(s)) = Len(s)
  BY SizesFacts
<1>2. \A k \in 0..Len(Sizes(s)) : SumTo(Sizes(s))[k] \in Nat
  BY <1>1, SumSteps
<1>3. \A k \in 0..Len(s) : \A l \in k..Len(s) : SumTo(Sizes(s))[k] <= SumTo(Sizes(s))[l]
  BY <1>1, SumGrows
<1> QED
  BY <1>1, <1>2, <1>3, SumSteps DEF End

LEMMA RequestParts ==
  ASSUME NEW s \in Seq(Request), NEW k \in 1..Len(s)
  PROVE  /\ End(s, k - 1) \in Nat /\ LineOf(s, k) \in Nat /\ HeadOf(s, k) \in Nat
         /\ End(s, k) \in Nat /\ s[k].body \in Nat
         /\ End(s, k - 1) < LineOf(s, k) /\ LineOf(s, k) < HeadOf(s, k)
         /\ End(s, k) = HeadOf(s, k) + s[k].body
<1>1. k - 1 \in 0..Len(s) /\ k \in 0..Len(s)
  OBVIOUS
<1>2. End(s, k - 1) \in Nat /\ End(s, k) \in Nat
  BY <1>1, EndFacts
<1>3. End(s, k) = End(s, k - 1) + Sizes(s)[k]
  BY SizesFacts, SumSteps DEF End
<1>4. /\ Sizes(s)[k] = s[k].line + s[k].head + s[k].body
      /\ s[k].line \in Nat \ {0} /\ s[k].head \in Nat \ {0} /\ s[k].body \in Nat
  BY SizesFacts
<1>5. LineOf(s, k) = End(s, k - 1) + s[k].line /\ HeadOf(s, k) = End(s, k - 1) + s[k].line + s[k].head
  BY DEF LineOf, HeadOf
<1> QED
  BY <1>2, <1>3, <1>4, <1>5, SMTT(30)

\* Byte p and, if one of the first L lines ends with it, an id head.
Chunk(s, L, p) ==
  <<p>> \o Zeros(IF p \in {LineOf(s, k) : k \in 1..L} THEN IdLen ELSE 0)

\* What g bytes of s are to become, the first L lines of which were parsed.
Delivery(s, g, L) == FlattenSeq([p \in 1..g |-> Chunk(s, L, p)])

LEMMA IntactIs ==
  RequestsIntact <=> (wire \o Bytes(writebuf)) \o Bytes(readbuf) = Delivery(stream, got, LinesParsed)
<1>1. \A k : LineEnd(k) = LineOf(stream, k)
  BY Positions
<1> QED
  BY <1>1 DEF RequestsIntact, Delivery, Chunk, Zeros

LEMMA ChunkFacts ==
  ASSUME NEW s, NEW L, NEW p \in Nat
  PROVE  /\ Chunk(s, L, p) \in Seq(Nat)
         /\ p \notin {LineOf(s, k) : k \in 1..L} => Chunk(s, L, p) = <<p>>
         /\ p \in {LineOf(s, k) : k \in 1..L} => Chunk(s, L, p) = <<p>> \o Zeros(IdLen)
<1>1. CASE p \in {LineOf(s, k) : k \in 1..L}
  <2>1. Chunk(s, L, p) = <<p>> \o Zeros(IdLen)
    BY <1>1 DEF Chunk
  <2>2. Zeros(IdLen) \in Seq(Nat) /\ <<p>> \in Seq(Nat)
    BY ForwardAssumption, ZerosFacts
  <2>3. <<p>> \o Zeros(IdLen) \in Seq(Nat)
    BY <2>2
  <2> QED
    BY <1>1, <2>1, <2>3
<1>2. CASE p \notin {LineOf(s, k) : k \in 1..L}
  <2>1. Chunk(s, L, p) = <<p>> \o Zeros(0)
    BY <1>2 DEF Chunk
  <2>2. Zeros(0) = <<>> /\ <<p>> \o <<>> = <<p>> /\ <<p>> \in Seq(Nat)
    BY DEF Zeros
  <2> QED
    BY <1>2, <2>1, <2>2
<1> QED
  BY <1>1, <1>2

LEMMA DeliveryStep ==
  ASSUME NEW s, NEW L, NEW g \in Nat
  PROVE  /\ Delivery(s, g, L) \in Seq(Nat)
         /\ Delivery(s, g + 1, L) = Delivery(s, g, L) \o Chunk(s, L, g + 1)
<1> DEFINE C(n) == [p \in 1..n |-> Chunk(s, L, p)]
           S == Seq(Nat)
<1>1. \A p \in 1..(g + 1) : Chunk(s, L, p) \in S
  <2>1. \A p \in 1..(g + 1) : p \in Nat
    OBVIOUS
  <2> QED
    BY <2>1, ChunkFacts
<1>2. C(g) \in Seq(S) /\ Chunk(s, L, g + 1) \in S
  <2> HIDE DEF S
  <2> QED
    BY <1>1
<1>3. C(g + 1) = Append(C(g), Chunk(s, L, g + 1))
  <2> HIDE DEF S
  <2>1. C(g + 1) \in Seq(S) /\ Len(C(g + 1)) = g + 1
    BY <1>1
  <2>2. Append(C(g), Chunk(s, L, g + 1)) \in Seq(S)
        /\ Len(Append(C(g), Chunk(s, L, g + 1))) = g + 1
    BY <1>2
  <2>3. ASSUME NEW i \in 1..(g + 1)
        PROVE  C(g + 1)[i] = Append(C(g), Chunk(s, L, g + 1))[i]
    <3>1. C(g + 1)[i] = Chunk(s, L, i)
      OBVIOUS
    <3>2. CASE i = g + 1
      BY <1>2, <3>1, <3>2
    <3>3. CASE i # g + 1
      BY <1>2, <3>1, <3>3
    <3> QED
      BY <3>2, <3>3
  <2> HIDE DEF C
  <2> QED
    BY <2>1, <2>2, <2>3, SeqEqual
<1>4. FlattenSeq(C(g)) \in Seq(Nat)
  BY <1>2, FlattenType DEF S
<1>5. FlattenSeq(Append(C(g), Chunk(s, L, g + 1))) = FlattenSeq(C(g)) \o Chunk(s, L, g + 1)
  <2> HIDE DEF C
  <2> QED
    BY <1>2, FlattenAppend DEF S
<1> QED
  BY <1>3, <1>4, <1>5 DEF Delivery

\* Where no line ends the bytes go on as they came.
LEMMA DeliveryRun ==
  ASSUME NEW s, NEW L, NEW g \in Nat, NEW h \in Nat, g <= h,
         \A p \in (g + 1)..h : p \notin {LineOf(s, k) : k \in 1..L}
  PROVE  Delivery(s, h, L) = Delivery(s, g, L) \o Run(g, h)
<1> DEFINE N == h - g
           A == {d \in 0..N : Delivery(s, g + d, L) = Delivery(s, g, L) \o Run(g, g + d)}
<1>1. N \in Nat /\ g + N = h
  OBVIOUS
<1>2. 0 \in A
  <2>1. Run(g, g + 0) = <<>> /\ g + 0 = g
    BY DEF Run
  <2>2. Delivery(s, g, L) \o <<>> = Delivery(s, g, L)
    BY DeliveryStep
  <2>3. Delivery(s, g + 0, L) = Delivery(s, g, L) \o Run(g, g + 0)
    BY <2>1, <2>2
  <2> QED
    BY <1>1, <2>3
<1>3. \A d \in 0..(N - 1) : d \in A => d + 1 \in A
  <2> SUFFICES ASSUME NEW d \in 0..(N - 1), d \in A PROVE d + 1 \in A
    OBVIOUS
  <2>1. PICK m \in Nat : m = g + d
    BY <1>1
  <2>2. d + 1 \in 0..N /\ g <= m /\ m + 1 = g + (d + 1) /\ m + 1 \in (g + 1)..h /\ m + 1 \in Nat
    BY <1>1, <2>1
  <2>3. Delivery(s, m, L) = Delivery(s, g, L) \o Run(g, m)
    BY <2>1
  <2>4. Delivery(s, m + 1, L) = Delivery(s, m, L) \o Chunk(s, L, m + 1)
    BY DeliveryStep
  <2>5. Chunk(s, L, m + 1) = <<m + 1>>
    BY <2>2, ChunkFacts
  <2>6. <<m + 1>> = Run(m, m + 1)
    BY <2>2 DEF Run
  <2>7. Run(g, m + 1) = Run(g, m) \o Run(m, m + 1)
    <3>1. g <= m /\ m <= m + 1 /\ m + 1 \in Nat
      BY <2>2
    <3> QED
      BY <3>1, RunSplit
  <2>8. Delivery(s, g, L) \in Seq(Nat) /\ Run(g, m) \in Seq(Nat) /\ Run(m, m + 1) \in Seq(Nat)
    <3>1. <<m + 1>> \in Seq(Nat)
      BY <2>2
    <3> QED
      BY <2>2, <2>6, <3>1, DeliveryStep, RunFacts
  <2>9. (Delivery(s, g, L) \o Run(g, m)) \o Run(m, m + 1)
          = Delivery(s, g, L) \o (Run(g, m) \o Run(m, m + 1))
    BY <2>8, Assoc, ZenonT(60)
  <2>10. Delivery(s, g + (d + 1), L) = Delivery(s, g, L) \o Run(g, g + (d + 1))
    BY <2>2, <2>3, <2>4, <2>5, <2>6, <2>7, <2>9
  <2> QED
    BY <2>2, <2>10
<1>4. 0..N \subseteq A
  <2> HIDE DEF A, N
  <2> QED
    BY <1>1, <1>2, <1>3, SetInduction
<1>5. N \in 0..N
  BY <1>1
<1>6. Delivery(s, g + N, L) = Delivery(s, g, L) \o Run(g, g + N)
  BY <1>4, <1>5
<1> QED
  BY <1>1, <1>6

\* A line that ends behind the bytes so far changes nothing.
LEMMA DeliveryMore ==
  ASSUME NEW s, NEW L \in Nat, NEW g \in Nat, g < LineOf(s, L + 1)
  PROVE  Delivery(s, g, L + 1) = Delivery(s, g, L)
<1>1. \A p \in 1..g : p \in {LineOf(s, k) : k \in 1..(L + 1)} <=> p \in {LineOf(s, k) : k \in 1..L}
  <2> SUFFICES ASSUME NEW p \in 1..g
               PROVE  p \in {LineOf(s, k) : k \in 1..(L + 1)} <=> p \in {LineOf(s, k) : k \in 1..L}
    OBVIOUS
  <2>1. p # LineOf(s, L + 1)
    OBVIOUS
  <2>2. \A k \in 1..(L + 1) : k \in 1..L \/ k = L + 1
    OBVIOUS
  <2>3. \A k \in 1..L : k \in 1..(L + 1)
    OBVIOUS
  <2> QED
    BY <2>1, <2>2, <2>3
<1>2. \A p \in 1..g : Chunk(s, L + 1, p) = Chunk(s, L, p)
  BY <1>1 DEF Chunk
<1>3. [p \in 1..g |-> Chunk(s, L + 1, p)] = [p \in 1..g |-> Chunk(s, L, p)]
  BY <1>2
<1> QED
  BY <1>3 DEF Delivery

\* What becomes of the bytes behind the end of request L when the parser
\* passes the next line.
LEMMA DeliveryLine ==
  ASSUME NEW s \in Seq(Request), NEW L \in 0..(Len(s) - 1), NEW g \in Nat,
         LineOf(s, L + 1) <= g
  PROVE  LET E == End(s, L)
             P == LineOf(s, L + 1)
         IN /\ Delivery(s, g, L) = Delivery(s, E, L) \o Run(E, g)
            /\ Delivery(s, g, L + 1)
                 = Delivery(s, E, L) \o ((Run(E, P) \o Zeros(IdLen)) \o Run(P, g))
<1>1. PICK E \in Nat : E = End(s, L)
  BY EndFacts
<1>2. PICK P \in Nat : P = LineOf(s, L + 1) /\ E < P
  <2>1. L + 1 \in 1..Len(s) /\ (L + 1) - 1 = L
    BY EndFacts
  <2> QED
    BY <1>1, <2>1, RequestParts
<1>3. PICK Q \in Nat : Q + 1 = P
  <2>1. P - 1 \in Nat /\ (P - 1) + 1 = P
    BY <1>2
  <2> QED
    BY <2>1
<1>4. \A k \in 1..L : LineOf(s, k) \in Nat /\ LineOf(s, k) <= E
  <2> SUFFICES ASSUME NEW k \in 1..L PROVE LineOf(s, k) \in Nat /\ LineOf(s, k) <= E
    OBVIOUS
  <2>1. k \in 1..Len(s) /\ k \in 0..Len(s) /\ L \in k..Len(s)
    BY EndFacts
  <2>2. End(s, k) <= E
    BY <1>1, <2>1, EndFacts
  <2>3. /\ LineOf(s, k) \in Nat /\ HeadOf(s, k) \in Nat /\ s[k].body \in Nat
        /\ LineOf(s, k) < HeadOf(s, k) /\ End(s, k) = HeadOf(s, k) + s[k].body
    BY <2>1, RequestParts
  <2> QED
    BY <2>2, <2>3
<1>5. \A p \in (E + 1)..g : p \notin {LineOf(s, k) : k \in 1..L}
  BY <1>1, <1>4
<1>6. \A p \in (E + 1)..Q : p \notin {LineOf(s, k) : k \in 1..L}
  BY <1>1, <1>4
<1>7. \A p \in (P + 1)..g : p \notin {LineOf(s, k) : k \in 1..(L + 1)}
  <2> SUFFICES ASSUME NEW p \in (P + 1)..g, NEW k \in 1..(L + 1) PROVE p # LineOf(s, k)
    OBVIOUS
  <2>1. k \in 1..L \/ k = L + 1
    OBVIOUS
  <2> QED
    BY <1>2, <1>4, <2>1
<1>8. E <= Q /\ Q <= P /\ P <= g /\ E <= g /\ E <= P
  BY <1>2, <1>3
<1>9. Delivery(s, g, L) = Delivery(s, E, L) \o Run(E, g)
  BY <1>5, <1>8, DeliveryRun
<1>10. Delivery(s, Q, L) = Delivery(s, E, L) \o Run(E, Q)
  BY <1>6, <1>8, DeliveryRun
<1>11. Delivery(s, Q, L + 1) = Delivery(s, Q, L)
  BY <1>2, <1>3, DeliveryMore
<1>12. Delivery(s, P, L + 1) = Delivery(s, Q, L + 1) \o (<<P>> \o Zeros(IdLen))
  <2>1. P \in {LineOf(s, k) : k \in 1..(L + 1)}
    BY <1>2
  <2>2. Chunk(s, L + 1, P) = <<P>> \o Zeros(IdLen)
    BY <2>1, ChunkFacts
  <2> QED
    BY <1>3, <2>2, DeliveryStep
<1>13. Delivery(s, g, L + 1) = Delivery(s, P, L + 1) \o Run(P, g)
  BY <1>7, <1>8, DeliveryRun
<1>14. Run(E, P) = Run(E, Q) \o Run(Q, P) /\ Run(Q, P) = <<P>>
  <2>1. Run(Q, P) = <<P>>
    BY <1>3 DEF Run
  <2> QED
    BY <1>8, <2>1, RunSplit
<1>15. /\ Delivery(s, E, L) \in Seq(Nat)
       /\ Run(E, Q) \in Seq(Nat)
       /\ <<P>> \in Seq(Nat)
       /\ Zeros(IdLen) \in Seq(Nat)
       /\ Run(P, g) \in Seq(Nat)
  <2>1. Delivery(s, E, L) \in Seq(Nat)
    BY DeliveryStep
  <2>2. Run(E, Q) \in Seq(Nat) /\ Run(P, g) \in Seq(Nat)
    BY <1>8, RunFacts
  <2>3. <<P>> \in Seq(Nat)
    OBVIOUS
  <2>4. Zeros(IdLen) \in Seq(Nat)
    BY ForwardAssumption, ZerosFacts
  <2> QED
    BY <2>1, <2>2, <2>3, <2>4
<1>16. PICK D \in Seq(Nat) : D = Delivery(s, E, L)
  BY <1>15
<1>17. PICK a \in Seq(Nat) : a = Run(E, Q)
  BY <1>15
<1>18. PICK b \in Seq(Nat) : b = <<P>>
  BY <1>15
<1>19. PICK z \in Seq(Nat) : z = Zeros(IdLen)
  BY <1>15
<1>20. PICK c \in Seq(Nat) : c = Run(P, g)
  BY <1>15
<1>21. ((D \o a) \o (b \o z)) \o c = D \o (((a \o b) \o z) \o c)
  <2> DEFINE bz == b \o z
             abz == a \o bz
  <2>1. bz \in Seq(Nat) /\ abz \in Seq(Nat)
    OBVIOUS
  <2>2. abz = (a \o b) \o z
    BY SMTT(30)
  <2> HIDE DEF bz
  <2>3. (D \o a) \o bz = D \o abz
    BY <2>1, SMTT(30)
  <2> HIDE DEF abz
  <2>4. (D \o abz) \o c = D \o (abz \o c)
    BY <2>1, SMTT(30)
  <2>5. ((D \o a) \o bz) \o c = D \o (((a \o b) \o z) \o c)
    BY <2>2, <2>3, <2>4
  <2> QED
    BY <2>5 DEF bz
<1>22. Delivery(s, g, L + 1) = ((D \o a) \o (b \o z)) \o c /\ Run(E, P) = a \o b
  BY <1>10, <1>11, <1>12, <1>13, <1>14, <1>16, <1>17, <1>18, <1>19, <1>20
<1>23. Delivery(s, g, L + 1) = D \o (((a \o b) \o z) \o c)
  BY <1>21, <1>22
<1> QED
  BY <1>1, <1>2, <1>9, <1>16, <1>19, <1>20, <1>22, <1>23

-----------------------------------------------------------------------------
(* Greatest and least elements, rounding, and the number of inserted bytes. *)

LEMMA MaxFacts ==
  ASSUME NEW N \in Nat, NEW S \in SUBSET (0..N), 0 \in S
  PROVE  Max(S) \in S /\ \A i \in S : i <= Max(S)
<1> DEFINE A == {k \in 0..N : \E m \in S : \A i \in S : i <= k => i <= m}
<1>1. 0 \in A
  <2>1. \A i \in S : i <= 0 => i <= 0
    OBVIOUS
  <2> QED
    BY <2>1
<1>2. \A n \in 0..(N - 1) : n \in A => n + 1 \in A
  <2> SUFFICES ASSUME NEW n \in 0..(N - 1), n \in A PROVE n + 1 \in A
    OBVIOUS
  <2>1. PICK m \in S : \A i \in S : i <= n => i <= m
    OBVIOUS
  <2>2. CASE n + 1 \in S
    <3>1. \A i \in S : i <= n + 1 => i <= n + 1
      OBVIOUS
    <3> QED
      BY <2>2, <3>1
  <2>3. CASE n + 1 \notin S
    <3>1. \A i \in S : i <= n + 1 => i <= m
      BY <2>1, <2>3
    <3> QED
      BY <3>1
  <2> QED
    BY <2>2, <2>3
<1>3. 0..N \subseteq A
  <2> HIDE DEF A
  <2> QED
    BY <1>1, <1>2, SetInduction
<1>4. N \in 0..N
  OBVIOUS
<1>5. PICK m \in S : \A i \in S : i <= N => i <= m
  BY <1>3, <1>4
<1>6. \A i \in S : m >= i
  BY <1>5
<1>7. Max(S) \in S /\ \A i \in S : Max(S) >= i
  BY <1>6 DEF Max
<1>8. \A i \in S : i \in Nat
  OBVIOUS
<1> QED
  BY <1>7, <1>8

LEMMA MinFacts ==
  ASSUME NEW m \in Nat, NEW n \in Nat
  PROVE  Min({m, n}) = IF m <= n THEN m ELSE n
<1>1. \E x \in {m, n} : \A y \in {m, n} : x <= y
  OBVIOUS
<1>2. Min({m, n}) \in {m, n} /\ \A y \in {m, n} : Min({m, n}) <= y
  BY <1>1 DEF Min
<1> QED
  BY <1>2

LEMMA MinOfOne == ASSUME NEW m \in Nat PROVE Min({m}) = m
BY DEF Min

LEMMA RoundUpFacts ==
  ASSUME NEW m \in Nat
  PROVE  RoundUp(m) \in Nat /\ m <= RoundUp(m) /\ RoundUp(m) <= m + (Grain - 1)
<1>1. Grain \in Nat \ {0}
  BY ForwardAssumption
<1>2. m % Grain \in 0..(Grain - 1)
  BY <1>1
<1> QED
  BY <1>1, <1>2 DEF RoundUp

LEMMA Products ==
  ASSUME NEW m \in Nat, NEW n \in Nat, NEW k \in Nat, n <= k
  PROVE  /\ n * m \in Nat /\ k * m \in Nat /\ n * m <= k * m
         /\ (n + 1) * m = n * m + m
<1>1. n * m \in Nat /\ (k - n) * m \in Nat /\ k * m = n * m + (k - n) * m
  OBVIOUS
<1>2. (n + 1) * m = n * m + m
  OBVIOUS
<1>3. k * m \in Nat
  OBVIOUS
<1> QED
  BY <1>1, <1>2, <1>3

-----------------------------------------------------------------------------
(* Cutting the front of a list of buffers.                                  *)

LEMMA Halves ==
  ASSUME NEW T, NEW s \in Seq(T), NEW c \in Nat, c <= Len(s)
  PROVE  /\ SubSeq(s, 1, c) \in Seq(T) /\ Len(SubSeq(s, 1, c)) = c
         /\ SubSeq(s, c + 1, Len(s)) \in Seq(T)
         /\ Len(SubSeq(s, c + 1, Len(s))) = Len(s) - c
         /\ s = SubSeq(s, 1, c) \o SubSeq(s, c + 1, Len(s))
<1>1. Len(s) \in Nat
  OBVIOUS
<1>2. /\ SubSeq(s, 1, c) \in Seq(T) /\ Len(SubSeq(s, 1, c)) = c
      /\ \A i \in 1..c : SubSeq(s, 1, c)[i] = s[i]
  BY <1>1
<1>3. /\ SubSeq(s, c + 1, Len(s)) \in Seq(T)
      /\ Len(SubSeq(s, c + 1, Len(s))) = Len(s) - c
      /\ \A i \in 1..(Len(s) - c) : SubSeq(s, c + 1, Len(s))[i] = s[c + i]
  BY <1>1
<1>4. PICK x \in Seq(T) : x = SubSeq(s, 1, c)
  BY <1>2
<1>5. PICK y \in Seq(T) : y = SubSeq(s, c + 1, Len(s))
  BY <1>3
<1>6. Len(s) = Len(x) + Len(y)
  <2>1. Len(x) = c
    BY <1>2, <1>4
  <2>2. Len(y) = Len(s) - c
    BY <1>3, <1>5
  <2> QED
    BY <1>1, <2>1, <2>2
<1>7. \A i \in 1..Len(x) : s[i] = x[i]
  BY <1>2, <1>4
<1>8. \A i \in 1..Len(y) : s[Len(x) + i] = y[i]
  BY <1>2, <1>3, <1>4, <1>5
<1>9. s = x \o y
  BY <1>6, <1>7, <1>8, Joined
<1> QED
  BY <1>2, <1>3, <1>4, <1>5, <1>9

LEMMA FirstAndRest ==
  ASSUME NEW T, NEW q \in Seq(T), q # <<>>, NEW r \in T
  PROVE  /\ q[1] \in T /\ SubSeq(q, 2, Len(q)) \in Seq(T)
         /\ Len(SubSeq(q, 2, Len(q))) = Len(q) - 1
         /\ q = <<q[1]>> \o SubSeq(q, 2, Len(q))
         /\ [q EXCEPT ![1] = r] = <<r>> \o SubSeq(q, 2, Len(q))
<1>1. Len(q) \in Nat /\ 1 <= Len(q) /\ q[1] \in T
  OBVIOUS
<1>2. /\ SubSeq(q, 1 + 1, Len(q)) \in Seq(T) /\ Len(SubSeq(q, 1 + 1, Len(q))) = Len(q) - 1
      /\ q = SubSeq(q, 1, 1) \o SubSeq(q, 1 + 1, Len(q))
  BY <1>1, Halves, ZenonT(60)
<1>3. SubSeq(q, 1, 1) = <<q[1]>>
  <2>1. SubSeq(q, 1, 1) \in Seq(T) /\ Len(SubSeq(q, 1, 1)) = 1
    BY <1>1, Halves
  <2>2. SubSeq(q, 1, 1)[1] = q[1]
    BY <1>1
  <2>3. PICK u \in Seq(T) : u = SubSeq(q, 1, 1)
    BY <2>1
  <2>4. Len(u) = 1 /\ u[1] = q[1]
    BY <2>1, <2>2, <2>3
  <2>5. u = <<q[1]>>
    BY <2>4
  <2> QED
    BY <2>3, <2>5
<1>4. 1 + 1 = 2
  OBVIOUS
<1>5. PICK t \in Seq(T) : t = SubSeq(q, 2, Len(q))
  BY <1>2, <1>4
<1>6. q = <<q[1]>> \o t
  BY <1>2, <1>3, <1>4, <1>5
<1>7. [q EXCEPT ![1] = r] = <<r>> \o t
  BY <1>1, <1>6
<1> QED
  BY <1>1, <1>2, <1>4, <1>5, <1>6, <1>7

LEMMA CutFacts ==
  ASSUME NEW q \in Seq(Buffer), q # <<>>, NEW c \in Nat, c <= Used(q[1])
  PROVE  /\ CutFront(q, c) \in Seq(Buffer) /\ Len(CutFront(q, c)) = Len(q)
         /\ SubSeq(q[1].data, 1, c) \in Seq(Nat)
         /\ Len(SubSeq(q[1].data, 1, c)) = c
         /\ Bytes(q) = SubSeq(q[1].data, 1, c) \o Bytes(CutFront(q, c))
         /\ Total(MusedOf(CutFront(q, c))) = Total(MusedOf(q))
         /\ Used(CutFront(q, c)[1]) = Used(q[1]) - c
<1>1. PICK b \in Buffer : b = q[1]
  <2>1. q[1] \in Buffer
    OBVIOUS
  <2> QED
    BY <2>1
<1>2. PICK s \in Seq(Nat) : s = b.data
  BY BufferFacts
<1>3. b.off \in Nat /\ Used(b) = Len(s) /\ c <= Len(s)
  BY <1>1, <1>2, BufferFacts DEF Used
<1>4. /\ SubSeq(s, 1, c) \in Seq(Nat) /\ Len(SubSeq(s, 1, c)) = c
      /\ SubSeq(s, c + 1, Len(s)) \in Seq(Nat)
      /\ Len(SubSeq(s, c + 1, Len(s))) = Len(s) - c
      /\ s = SubSeq(s, 1, c) \o SubSeq(s, c + 1, Len(s))
  BY <1>3, Halves
<1>5. PICK x \in Seq(Nat) : x = SubSeq(s, 1, c)
  BY <1>4
<1>6. PICK y \in Seq(Nat) : y = SubSeq(s, c + 1, Len(s))
  BY <1>4
<1>7. PICK r \in Buffer : r = [off |-> b.off + c, data |-> y]
  <2>1. [off |-> b.off + c, data |-> y] \in Buffer
    BY <1>3 DEF Buffer
  <2> QED
    BY <2>1
<1>8. r.data = y /\ Used(r) = Used(b) - c /\ Mused(r) = Mused(b)
  <2>1. r.data = y /\ r.off = b.off + c
    BY <1>7
  <2>2. Len(y) = Len(s) - c /\ Len(s) \in Nat
    BY <1>4, <1>6
  <2> QED
    BY <1>2, <1>3, <2>1, <2>2 DEF Used, Mused
<1>9. PICK t \in Seq(Buffer) : t = SubSeq(q, 2, Len(q))
  <2>1. SubSeq(q, 2, Len(q)) \in Seq(Buffer)
    BY <1>1, FirstAndRest
  <2> QED
    BY <2>1
<1>10. q = <<b>> \o t
  BY <1>1, <1>9, FirstAndRest
<1>11. CutFront(q, c) = <<r>> \o t
  <2>1. CutFront(q, c) = [q EXCEPT ![1] = r]
    BY <1>1, <1>2, <1>6, <1>7 DEF CutFront
  <2> QED
    BY <1>9, <2>1, FirstAndRest
<1>12. <<b>> \in Seq(Buffer) /\ Bytes(<<b>>) = s /\ Total(MusedOf(<<b>>)) = Mused(b)
  BY <1>2, OneBuffer
<1>13. <<r>> \in Seq(Buffer) /\ Bytes(<<r>>) = y /\ Total(MusedOf(<<r>>)) = Mused(r)
  BY <1>8, OneBuffer
<1>14. Bytes(q) = s \o Bytes(t) /\ Total(MusedOf(q)) = Mused(b) + Total(MusedOf(t))
  BY <1>10, <1>12, BytesConcat, TotalsConcat
<1>15. /\ Bytes(CutFront(q, c)) = y \o Bytes(t)
       /\ Total(MusedOf(CutFront(q, c))) = Mused(r) + Total(MusedOf(t))
  BY <1>11, <1>13, BytesConcat, TotalsConcat
<1>16. Bytes(q) = x \o Bytes(CutFront(q, c))
  <2>1. PICK z \in Seq(Nat) : z = Bytes(t)
    BY BytesType
  <2>2. (x \o y) \o z = x \o (y \o z)
    OBVIOUS
  <2> QED
    BY <1>4, <1>5, <1>6, <1>14, <1>15, <2>1, <2>2
<1>17. CutFront(q, c) \in Seq(Buffer) /\ CutFront(q, c)[1] = r
  BY <1>11
<1>18. Len(CutFront(q, c)) = Len(q)
  <2>1. Len(<<r>> \o t) = 1 + Len(t) /\ Len(<<b>> \o t) = 1 + Len(t)
    OBVIOUS
  <2> QED
    BY <1>10, <1>11, <2>1
<1> QED
  BY <1>1, <1>2, <1>4, <1>5, <1>8, <1>14, <1>15, <1>16, <1>17, <1>18

LEMMA OneElement ==
  ASSUME NEW T, NEW q \in Seq(T), Len(q) = 1
  PROVE  q[1] \in T /\ q = <<q[1]>>
OBVIOUS

LEMMA LastAndRest ==
  ASSUME NEW T, NEW q \in Seq(T), q # <<>>
  PROVE  /\ Len(q) \in Nat /\ 1 <= Len(q) /\ Len(q) - 1 \in Nat /\ Len(q) - 1 # Len(q)
         /\ q[Len(q)] \in T
         /\ SubSeq(q, 1, Len(q) - 1) \in Seq(T)
         /\ q = SubSeq(q, 1, Len(q) - 1) \o <<q[Len(q)]>>
         /\ SubSeq(q, (Len(q) - 1) + 1, Len(q)) = <<q[Len(q)]>>
         /\ SubSeq(q, 1, Len(q)) = q
         /\ SubSeq(q, Len(q) + 1, Len(q)) = <<>>
<1>1. /\ Len(q) \in Nat /\ 1 <= Len(q) /\ Len(q) - 1 \in Nat /\ Len(q) - 1 # Len(q)
      /\ q[Len(q)] \in T
  OBVIOUS
<1>2. PICK n \in Nat : n = Len(q) - 1
  BY <1>1
<1>3. n <= Len(q) /\ Len(q) - n = 1
  BY <1>1, <1>2
<1>4. /\ SubSeq(q, 1, n) \in Seq(T) /\ SubSeq(q, n + 1, Len(q)) \in Seq(T)
      /\ Len(SubSeq(q, n + 1, Len(q))) = 1
      /\ q = SubSeq(q, 1, n) \o SubSeq(q, n + 1, Len(q))
  BY <1>3, Halves
<1>5. SubSeq(q, n + 1, Len(q)) = <<q[Len(q)]>>
  <2>1. SubSeq(q, n + 1, Len(q))[1] = q[Len(q)]
    BY <1>1, <1>2
  <2>2. PICK u \in Seq(T) : u = SubSeq(q, n + 1, Len(q))
    BY <1>4
  <2>3. Len(u) = 1 /\ u[1] = q[Len(q)]
    BY <1>4, <2>1, <2>2
  <2>4. u = <<q[Len(q)]>>
    BY <2>3
  <2> QED
    BY <2>2, <2>4
<1>6. SubSeq(q, 1, Len(q)) = q
  BY SubSeqFull
<1>7. SubSeq(q, Len(q) + 1, Len(q)) = <<>>
  BY <1>1, SubSeqEmpty
<1> QED
  BY <1>1, <1>2, <1>4, <1>5, <1>6, <1>7

Prefix(b, p) == NewBuf(SubSeq(b.data, 1, p))

\* Splitting the last buffer b of the list f \o <<b>> behind its first p bytes.
LEMMA SplitBuffer ==
  ASSUME NEW f \in Seq(Buffer), NEW b \in Buffer, NEW p \in Nat, p <= Used(b)
  PROVE  /\ Prefix(b, p) \in Buffer
         /\ CutFront(<<b>>, p) \in Seq(Buffer) /\ Len(CutFront(<<b>>, p)) = 1
         /\ Used(CutFront(<<b>>, p)[1]) = Used(b) - p
         /\ Total(UsedOf(CutFront(<<b>>, p))) = Used(b) - p
         /\ Len(Bytes(CutFront(<<b>>, p))) = Used(b) - p
         /\ Bytes(f \o <<b>>) = Bytes(f \o <<Prefix(b, p)>>) \o Bytes(CutFront(<<b>>, p))
<1>1. PICK s \in Seq(Nat) : s = b.data
  BY BufferFacts
<1>2. Used(b) = Len(s) /\ p <= Len(s)
  BY <1>1 DEF Used
<1>3. SubSeq(s, 1, p) \in Seq(Nat)
  BY <1>2, Halves
<1>4. PICK x \in Seq(Nat) : x = SubSeq(s, 1, p)
  BY <1>3
<1>5. PICK c \in Buffer : c = Prefix(b, p) /\ c.data = x
  <2>1. [off |-> 0, data |-> x] \in Buffer
    BY DEF Buffer
  <2>2. Prefix(b, p) = [off |-> 0, data |-> x]
    BY <1>1, <1>4 DEF Prefix, NewBuf
  <2> QED
    BY <2>1, <2>2
<1>6. <<b>> \in Seq(Buffer) /\ <<b>> # <<>> /\ <<b>>[1] = b /\ Len(<<b>>) = 1
  OBVIOUS
<1>7. /\ CutFront(<<b>>, p) \in Seq(Buffer) /\ Len(CutFront(<<b>>, p)) = 1
      /\ Used(CutFront(<<b>>, p)[1]) = Used(b) - p
      /\ Bytes(<<b>>) = x \o Bytes(CutFront(<<b>>, p))
  BY <1>1, <1>4, <1>6, CutFacts
<1>8. PICK r \in Seq(Buffer) : r = CutFront(<<b>>, p)
  BY <1>7
<1>9. PICK d \in Buffer : d = r[1] /\ r = <<d>>
  <2>1. Len(r) = 1
    BY <1>7, <1>8
  <2>2. r[1] \in Buffer /\ r = <<r[1]>>
    BY <2>1, OneElement
  <2> QED
    BY <2>2
<1>10. Total(UsedOf(r)) = Used(b) - p
  BY <1>7, <1>8, <1>9, OneBuffer
<1>11. Len(Bytes(r)) = Used(b) - p
  BY <1>10, BytesLength
<1>12. <<c>> \in Seq(Buffer) /\ Bytes(<<c>>) = x
  BY <1>5, OneBuffer
<1>13. Bytes(f \o <<c>>) = Bytes(f) \o x /\ Bytes(f \o <<b>>) = Bytes(f) \o (x \o Bytes(r))
  BY <1>6, <1>7, <1>8, <1>12, BytesConcat
<1>14. Bytes(f \o <<b>>) = Bytes(f \o <<c>>) \o Bytes(r)
  <2>1. PICK u \in Seq(Nat) : u = Bytes(f)
    BY BytesType
  <2>2. PICK z \in Seq(Nat) : z = Bytes(r)
    BY BytesType
  <2>3. (u \o x) \o z = u \o (x \o z)
    BY SMTT(30)
  <2> QED
    BY <1>13, <2>1, <2>2, <2>3
<1> QED
  BY <1>5, <1>7, <1>8, <1>10, <1>11, <1>14

\* Appending the list m to the list w.
LEMMA AppendedList ==
  ASSUME NEW w \in Seq(Buffer), NEW m \in Seq(Buffer)
  PROVE  /\ w \o m \in Seq(Buffer) /\ w \o m \o <<>> = w \o m /\ m \o <<>> = m
         /\ Bytes(m) \in Seq(Nat) /\ Bytes(w \o m) = Bytes(w) \o Bytes(m)
         /\ Total(MusedOf(w)) \in Nat /\ Total(MusedOf(m)) \in Nat
         /\ Total(MusedOf(w \o m)) = Total(MusedOf(w)) + Total(MusedOf(m))
         /\ Bytes(m) = Bytes(m) \o Bytes(<<>>) /\ Len(Bytes(<<>>)) = 0
<1>1. w \o m \in Seq(Buffer) /\ w \o m \o <<>> = w \o m /\ m \o <<>> = m
  OBVIOUS
<1>2. PICK x \in Seq(Nat) : x = Bytes(m)
  BY BytesType
<1>3. x = x \o <<>> /\ Len(<<>>) = 0
  OBVIOUS
<1> QED
  BY <1>1, <1>2, <1>3, EmptyList, BytesConcat, TotalsConcat, UsedWithinMused

\* What moving a list q of buffers up to byte p of its last one does: m are
\* the buffers that are moved, r those that stay.
LEMMA MovedLists ==
  ASSUME NEW q \in Seq(Buffer), q # <<>>, \A i \in 1..Len(q) : Used(q[i]) > 0,
         NEW p \in Nat, p <= Used(q[Len(q)])
  PROVE  LET b == q[Len(q)]
             f == SubSeq(q, 1, Len(q) - 1)
             m == IF p = Used(b) THEN q ELSE f \o <<Prefix(b, p)>>
             r == IF p = Used(b) THEN <<>> ELSE CutFront(<<b>>, p)
         IN /\ m \in Seq(Buffer) /\ r \in Seq(Buffer) /\ Bytes(q) = Bytes(m) \o Bytes(r)
            /\ Len(r) <= 1 /\ \A i \in 1..Len(r) : Used(r[i]) > 0
            /\ Len(Bytes(r)) = Used(b) - p /\ Total(UsedOf(r)) = Used(b) - p
            /\ Total(UsedOf(q)) \in Nat /\ Total(UsedOf(f)) \in Nat
            /\ Total(UsedOf(q)) = Total(UsedOf(f)) + Used(b)
<1>1. /\ q[Len(q)] \in Buffer /\ SubSeq(q, 1, Len(q) - 1) \in Seq(Buffer)
      /\ q = SubSeq(q, 1, Len(q) - 1) \o <<q[Len(q)]>>
  BY LastAndRest
<1>2. PICK b \in Buffer : b = q[Len(q)]
  BY <1>1
<1>3. PICK f \in Seq(Buffer) : f = SubSeq(q, 1, Len(q) - 1)
  BY <1>1
<1>4. q = f \o <<b>> /\ p <= Used(b)
  BY <1>1, <1>2, <1>3
<1>5. Used(b) > 0 /\ Used(b) \in Nat
  <2>1. Len(q) \in 1..Len(q)
    OBVIOUS
  <2> QED
    BY <1>2, <2>1, BufferFacts
<1>6. Total(UsedOf(q)) = Total(UsedOf(f)) + Used(b)
  <2>1. <<b>> \in Seq(Buffer) /\ Total(UsedOf(<<b>>)) = Used(b)
    BY OneBuffer
  <2> QED
    BY <1>4, <2>1, TotalsConcat
<1>7. Total(UsedOf(q)) \in Nat /\ Total(UsedOf(f)) \in Nat
  BY UsedWithinMused
<1>8. CASE p = Used(b)
  <2>1. Bytes(q) = Bytes(q) \o Bytes(<<>>) /\ Len(Bytes(<<>>)) = 0
    BY AppendedList
  <2>2. Len(Bytes(<<>>)) = Used(b) - p /\ Total(UsedOf(<<>>)) = Used(b) - p
    BY <1>5, <1>8, <2>1, EmptyList
  <2>3. <<>> \in Seq(Buffer) /\ Len(<<>>) = 0
    OBVIOUS
  <2> QED
    BY <1>2, <1>3, <1>6, <1>7, <1>8, <2>1, <2>2, <2>3
<1>9. CASE p # Used(b)
  <2>1. /\ Prefix(b, p) \in Buffer
        /\ CutFront(<<b>>, p) \in Seq(Buffer) /\ Len(CutFront(<<b>>, p)) = 1
        /\ Used(CutFront(<<b>>, p)[1]) = Used(b) - p
        /\ Total(UsedOf(CutFront(<<b>>, p))) = Used(b) - p
        /\ Len(Bytes(CutFront(<<b>>, p))) = Used(b) - p
        /\ Bytes(q) = Bytes(f \o <<Prefix(b, p)>>) \o Bytes(CutFront(<<b>>, p))
    BY <1>4, SplitBuffer
  <2>2. f \o <<Prefix(b, p)>> \in Seq(Buffer)
    BY <2>1
  <2>3. Used(b) - p > 0
    BY <1>4, <1>5, <1>9
  <2>4. PICK r \in Seq(Buffer) : r = CutFront(<<b>>, p)
    BY <2>1
  <2>5. Len(r) = 1 /\ Used(r[1]) > 0
    BY <2>1, <2>3, <2>4
  <2>6. Len(r) <= 1 /\ \A i \in 1..Len(r) : Used(r[i]) > 0
    BY <2>5
  <2>7. PICK m \in Seq(Buffer) : m = f \o <<Prefix(b, p)>>
    BY <2>2
  <2>8. /\ Bytes(q) = Bytes(m) \o Bytes(r) /\ Len(Bytes(r)) = Used(b) - p
        /\ Total(UsedOf(r)) = Used(b) - p
    BY <2>1, <2>4, <2>7
  <2> QED
    BY <1>2, <1>3, <1>6, <1>7, <1>9, <2>4, <2>6, <2>7, <2>8
<1> QED
  BY <1>8, <1>9

\* The same of the action.
LEMMA MoveFacts ==
  ASSUME readbuf \in Seq(Buffer), writebuf \in Seq(Buffer), rUsed \in Nat,
         readbuf # <<>>, \A i \in 1..Len(readbuf) : Used(readbuf[i]) > 0,
         wUsed = Total(MusedOf(writebuf)), Total(UsedOf(readbuf)) <= rUsed,
         NEW p \in Nat, p <= Used(readbuf[Len(readbuf)]),
         Move(Len(readbuf), p)
  PROVE  /\ readbuf' \in Seq(Buffer) /\ writebuf' \in Seq(Buffer)
         /\ rUsed' \in Nat /\ wUsed' \in Nat
         /\ Len(readbuf') <= 1
         /\ \A i \in 1..Len(readbuf') : Used(readbuf'[i]) > 0
         /\ wUsed' = Total(MusedOf(writebuf')) /\ Total(UsedOf(readbuf')) <= rUsed'
         /\ Len(Bytes(readbuf')) = Used(readbuf[Len(readbuf)]) - p
         /\ \E m \in Seq(Nat) : /\ Bytes(writebuf') = Bytes(writebuf) \o m
                                /\ Bytes(readbuf) = m \o Bytes(readbuf')
<1> DEFINE L == Len(readbuf)
           b == readbuf[L]
           f == SubSeq(readbuf, 1, L - 1)
           m == IF p = Used(b) THEN readbuf ELSE f \o <<Prefix(b, p)>>
           r == IF p = Used(b) THEN <<>> ELSE CutFront(<<b>>, p)
<1>1. /\ L \in Nat /\ 1 <= L /\ L - 1 \in Nat /\ L - 1 # L /\ b \in Buffer
      /\ SubSeq(readbuf, (L - 1) + 1, L) = <<b>>
      /\ SubSeq(readbuf, 1, L) = readbuf
      /\ SubSeq(readbuf, L + 1, L) = <<>>
  BY LastAndRest
<1>2. /\ m \in Seq(Buffer) /\ r \in Seq(Buffer) /\ Bytes(readbuf) = Bytes(m) \o Bytes(r)
      /\ Len(r) <= 1 /\ \A i \in 1..Len(r) : Used(r[i]) > 0
      /\ Len(Bytes(r)) = Used(b) - p /\ Total(UsedOf(r)) = Used(b) - p
      /\ Total(UsedOf(readbuf)) \in Nat /\ Total(UsedOf(f)) \in Nat
      /\ Total(UsedOf(readbuf)) = Total(UsedOf(f)) + Used(b)
  BY MovedLists
<1>3. /\ readbuf' = r
      /\ \/ writebuf' = writebuf \o m /\ wUsed' = wUsed + Total(MusedOf(m))
         \/ /\ writebuf' = writebuf \o m \o <<>>
            /\ wUsed' = wUsed + Total(MusedOf(m \o <<>>))
         \/ /\ writebuf' = writebuf \o f \o <<Prefix(b, p)>>
            /\ wUsed' = wUsed + Total(MusedOf(m)) /\ m = f \o <<Prefix(b, p)>>
            /\ f \in Seq(Buffer) /\ Prefix(b, p) \in Buffer
      /\ rUsed' = rUsed - (IF p = Used(b) THEN Total(UsedOf(readbuf)) ELSE Total(UsedOf(f)))
  <2>1. CASE p = Used(b)
    BY <1>1, <2>1 DEF Move
  <2>2. CASE p # Used(b)
    <3>1. f \in Seq(Buffer) /\ Prefix(b, p) \in Buffer
      BY <1>1, LastAndRest, SplitBuffer
    <3> QED
      BY <1>1, <2>2, <3>1 DEF Move, Prefix
  <2> QED
    BY <2>1, <2>2
<1>4. writebuf' = writebuf \o m /\ wUsed' = wUsed + Total(MusedOf(m))
  <2>1. writebuf \o m \o <<>> = writebuf \o m /\ m \o <<>> = m
    BY <1>2, AppendedList
  <2>2. ASSUME f \in Seq(Buffer), Prefix(b, p) \in Buffer
        PROVE  writebuf \o f \o <<Prefix(b, p)>> = writebuf \o (f \o <<Prefix(b, p)>>)
    <3>1. PICK g \in Seq(Buffer) : g = f
      BY <2>2
    <3>2. PICK c \in Buffer : c = Prefix(b, p)
      BY <2>2
    <3>3. PICK w \in Seq(Buffer) : w = writebuf
      OBVIOUS
    <3>4. w \o g \o <<c>> = w \o (g \o <<c>>)
      BY ConcatAssociative, SMTT(30)
    <3> QED
      BY <3>1, <3>2, <3>3, <3>4
  <2> QED
    BY <1>3, <2>1, <2>2
<1>5. rUsed' \in Nat /\ Total(UsedOf(r)) <= rUsed'
  <2>1. PICK u \in Nat : u = Used(b)
    BY <1>1, BufferFacts
  <2>2. PICK t \in Nat : t = Total(UsedOf(f))
    BY <1>2
  <2>3. Total(UsedOf(readbuf)) = t + u /\ p <= u /\ Total(UsedOf(r)) = u - p
    BY <1>2, <2>1, <2>2
  <2>4. rUsed' = rUsed - (IF p = u THEN t + u ELSE t)
    BY <1>3, <2>1, <2>2, <2>3
  <2> QED
    BY <2>3, <2>4
<1> HIDE DEF m, r
<1>6. /\ writebuf \o m \in Seq(Buffer)
      /\ Bytes(m) \in Seq(Nat) /\ Bytes(writebuf \o m) = Bytes(writebuf) \o Bytes(m)
      /\ Total(MusedOf(writebuf)) \in Nat /\ Total(MusedOf(m)) \in Nat
      /\ Total(MusedOf(writebuf \o m)) = Total(MusedOf(writebuf)) + Total(MusedOf(m))
  BY <1>2, AppendedList
<1>7. \E x \in Seq(Nat) : /\ Bytes(writebuf') = Bytes(writebuf) \o x
                          /\ Bytes(readbuf) = x \o Bytes(readbuf')
  BY <1>2, <1>3, <1>4, <1>6
<1>8. wUsed' = Total(MusedOf(writebuf')) /\ wUsed' \in Nat /\ writebuf' \in Seq(Buffer)
  BY <1>4, <1>6
<1> QED
  BY <1>2, <1>3, <1>5, <1>7, <1>8

LEMMA PrefixOfConcat ==
  ASSUME NEW T, NEW a \in Seq(T), NEW b \in Seq(T)
  PROVE  SubSeq(a \o b, 1, Len(a)) = a
<1>1. PICK c \in Seq(T) : c = a \o b
  <2>1. a \o b \in Seq(T)
    OBVIOUS
  <2> QED
    BY <2>1
<1>2. Len(a) \in Nat /\ Len(a) <= Len(c) /\ \A i \in 1..Len(a) : c[i] = a[i]
  BY <1>1
<1>3. SubSeq(c, 1, Len(a)) \in Seq(T) /\ Len(SubSeq(c, 1, Len(a))) = Len(a)
  BY <1>2, Halves
<1>4. \A i \in 1..Len(a) : SubSeq(c, 1, Len(a))[i] = a[i]
  BY <1>2
<1>5. PICK x \in Seq(T) : x = SubSeq(c, 1, Len(a))
  BY <1>3
<1>6. Len(x) = Len(a) /\ \A i \in 1..Len(a) : x[i] = a[i]
  BY <1>3, <1>4, <1>5
<1>7. x = a
  BY <1>6
<1> QED
  BY <1>1, <1>5, <1>7

\* The first n bytes of the list q, and what is left in the list r.
Taken(q, n, r) ==
  /\ SubSeq(Bytes(q), 1, n) \in Seq(Nat)
  /\ Bytes(q) = SubSeq(Bytes(q), 1, n) \o Bytes(r)

\* Taking the buffers gone and c bytes of the next one.
LEMMA PartOfFirst ==
  ASSUME NEW gone \in Seq(Buffer), NEW rest \in Seq(Buffer), rest # <<>>,
         NEW q \in Seq(Buffer), q = gone \o rest,
         NEW c \in Nat, c <= Used(rest[1]),
         NEW n \in Nat, n = Len(Bytes(gone)) + c
  PROVE  /\ CutFront(rest, c) \in Seq(Buffer)
         /\ Taken(q, n, CutFront(rest, c))
         /\ Total(MusedOf(CutFront(rest, c))) = Total(MusedOf(rest))
<1>1. /\ CutFront(rest, c) \in Seq(Buffer)
      /\ SubSeq(rest[1].data, 1, c) \in Seq(Nat)
      /\ Len(SubSeq(rest[1].data, 1, c)) = c
      /\ Bytes(rest) = SubSeq(rest[1].data, 1, c) \o Bytes(CutFront(rest, c))
      /\ Total(MusedOf(CutFront(rest, c))) = Total(MusedOf(rest))
  BY CutFacts
<1>2. PICK a \in Seq(Nat) : a = Bytes(gone)
  BY BytesType
<1>3. PICK x \in Seq(Nat) : x = SubSeq(rest[1].data, 1, c)
  BY <1>1
<1>4. PICK z \in Seq(Nat) : z = Bytes(CutFront(rest, c))
  BY <1>1, BytesType
<1>5. Bytes(q) = a \o (x \o z)
  BY <1>1, <1>2, <1>3, <1>4, BytesConcat
<1>6. a \o (x \o z) = (a \o x) \o z
  BY Grouped DEF Regrouped
<1>7. PICK y \in Seq(Nat) : y = a \o x /\ Len(y) = Len(a) + Len(x)
  BY Joining
<1>8. n = Len(y)
  BY <1>1, <1>2, <1>3, <1>6, <1>7
<1>9. SubSeq(y \o z, 1, n) = y
  BY <1>8, PrefixOfConcat
<1> QED
  BY <1>1, <1>4, <1>5, <1>6, <1>7, <1>9 DEF Taken

\* What taking n bytes from a list q of buffers leaves: k buffers go whole.
LEMMA WrittenList ==
  ASSUME NEW q \in Seq(Buffer), NEW n \in Nat, n <= Total(UsedOf(q))
  PROVE  LET upTo == SumTo(UsedOf(q))
             k == Max({i \in 0..Len(q) : upTo[i] <= n})
             rest == SubSeq(q, k + 1, Len(q))
             cut == n - upTo[k]
             r == IF cut = 0 THEN rest ELSE CutFront(rest, cut)
         IN /\ r \in Seq(Buffer) /\ SubSeq(Bytes(q), 1, n) \in Seq(Nat)
            /\ Bytes(q) = SubSeq(Bytes(q), 1, n) \o Bytes(r)
            /\ Total(MusedOf(q)) = Total(MusedOf(SubSeq(q, 1, k))) + Total(MusedOf(r))
            /\ Total(MusedOf(SubSeq(q, 1, k))) \in Nat
<1>1. PICK u \in Seq(Nat) : u = UsedOf(q) /\ Len(u) = Len(q)
  BY ListsOf
<1>2. PICK N \in Nat : N = Len(q)
  OBVIOUS
<1>3. PICK up \in [0..N -> Nat] : up = SumTo(u)
  BY <1>1, <1>2, SumSteps
<1>4. /\ up[0] = 0 /\ up[N] = Total(u)
      /\ \A i \in 1..N : up[i] = up[i - 1] + u[i]
  BY <1>1, <1>2, <1>3, SumSteps DEF Total
<1>5. PICK S \in SUBSET (0..N) : S = {i \in 0..N : up[i] <= n}
  OBVIOUS
<1>6. 0 \in S
  BY <1>4, <1>5
<1>7. PICK k \in 0..N : k = Max(S) /\ up[k] <= n /\ \A i \in S : i <= k
  BY <1>5, <1>6, MaxFacts
<1>8. /\ SubSeq(q, 1, k) \in Seq(Buffer)
      /\ SubSeq(q, k + 1, N) \in Seq(Buffer) /\ Len(SubSeq(q, k + 1, N)) = N - k
      /\ q = SubSeq(q, 1, k) \o SubSeq(q, k + 1, N)
      /\ up[k] = Total(UsedOf(SubSeq(q, 1, k)))
  BY <1>1, <1>2, <1>3, ListParts
<1>9. PICK gone \in Seq(Buffer) : gone = SubSeq(q, 1, k)
  BY <1>8
<1>10. PICK rest \in Seq(Buffer) : rest = SubSeq(q, k + 1, N)
  BY <1>8
<1>11. /\ q = gone \o rest /\ Len(rest) = N - k /\ up[k] = Len(Bytes(gone))
       /\ Bytes(q) = Bytes(gone) \o Bytes(rest)
       /\ Total(MusedOf(q)) = Total(MusedOf(gone)) + Total(MusedOf(rest))
  BY <1>8, <1>9, <1>10, BytesConcat, TotalsConcat, BytesLength, ZenonT(60)
<1>12. PICK a \in Seq(Nat) : a = Bytes(gone)
  BY BytesType
<1>13. PICK b \in Seq(Nat) : b = Bytes(rest)
  BY BytesType
<1>14. Total(MusedOf(gone)) \in Nat
  BY UsedWithinMused
<1>15. PICK cut \in Nat : cut = n - up[k]
  BY <1>7
<1>16. CASE cut = 0
  <2>1. n = Len(a)
    BY <1>11, <1>12, <1>15, <1>16
  <2>2. SubSeq(a \o b, 1, n) = a
    BY <2>1, PrefixOfConcat
  <2>3. SubSeq(Bytes(q), 1, n) = a /\ Bytes(q) = a \o Bytes(rest)
    BY <1>11, <1>12, <1>13, <2>2
  <2> QED
    BY <1>1, <1>2, <1>3, <1>5, <1>7, <1>9, <1>10, <1>11, <1>14, <1>15, <1>16, <2>3
<1>17. CASE cut # 0
  <2>1. k < N
    <3>1. CASE k = N
      BY <1>1, <1>4, <1>7, <1>15, <1>17, <3>1
    <3> QED
      BY <3>1
  <2>2. PICK j \in 1..N : j = k + 1 /\ j - 1 = k /\ j \in 0..N
    BY <2>1
  <2>3. j \notin S
    BY <1>7, <2>2
  <2>4. n < up[j]
    BY <1>5, <2>2, <2>3
  <2>5. up[j] = up[k] + u[j] /\ u[j] = Used(q[j]) /\ q[j] \in Buffer
    BY <1>1, <1>2, <1>4, <2>2, ListsOf
  <2>6. rest # <<>> /\ rest[1] = q[j]
    <3>1. Len(rest) >= 1
      BY <1>11, <2>1
    <3>2. rest[1] = q[k + 1]
      BY <1>2, <1>10, <2>1
    <3> QED
      BY <2>2, <3>1, <3>2
  <2>7. cut <= Used(rest[1])
    <3>1. Used(q[j]) \in Nat /\ up[k] \in Nat
      BY <2>5, BufferFacts
    <3> QED
      BY <1>15, <2>4, <2>5, <2>6, <3>1
  <2>8. /\ CutFront(rest, cut) \in Seq(Buffer)
        /\ Taken(q, n, CutFront(rest, cut))
        /\ Total(MusedOf(CutFront(rest, cut))) = Total(MusedOf(rest))
    <3>1. n = Len(Bytes(gone)) + cut
      BY <1>7, <1>11, <1>15
    <3> QED
      BY <1>11, <2>6, <2>7, <3>1, PartOfFirst, ZenonT(60)
  <2> QED
    BY <1>1, <1>2, <1>3, <1>5, <1>7, <1>9, <1>10, <1>11, <1>14, <1>15, <1>17, <2>8 DEF Taken
<1> QED
  BY <1>16, <1>17

LEMMA WriteFacts ==
  ASSUME writebuf \in Seq(Buffer), wire \in Seq(Nat),
         wUsed = Total(MusedOf(writebuf)), NEW n \in Nat, Write(n)
  PROVE  /\ writebuf' \in Seq(Buffer) /\ wire' \in Seq(Nat) /\ wUsed' \in Nat
         /\ wUsed' = Total(MusedOf(writebuf'))
         /\ wire' \o Bytes(writebuf') = wire \o Bytes(writebuf)
         /\ Len(Bytes(writebuf')) <= Len(Bytes(writebuf))
         /\ \E m \in Seq(Nat) : Cuts(wire', wire, m)
<1> DEFINE upTo == SumTo(UsedOf(writebuf))
           k == Max({i \in 0..Len(writebuf) : upTo[i] <= n})
           rest == SubSeq(writebuf, k + 1, Len(writebuf))
           cut == n - upTo[k]
           r == IF cut = 0 THEN rest ELSE CutFront(rest, cut)
<1>1. n <= Total(UsedOf(writebuf))
  <2>1. PICK m \in 0..Len(writebuf) : m = Min({Iov, Len(writebuf)})
    <3>1. Iov \in Nat /\ Len(writebuf) \in Nat
      BY ForwardAssumption
    <3> QED
      BY <3>1, MinFacts, SMTT(30)
  <2>2. n <= upTo[m]
    BY <2>1 DEF Write
  <2>3. PICK u \in Seq(Nat) : u = UsedOf(writebuf) /\ Len(u) = Len(writebuf)
    BY ListsOf
  <2>4. m \in 0..Len(u) /\ Len(u) \in m..Len(u)
    BY <2>3
  <2>5. SumTo(u)[m] <= SumTo(u)[Len(u)]
    BY <2>4, SumGrows
  <2>6. SumTo(u)[m] \in Nat /\ SumTo(u)[Len(u)] \in Nat
    <3>1. SumTo(u) \in [0..Len(u) -> Nat] /\ Len(u) \in 0..Len(u)
      BY <2>4, SumSteps
    <3> QED
      BY <2>4, <3>1
  <2> QED
    BY <2>2, <2>3, <2>5, <2>6 DEF Total
<1>2. /\ r \in Seq(Buffer) /\ SubSeq(Bytes(writebuf), 1, n) \in Seq(Nat)
      /\ Bytes(writebuf) = SubSeq(Bytes(writebuf), 1, n) \o Bytes(r)
      /\ Total(MusedOf(writebuf)) = Total(MusedOf(SubSeq(writebuf, 1, k))) + Total(MusedOf(r))
      /\ Total(MusedOf(SubSeq(writebuf, 1, k))) \in Nat
  BY <1>1, WrittenList
<1>3. /\ writebuf' = r /\ wire' = wire \o SubSeq(Bytes(writebuf), 1, n)
      /\ wUsed' = wUsed - Total(MusedOf(SubSeq(writebuf, 1, k)))
  BY DEF Write, WUsedAfterGet
<1> HIDE DEF r, k
<1>4. PICK a \in Seq(Nat) : a = SubSeq(Bytes(writebuf), 1, n)
  BY <1>2
<1>5. PICK b \in Seq(Nat) : b = Bytes(r)
  BY <1>2, BytesType
<1>6. PICK w \in Seq(Nat) : w = wire
  OBVIOUS
<1>7. (w \o a) \o b = w \o (a \o b) /\ w \o a \in Seq(Nat) /\ Len(b) <= Len(a \o b)
  BY SMTT(30)
<1>8. wire' \o Bytes(writebuf') = wire \o Bytes(writebuf) /\ wire' \in Seq(Nat)
  BY <1>2, <1>3, <1>4, <1>5, <1>6, <1>7
<1>9. Len(Bytes(writebuf')) <= Len(Bytes(writebuf))
  BY <1>2, <1>3, <1>4, <1>5, <1>7
<1>10. Total(MusedOf(r)) \in Nat
  BY <1>2, UsedWithinMused
<1>11. wUsed' = Total(MusedOf(r)) /\ wUsed' \in Nat
  BY <1>2, <1>3, <1>10
<1>12. Cuts(wire', wire, a)
  BY <1>3, <1>4 DEF Cuts
<1> QED
  BY <1>2, <1>3, <1>8, <1>9, <1>11, <1>12

-----------------------------------------------------------------------------
(* The inductive invariant.  Passed: position in the client's stream behind  *)
(* the last byte that http_handle_forwarddata has moved to the backend's     *)
(* writebuf.                                                                 *)

\* No read of the client's socket ended within a request line (then no parse
\* runs with a part of a line in readbuf).  Without this the parse loop goes
\* on in a buffer behind the line's first one, and insert_id_head moves that
\* to the front: ForwardSplitLine's counterexample.
NoLineIsCut ==
  \A k \in DOMAIN stream : ~(EndOf(k - 1) < got /\ got < LineEnd(k))

WholeLines == IdLen = 0 \/ NoLineIsCut

WithHead == stat = "HEADREQ" \/ (stat = "BODYREQ" /\ parse_buf > 0)

Passed == IF stat = "BODYREQ" /\ parse_buf = 0
          THEN HeadOf(stream, req) + curlen ELSE End(stream, req - 1)

\* Request k up to byte g of the stream, with the id head behind its line.
HeadHere(s, k, g) ==
  (Run(End(s, k - 1), LineOf(s, k)) \o Zeros(IdLen)) \o Run(LineOf(s, k), g)

Types ==
  /\ stream \in Streams
  /\ got \in Nat /\ got <= End(stream, Len(stream))
  /\ readbuf \in Seq(Buffer) /\ writebuf \in Seq(Buffer)
  /\ rUsed \in Nat /\ wUsed \in Nat
  /\ stat \in {"COMMONDREQ", "HEADREQ", "BODYREQ"}
  /\ parse_buf \in Nat /\ parse_pos \in Nat
  /\ curlen \in Nat /\ busy \in BOOLEAN
  /\ req \in Nat /\ 1 <= req /\ req <= Len(stream) + 1
  /\ stat # "COMMONDREQ" => req <= Len(stream)
  /\ wire \in Seq(Nat)

Filled == \A i \in 1..Len(readbuf) : Used(readbuf[i]) > 0

\* The parser stands in the last buffer, or at the end of the one before it.
Places ==
  /\ \/ parse_buf = Len(readbuf)
     \/ /\ busy /\ parse_buf + 1 = Len(readbuf)
        /\ parse_buf > 0 => parse_pos = Used(readbuf[parse_buf])
  /\ ~busy /\ readbuf # <<>> => parse_pos = Used(readbuf[Len(readbuf)])
  /\ stat = "BODYREQ" /\ parse_buf > 0 => busy /\ parse_buf = Len(readbuf)
  /\ stat = "COMMONDREQ" /\ IdLen > 0 => parse_buf = 0

Content ==
  /\ Passed <= got
  /\ ~WithHead => Bytes(readbuf) = Run(Passed, got)
  /\ WithHead => /\ LineOf(stream, req) <= got
                 /\ Bytes(readbuf) = HeadHere(stream, req, got)
  /\ stat = "BODYREQ" /\ parse_buf > 0 =>
       /\ HeadOf(stream, req) <= got
       /\ parse_pos + (got - HeadOf(stream, req)) = Used(readbuf[Len(readbuf)])
  /\ stat = "BODYREQ" /\ parse_buf = 0 => curlen < stream[req].body
  /\ stat # "BODYREQ" \/ parse_buf > 0 => curlen = 0

Stored ==
  /\ Total(UsedOf(readbuf)) <= rUsed
  /\ wUsed = Total(MusedOf(writebuf))
  /\ Len(Bytes(readbuf)) + Len(Bytes(writebuf))
       <= (2 * Limit + (Grain - 1)) + LinesParsed * IdLen

Delivered ==
  /\ (wire \o Bytes(writebuf)) \o Bytes(readbuf) = Delivery(stream, got, LinesParsed)
  /\ ClientBytes(wire \o Bytes(writebuf)) = Passed

IInv == Types /\ Filled /\ Places /\ Content /\ Stored /\ Delivered

LEMMA Streaming ==
  ASSUME Types
  PROVE  /\ stream \in Seq(Request) /\ Len(stream) \in Nat
         /\ req \in 1..(Len(stream) + 1) /\ req - 1 \in Nat /\ req - 1 \in 0..Len(stream)
         /\ End(stream, req - 1) \in Nat
         /\ End(stream, Len(stream)) \in Nat
         /\ \A k \in 1..Len(stream) : k - 1 \in 0..Len(stream) /\ k \in 0..Len(stream)
         /\ Length = End(stream, Len(stream))
<1>1. stream \in Seq(Request)
  BY ForwardAssumption DEF Types, Request
<1>2. Len(stream) \in Nat
  BY <1>1
<1>3. req \in 1..(Len(stream) + 1) /\ req - 1 \in Nat /\ req - 1 \in 0..Len(stream)
  BY <1>2 DEF Types
<1>4. Len(stream) \in 0..Len(stream)
  BY <1>2
<1>5. \A k \in 1..Len(stream) : k - 1 \in 0..Len(stream) /\ k \in 0..Len(stream)
  BY <1>2
<1> QED
  BY <1>1, <1>2, <1>3, <1>4, <1>5, EndFacts, Positions

\* The request being parsed.
LEMMA Current ==
  ASSUME Types, req <= Len(stream)
  PROVE  /\ End(stream, req - 1) \in Nat /\ LineOf(stream, req) \in Nat
         /\ HeadOf(stream, req) \in Nat /\ End(stream, req) \in Nat
         /\ stream[req].body \in Nat
         /\ End(stream, req - 1) < LineOf(stream, req)
         /\ LineOf(stream, req) < HeadOf(stream, req)
         /\ End(stream, req) = HeadOf(stream, req) + stream[req].body
         /\ End(stream, req) <= End(stream, Len(stream))
<1>1. stream \in Seq(Request) /\ Len(stream) \in Nat
  BY Streaming
<1>2. req \in 1..Len(stream) /\ req \in 0..Len(stream) /\ Len(stream) \in req..Len(stream)
  BY <1>1 DEF Types
<1> QED
  BY <1>1, <1>2, RequestParts, EndFacts

LEMMA LinesBefore ==
  ASSUME Types, Content
  PROVE  /\ LinesParsed \in 0..Len(stream)
         /\ \A k \in 1..LinesParsed : LineOf(stream, k) \in Nat /\ LineOf(stream, k) <= got
<1>1. /\ stream \in Seq(Request) /\ Len(stream) \in Nat
      /\ req - 1 \in Nat /\ req - 1 \in 0..Len(stream) /\ End(stream, req - 1) \in Nat
  BY Streaming
<1>2. LinesParsed \in 0..Len(stream)
  BY <1>1 DEF LinesParsed, Types
<1>3. End(stream, req - 1) <= got
  <2>1. CASE stat = "BODYREQ" /\ parse_buf = 0
    BY <2>1, Current DEF Types, Content, Passed
  <2> QED
    BY <2>1 DEF Content, Passed
<1>4. ASSUME NEW k \in 1..LinesParsed
      PROVE  LineOf(stream, k) \in Nat /\ LineOf(stream, k) <= got
  <2>1. k \in 1..Len(stream)
    BY <1>1, <1>2
  <2>2. /\ LineOf(stream, k) \in Nat /\ HeadOf(stream, k) \in Nat /\ End(stream, k) \in Nat
        /\ LineOf(stream, k) < HeadOf(stream, k)
        /\ End(stream, k) = HeadOf(stream, k) + stream[k].body /\ stream[k].body \in Nat
    BY <1>1, <2>1, RequestParts
  <2>3. CASE k <= req - 1
    <3>1. k \in 0..Len(stream) /\ req - 1 \in k..Len(stream)
      BY <1>1, <2>1, <2>3
    <3>2. End(stream, k) <= End(stream, req - 1)
      BY <1>1, <3>1, EndFacts
    <3> QED
      BY <1>1, <1>3, <2>2, <3>2, SMTT(30) DEF Types
  <2>4. CASE ~(k <= req - 1)
    <3>1. k = req /\ stat # "COMMONDREQ"
      BY <1>1, <2>4 DEF LinesParsed, Types
    <3>2. CASE WithHead
      BY <2>2, <3>1, <3>2 DEF Content
    <3>3. CASE ~WithHead
      BY <2>2, <3>1, <3>3 DEF Content, Passed, WithHead, Types
    <3> QED
      BY <3>2, <3>3
  <2> QED
    BY <2>3, <2>4
<1> QED
  BY <1>2, <1>4

LEMMA InitInvariant == Init => IInv
<1> SUFFICES ASSUME Init PROVE IInv
  OBVIOUS
<1>1. stream \in Seq(Request)
  BY ForwardAssumption DEF Init, Request
<1>2. Len(stream) \in Nat /\ End(stream, 0) = 0 /\ 0 <= End(stream, Len(stream))
  BY <1>1, EndFacts
<1>3. /\ Bytes(<<>>) = <<>> /\ <<>> \in Seq(Buffer)
      /\ Total(UsedOf(<<>>)) = 0 /\ Total(MusedOf(<<>>)) = 0
  BY EmptyList
<1>4. Types /\ Filled /\ Places
  <2>1. <<>> \in Seq(Nat) /\ Len(<<>>) = 0
    OBVIOUS
  <2>2. Types
    <3>1. /\ stream \in Streams /\ got = 0 /\ readbuf = <<>> /\ writebuf = <<>>
          /\ wire = <<>> /\ req = 1
      BY DEF Init
    <3>2. /\ rUsed \in Nat /\ wUsed \in Nat
          /\ stat = "COMMONDREQ"
          /\ parse_buf \in Nat /\ parse_pos \in Nat
          /\ curlen \in Nat /\ busy \in BOOLEAN
      BY DEF Init
    <3>3. got <= End(stream, Len(stream)) /\ 1 <= Len(stream) + 1
      BY <1>2, <3>1
    <3> QED
      BY <1>3, <2>1, <3>1, <3>2, <3>3 DEF Types
  <2>3. Filled /\ Places
    BY <2>1 DEF Init, Filled, Places
  <2> QED
    BY <2>2, <2>3
<1>5. req - 1 = 0 /\ Passed = 0 /\ LinesParsed = 0 /\ ~WithHead
  BY <1>2 DEF Init, Passed, LinesParsed, WithHead
<1>6. Run(0, 0) = <<>>
  BY DEF Run
<1>7. Content
  BY <1>3, <1>5, <1>6 DEF Init, Content, WithHead
<1>8. 0 * IdLen = 0 /\ Limit \in Nat /\ Grain - 1 \in Nat /\ Len(<<>>) = 0
  BY ForwardAssumption
<1>9. Stored
  BY <1>3, <1>5, <1>8 DEF Init, Stored
<1>10. (<<>> \o <<>>) \o <<>> = <<>> /\ <<>> \o <<>> = <<>>
  OBVIOUS
<1>11. Delivery(stream, 0, 0) = <<>>
  BY FlattenEmpty DEF Delivery
<1>12. ClientBytes(<<>>) = 0
  <2>1. <<>> \in Seq(Nat) /\ \A i \in 1..Len(<<>>) : <<>>[i] = 0
    OBVIOUS
  <2> QED
    BY <2>1, AllOrNone
<1>13. Delivered
  BY <1>3, <1>5, <1>10, <1>11, <1>12 DEF Init, Delivered
<1> QED
  BY <1>4, <1>7, <1>9, <1>13 DEF IInv

LEMMA HeadHereFacts ==
  ASSUME NEW s \in Seq(Request), NEW k \in 1..Len(s), NEW g \in Nat, LineOf(s, k) <= g
  PROVE  /\ HeadHere(s, k, g) \in Seq(Nat)
         /\ Len(HeadHere(s, k, g)) = (g - End(s, k - 1)) + IdLen
         /\ ClientBytes(HeadHere(s, k, g)) = g - End(s, k - 1)
         /\ \A h \in Nat : g <= h => HeadHere(s, k, h) = HeadHere(s, k, g) \o Run(g, h)
<1>1. PICK e \in Nat : e = End(s, k - 1)
  BY RequestParts
<1>2. PICK l \in Nat : l = LineOf(s, k) /\ e < l /\ l <= g
  BY <1>1, RequestParts
<1>3. /\ Run(e, l) \in Seq(Nat) /\ Len(Run(e, l)) = l - e /\ ClientBytes(Run(e, l)) = l - e
      /\ Run(l, g) \in Seq(Nat) /\ Len(Run(l, g)) = g - l /\ ClientBytes(Run(l, g)) = g - l
  <2>1. e <= l
    BY <1>2
  <2> QED
    BY <1>2, <2>1, RunFacts, ClientBytesOfRun
<1>4. /\ IdLen \in Nat /\ Zeros(IdLen) \in Seq(Nat) /\ Len(Zeros(IdLen)) = IdLen
      /\ ClientBytes(Zeros(IdLen)) = 0
  BY ForwardAssumption, ZerosFacts, ClientBytesOfZeros
<1>5. PICK x \in Seq(Nat) : x = Run(e, l)
  BY <1>3
<1>6. PICK z \in Seq(Nat) : z = Zeros(IdLen)
  BY <1>4
<1>7. PICK y \in Seq(Nat) : y = Run(l, g)
  BY <1>3
<1>8. PICK u \in Seq(Nat) : u = x \o z /\ Len(u) = Len(x) + Len(z)
  BY Joining
<1>9. ClientBytes(u) = ClientBytes(x) + ClientBytes(z)
  BY <1>8, ClientBytesConcat
<1>10. PICK v \in Seq(Nat) : v = u \o y /\ Len(v) = Len(u) + Len(y)
  BY Joining
<1>11. ClientBytes(v) = ClientBytes(u) + ClientBytes(y)
  BY <1>10, ClientBytesConcat
<1>12. HeadHere(s, k, g) = v
  BY <1>1, <1>2, <1>5, <1>6, <1>7, <1>8, <1>10 DEF HeadHere
<1>13. Len(v) = (g - e) + IdLen /\ ClientBytes(v) = g - e
  <2>1. Len(x) = l - e /\ Len(z) = IdLen /\ Len(y) = g - l
    BY <1>3, <1>4, <1>5, <1>6, <1>7
  <2>2. ClientBytes(x) = l - e /\ ClientBytes(z) = 0 /\ ClientBytes(y) = g - l
    BY <1>3, <1>4, <1>5, <1>6, <1>7
  <2>3. Len(v) = ((l - e) + IdLen) + (g - l)
    BY <1>8, <1>10, <2>1
  <2>4. ClientBytes(v) = ((l - e) + 0) + (g - l)
    BY <1>9, <1>11, <2>2
  <2> QED
    BY <1>2, <1>4, <2>3, <2>4, SMTT(30)
<1>14. ASSUME NEW h \in Nat, g <= h
       PROVE  HeadHere(s, k, h) = v \o Run(g, h)
  <2>1. Run(l, h) = Run(l, g) \o Run(g, h) /\ Run(g, h) \in Seq(Nat)
    BY <1>2, <1>14, RunSplit, RunFacts
  <2>2. PICK w \in Seq(Nat) : w = Run(g, h)
    BY <2>1
  <2>3. HeadHere(s, k, h) = u \o (y \o w)
    BY <1>1, <1>2, <1>5, <1>6, <1>7, <1>8, <2>1, <2>2 DEF HeadHere
  <2>4. Regrouped(u, y, w)
    BY Grouped
  <2> QED
    BY <1>10, <2>2, <2>3, <2>4 DEF Regrouped
<1> QED
  BY <1>1, <1>12, <1>13, <1>14

-----------------------------------------------------------------------------
(* Reading from the client.                                                 *)

\* How much one read takes.
LEMMA ReadSize ==
  ASSUME NEW sys \in Nat, 1 <= sys, NEW space \in Nat, 1 <= space
  PROVE  LET n == Min({sys, RoundUp(Min({sys, space}))})
         IN n \in Nat /\ 1 <= n /\ n <= sys /\ n <= space + (Grain - 1)
<1>1. PICK m \in Nat : m = Min({sys, space}) /\ 1 <= m /\ m <= space
  BY MinFacts
<1>2. RoundUp(m) \in Nat /\ m <= RoundUp(m) /\ RoundUp(m) <= m + (Grain - 1)
  BY RoundUpFacts
<1>3. PICK r \in Nat : r = RoundUp(m) /\ 1 <= r /\ r <= space + (Grain - 1)
  <2>1. Grain - 1 \in Nat
    BY ForwardAssumption
  <2> QED
    BY <1>1, <1>2, <2>1
<1>4. PICK n \in Nat : n = Min({sys, r}) /\ 1 <= n /\ n <= sys /\ n <= r
  BY <1>3, MinFacts
<1>5. n <= space + (Grain - 1)
  <2>1. Grain - 1 \in Nat
    BY ForwardAssumption
  <2> QED
    BY <1>3, <1>4, <2>1
<1> QED
  BY <1>1, <1>3, <1>4, <1>5

LEMMA AppendedBuffer ==
  ASSUME NEW q \in Seq(Buffer), NEW b \in Buffer
  PROVE  /\ Append(q, b) \in Seq(Buffer) /\ Len(Append(q, b)) = Len(q) + 1
         /\ Len(q) \in Nat /\ Append(q, b)[Len(q) + 1] = b
         /\ \A i \in 1..Len(q) : Append(q, b)[i] = q[i]
         /\ Bytes(Append(q, b)) = Bytes(q) \o b.data
         /\ Total(UsedOf(Append(q, b))) = Total(UsedOf(q)) + Used(b)
<1>1. /\ Append(q, b) \in Seq(Buffer) /\ Len(Append(q, b)) = Len(q) + 1
      /\ Len(q) \in Nat /\ Append(q, b)[Len(q) + 1] = b
      /\ \A i \in 1..Len(q) : Append(q, b)[i] = q[i]
  BY AppendProperties
<1>2. Append(q, b) = q \o <<b>>
  OBVIOUS
<1>3. <<b>> \in Seq(Buffer) /\ Bytes(<<b>>) = b.data /\ Total(UsedOf(<<b>>)) = Used(b)
  BY OneBuffer
<1> QED
  BY <1>1, <1>2, <1>3, BytesConcat, TotalsConcat

LEMMA ReadInvariant ==
  ASSUME IInv, NEW sys \in 1..Length, Read(sys)
  PROVE  IInv'
<1>0. Types /\ Filled /\ Places /\ Content /\ Stored /\ Delivered
  BY DEF IInv
<1>1. /\ stream \in Seq(Request) /\ Len(stream) \in Nat
      /\ req - 1 \in Nat /\ End(stream, req - 1) \in Nat
      /\ End(stream, Len(stream)) \in Nat /\ Length = End(stream, Len(stream))
  BY <1>0, Streaming
<1>2. /\ readbuf \in Seq(Buffer) /\ writebuf \in Seq(Buffer) /\ wire \in Seq(Nat)
      /\ got \in Nat /\ rUsed \in Nat /\ wUsed \in Nat
  BY <1>0 DEF Types
<1>3. PICK space \in Nat : space = (Limit - rUsed) + (Limit - wUsed) /\ 1 <= space
  <2>1. Limit \in Nat
    BY ForwardAssumption
  <2>2. (Limit - rUsed) + (Limit - wUsed) \in Nat /\ 1 <= (Limit - rUsed) + (Limit - wUsed)
    BY <1>2, <2>1 DEF Read
  <2> QED
    BY <2>2
<1>4. PICK n \in Nat : /\ n = Min({sys, RoundUp(Min({sys, space}))})
                       /\ 1 <= n /\ n <= sys /\ n <= space + (Grain - 1)
  <2>1. sys \in Nat /\ 1 <= sys
    BY <1>1
  <2> QED
    BY <1>3, <2>1, ReadSize
<1>5. /\ got' = got + n /\ rUsed' = rUsed + n
      /\ readbuf' = Append(readbuf, NewBuf([i \in 1..n |-> got + i]))
      /\ ~busy /\ busy' = TRUE /\ got + sys <= End(stream, Len(stream))
      /\ UNCHANGED <<stream, writebuf, wUsed, stat, parse_buf, parse_pos, curlen, req, wire>>
  BY <1>1, <1>3, <1>4 DEF Read
<1>6. got' \in Nat /\ got <= got' /\ got' - got = n /\ got' <= End(stream, Len(stream))
  <2>1. PICK m \in Nat : m = End(stream, Len(stream))
    BY <1>1
  <2>2. PICK g \in Nat : g = got
    BY <1>2
  <2>3. g + sys <= m /\ sys \in Nat
    BY <1>1, <1>5, <2>1, <2>2
  <2>4. g + n \in Nat /\ g <= g + n /\ (g + n) - g = n /\ g + n <= m
    BY <1>4, <2>3
  <2> QED
    BY <1>5, <2>1, <2>2, <2>4
<1>7. PICK a \in Seq(Nat) : a = Run(got, got') /\ Len(a) = n
  BY <1>2, <1>6, RunFacts
<1>8. PICK b \in Buffer : b.data = a /\ Used(b) = n /\ readbuf' = Append(readbuf, b)
  <2>1. PICK b \in Buffer : b = [off |-> 0, data |-> a]
    <3>1. [off |-> 0, data |-> a] \in Buffer
      BY DEF Buffer
    <3> QED
      BY <3>1
  <2>2. NewBuf([i \in 1..n |-> got + i]) = b
    BY <1>6, <1>7, <2>1 DEF NewBuf, Run
  <2> QED
    BY <1>5, <1>7, <2>1, <2>2 DEF Used
<1>9. /\ readbuf' \in Seq(Buffer) /\ Len(readbuf') = Len(readbuf) + 1
      /\ Len(readbuf) \in Nat /\ readbuf'[Len(readbuf) + 1] = b
      /\ \A i \in 1..Len(readbuf) : readbuf'[i] = readbuf[i]
      /\ Bytes(readbuf') = Bytes(readbuf) \o a
      /\ Total(UsedOf(readbuf')) = Total(UsedOf(readbuf)) + n
  BY <1>2, <1>8, AppendedBuffer
<1>10. Types'
  <2>1. rUsed' \in Nat /\ busy' \in BOOLEAN
    BY <1>2, <1>4, <1>5, SMTT(30)
  <2> QED
    BY <1>0, <1>5, <1>6, <1>9, <2>1 DEF Types
<1>11. Filled'
  <2> SUFFICES ASSUME NEW i \in 1..Len(readbuf') PROVE Used(readbuf'[i]) > 0
    BY DEF Filled
  <2>1. i \in 1..Len(readbuf) \/ i = Len(readbuf) + 1
    BY <1>9
  <2> QED
    BY <1>0, <1>4, <1>8, <1>9, <2>1 DEF Filled
<1>12. Places'
  <2>1. parse_buf = Len(readbuf) /\ (readbuf # <<>> => parse_pos = Used(readbuf[Len(readbuf)]))
    BY <1>0, <1>5 DEF Places
  <2>2. parse_buf > 0 => parse_pos = Used(readbuf'[parse_buf])
    <3>1. SUFFICES ASSUME parse_buf > 0 PROVE parse_pos = Used(readbuf'[parse_buf])
      OBVIOUS
    <3>2. readbuf # <<>> /\ Len(readbuf) \in 1..Len(readbuf)
      BY <1>2, <2>1, <3>1
    <3> QED
      BY <1>9, <2>1, <3>2
  <2>3. ~(stat = "BODYREQ" /\ parse_buf > 0)
    BY <1>0, <1>5 DEF Places
  <2> QED
    BY <1>0, <1>5, <1>9, <2>1, <2>2, <2>3 DEF Places
<1>13. /\ Passed' = Passed /\ LinesParsed' = LinesParsed
       /\ WithHead' <=> WithHead
       /\ WithHead => stat = "HEADREQ"
  BY <1>0, <1>5 DEF Passed, LinesParsed, WithHead, Places
<1>14. Passed \in Nat /\ Passed <= got
  BY <1>0, <1>1, Current, SMTT(30) DEF Content, Passed, Types
<1>15. ~(stat = "BODYREQ" /\ parse_buf > 0)
  BY <1>0, <1>5 DEF Places
<1>16. ~WithHead => Bytes(readbuf') = Run(Passed, got')
  <2>1. SUFFICES ASSUME ~WithHead PROVE Bytes(readbuf') = Run(Passed, got')
    OBVIOUS
  <2>2. Bytes(readbuf) = Run(Passed, got)
    BY <1>0, <2>1 DEF Content
  <2>3. Run(Passed, got') = Run(Passed, got) \o Run(got, got')
    <3>1. PICK g \in Nat : g = got
      BY <1>2
    <3>2. PICK h \in Nat : h = got'
      BY <1>6
    <3>3. PICK p \in Nat : p = Passed
      BY <1>14
    <3>4. p <= g /\ g <= h
      BY <1>6, <1>14, <3>1, <3>2, <3>3
    <3>5. Run(p, h) = Run(p, g) \o Run(g, h)
      BY <3>4, RunSplit
    <3> QED
      BY <3>1, <3>2, <3>3, <3>5
  <2> QED
    BY <1>7, <1>9, <2>2, <2>3
<1>17. WithHead => /\ LineOf(stream, req) <= got'
                   /\ Bytes(readbuf') = HeadHere(stream, req, got')
  <2>1. SUFFICES ASSUME WithHead PROVE /\ LineOf(stream, req) <= got'
                                       /\ Bytes(readbuf') = HeadHere(stream, req, got')
    OBVIOUS
  <2>2. LineOf(stream, req) <= got /\ Bytes(readbuf) = HeadHere(stream, req, got)
    BY <1>0, <2>1 DEF Content
  <2>3. req \in 1..Len(stream) /\ LineOf(stream, req) \in Nat
    <3>1. req \in Nat /\ 1 <= req /\ req <= Len(stream)
      BY <1>0, <1>13, <2>1 DEF Types
    <3> QED
      BY <1>0, <1>1, <3>1, Current
  <2>4. HeadHere(stream, req, got') = HeadHere(stream, req, got) \o Run(got, got')
    BY <1>1, <1>2, <1>6, <2>2, <2>3, HeadHereFacts, ZenonT(60)
  <2> QED
    BY <1>2, <1>6, <1>7, <1>9, <2>2, <2>3, <2>4
<1>18. Content'
  <2>1. Passed <= got'
    BY <1>2, <1>6, <1>14
  <2>2. /\ ~WithHead' => Bytes(readbuf') = Run(Passed', got')
        /\ WithHead' => /\ LineOf(stream', req') <= got'
                        /\ Bytes(readbuf') = HeadHere(stream', req', got')
    BY <1>5, <1>13, <1>16, <1>17
  <2>3. ~(stat' = "BODYREQ" /\ parse_buf' > 0)
    BY <1>5, <1>15
  <2>4. /\ stat' = "BODYREQ" /\ parse_buf' = 0 => curlen' < stream'[req'].body
        /\ stat' # "BODYREQ" \/ parse_buf' > 0 => curlen' = 0
    BY <1>0, <1>5 DEF Content
  <2> QED
    BY <1>13, <2>1, <2>2, <2>3, <2>4 DEF Content
<1>19. Stored'
  <2>1. Total(UsedOf(readbuf')) <= rUsed' /\ wUsed' = Total(MusedOf(writebuf'))
    <3>1. Total(UsedOf(readbuf)) \in Nat /\ Total(UsedOf(readbuf)) <= rUsed
      BY <1>0, <1>2, UsedWithinMused DEF Stored
    <3>2. Total(UsedOf(readbuf)) + n <= rUsed + n
      BY <1>2, <3>1
    <3> QED
      BY <1>0, <1>5, <1>9, <3>2 DEF Stored
  <2>2. PICK u \in Nat : u = Len(Bytes(readbuf)) /\ u <= rUsed
    BY <1>0, <1>2, BytesLength, BytesType DEF Stored
  <2>3. PICK v \in Nat : v = Len(Bytes(writebuf)) /\ v <= wUsed
    BY <1>0, <1>2, BytesLength, BytesType, UsedWithinMused DEF Stored
  <2>4. PICK ids \in Nat : ids = LinesParsed * IdLen
    <3>1. LinesParsed \in Nat /\ LinesParsed <= LinesParsed
      BY <1>0, <1>1, LinesBefore
    <3> QED
      BY <3>1, ForwardAssumption, Products
  <2>5. PICK x \in Seq(Nat) : x = Bytes(readbuf)
    BY <1>2, BytesType
  <2>6. Len(x \o a) = Len(x) + Len(a)
    OBVIOUS
  <2>7. Len(Bytes(readbuf')) = u + n
    BY <1>7, <1>9, <2>2, <2>5, <2>6
  <2>8. (u + n) + v <= (2 * Limit + (Grain - 1)) + ids
    <3>1. Limit \in Nat /\ Grain - 1 \in Nat
      BY ForwardAssumption
    <3>2. PICK l \in Nat : l = Limit
      BY <3>1
    <3>3. PICK g \in Nat : g = Grain - 1
      BY <3>1
    <3>4. n <= ((l - rUsed) + (l - wUsed)) + g
      BY <1>3, <1>4, <3>2, <3>3
    <3>5. PICK ru \in Nat, wu \in Nat : ru = rUsed /\ wu = wUsed
      BY <1>2
    <3>6. (u + n) + v <= (2 * l + g) + ids
      BY <2>2, <2>3, <3>4, <3>5
    <3> QED
      BY <3>2, <3>3, <3>6
  <2> QED
    BY <1>5, <1>13, <2>1, <2>3, <2>4, <2>7, <2>8 DEF Stored
<1>20. Delivered'
  <2>1. PICK w \in Seq(Nat) : w = wire \o Bytes(writebuf)
    BY <1>2, BytesType, Joining
  <2>2. PICK x \in Seq(Nat) : x = Bytes(readbuf)
    BY <1>2, BytesType
  <2>3. w \o x = Delivery(stream, got, LinesParsed) /\ ClientBytes(w) = Passed
    BY <1>0, <2>1, <2>2 DEF Delivered
  <2>4. \A p \in (got + 1)..got' : p \notin {LineOf(stream, k) : k \in 1..LinesParsed}
    <3>1. \A k \in 1..LinesParsed : LineOf(stream, k) \in Nat /\ LineOf(stream, k) <= got
      BY <1>0, LinesBefore
    <3> QED
      BY <1>2, <1>6, <3>1
  <2>5. Delivery(stream, got', LinesParsed) = (w \o x) \o a
    <3>1. PICK g \in Nat : g = got
      BY <1>2
    <3>2. PICK h \in Nat : h = got' /\ g <= h
      BY <1>6, <3>1
    <3>3. Delivery(stream, h, LinesParsed) = Delivery(stream, g, LinesParsed) \o Run(g, h)
      BY <2>4, <3>1, <3>2, DeliveryRun
    <3> QED
      BY <1>7, <2>3, <3>1, <3>2, <3>3
  <2>6. Regrouped(w, x, a)
    BY Grouped
  <2>7. w \o Bytes(readbuf') = Delivery(stream, got', LinesParsed)
    BY <1>9, <2>2, <2>5, <2>6 DEF Regrouped
  <2> QED
    BY <1>5, <1>13, <2>1, <2>3, <2>7 DEF Delivered
<1> QED
  BY <1>10, <1>11, <1>12, <1>18, <1>19, <1>20 DEF IInv

LEMMA WriteInvariant ==
  ASSUME IInv, NEW n \in Nat, Write(n)
  PROVE  IInv'
<1>0. Types /\ Filled /\ Places /\ Content /\ Stored /\ Delivered
  BY DEF IInv
<1>1. /\ readbuf \in Seq(Buffer) /\ writebuf \in Seq(Buffer) /\ wire \in Seq(Nat)
      /\ wUsed = Total(MusedOf(writebuf))
  BY <1>0 DEF Types, Stored
<1>2. /\ writebuf' \in Seq(Buffer) /\ wire' \in Seq(Nat) /\ wUsed' \in Nat
      /\ wUsed' = Total(MusedOf(writebuf'))
      /\ wire' \o Bytes(writebuf') = wire \o Bytes(writebuf)
      /\ Len(Bytes(writebuf')) <= Len(Bytes(writebuf))
  BY <1>1, WriteFacts
<1>3. UNCHANGED <<stream, got, readbuf, rUsed, stat, parse_buf, parse_pos, curlen, busy, req>>
  BY DEF Write
<1>4. Passed' = Passed /\ LinesParsed' = LinesParsed /\ (WithHead' <=> WithHead)
  BY <1>3 DEF Passed, LinesParsed, WithHead
<1>5. Types'
  BY <1>0, <1>2, <1>3 DEF Types
<1>6. Filled' /\ Places'
  BY <1>0, <1>3 DEF Filled, Places
<1>7. Content'
  BY <1>0, <1>3, <1>4 DEF Content
<1>8. Stored'
  <2>1. PICK u \in Nat : u = Len(Bytes(readbuf))
    BY <1>1, BytesType
  <2>2. PICK v \in Nat : v = Len(Bytes(writebuf))
    BY <1>1, BytesType
  <2>3. PICK w \in Nat : w = Len(Bytes(writebuf'))
    BY <1>2, BytesType
  <2>4. PICK m \in Nat : m = (2 * Limit + (Grain - 1)) + LinesParsed * IdLen
    <3>1. LinesParsed \in Nat /\ LinesParsed <= LinesParsed
      BY <1>0, LinesBefore, Streaming
    <3>2. LinesParsed * IdLen \in Nat /\ Limit \in Nat /\ Grain - 1 \in Nat
      BY <3>1, ForwardAssumption, Products
    <3> QED
      BY <3>2
  <2>5. u + v <= m /\ w <= v
    BY <1>0, <1>2, <2>1, <2>2, <2>3, <2>4 DEF Stored
  <2>6. u + w <= m
    BY <2>5
  <2> QED
    BY <1>0, <1>2, <1>3, <1>4, <2>1, <2>3, <2>4, <2>6 DEF Stored
<1>9. Delivered'
  BY <1>0, <1>2, <1>3, <1>4 DEF Delivered
<1> QED
  BY <1>5, <1>6, <1>7, <1>8, <1>9 DEF IInv

-----------------------------------------------------------------------------
(* The parse loop.                                                          *)

\* Where the byte the parser looks for can be: only in the last buffer.
LEMMA FoundFacts ==
  ASSUME Types, Places, NEW p \in Nat, NEW f \in Found(p)
  PROVE  /\ readbuf # <<>> /\ f[1] = Len(readbuf) /\ f[2] \in Nat /\ 1 <= f[2]
         /\ f[2] <= Used(readbuf[Len(readbuf)])
         /\ readbuf[Len(readbuf)].data[f[2]] = p
<1>1. /\ f[1] \in From..Len(readbuf) /\ f[2] \in 1..Length
      /\ f[2] <= Used(readbuf[f[1]]) /\ readbuf[f[1]].data[f[2]] = p
      /\ f[1] = parse_buf => f[2] > parse_pos
  BY DEF Found
<1>2. readbuf \in Seq(Buffer) /\ Len(readbuf) \in Nat /\ parse_buf \in Nat
  BY DEF Types
<1>3. f[2] \in Nat /\ 1 <= f[2]
  BY <1>1, Streaming
<1>4. f[1] = Len(readbuf)
  <2>1. CASE parse_buf = Len(readbuf)
    BY <1>1, <1>2, <2>1 DEF From
  <2>2. CASE parse_buf # Len(readbuf) /\ parse_buf = 0
    <3>1. Len(readbuf) = 1
      BY <2>2 DEF Places
    <3>2. f[1] \in 1..1
      BY <1>1, <2>2, <3>1 DEF From
    <3> QED
      BY <3>1, <3>2
  <2>3. CASE parse_buf # Len(readbuf) /\ parse_buf > 0
    <3>1. parse_buf + 1 = Len(readbuf) /\ parse_pos = Used(readbuf[parse_buf])
      BY <2>3 DEF Places
    <3>2. f[1] = parse_buf \/ f[1] = Len(readbuf)
      BY <1>1, <1>2, <2>3, <3>1 DEF From
    <3>3. ASSUME f[1] = parse_buf PROVE FALSE
      <4>1. parse_buf \in 1..Len(readbuf)
        BY <1>2, <2>3, <3>1
      <4>2. Used(readbuf[parse_buf]) \in Nat
        BY <1>2, <4>1, ListsOf, BufferFacts
      <4> QED
        BY <1>1, <1>3, <3>1, <3>3, <4>2
    <3> QED
      BY <3>2, <3>3
  <2> QED
    BY <1>2, <2>1, <2>2, <2>3
<1>5. readbuf # <<>>
  BY <1>1, <1>2, <1>4 DEF From
<1> QED
  BY <1>1, <1>3, <1>4, <1>5

\* The last buffer, and a byte of it, as part of all the bytes.
LEMMA LastBytes ==
  ASSUME NEW q \in Seq(Buffer), q # <<>>, NEW j \in Nat, 1 <= j, j <= Used(q[Len(q)])
  PROVE  LET n == Len(Bytes(q)) - (Used(q[Len(q)]) - j)
         IN /\ n \in 1..Len(Bytes(q)) /\ Bytes(q)[n] = q[Len(q)].data[j]
            /\ Used(q[Len(q)]) \in Nat
<1>1. /\ q[Len(q)] \in Buffer /\ SubSeq(q, 1, Len(q) - 1) \in Seq(Buffer)
      /\ q = SubSeq(q, 1, Len(q) - 1) \o <<q[Len(q)]>>
  BY LastAndRest
<1>2. PICK b \in Buffer : b = q[Len(q)]
  BY <1>1
<1>3. PICK f \in Seq(Buffer) : f = SubSeq(q, 1, Len(q) - 1) /\ q = f \o <<b>>
  BY <1>1, <1>2
<1>4. PICK x \in Seq(Nat) : x = Bytes(f)
  BY BytesType
<1>5. PICK y \in Seq(Nat) : y = b.data /\ Len(y) = Used(b)
  BY BufferFacts DEF Used
<1>6. <<b>> \in Seq(Buffer) /\ Bytes(<<b>>) = y
  BY <1>5, OneBuffer
<1>7. Bytes(q) = x \o y
  BY <1>3, <1>4, <1>6, BytesConcat
<1>8. PICK c \in Seq(Nat) : c = x \o y /\ Len(c) = Len(x) + Len(y)
  BY Joining
<1>9. j \in 1..Len(y)
  BY <1>2, <1>5
<1>10. c[Len(x) + j] = y[j]
  BY <1>8, <1>9
<1>11. Len(x) + j = Len(c) - (Len(y) - j) /\ Len(x) + j \in 1..Len(c)
  BY <1>8, <1>9
<1> QED
  BY <1>2, <1>5, <1>7, <1>8, <1>10, <1>11, SMTT(30)

\* The parser does not stop with bytes of a next request in readbuf while id
\* heads are to be inserted: the line that starts there is there whole.
LEMMA NothingLeft ==
  ASSUME IInv, WholeLines, ParseAgain, stat = "COMMONDREQ", IdLen > 0
  PROVE  readbuf = <<>>
<1>0. Types /\ Filled /\ Places /\ Content
  BY DEF IInv
<1>1. SUFFICES ASSUME readbuf # <<>> PROVE FALSE
  OBVIOUS
<1>2. /\ readbuf \in Seq(Buffer) /\ Len(readbuf) \in Nat /\ got \in Nat
      /\ got <= End(stream, Len(stream)) /\ req \in Nat /\ req <= Len(stream) + 1
  BY <1>0 DEF Types
<1>3. parse_buf = 0 /\ Len(readbuf) = 1
  BY <1>0, <1>1, <1>2 DEF Places
<1>4. PICK b \in Buffer : b = readbuf[1] /\ readbuf = <<b>>
  BY <1>2, <1>3, OneElement
<1>5. PICK e \in Nat : e = End(stream, req - 1) /\ e = Passed
  BY <1>0, Streaming DEF Passed
<1>6. PICK g \in Nat : g = got /\ e <= g
  BY <1>0, <1>2, <1>5 DEF Content
<1>7. b.data = Run(e, g)
  <2>1. Bytes(readbuf) = Run(e, g)
    BY <1>0, <1>5, <1>6 DEF Content, WithHead
  <2> QED
    BY <1>4, <2>1, OneBuffer
<1>8. Used(b) = g - e /\ e < g
  <2>1. Used(b) > 0
    BY <1>0, <1>3, <1>4 DEF Filled
  <2>2. Len(Run(e, g)) = g - e
    BY <1>6, RunFacts
  <2> QED
    BY <1>6, <1>7, <2>1, <2>2 DEF Used
<1>9. req <= Len(stream)
  <2>1. SUFFICES ASSUME ~(req <= Len(stream)) PROVE FALSE
    OBVIOUS
  <2>2. Len(stream) \in Nat /\ End(stream, Len(stream)) \in Nat
    BY <1>0, Streaming
  <2>3. req - 1 = Len(stream)
    BY <1>2, <2>1, <2>2
  <2> QED
    BY <1>2, <1>5, <1>6, <1>8, <2>2, <2>3
<1>10. PICK l \in Nat : l = LineOf(stream, req) /\ e < l
  BY <1>0, <1>5, <1>9, Current
<1>11. l <= g
  <2>1. NoLineIsCut
    BY ForwardAssumption DEF WholeLines
  <2>2. req \in DOMAIN stream
    BY <1>0, <1>9, Streaming DEF Types
  <2>3. ~(EndOf(req - 1) < got /\ got < LineEnd(req))
    BY <2>1, <2>2 DEF NoLineIsCut
  <2>4. EndOf(req - 1) = e /\ LineEnd(req) = l
    BY <1>5, <1>10, Positions
  <2> QED
    BY <1>6, <1>8, <2>3, <2>4
<1>12. PICK j \in Nat : j = l - e /\ 1 <= j /\ j <= Used(b) /\ j <= g
  BY <1>6, <1>8, <1>10, <1>11
<1>13. b.data[j] = l
  <2>1. j \in 1..(g - e)
    BY <1>8, <1>12
  <2>2. Run(e, g)[j] = e + j
    BY <1>6, <2>1, RunFacts
  <2>3. e + j = l
    BY <1>10, <1>12
  <2> QED
    BY <1>7, <2>2, <2>3
<1>14. <<1, j>> \in Found(l)
  <2>1. From = 1 /\ 1 # parse_buf /\ 1 \in 1..1
    BY <1>3 DEF From
  <2>2. Length \in Nat /\ g <= Length
    BY <1>0, <1>2, <1>6, Streaming
  <2>3. j \in 1..Length
    BY <1>6, <1>12, <2>2
  <2>4. <<1, j>> \in (From..Len(readbuf)) \X (1..Length)
    BY <1>3, <2>1, <2>3
  <2> QED
    BY <1>4, <1>12, <1>13, <2>1, <2>4 DEF Found
<1>15. Target = l
  BY <1>10, Positions DEF Target
<1> QED
  BY <1>2, <1>9, <1>14, <1>15, Streaming, <1>0 DEF ParseAgain

LEMMA ParseAgainInvariant ==
  ASSUME IInv, WholeLines, ParseAgain
  PROVE  IInv'
<1>0. Types /\ Filled /\ Places /\ Content /\ Stored /\ Delivered
  BY DEF IInv
<1>1. readbuf \in Seq(Buffer) /\ Len(readbuf) \in Nat
  BY <1>0 DEF Types
<1>2. /\ parse_buf' = Len(readbuf) /\ busy' = FALSE
      /\ parse_pos' = IF readbuf = <<>> THEN 0 ELSE Used(readbuf[Len(readbuf)])
      /\ stat \in {"COMMONDREQ", "HEADREQ"}
      /\ UNCHANGED <<stream, got, readbuf, rUsed, writebuf, wUsed, stat, curlen, req, wire>>
  BY DEF ParseAgain, Last
<1>3. parse_pos' \in Nat
  <2>1. CASE readbuf = <<>>
    BY <1>2, <2>1
  <2>2. CASE readbuf # <<>>
    BY <1>1, <1>2, <2>2, LastAndRest, BufferFacts
  <2> QED
    BY <2>1, <2>2
<1>4. /\ Passed' = Passed /\ LinesParsed' = LinesParsed
      /\ WithHead' <=> WithHead
  BY <1>2 DEF Passed, LinesParsed, WithHead
<1>5. Types' /\ Filled'
  BY <1>0, <1>1, <1>2, <1>3 DEF Types, Filled
<1>6. Places'
  <2>1. stat = "COMMONDREQ" /\ IdLen > 0 => parse_buf' = 0
    BY <1>2, NothingLeft
  <2> QED
    BY <1>2, <2>1 DEF Places
<1>7. Content'
  BY <1>0, <1>2, <1>4 DEF Content
<1>8. Stored' /\ Delivered'
  BY <1>0, <1>2, <1>4 DEF Stored, Delivered
<1> QED
  BY <1>5, <1>6, <1>7, <1>8 DEF IInv

\* Where the end of the request line is.
LEMMA LineFound ==
  ASSUME IInv, stat = "COMMONDREQ", req <= Len(stream), NEW f \in Found(LineEnd(req))
  PROVE  /\ LineOf(stream, req) <= got
         /\ Used(readbuf[Len(readbuf)]) - f[2] = got - LineOf(stream, req)
<1>0. Types /\ Places /\ Content
  BY DEF IInv
<1>1. PICK l \in Nat : l = LineOf(stream, req) /\ l = LineEnd(req)
  BY <1>0, Current, Positions
<1>2. PICK j \in Nat : j = f[2]
  BY <1>0, <1>1, FoundFacts
<1>3. /\ readbuf # <<>> /\ 1 <= j /\ j <= Used(readbuf[Len(readbuf)])
      /\ readbuf[Len(readbuf)].data[j] = l
  BY <1>0, <1>1, <1>2, FoundFacts
<1>4. PICK e \in Nat : e = End(stream, req - 1) /\ e = Passed
  BY <1>0, Streaming DEF Passed
<1>5. PICK g \in Nat : g = got /\ e <= g
  BY <1>0, <1>4 DEF Content, Types
<1>6. PICK x \in Seq(Nat) : /\ x = Bytes(readbuf) /\ x = Run(e, g) /\ Len(x) = g - e
                            /\ \A i \in 1..(g - e) : x[i] = e + i
  <2>1. Bytes(readbuf) = Run(e, g)
    BY <1>0, <1>4, <1>5 DEF Content, WithHead
  <2> QED
    BY <1>5, <2>1, RunFacts
<1>7. PICK u \in Nat : u = Used(readbuf[Len(readbuf)])
  BY <1>0, <1>3, LastBytes DEF Types
<1>8. Len(x) - (u - j) \in 1..Len(x) /\ x[Len(x) - (u - j)] = l
  BY <1>0, <1>3, <1>6, <1>7, LastBytes DEF Types
<1>9. PICK n \in 1..(g - e) : n = (g - e) - (u - j) /\ x[n] = l
  BY <1>6, <1>8
<1>10. l = e + n
  BY <1>6, <1>9
<1>11. l <= g /\ u - j = g - l
  BY <1>5, <1>9, <1>10
<1> QED
  BY <1>1, <1>2, <1>5, <1>7, <1>11

Halved(t, j, a, b) == SubSeq(t, 1, j) = a /\ SubSeq(t, j + 1, Len(t)) = b

LEMMA HalvesAre ==
  ASSUME NEW t \in Seq(Nat), NEW a \in Seq(Nat), NEW b \in Seq(Nat), Cuts(t, a, b),
         NEW j \in Nat, j = Len(a)
  PROVE  Halved(t, j, a, b)
<1>1. Len(t) = Len(a) + Len(b) /\ j <= Len(t)
  BY DEF Cuts
<1>2. /\ SubSeq(t, 1, j) \in Seq(Nat) /\ SubSeq(t, j + 1, Len(t)) \in Seq(Nat)
      /\ Len(SubSeq(t, j + 1, Len(t))) = Len(t) - j
      /\ t = SubSeq(t, 1, j) \o SubSeq(t, j + 1, Len(t))
  BY <1>1, Halves
<1>3. PICK u \in Seq(Nat) : u = SubSeq(t, 1, j)
  BY <1>2
<1>4. PICK v \in Seq(Nat) : v = SubSeq(t, j + 1, Len(t))
  BY <1>2
<1>5. Cuts(t, u, v)
  BY <1>2, <1>3, <1>4 DEF Cuts
<1>6. Len(v) = Len(b)
  BY <1>1, <1>2, <1>4
<1>7. u = a /\ v = b
  BY <1>5, <1>6, SameHalves
<1> QED
  BY <1>3, <1>4, <1>7 DEF Halved

\* Request k up to byte g, before and after the id head is inserted.
LEMMA InsertedHead ==
  ASSUME NEW s \in Seq(Request), NEW k \in 1..Len(s), NEW g \in Nat, LineOf(s, k) <= g,
         NEW w \in Seq(Nat), w \o Run(End(s, k - 1), g) = Delivery(s, g, k - 1)
  PROVE  w \o HeadHere(s, k, g) = Delivery(s, g, k)
<1>1. PICK L \in 0..(Len(s) - 1) : L = k - 1 /\ k = L + 1
  <2>1. Len(s) \in Nat
    OBVIOUS
  <2> QED
    BY <2>1
<1>2. PICK e \in Nat : e = End(s, L)
  BY <1>1, RequestParts
<1>3. e <= g
  BY <1>1, <1>2, RequestParts
<1>4. PICK d \in Seq(Nat) : d = Delivery(s, e, L)
  BY <1>2, DeliveryStep
<1>5. PICK r \in Seq(Nat) : r = Run(e, g)
  BY <1>3, RunFacts
<1>6. PICK h \in Seq(Nat) : h = HeadHere(s, k, g)
  BY HeadHereFacts
<1>7. Delivery(s, g, L) = d \o r /\ Delivery(s, g, L + 1) = d \o h
  <2>1. LineOf(s, L + 1) <= g
    BY <1>1
  <2> QED
    BY <1>1, <1>2, <1>4, <1>5, <1>6, <2>1, DeliveryLine, ZenonT(60) DEF HeadHere
<1>8. PICK t \in Seq(Nat) : t = Delivery(s, g, L)
  BY DeliveryStep
<1>9. w = d
  <2>1. Cuts(t, w, r) /\ Cuts(t, d, r)
    BY <1>1, <1>2, <1>5, <1>7, <1>8 DEF Cuts
  <2> QED
    BY <2>1, SameHalves
<1> QED
  BY <1>1, <1>6, <1>7, <1>9

\* What ParseLine makes of readbuf, for either branch.
LineResult ==
  /\ readbuf' \in Seq(Buffer) /\ readbuf' # <<>> /\ parse_buf' = Len(readbuf')
  /\ \A i \in 1..Len(readbuf') : Used(readbuf'[i]) > 0
  /\ parse_pos' \in Nat /\ rUsed' \in Nat
  /\ Total(UsedOf(readbuf')) <= rUsed'
  /\ Bytes(readbuf') = HeadHere(stream, req, got)

LEMMA InsertResult ==
  ASSUME IInv, stat = "COMMONDREQ", req <= Len(stream), NEW f \in Found(LineEnd(req)),
         IdLen > 0, InsertId(f[1], f[2])
  PROVE  LineResult
<1>0. Types /\ Filled /\ Places /\ Content /\ Stored
  BY DEF IInv
<1>1. LineOf(stream, req) <= got /\ Used(readbuf[Len(readbuf)]) - f[2] = got - LineOf(stream, req)
  BY LineFound
<1>2. PICK l \in Nat : l = LineOf(stream, req) /\ l = LineEnd(req)
  BY <1>0, Current, Positions
<1>3. PICK j \in Nat : j = f[2] /\ readbuf # <<>> /\ f[1] = Len(readbuf)
  BY <1>0, <1>2, FoundFacts
<1>4. readbuf \in Seq(Buffer) /\ Len(readbuf) \in Nat /\ got \in Nat /\ rUsed \in Nat
  BY <1>0 DEF Types
<1>5. Len(readbuf) = 1
  <2>1. parse_buf = 0
    BY <1>0 DEF Places
  <2>2. Len(readbuf) # 0
    BY <1>3, <1>4
  <2> QED
    BY <1>0, <2>1, <2>2 DEF Places
<1>6. PICK b \in Buffer : b = readbuf[1] /\ readbuf = <<b>>
  BY <1>4, <1>5, OneElement
<1>7. PICK e \in Nat : e = End(stream, req - 1) /\ e < l /\ e = Passed
  BY <1>0, <1>2, Current DEF Passed
<1>8. PICK g \in Nat : g = got /\ l <= g /\ e <= g /\ e <= l
  BY <1>1, <1>2, <1>4, <1>7
<1>9. PICK x \in Seq(Nat) : x = Run(e, l) /\ Len(x) = l - e
  BY <1>8, RunFacts
<1>10. PICK y \in Seq(Nat) : y = Run(l, g) /\ Len(y) = g - l
  BY <1>8, RunFacts
<1>11. PICK s \in Seq(Nat) : s = b.data /\ Used(b) = Len(s)
  BY BufferFacts DEF Used
<1>12. s = x \o y /\ Len(s) = g - e
  <2>1. Bytes(readbuf) = Run(e, g)
    BY <1>0, <1>7, <1>8 DEF Content, WithHead
  <2>2. s = Run(e, g) /\ Len(Run(e, g)) = g - e
    BY <1>6, <1>8, <1>11, <2>1, OneBuffer, RunFacts
  <2> QED
    BY <1>8, <1>9, <1>10, <2>2, RunSplit
<1>13. j = Len(x) /\ j <= Len(s)
  <2>1. Len(s) - j = g - l
    BY <1>1, <1>2, <1>3, <1>5, <1>6, <1>8, <1>11
  <2> QED
    BY <1>8, <1>9, <1>12, <2>1
<1>14. SubSeq(s, 1, j) = x /\ SubSeq(s, j + 1, Len(s)) = y
  <2>1. Cuts(s, x, y)
    BY <1>12 DEF Cuts
  <2>2. Halved(s, j, x, y)
    BY <1>13, <2>1, HalvesAre
  <2> QED
    BY <2>2 DEF Halved
<1>15. PICK z \in Seq(Nat) : z = Zeros(IdLen)
  BY ForwardAssumption, ZerosFacts
<1>16. PICK h \in Seq(Nat) : h = HeadHere(stream, req, got) /\ h = (x \o z) \o y
                             /\ Len(h) = (g - e) + IdLen
  <2>1. stream \in Seq(Request) /\ req \in 1..Len(stream)
    BY <1>0, Streaming DEF Types
  <2>2. /\ HeadHere(stream, req, g) \in Seq(Nat)
        /\ Len(HeadHere(stream, req, g)) = (g - e) + IdLen
    BY <1>2, <1>7, <1>8, <2>1, HeadHereFacts
  <2>3. HeadHere(stream, req, g) = (x \o z) \o y
    BY <1>2, <1>7, <1>9, <1>10, <1>15 DEF HeadHere
  <2> QED
    BY <1>8, <2>2, <2>3
<1>17. PICK c \in Buffer : c = [off |-> 0, data |-> h]
  <2>1. [off |-> 0, data |-> h] \in Buffer
    BY DEF Buffer
  <2> QED
    BY <2>1
<1>18. c.data = h /\ Used(c) = Len(h) /\ Mused(c) = Len(h)
  BY <1>17 DEF Used, Mused
<1>19. /\ readbuf' = <<c>> \o RemoveAt(readbuf, 1) /\ rUsed' = rUsed + Mused(c) - Used(b)
       /\ parse_buf' = 1 /\ parse_pos' = j + IdLen
  <2>1. c = NewBuf(SubSeq(b.data, 1, j) \o [n \in 1..IdLen |-> 0] \o SubSeq(b.data, j + 1, Used(b)))
    BY <1>11, <1>14, <1>15, <1>16, <1>17 DEF NewBuf, Zeros
  <2> QED
    BY <1>3, <1>5, <1>6, <2>1 DEF InsertId
<1>20. RemoveAt(readbuf, 1) = <<>> /\ <<c>> \o <<>> = <<c>>
  BY <1>6 DEF RemoveAt
<1>21. readbuf' = <<c>> /\ Len(<<c>>) = 1 /\ <<c>>[1] = c /\ <<c>> # <<>>
  BY <1>19, <1>20
<1>22. <<c>> \in Seq(Buffer) /\ Bytes(<<c>>) = h /\ Total(UsedOf(<<c>>)) = Len(h)
  BY <1>18, OneBuffer
<1>23. IdLen \in Nat /\ Len(h) \in Nat /\ Len(h) > 0
  BY <1>7, <1>8, <1>16, ForwardAssumption
<1>24. rUsed' \in Nat /\ Len(h) <= rUsed'
  <2>1. Len(s) <= rUsed /\ Len(s) \in Nat
    BY <1>0, <1>6, <1>11, OneBuffer DEF Stored
  <2> QED
    BY <1>4, <1>11, <1>18, <1>19, <1>23, <2>1
<1>25. parse_pos' \in Nat
  BY <1>19, <1>23
<1>26. \A i \in 1..Len(readbuf') : Used(readbuf'[i]) > 0
  BY <1>18, <1>21, <1>23
<1> QED
  BY <1>16, <1>19, <1>21, <1>22, <1>24, <1>25, <1>26 DEF LineResult

LEMMA ParseLineInvariant ==
  ASSUME IInv, ParseLine
  PROVE  IInv'
<1>0. Types /\ Filled /\ Places /\ Content /\ Stored /\ Delivered
  BY DEF IInv
<1>1. PICK f \in Found(LineEnd(req)) :
        IF IdLen > 0 THEN InsertId(f[1], f[2])
        ELSE /\ parse_buf' = f[1] /\ parse_pos' = f[2]
             /\ UNCHANGED <<readbuf, rUsed>>
  BY DEF ParseLine
<1>2. /\ busy /\ stat = "COMMONDREQ" /\ req <= Len(stream) /\ stat' = "HEADREQ"
      /\ UNCHANGED <<stream, got, writebuf, wUsed, curlen, busy, req, wire>>
  BY DEF ParseLine
<1>3. LineOf(stream, req) <= got
  BY <1>2, LineFound
<1>4. /\ End(stream, req - 1) \in Nat /\ LineOf(stream, req) \in Nat
      /\ End(stream, req - 1) < LineOf(stream, req)
  BY <1>0, <1>2, Current
<1>5. /\ stream \in Seq(Request) /\ req \in 1..Len(stream) /\ got \in Nat
      /\ readbuf \in Seq(Buffer) /\ writebuf \in Seq(Buffer) /\ wire \in Seq(Nat)
  BY <1>0, <1>2, Streaming DEF Types
<1>6. Passed = End(stream, req - 1) /\ Bytes(readbuf) = Run(End(stream, req - 1), got)
  BY <1>0, <1>2 DEF Content, Passed, WithHead
<1>7. LineResult
  <2>1. CASE IdLen > 0
    BY <1>1, <1>2, <2>1, InsertResult
  <2>2. CASE IdLen = 0
    <3>1. readbuf # <<>> /\ f[1] = Len(readbuf) /\ f[2] \in Nat
      <4>1. LineEnd(req) \in Nat
        BY <1>4, Positions
      <4> QED
        BY <1>0, <4>1, FoundFacts
    <3>2. /\ parse_buf' = Len(readbuf) /\ parse_pos' = f[2]
          /\ readbuf' = readbuf /\ rUsed' = rUsed
      BY <1>1, <2>2, <3>1
    <3>3. HeadHere(stream, req, got) = Run(End(stream, req - 1), got)
      <4>1. PICK e \in Nat : e = End(stream, req - 1)
        BY <1>4
      <4>2. PICK l \in Nat : l = LineOf(stream, req) /\ e <= l
        BY <1>4, <4>1
      <4>3. PICK g \in Nat : g = got /\ l <= g
        BY <1>3, <1>5, <4>2
      <4>4. Run(e, l) \in Seq(Nat) /\ Run(e, g) = Run(e, l) \o Run(l, g)
        BY <4>2, <4>3, RunFacts, RunSplit
      <4>5. Zeros(IdLen) = <<>>
        BY <2>2 DEF Zeros
      <4>6. PICK x \in Seq(Nat) : x = Run(e, l) /\ x \o <<>> = x
        BY <4>4
      <4> QED
        BY <4>1, <4>2, <4>3, <4>4, <4>5, <4>6 DEF HeadHere
    <3> QED
      BY <1>0, <1>6, <3>1, <3>2, <3>3 DEF LineResult, Types, Filled, Stored
  <2> QED
    BY <2>1, <2>2, ForwardAssumption
<1>8. req - 1 \in Nat /\ LinesParsed = req - 1 /\ LinesParsed' = req /\ (req - 1) + 1 = req
  BY <1>2, <1>5 DEF LinesParsed
<1>9. Passed' = Passed /\ WithHead'
  BY <1>2, <1>6 DEF Passed, WithHead
<1>10. Types'
  BY <1>0, <1>2, <1>7 DEF Types, LineResult
<1>11. Filled' /\ Places'
  BY <1>2, <1>7, <1>10 DEF Filled, Places, LineResult, Types
<1>12. Content'
  <2>1. Passed' <= got' /\ curlen' = 0
    BY <1>0, <1>2, <1>9 DEF Content
  <2> QED
    BY <1>2, <1>3, <1>7, <1>9, <2>1 DEF Content, LineResult
<1>13. Stored'
  <2>1. PICK u \in Nat : u = got - End(stream, req - 1)
    BY <1>3, <1>4, <1>5
  <2>2. Len(Bytes(readbuf)) = u /\ Len(Bytes(readbuf')) = u + IdLen
    <3>1. Len(Run(End(stream, req - 1), got)) = u
      <4>1. PICK e \in Nat : e = End(stream, req - 1)
        BY <1>4
      <4>2. PICK g \in Nat : g = got /\ e <= g
        BY <1>3, <1>4, <1>5, <4>1
      <4> QED
        BY <2>1, <4>1, <4>2, RunFacts
    <3>2. Len(HeadHere(stream, req, got)) = u + IdLen
      BY <1>3, <1>5, <2>1, HeadHereFacts
    <3> QED
      BY <1>6, <1>7, <3>1, <3>2 DEF LineResult
  <2>3. PICK v \in Nat : v = Len(Bytes(writebuf))
    BY <1>5, BytesType
  <2>4. PICK ids \in Nat : ids = LinesParsed * IdLen /\ ids + IdLen = LinesParsed' * IdLen
    <3>1. PICK k \in Nat : k = req - 1 /\ k + 1 = req /\ k <= k
      BY <1>8
    <3>2. k * IdLen \in Nat /\ (k + 1) * IdLen = k * IdLen + IdLen
      BY <3>1, ForwardAssumption, Products
    <3> QED
      BY <1>8, <3>1, <3>2
  <2>5. PICK m \in Nat : m = 2 * Limit + (Grain - 1)
    BY ForwardAssumption
  <2>6. u + v <= m + ids
    BY <1>0, <2>2, <2>3, <2>4, <2>5 DEF Stored
  <2>7. (u + IdLen) + v <= m + (ids + IdLen)
    BY <2>6, ForwardAssumption
  <2> QED
    BY <1>0, <1>2, <1>7, <2>2, <2>3, <2>4, <2>5, <2>7 DEF Stored, LineResult
<1>14. Delivered'
  <2>1. PICK w \in Seq(Nat) : w = wire \o Bytes(writebuf)
    BY <1>5, BytesType, Joining
  <2>2. w \o Run(End(stream, req - 1), got) = Delivery(stream, got, req - 1)
    BY <1>0, <1>6, <1>8, <2>1 DEF Delivered
  <2>3. w \o HeadHere(stream, req, got) = Delivery(stream, got, req)
    BY <1>3, <1>5, <2>2, InsertedHead
  <2> QED
    BY <1>0, <1>2, <1>7, <1>8, <1>9, <2>1, <2>3 DEF Delivered, LineResult
<1> QED
  BY <1>10, <1>11, <1>12, <1>13, <1>14 DEF IInv

-----------------------------------------------------------------------------
(* Forwarding.                                                              *)

LEMMA ConcatEntries ==
  ASSUME NEW t \in Seq(Nat), NEW a \in Seq(Nat), NEW b \in Seq(Nat), Cuts(t, a, b)
  PROVE  /\ Len(t) = Len(a) + Len(b)
         /\ \A i \in 1..Len(a) : t[i] = a[i]
         /\ \A i \in 1..Len(b) : t[Len(a) + i] = b[i]
<1>1. t = a \o b
  BY DEF Cuts
<1>2. Len(t) = Len(a) + Len(b)
  BY <1>1
<1>3. \A i \in 1..Len(a) : t[i] = a[i]
  BY <1>1
<1>4. ASSUME NEW i \in 1..Len(b) PROVE t[Len(a) + i] = b[i]
  <2>1. PICK j \in 1..(Len(a) + Len(b)) : j = Len(a) + i
    <3>1. Len(a) + i \in 1..(Len(a) + Len(b))
      BY i \in 1..Len(b)
    <3> QED
      BY <3>1
  <2>2. (a \o b)[j] = b[i]
    BY <2>1
  <2> QED
    BY <1>1, <2>1, <2>2
<1> QED
  BY <1>2, <1>3, <1>4

\* Where a byte behind the line is, counted from the end.
LEMMA HeadHereByte ==
  ASSUME NEW s \in Seq(Request), NEW k \in 1..Len(s), NEW g \in Nat, LineOf(s, k) <= g,
         NEW t \in Seq(Nat), t = HeadHere(s, k, g),
         NEW i \in 1..Len(t), t[i] > LineOf(s, k)
  PROVE  t[i] <= g /\ Len(t) - i = g - t[i]
<1>1. PICK e \in Nat : e = End(s, k - 1)
  BY RequestParts
<1>2. PICK l \in Nat : l = LineOf(s, k) /\ e <= l /\ l <= g
  BY <1>1, RequestParts
<1>3. PICK x \in Seq(Nat) : /\ x = Run(e, l) /\ Len(x) = l - e
                            /\ \A j \in 1..Len(x) : x[j] = e + j
  BY <1>2, RunFacts, ZenonT(60)
<1>4. PICK z \in Seq(Nat) : z = Zeros(IdLen) /\ \A j \in 1..Len(z) : z[j] = 0
  BY ForwardAssumption, ZerosFacts
<1>5. PICK y \in Seq(Nat) : /\ y = Run(l, g) /\ Len(y) = g - l
                            /\ \A j \in 1..Len(y) : y[j] = l + j
  <2>1. /\ Run(l, g) \in Seq(Nat) /\ Len(Run(l, g)) = g - l
        /\ \A j \in 1..(g - l) : Run(l, g)[j] = l + j
    BY <1>2, RunFacts
  <2> QED
    BY <2>1
<1>6. PICK u \in Seq(Nat) : Cuts(u, x, z)
  BY Joining DEF Cuts
<1>7. PICK v \in Seq(Nat) : v = t /\ Cuts(v, u, y)
  BY <1>1, <1>2, <1>3, <1>4, <1>5, <1>6 DEF HeadHere, Cuts
<1>8. /\ Len(u) = Len(x) + Len(z)
      /\ \A j \in 1..Len(x) : u[j] = x[j]
      /\ \A j \in 1..Len(z) : u[Len(x) + j] = z[j]
  BY <1>6, ConcatEntries
<1>9. /\ Len(t) = Len(u) + Len(y)
      /\ \A j \in 1..Len(u) : t[j] = u[j]
      /\ \A j \in 1..Len(y) : t[Len(u) + j] = y[j]
  <2>1. /\ Len(v) = Len(u) + Len(y)
        /\ \A j \in 1..Len(u) : v[j] = u[j]
        /\ \A j \in 1..Len(y) : v[Len(u) + j] = y[j]
    <3>1. Cuts(v, u, y)
      BY <1>7
    <3> QED
      BY <3>1, ConcatEntries
  <2> QED
    BY <1>7, <2>1
<1>10. i > Len(u)
  <2>1. SUFFICES ASSUME i <= Len(u) PROVE FALSE
    OBVIOUS
  <2>2. i \in 1..Len(u) /\ t[i] = u[i]
    BY <1>9, <2>1, SMTT(30)
  <2>3. CASE i <= Len(x)
    <3>1. i \in 1..Len(x)
      BY <2>3
    <3>2. u[i] = e + i
      BY <1>3, <1>8, <3>1
    <3> QED
      BY <1>2, <1>3, <2>2, <3>1, <3>2
  <2>4. CASE ~(i <= Len(x))
    <3>1. PICK j \in 1..Len(z) : i = Len(x) + j
      <4>1. i - Len(x) \in 1..Len(z) /\ i = Len(x) + (i - Len(x))
        BY <1>8, <2>1, <2>4
      <4> QED
        BY <4>1
    <3>2. u[i] = 0
      BY <1>4, <1>8, <3>1
    <3> QED
      BY <1>2, <2>2, <3>2
  <2> QED
    BY <2>3, <2>4
<1>11. PICK j \in 1..Len(y) : i = Len(u) + j
  <2>1. i - Len(u) \in 1..Len(y) /\ i = Len(u) + (i - Len(u))
    BY <1>9, <1>10
  <2> QED
    BY <2>1
<1>12. t[i] = l + j
  BY <1>5, <1>9, <1>11
<1>13. j \in Nat /\ j <= g - l
  BY <1>5
<1>14. Len(t) - i = (g - l) - j
  BY <1>5, <1>9, <1>11, <1>13
<1>15. l + j <= g /\ g - (l + j) = (g - l) - j
  BY <1>2, <1>13, SMTT(30)
<1> QED
  BY <1>12, <1>14, <1>15

\* Where the end of the head is.
LEMMA HeadFound ==
  ASSUME IInv, stat = "HEADREQ", NEW f \in Found(HeadEnd(req))
  PROVE  /\ HeadOf(stream, req) <= got
         /\ f[2] + (got - HeadOf(stream, req)) = Used(readbuf[Len(readbuf)])
<1>0. Types /\ Places /\ Content
  BY DEF IInv
<1>1. /\ req <= Len(stream) /\ stream \in Seq(Request) /\ req \in 1..Len(stream)
      /\ got \in Nat /\ readbuf \in Seq(Buffer)
  BY <1>0, Streaming DEF Types
<1>2. PICK p \in Nat : p = HeadOf(stream, req) /\ p = HeadEnd(req) /\ LineOf(stream, req) < p
  BY <1>0, <1>1, Current, Positions
<1>3. PICK j \in Nat : j = f[2]
  BY <1>0, <1>2, FoundFacts
<1>4. /\ readbuf # <<>> /\ 1 <= j /\ j <= Used(readbuf[Len(readbuf)])
      /\ readbuf[Len(readbuf)].data[j] = p
  BY <1>0, <1>2, <1>3, FoundFacts
<1>5. LineOf(stream, req) <= got /\ Bytes(readbuf) = HeadHere(stream, req, got)
  BY <1>0 DEF Content, WithHead
<1>6. PICK t \in Seq(Nat) : t = Bytes(readbuf)
  BY <1>1, BytesType
<1>7. PICK u \in Nat : u = Used(readbuf[Len(readbuf)])
  BY <1>1, <1>4, LastBytes
<1>8. PICK i \in 1..Len(t) : i = Len(t) - (u - j) /\ t[i] = p
  BY <1>1, <1>4, <1>6, <1>7, LastBytes
<1>9. p <= got /\ Len(t) - i = got - p
  BY <1>1, <1>2, <1>5, <1>6, <1>8, HeadHereByte, SMTT(30)
<1>10. u - j = got - p
  BY <1>1, <1>8, <1>9
<1> QED
  BY <1>1, <1>2, <1>3, <1>7, <1>9, <1>10, SMTT(30)

\* A place in the stream up to which the request can be taken from readbuf.
LEMMA BytesAhead ==
  ASSUME IInv, NEW x \in Nat, x <= got, Passed <= x,
         WithHead => LineOf(stream, req) <= x
  PROVE  \E a \in Seq(Nat) : /\ Cuts(Bytes(readbuf), a, Run(x, got))
                             /\ ClientBytes(a) + Passed = x
<1>0. Types /\ Content
  BY DEF IInv
<1>1. PICK g \in Nat : g = got
  BY <1>0 DEF Types
<1>2. PICK p \in Nat : p = Passed
  BY <1>0, Streaming, Current DEF Passed, Types
<1>3. CASE ~WithHead
  <2>1. Bytes(readbuf) = Run(p, x) \o Run(x, g)
    BY <1>0, <1>1, <1>2, <1>3, RunSplit DEF Content
  <2>2. Run(p, x) \in Seq(Nat) /\ ClientBytes(Run(p, x)) = x - p
    BY <1>2, RunFacts, ClientBytesOfRun
  <2>3. PICK a \in Seq(Nat) : a = Run(p, x)
    BY <2>2
  <2>4. Cuts(Bytes(readbuf), a, Run(x, got))
    BY <1>1, <2>1, <2>3 DEF Cuts
  <2>5. ClientBytes(a) + Passed = x
    BY <1>2, <2>2, <2>3
  <2> QED
    BY <2>4, <2>5
<1>4. CASE WithHead
  <2>1. stream \in Seq(Request) /\ req \in 1..Len(stream)
    BY <1>0, <1>4, Streaming DEF Types, WithHead
  <2>2. LineOf(stream, req) <= x /\ Bytes(readbuf) = HeadHere(stream, req, g)
    BY <1>0, <1>1, <1>4 DEF Content
  <2>3. /\ HeadHere(stream, req, x) \in Seq(Nat)
        /\ ClientBytes(HeadHere(stream, req, x)) = x - End(stream, req - 1)
        /\ HeadHere(stream, req, g) = HeadHere(stream, req, x) \o Run(x, g)
    BY <1>1, <2>1, <2>2, HeadHereFacts
  <2>4. p = End(stream, req - 1)
    BY <1>2, <1>4 DEF Passed, WithHead
  <2>5. PICK a \in Seq(Nat) : a = HeadHere(stream, req, x)
    BY <2>3
  <2>6. Cuts(Bytes(readbuf), a, Run(x, got))
    BY <1>1, <2>2, <2>3, <2>5 DEF Cuts
  <2>7. ClientBytes(a) + Passed = x
    BY <1>2, <2>3, <2>4, <2>5
  <2> QED
    BY <2>6, <2>7
<1> QED
  BY <1>3, <1>4

\* What moving the request up to byte x of the stream does.
LEMMA Moved ==
  ASSUME IInv, readbuf # <<>>, NEW x \in Nat, x <= got, Passed <= x,
         WithHead => LineOf(stream, req) <= x,
         NEW p \in Nat, p + (got - x) = Used(readbuf[Len(readbuf)]),
         Move(Len(readbuf), p), wire' = wire
  PROVE  /\ readbuf' \in Seq(Buffer) /\ writebuf' \in Seq(Buffer)
         /\ rUsed' \in Nat /\ wUsed' \in Nat
         /\ Len(readbuf') <= 1
         /\ \A i \in 1..Len(readbuf') : Used(readbuf'[i]) > 0
         /\ wUsed' = Total(MusedOf(writebuf')) /\ Total(UsedOf(readbuf')) <= rUsed'
         /\ Bytes(readbuf') = Run(x, got)
         /\ ClientBytes(wire' \o Bytes(writebuf')) = x
         /\ (wire' \o Bytes(writebuf')) \o Bytes(readbuf')
              = (wire \o Bytes(writebuf)) \o Bytes(readbuf)
         /\ Len(Bytes(readbuf')) + Len(Bytes(writebuf'))
              = Len(Bytes(readbuf)) + Len(Bytes(writebuf))
<1>0. Types /\ Filled /\ Content /\ Stored /\ Delivered
  BY DEF IInv
<1>1. /\ readbuf \in Seq(Buffer) /\ writebuf \in Seq(Buffer) /\ rUsed \in Nat
      /\ wire \in Seq(Nat) /\ got \in Nat
      /\ wUsed = Total(MusedOf(writebuf)) /\ Total(UsedOf(readbuf)) <= rUsed
      /\ \A i \in 1..Len(readbuf) : Used(readbuf[i]) > 0
  BY <1>0 DEF Types, Filled, Stored
<1>2. PICK g \in Nat : g = got /\ x <= g
  BY <1>1
<1>3. p <= Used(readbuf[Len(readbuf)]) /\ Used(readbuf[Len(readbuf)]) - p = g - x
  BY <1>2
<1>4. /\ readbuf' \in Seq(Buffer) /\ writebuf' \in Seq(Buffer)
      /\ rUsed' \in Nat /\ wUsed' \in Nat
      /\ Len(readbuf') <= 1
      /\ \A i \in 1..Len(readbuf') : Used(readbuf'[i]) > 0
      /\ wUsed' = Total(MusedOf(writebuf')) /\ Total(UsedOf(readbuf')) <= rUsed'
      /\ Len(Bytes(readbuf')) = Used(readbuf[Len(readbuf)]) - p
      /\ \E m \in Seq(Nat) : /\ Bytes(writebuf') = Bytes(writebuf) \o m
                             /\ Bytes(readbuf) = m \o Bytes(readbuf')
  BY <1>1, <1>3, MoveFacts
<1>5. PICK m \in Seq(Nat) : /\ Bytes(writebuf') = Bytes(writebuf) \o m
                            /\ Bytes(readbuf) = m \o Bytes(readbuf')
  BY <1>4
<1>6. PICK t \in Seq(Nat) : t = Bytes(readbuf)
  BY <1>1, BytesType
<1>7. PICK r \in Seq(Nat) : r = Bytes(readbuf') /\ Len(r) = g - x
  BY <1>3, <1>4, BytesType
<1>8. PICK y \in Seq(Nat) : y = Run(x, g) /\ Len(y) = g - x
  BY <1>2, RunFacts
<1>9. PICK a \in Seq(Nat) : Cuts(t, a, y) /\ ClientBytes(a) + Passed = x
  BY <1>2, <1>6, <1>8, BytesAhead
<1>10. Cuts(t, m, r)
  BY <1>5, <1>6, <1>7 DEF Cuts
<1>11. m = a /\ r = y
  BY <1>7, <1>8, <1>9, <1>10, SameHalves
<1>12. PICK w \in Seq(Nat) : w = wire
  BY <1>1
<1>13. PICK b \in Seq(Nat) : b = Bytes(writebuf)
  BY <1>1, BytesType
<1>14. PICK c \in Seq(Nat) : c = w \o b
  BY Joining
<1>15. PICK d \in Seq(Nat) : d = b \o m /\ Len(d) = Len(b) + Len(m)
  BY Joining
<1>16. PICK v \in Seq(Nat) : v = m \o r /\ Len(v) = Len(m) + Len(r)
  BY Joining
<1>17. PICK h \in Seq(Nat) : h = c \o m
  BY Joining
<1>18. w \o d = h /\ h \o r = c \o v
  <2>1. Regrouped(w, b, m) /\ Regrouped(c, m, r)
    BY Grouped
  <2> QED
    BY <1>14, <1>15, <1>16, <1>17, <2>1 DEF Regrouped
<1>19. ClientBytes(h) = x
  <2>1. ClientBytes(c) = Passed
    BY <1>0, <1>12, <1>13, <1>14 DEF Delivered
  <2>2. ClientBytes(h) = ClientBytes(c) + ClientBytes(m)
    BY <1>17, ClientBytesConcat
  <2>3. ClientBytes(c) \in Nat /\ ClientBytes(m) \in Nat
    BY ClientBytesType
  <2> QED
    BY <1>9, <1>11, <2>1, <2>2, <2>3
<1>20. Len(r) + Len(d) = Len(v) + Len(b)
  BY <1>15, <1>16
<1>21. Bytes(writebuf') = d /\ Bytes(readbuf) = v
  BY <1>5, <1>7, <1>13, <1>15, <1>16
<1>22. ClientBytes(wire' \o Bytes(writebuf')) = x
  BY <1>12, <1>18, <1>19, <1>21
<1>23. (wire' \o Bytes(writebuf')) \o Bytes(readbuf')
         = (wire \o Bytes(writebuf)) \o Bytes(readbuf)
  BY <1>7, <1>12, <1>13, <1>14, <1>18, <1>21
<1>24. Len(Bytes(readbuf')) + Len(Bytes(writebuf'))
         = Len(Bytes(readbuf)) + Len(Bytes(writebuf))
  BY <1>7, <1>13, <1>20, <1>21
<1> QED
  BY <1>2, <1>4, <1>7, <1>8, <1>11, <1>22, <1>23, <1>24

\* The scan over the buffers stays in the only one there is.
LEMMA ScanOne ==
  ASSUME readbuf \in Seq(Buffer), Len(readbuf) = 1, NEW left \in Nat
  PROVE  LET u == Used(readbuf[1])
         IN Scan(1, left) = IF left <= u THEN <<1, left, left>> ELSE <<1, u, u>>
<1>1. PICK b \in Buffer : b = readbuf[1] /\ readbuf = <<b>>
  BY OneElement
<1>2. PICK u \in Nat : u = Used(b)
  BY <1>1, BufferFacts
<1>3. SubSeq(readbuf, 1, 1) = <<b>> /\ SubSeq(readbuf, 1, 0) = <<>>
  <2>1. SubSeq(readbuf, 1, Len(readbuf)) = readbuf
    <3>1. readbuf # <<>>
      OBVIOUS
    <3> QED
      BY <3>1, LastAndRest
  <2>2. SubSeq(readbuf, 1, 0) = <<>>
    OBVIOUS
  <2> QED
    BY <1>1, <2>1, <2>2
<1>4. Total(UsedOf(<<b>>)) = u /\ Total(UsedOf(<<>>)) = 0
  BY <1>2, OneBuffer, EmptyList
<1>5. \A i \in 1..1 : Total(UsedOf(SubSeq(readbuf, 1, i))) = u
  <2>1. \A i \in 1..1 : i = 1
    OBVIOUS
  <2>2. Total(UsedOf(SubSeq(readbuf, 1, 1))) = u
    BY <1>3, <1>4
  <2> QED
    BY <2>1, <2>2
<1>6. CASE left <= u
  <2>1. {i \in 1..Len(readbuf) : left <= Total(UsedOf(SubSeq(readbuf, 1, i)))} = {1}
    BY <1>5, <1>6
  <2>2. Min({1}) = 1 /\ {1} # {} /\ 1 - 1 = 0 /\ left - 0 = left
    BY MinOfOne
  <2> QED
    BY <1>1, <1>2, <1>3, <1>4, <1>6, <2>1, <2>2 DEF Scan
<1>7. CASE ~(left <= u)
  <2>1. {i \in 1..Len(readbuf) : left <= Total(UsedOf(SubSeq(readbuf, 1, i)))} = {}
    BY <1>5, <1>7
  <2> QED
    BY <1>1, <1>2, <1>3, <1>4, <1>7, <2>1 DEF Scan
<1> QED
  BY <1>6, <1>7

\* e is the last buffer, cut behind byte x of the stream, and now are the
\* bytes of the body up to there; x is the end of the request or of the bytes
\* that were read.
Reaches(e, now, x) ==
  /\ HeadOf(stream, req) <= x /\ x <= got /\ Passed <= x /\ x <= End(stream, req)
  /\ x = got \/ x = End(stream, req)
  /\ e[1] = Len(readbuf)
  /\ e[2] \in Nat /\ e[2] + (got - x) = Used(readbuf[Len(readbuf)])
  /\ now + HeadOf(stream, req) = x /\ now \in Nat

\* The rest of a body, from the start of readbuf.
LEMMA RestOfBody ==
  ASSUME IInv, stat = "BODYREQ", parse_buf = 0, readbuf # <<>>, NEW pos
  PROVE  LET e == EndOfData(0, pos, stream[req].body)
         IN \E x \in Nat : Reaches(e, curlen + e[3], x)
<1>0. Types /\ Places /\ Content
  BY DEF IInv
<1>1. /\ readbuf \in Seq(Buffer) /\ Len(readbuf) \in Nat /\ req <= Len(stream)
      /\ curlen \in Nat
  BY <1>0 DEF Types
<1>2. Len(readbuf) = 1
  BY <1>0, <1>1 DEF Places
<1>3. PICK h \in Nat : h = HeadOf(stream, req)
  BY <1>0, <1>1, Current
<1>4. PICK n \in Nat : n = stream[req].body /\ End(stream, req) = h + n
  BY <1>0, <1>1, <1>3, Current
<1>5. PICK c \in Nat : c = curlen /\ c < n /\ Passed = h + c
  BY <1>0, <1>1, <1>3, <1>4 DEF Content, Passed
<1>6. PICK g \in Nat : g = got /\ h + c <= g
  BY <1>0, <1>5 DEF Content, Types
<1>7. PICK b \in Buffer : b = readbuf[1] /\ readbuf = <<b>>
  BY <1>1, <1>2, OneElement
<1>8. PICK u \in Nat : u = Used(b) /\ u = g - (h + c)
  <2>1. Bytes(readbuf) = Run(h + c, g)
    BY <1>0, <1>5, <1>6 DEF Content, WithHead
  <2>2. PICK p \in Nat : p = h + c
    BY <1>5
  <2>3. Len(Run(p, g)) = g - p
    BY <1>6, <2>2, RunFacts
  <2>4. b.data = Run(p, g)
    BY <1>7, <2>1, <2>2, OneBuffer
  <2>5. Used(b) = g - p /\ g - p \in Nat
    BY <1>6, <2>2, <2>3, <2>4 DEF Used
  <2> QED
    BY <2>2, <2>5
<1>9. PICK left \in Nat : left = n - c
  BY <1>5
<1>10. EndOfData(0, pos, stream[req].body)
         = IF left <= u THEN <<1, left, left>> ELSE <<1, u, u>>
  BY <1>1, <1>2, <1>4, <1>5, <1>7, <1>8, <1>9, ScanOne DEF EndOfData
<1>11. PICK m \in Nat : /\ m = left \/ m = u
                        /\ m <= left /\ m <= u
                        /\ EndOfData(0, pos, stream[req].body) = <<1, m, m>>
  BY <1>10
<1>12. PICK x \in Nat : x = h + (c + m)
  BY <1>5
<1>13. /\ h <= x /\ x <= g /\ h + c <= x /\ x <= h + n
       /\ x = g \/ x = h + n
       /\ m + (g - x) = u /\ (c + m) + h = x /\ c + m \in Nat
  BY <1>5, <1>6, <1>8, <1>9, <1>11, <1>12
<1>14. Reaches(<<1, m, m>>, c + m, x)
  BY <1>2, <1>3, <1>4, <1>5, <1>6, <1>7, <1>8, <1>13 DEF Reaches
<1> QED
  BY <1>5, <1>11, <1>14

\* A head that is forwarded, and what is there of its body.
LEMMA HeadAndBody ==
  ASSUME IInv, readbuf # <<>>, stat # "COMMONDREQ", WithHead, NEW pos \in Nat,
         HeadOf(stream, req) <= got,
         pos + (got - HeadOf(stream, req)) = Used(readbuf[Len(readbuf)])
  PROVE  LET e == EndOfData(Len(readbuf), pos, stream[req].body)
         IN \E x \in Nat : Reaches(e, e[3], x)
<1>0. Types /\ Places /\ Content
  BY DEF IInv
<1>1. /\ readbuf \in Seq(Buffer) /\ Len(readbuf) \in Nat /\ req <= Len(stream)
      /\ Len(readbuf) # 0
  BY <1>0 DEF Types
<1>2. PICK h \in Nat : h = HeadOf(stream, req) /\ Passed <= h
  BY <1>0, <1>1, Current DEF Passed, WithHead
<1>3. PICK n \in Nat : n = stream[req].body /\ End(stream, req) = h + n
  BY <1>0, <1>1, <1>2, Current
<1>4. PICK g \in Nat : g = got /\ h <= g
  BY <1>0, <1>2 DEF Types
<1>5. PICK u \in Nat : u = Used(readbuf[Len(readbuf)])
  BY <1>1, LastAndRest, BufferFacts
<1>6. PICK here \in Nat : here = u - pos /\ here = g - h /\ pos + here = u
  BY <1>2, <1>4, <1>5
<1>7. EndOfData(Len(readbuf), pos, stream[req].body)
        = IF n <= here THEN <<Len(readbuf), pos + n, n>> ELSE <<Len(readbuf), u, here>>
  BY <1>1, <1>3, <1>5, <1>6 DEF EndOfData
<1>8. PICK m \in Nat : /\ m = n \/ m = here
                       /\ m <= n /\ m <= here
                       /\ EndOfData(Len(readbuf), pos, stream[req].body)
                            = <<Len(readbuf), pos + m, m>>
  BY <1>6, <1>7
<1>9. PICK x \in Nat : x = h + m
  OBVIOUS
<1>10. Passed \in Nat
  BY <1>0, <1>1, Current, SMTT(30) DEF Passed, Types
<1>11. /\ h <= x /\ x <= g /\ Passed <= x /\ x <= h + n
       /\ x = g \/ x = h + n
       /\ pos + m \in Nat /\ (pos + m) + (g - x) = u /\ m + h = x
  <2>1. PICK p \in Nat : p = Passed /\ p <= h
    BY <1>2, <1>10
  <2>2. h + here = g
    BY <1>4, <1>6
  <2>3. p <= x
    BY <1>9, <2>1
  <2> QED
    BY <1>6, <1>8, <1>9, <2>1, <2>2, <2>3
<1>12. Reaches(<<Len(readbuf), pos + m, m>>, m, x)
  BY <1>2, <1>3, <1>4, <1>5, <1>11 DEF Reaches
<1> QED
  BY <1>8, <1>12

LEMMA ForwardDataInvariant ==
  ASSUME IInv, readbuf # <<>>, stat # "COMMONDREQ", busy, NEW pb, NEW pos,
         \/ WithHead /\ pb = Len(readbuf)
         \/ ~WithHead /\ pb = 0,
         NEW x \in Nat,
         LET e == EndOfData(pb, pos, stream[req].body)
         IN Reaches(e, IF pb = 0 THEN curlen + e[3] ELSE e[3], x),
         ForwardData(pb, pos), UNCHANGED <<stream, got, busy, wire>>
  PROVE  IInv'
<1>0. Types /\ Filled /\ Places /\ Content /\ Stored /\ Delivered
  BY DEF IInv
<1>1. /\ readbuf \in Seq(Buffer) /\ Len(readbuf) \in Nat /\ req \in Nat /\ req <= Len(stream)
      /\ Len(stream) \in Nat /\ got \in Nat /\ Len(readbuf) # 0
  BY <1>0, Streaming DEF Types
<1>2. PICK e : e = EndOfData(pb, pos, stream[req].body)
  OBVIOUS
<1>3. PICK now : now = IF pb = 0 THEN curlen + e[3] ELSE e[3]
  OBVIOUS
<1>4. Reaches(e, now, x)
  BY <1>2, <1>3
<1>5. /\ Move(e[1], e[2]) /\ parse_buf' = 0 /\ parse_pos' = 0
      /\ IF now = stream[req].body
         THEN stat' = "COMMONDREQ" /\ curlen' = 0 /\ req' = req + 1
         ELSE stat' = "BODYREQ" /\ curlen' = now /\ req' = req
  BY <1>2, <1>3 DEF ForwardData
<1>6. PICK p \in Nat : p = e[2] /\ p + (got - x) = Used(readbuf[Len(readbuf)])
  BY <1>4 DEF Reaches
<1>7. PICK h \in Nat : h = HeadOf(stream, req) /\ LineOf(stream, req) <= h
  BY <1>0, <1>1, Current
<1>8. PICK n \in Nat : n = stream[req].body /\ End(stream, req) = h + n
  BY <1>0, <1>1, <1>7, Current
<1>9. /\ x <= got /\ h <= x /\ Passed <= x /\ x <= h + n /\ now \in Nat /\ now + h = x
      /\ x = got \/ x = h + n
  BY <1>4, <1>7, <1>8 DEF Reaches
<1>10. WithHead => LineOf(stream, req) <= x
  BY <1>0, <1>1, <1>7, <1>9, Current
<1>11. /\ readbuf' \in Seq(Buffer) /\ writebuf' \in Seq(Buffer)
       /\ rUsed' \in Nat /\ wUsed' \in Nat
       /\ Len(readbuf') <= 1
       /\ \A i \in 1..Len(readbuf') : Used(readbuf'[i]) > 0
       /\ wUsed' = Total(MusedOf(writebuf')) /\ Total(UsedOf(readbuf')) <= rUsed'
       /\ Bytes(readbuf') = Run(x, got)
       /\ ClientBytes(wire' \o Bytes(writebuf')) = x
       /\ (wire' \o Bytes(writebuf')) \o Bytes(readbuf')
            = (wire \o Bytes(writebuf)) \o Bytes(readbuf)
       /\ Len(Bytes(readbuf')) + Len(Bytes(writebuf'))
            = Len(Bytes(readbuf)) + Len(Bytes(writebuf))
  <2>1. e[1] = Len(readbuf) /\ wire' = wire
    BY <1>4 DEF Reaches
  <2> QED
    BY <1>5, <1>6, <1>9, <1>10, <2>1, Moved
<1>12. /\ parse_buf' = 0 /\ parse_pos' = 0 /\ stream' = stream /\ got' = got
       /\ busy' = busy /\ wire' = wire /\ ~WithHead'
       /\ \/ now = n /\ stat' = "COMMONDREQ" /\ curlen' = 0 /\ req' = req + 1
          \/ now # n /\ stat' = "BODYREQ" /\ curlen' = now /\ req' = req
  BY <1>5, <1>8 DEF WithHead
<1>13. Types'
  <2>1. /\ stat' \in {"COMMONDREQ", "HEADREQ", "BODYREQ"} /\ curlen' \in Nat
        /\ req' \in Nat /\ 1 <= req' /\ req' <= Len(stream) + 1
        /\ stat' # "COMMONDREQ" => req' <= Len(stream)
    <3>1. 1 <= req
      BY <1>0 DEF Types
    <3>2. req + 1 \in Nat /\ 1 <= req + 1 /\ req + 1 <= Len(stream) + 1
          /\ req <= Len(stream) + 1 /\ 0 \in Nat
      BY <1>1
    <3> QED
      BY <1>1, <1>9, <1>12, <3>1, <3>2
  <2>2. /\ readbuf' \in Seq(Buffer) /\ writebuf' \in Seq(Buffer)
        /\ rUsed' \in Nat /\ wUsed' \in Nat
        /\ parse_buf' \in Nat /\ parse_pos' \in Nat
    BY <1>11, <1>12
  <2>3. /\ stream' = stream /\ got' = got /\ busy' = busy /\ wire' = wire
    BY <1>12
  <2> QED
    BY <1>0, <2>1, <2>2, <2>3 DEF Types
<1>14. Filled' /\ Places'
  <2>1. PICK k \in Nat : k = Len(readbuf') /\ k <= 1
    BY <1>11
  <2>2. parse_buf' = Len(readbuf') \/ parse_buf' + 1 = Len(readbuf')
    BY <1>12, <2>1
  <2> QED
    BY <1>11, <1>12, <2>2 DEF Filled, Places
<1>15. Passed' = x /\ LinesParsed' = LinesParsed
  <2>1. LinesParsed = req
    BY DEF LinesParsed
  <2>2. CASE now = n
    <3>1. stat' = "COMMONDREQ" /\ req' = req + 1 /\ (req + 1) - 1 = req /\ x = h + n
      BY <1>1, <1>9, <1>12, <2>2
    <3> QED
      BY <1>8, <1>12, <2>1, <3>1 DEF Passed, LinesParsed
  <2>3. CASE now # n
    <3>1. stat' = "BODYREQ" /\ req' = req /\ curlen' = now /\ h + now = x
      BY <1>9, <1>12, <2>3
    <3> QED
      BY <1>7, <1>12, <2>1, <3>1 DEF Passed, LinesParsed
  <2> QED
    BY <2>2, <2>3
<1>16. Content'
  <2>1. stat' = "BODYREQ" => curlen' < stream'[req'].body
    <3>1. now <= n
      BY <1>9
    <3> QED
      BY <1>8, <1>9, <1>12, <3>1
  <2>2. stat' # "BODYREQ" => curlen' = 0
    BY <1>12
  <2> QED
    BY <1>9, <1>11, <1>12, <1>15, <2>1, <2>2 DEF Content
<1>17. Stored' /\ Delivered'
  BY <1>0, <1>11, <1>12, <1>15 DEF Stored, Delivered
<1> QED
  BY <1>13, <1>14, <1>16, <1>17 DEF IInv

LEMMA ParseHeadInvariant ==
  ASSUME IInv, ParseHead
  PROVE  IInv'
<1>0. Types /\ Filled /\ Places /\ Content /\ Stored /\ Delivered
  BY DEF IInv
<1>1. PICK f \in Found(HeadEnd(req)) :
        IF stream[req].body > 0
        THEN /\ stat' = "BODYREQ"
             /\ parse_buf' = f[1] /\ parse_pos' = f[2]
             /\ UNCHANGED <<readbuf, rUsed, writebuf, wUsed, curlen, req>>
        ELSE ForwardData(f[1], f[2])
  BY DEF ParseHead
<1>2. busy /\ stat = "HEADREQ" /\ UNCHANGED <<stream, got, busy, wire>>
  BY DEF ParseHead
<1>3. /\ HeadOf(stream, req) <= got
      /\ f[2] + (got - HeadOf(stream, req)) = Used(readbuf[Len(readbuf)])
  BY <1>2, HeadFound
<1>4. req <= Len(stream) /\ stream[req].body \in Nat /\ HeadEnd(req) \in Nat
      /\ Len(readbuf) \in Nat
  BY <1>0, <1>2, Current, Positions DEF Types
<1>5. readbuf # <<>> /\ f[1] = Len(readbuf) /\ f[2] \in Nat
  BY <1>0, <1>4, FoundFacts
<1>6. WithHead /\ LinesParsed = req
  BY <1>2 DEF WithHead, LinesParsed
<1>7. CASE stream[req].body > 0
  <2>1. /\ stat' = "BODYREQ" /\ parse_buf' = Len(readbuf) /\ parse_pos' = f[2]
        /\ UNCHANGED <<stream, got, busy, wire, readbuf, rUsed, writebuf, wUsed, curlen, req>>
    BY <1>1, <1>2, <1>5, <1>7
  <2>2. Len(readbuf) > 0
    BY <1>0, <1>4, <1>5 DEF Types
  <2>3. WithHead' /\ LinesParsed' = req /\ Passed' = Passed
    BY <1>2, <2>1, <2>2 DEF WithHead, LinesParsed, Passed
  <2>4. Types'
    BY <1>0, <1>4, <1>5, <2>1 DEF Types
  <2>5. Filled' /\ Places'
    BY <1>0, <1>2, <2>1 DEF Filled, Places
  <2>6. Content'
    <3>1. curlen = 0
      BY <1>0, <1>2 DEF Content
    <3> QED
      BY <1>0, <1>3, <1>6, <2>1, <2>2, <2>3, <3>1 DEF Content
  <2>7. Stored' /\ Delivered'
    BY <1>0, <1>6, <2>1, <2>3 DEF Stored, Delivered
  <2> QED
    BY <2>4, <2>5, <2>6, <2>7 DEF IInv
<1>8. CASE ~(stream[req].body > 0)
  <2>1. ForwardData(Len(readbuf), f[2])
    BY <1>1, <1>5, <1>8
  <2>2. Len(readbuf) # 0
    BY <1>0, <1>5 DEF Types
  <2>3. PICK x \in Nat : LET e == EndOfData(Len(readbuf), f[2], stream[req].body)
                         IN Reaches(e, e[3], x)
    BY <1>2, <1>3, <1>5, <1>6, HeadAndBody
  <2> QED
    BY <1>2, <1>5, <1>6, <2>1, <2>2, <2>3, ForwardDataInvariant
<1> QED
  BY <1>7, <1>8

LEMMA ForwardBodyInvariant ==
  ASSUME IInv, ForwardBody
  PROVE  IInv'
<1>0. Types /\ Places /\ Content
  BY DEF IInv
<1>1. /\ busy /\ stat = "BODYREQ" /\ readbuf # <<>> /\ ForwardData(parse_buf, parse_pos)
      /\ UNCHANGED <<stream, got, busy, wire>>
  BY DEF ForwardBody
<1>2. parse_buf \in Nat /\ parse_pos \in Nat
  BY <1>0 DEF Types
<1>3. CASE parse_buf = 0
  <2>1. PICK x \in Nat : LET e == EndOfData(0, parse_pos, stream[req].body)
                         IN Reaches(e, curlen + e[3], x)
    BY <1>1, <1>3, RestOfBody
  <2>2. ~WithHead
    BY <1>1, <1>3 DEF WithHead
  <2> QED
    BY <1>1, <1>3, <2>1, <2>2, ForwardDataInvariant
<1>4. CASE parse_buf # 0
  <2>1. WithHead /\ parse_buf = Len(readbuf) /\ Len(readbuf) # 0
    BY <1>0, <1>1, <1>2, <1>4 DEF WithHead, Places
  <2>2. /\ HeadOf(stream, req) <= got
        /\ parse_pos + (got - HeadOf(stream, req)) = Used(readbuf[Len(readbuf)])
    BY <1>0, <1>1, <1>2, <1>4 DEF Content
  <2>3. PICK x \in Nat : LET e == EndOfData(Len(readbuf), parse_pos, stream[req].body)
                         IN Reaches(e, e[3], x)
    BY <1>1, <1>2, <2>1, <2>2, HeadAndBody
  <2> QED
    BY <1>1, <2>1, <2>3, ForwardDataInvariant
<1> QED
  BY <1>3, <1>4

LEMMA BodyLaterInvariant ==
  ASSUME IInv, BodyLater
  PROVE  IInv'
<1>0. Types /\ Filled /\ Places /\ Content /\ Stored /\ Delivered
  BY DEF IInv
<1>1. /\ busy /\ stat = "BODYREQ" /\ readbuf = <<>> /\ busy' = FALSE
      /\ UNCHANGED <<stream, got, readbuf, rUsed, writebuf, wUsed, stat, parse_buf,
                     parse_pos, curlen, req, wire>>
  BY DEF BodyLater
<1>2. Len(readbuf) = 0 /\ parse_buf \in Nat
  BY <1>0, <1>1 DEF Types
<1>3. parse_buf = 0
  BY <1>0, <1>1, <1>2 DEF Places
<1>4. Passed' = Passed /\ LinesParsed' = LinesParsed /\ (WithHead' <=> WithHead)
  BY <1>1 DEF Passed, LinesParsed, WithHead
<1>5. Types' /\ Filled'
  BY <1>0, <1>1 DEF Types, Filled
<1>6. Places'
  BY <1>1, <1>2, <1>3 DEF Places
<1>7. Content' /\ Stored' /\ Delivered'
  BY <1>0, <1>1, <1>4 DEF Content, Stored, Delivered
<1> QED
  BY <1>5, <1>6, <1>7 DEF IInv

LEMMA NextInvariant == IInv /\ WholeLines /\ [Next]_vars => IInv'
<1> SUFFICES ASSUME IInv, WholeLines, [Next]_vars
             PROVE  IInv'
  OBVIOUS
<1>1. ASSUME NEW sys \in 1..Length, Read(sys) PROVE IInv'
  BY <1>1, ReadInvariant
<1>2. ASSUME NEW n \in 1..(Length + Len(stream) * IdLen), Write(n) PROVE IInv'
  <2>1. Length + Len(stream) * IdLen \in Nat
    <3>1. Types
      BY DEF IInv
    <3>2. Len(stream) \in Nat /\ Len(stream) <= Len(stream) /\ Length \in Nat /\ IdLen \in Nat
      BY <3>1, Streaming, ForwardAssumption
    <3>3. Len(stream) * IdLen \in Nat
      BY <3>2, Products
    <3> QED
      BY <3>2, <3>3
  <2>2. n \in Nat
    BY <2>1
  <2> QED
    BY <1>2, <2>2, WriteInvariant
<1>3. CASE ParseAgain
  BY <1>3, ParseAgainInvariant
<1>4. CASE ParseLine
  BY <1>4, ParseLineInvariant
<1>5. CASE ParseHead
  BY <1>5, ParseHeadInvariant
<1>6. CASE ForwardBody
  BY <1>6, ForwardBodyInvariant
<1>7. CASE BodyLater
  BY <1>7, BodyLaterInvariant
<1>8. CASE UNCHANGED vars
  BY <1>8 DEF vars, IInv, Types, Filled, Places, Content, Stored, Delivered,
              Passed, LinesParsed, WithHead
<1> QED
  BY <1>1, <1>2, <1>3, <1>4, <1>5, <1>6, <1>7, <1>8 DEF Next

LEMMA Invariance == Spec /\ []WholeLines => []IInv
<1>1. Init => IInv
  BY InitInvariant
<1>2. IInv /\ WholeLines /\ [Next]_vars => IInv'
  BY NextInvariant
<1> QED
  BY <1>1, <1>2, PTL DEF Spec

-----------------------------------------------------------------------------
(* The hypothesis holds for every client when no id head is inserted, and    *)
(* for clients whose request lines no read can cut.                          *)

LinesOfOne == \A s \in Streams : \A k \in 1..Len(s) : s[k].line = 1

LEMMA NothingToCut ==
  ASSUME IdLen = 0 \/ LinesOfOne, IInv
  PROVE  WholeLines
<1>1. SUFFICES ASSUME LinesOfOne, NEW k \in DOMAIN stream, EndOf(k - 1) < got, got < LineEnd(k)
               PROVE  FALSE
  BY DEF WholeLines, NoLineIsCut
<1>2. Types
  BY DEF IInv
<1>3. stream \in Seq(Request) /\ k \in 1..Len(stream) /\ stream \in Streams /\ got \in Nat
  BY <1>2, Streaming DEF Types
<1>4. stream[k].line = 1
  BY <1>1, <1>3 DEF LinesOfOne
<1>5. EndOf(k - 1) \in Nat
  BY <1>3, RequestParts, Positions
<1>6. LineEnd(k) = EndOf(k - 1) + 1
  BY <1>4 DEF LineEnd
<1> QED
  BY <1>1, <1>3, <1>5, <1>6

\* Without userinfo, and with request lines of one byte, no request line is
\* cut in a way that matters to insert_id_head: the hypothesis of the theorems
\* below holds in every state.
THEOREM NoLineToCut ==
  ASSUME IdLen = 0 \/ LinesOfOne
  PROVE  Spec => []WholeLines
<1>1. Init => IInv
  BY InitInvariant
<1>2. IInv => WholeLines
  BY NothingToCut
<1>3. IInv /\ [Next]_vars => IInv'
  BY <1>2, NextInvariant
<1> QED
  BY <1>1, <1>2, <1>3, PTL DEF Spec

-----------------------------------------------------------------------------
(* What follows from the invariant.                                         *)

LEMMA Typed == IInv => TypeOK
<1> SUFFICES ASSUME IInv PROVE TypeOK
  OBVIOUS
<1>1. Types /\ Places
  BY DEF IInv
<1>2. parse_buf \in 0..Len(readbuf)
  BY <1>1 DEF Types, Places
<1>3. got \in 0..Length /\ req \in 1..(Len(stream) + 1)
  BY <1>1, Streaming DEF Types
<1> QED
  BY <1>1, <1>2, <1>3 DEF Types, TypeOK

LEMMA Aligned == IInv => NextRequestAligned
<1> SUFFICES ASSUME IInv PROVE NextRequestAligned
  OBVIOUS
<1>1. Types /\ Filled /\ Places /\ Content
  BY DEF IInv
<1>2. ASSUME stat = "COMMONDREQ", readbuf # <<>>
      PROVE  Bytes(readbuf)[1] = EndOf(req - 1) + 1
  <2>1. readbuf \in Seq(Buffer) /\ Len(readbuf) \in 1..Len(readbuf)
    BY <1>1, <1>2, LastAndRest DEF Types
  <2>2. PICK u \in Nat : u = Used(readbuf[Len(readbuf)]) /\ 1 <= u
    <3>1. Used(readbuf[Len(readbuf)]) > 0
      BY <1>1, <2>1 DEF Filled
    <3>2. Used(readbuf[Len(readbuf)]) \in Nat
      BY <1>1, <1>2, LastAndRest, BufferFacts DEF Types
    <3> QED
      BY <3>1, <3>2
  <2>3. Len(Bytes(readbuf)) - (u - u) \in 1..Len(Bytes(readbuf))
    BY <1>2, <2>1, <2>2, LastBytes
  <2>4. PICK e \in Nat : e = End(stream, req - 1) /\ e = Passed
    BY <1>1, <1>2, Streaming DEF Passed
  <2>5. PICK g \in Nat : g = got /\ e <= g
    BY <1>1, <2>4 DEF Content, Types
  <2>6. Bytes(readbuf) = Run(e, g)
    BY <1>1, <1>2, <2>4, <2>5 DEF Content, WithHead
  <2>7. Len(Run(e, g)) = g - e /\ \A i \in 1..(g - e) : Run(e, g)[i] = e + i
    BY <2>5, RunFacts
  <2>8. 1 \in 1..(g - e)
    BY <2>2, <2>3, <2>5, <2>6, <2>7
  <2> QED
    BY <2>4, <2>6, <2>7, <2>8, Positions
<1> QED
  BY <1>1, <1>2 DEF NextRequestAligned, Places

LEMMA Bounded == IInv => BoundedMemory
<1> SUFFICES ASSUME IInv PROVE BoundedMemory
  OBVIOUS
<1>1. Types /\ Content /\ Stored
  BY DEF IInv
<1>2. LinesParsed \in Nat /\ LinesParsed <= Len(stream) /\ Len(stream) \in Nat
  BY <1>1, LinesBefore, Streaming
<1>3. PICK ids \in Nat, all \in Nat :
        ids = LinesParsed * IdLen /\ all = Len(stream) * IdLen /\ ids <= all
  BY <1>2, ForwardAssumption, Products
<1>4. Len(Bytes(readbuf)) \in Nat /\ Len(Bytes(writebuf)) \in Nat
  BY <1>1, BytesType DEF Types
<1>5. PICK u \in Nat, v \in Nat : u = Len(Bytes(readbuf)) /\ v = Len(Bytes(writebuf))
  BY <1>4
<1>6. PICK l \in Nat, g \in Nat : l = Limit /\ g = Grain
  BY ForwardAssumption
<1>7. u + v <= (2 * l + (g - 1)) + ids
  BY <1>1, <1>3, <1>5, <1>6 DEF Stored
<1>8. u + v <= 2 * l + g - 1 + all
  BY <1>3, <1>7
<1> QED
  BY <1>3, <1>5, <1>6, <1>8 DEF BoundedMemory

\* Every variable keeps its type: the lengths of the client's stream, buffers
\* that hold bytes, a parser that stands in one of the buffers of readbuf.
THEOREM ForwardTypeCorrect == Spec /\ []WholeLines => []TypeOK
<1>1. IInv => TypeOK
  BY Typed
<1> QED
  BY <1>1, Invariance, PTL

\* chunk_io_read, insert_id_head, http_handle_forwarddata and chunk_io_write
\* deliver each byte of the client once and in order, and the id head right
\* behind each request line and nowhere else.
THEOREM ForwardedIntact == Spec /\ []WholeLines => []RequestsIntact
<1>1. IInv => RequestsIntact
  BY IntactIs DEF IInv, Delivered
<1> QED
  BY <1>1, Invariance, PTL

\* The split at the end of a request leaves in readbuf what starts with the
\* next request, and a forwarded head is in the last buffer.
THEOREM SplitsAtRequests == Spec /\ []WholeLines => []NextRequestAligned
<1>1. IInv => NextRequestAligned
  BY Aligned
<1> QED
  BY <1>1, Invariance, PTL

\* writebuf.used_size, kept by chunk_cat and buffer_get, is the memory of the
\* buffers that are there.
THEOREM WritebufAccounted == Spec /\ []WholeLines => []WritebufAccounting
<1>1. IInv => WritebufAccounting
  BY DEF IInv, Stored, WritebufAccounting
<1> QED
  BY <1>1, Invariance, PTL

\* Limits checked before a read on two counters, of which readbuf's is above
\* what is there, bound what both buffers hold at any time.
THEOREM MemoryBounded == Spec /\ []WholeLines => []BoundedMemory
<1>1. IInv => BoundedMemory
  BY Bounded
<1> QED
  BY <1>1, Invariance, PTL

-----------------------------------------------------------------------------
(* The pipe of requests.                                                    *)

Judged == IF stat = "BODYREQ" THEN req ELSE req - 1

LEMMA SentIs == Total([i \in DOMAIN wire |-> IF wire[i] = 0 THEN 0 ELSE 1]) = ClientBytes(wire)
BY DEF ClientBytes, Ones

\* What was passed on belongs to requests that were judged.
LEMMA PassedJudged ==
  ASSUME IInv
  PROVE  /\ Passed \in Nat /\ Passed <= got /\ Judged \in Nat /\ Judged <= Len(stream)
         /\ Passed <= End(stream, Judged)
<1>1. Types /\ Content
  BY DEF IInv
<1>2. /\ req \in Nat /\ 1 <= req /\ req <= Len(stream) + 1 /\ Len(stream) \in Nat
      /\ req - 1 \in Nat /\ End(stream, req - 1) \in Nat
  BY <1>1, Streaming DEF Types
<1>3. CASE stat # "BODYREQ"
  BY <1>1, <1>2, <1>3 DEF Passed, Judged, Content
<1>4. CASE stat = "BODYREQ"
  <2>1. req <= Len(stream) /\ curlen \in Nat
    BY <1>1, <1>4 DEF Types
  <2>2. PICK h \in Nat, n \in Nat, e \in Nat :
          /\ h = HeadOf(stream, req) /\ n = stream[req].body /\ e = End(stream, req - 1)
          /\ e <= h /\ End(stream, req) = h + n
    <3>1. /\ HeadOf(stream, req) \in Nat /\ stream[req].body \in Nat
          /\ End(stream, req - 1) \in Nat /\ LineOf(stream, req) \in Nat
          /\ End(stream, req - 1) < LineOf(stream, req)
          /\ LineOf(stream, req) < HeadOf(stream, req)
          /\ End(stream, req) = HeadOf(stream, req) + stream[req].body
      BY <1>1, <2>1, Current
    <3> QED
      BY <3>1
  <2>3. CASE parse_buf = 0
    <3>1. Passed = h + curlen /\ curlen < n
      BY <1>1, <1>4, <2>2, <2>3 DEF Passed, Content
    <3>2. h + curlen \in Nat /\ h + curlen <= h + n
      BY <2>1, <3>1
    <3> QED
      BY <1>1, <1>2, <1>4, <2>1, <2>2, <3>1, <3>2 DEF Judged, Content
  <2>4. CASE parse_buf # 0
    <3>1. Passed = e /\ e <= h + n
      BY <2>2, <2>4 DEF Passed
    <3> QED
      BY <1>1, <1>2, <1>4, <2>1, <2>2, <3>1 DEF Judged, Content
  <2> QED
    BY <2>3, <2>4
<1> QED
  BY <1>3, <1>4

\* What a write adds to what the backend was sent.
LEMMA SentGrows ==
  ASSUME IInv, NEW n \in Nat, Write(n)
  PROVE  /\ ClientBytes(wire) \in Nat /\ ClientBytes(wire') \in Nat
         /\ ClientBytes(wire) <= ClientBytes(wire') /\ ClientBytes(wire') <= Passed
<1>1. /\ writebuf \in Seq(Buffer) /\ wire \in Seq(Nat) /\ wUsed = Total(MusedOf(writebuf))
      /\ ClientBytes(wire \o Bytes(writebuf)) = Passed
  BY DEF IInv, Types, Stored, Delivered
<1>2. /\ writebuf' \in Seq(Buffer) /\ wire' \in Seq(Nat)
      /\ wire' \o Bytes(writebuf') = wire \o Bytes(writebuf)
      /\ \E m \in Seq(Nat) : Cuts(wire', wire, m)
  BY <1>1, WriteFacts
<1>3. PICK m \in Seq(Nat) : Cuts(wire', wire, m)
  BY <1>2
<1>4. PICK w \in Seq(Nat), v \in Seq(Nat) : w = wire /\ v = wire'
  BY <1>1, <1>2
<1>5. PICK b \in Seq(Nat) : b = Bytes(writebuf')
  BY <1>2, BytesType
<1>6. ClientBytes(v) = ClientBytes(w) + ClientBytes(m)
  <2>1. v = w \o m
    BY <1>3, <1>4 DEF Cuts
  <2> QED
    BY <2>1, ClientBytesConcat
<1>7. ClientBytes(v) + ClientBytes(b) = Passed
  <2>1. ClientBytes(v \o b) = Passed
    BY <1>1, <1>2, <1>4, <1>5
  <2> QED
    BY <2>1, ClientBytesConcat
<1>8. /\ ClientBytes(w) \in Nat /\ ClientBytes(v) \in Nat /\ ClientBytes(m) \in Nat
      /\ ClientBytes(b) \in Nat
  BY ClientBytesType
<1>9. ClientBytes(w) <= ClientBytes(v) /\ ClientBytes(v) <= Passed
  BY <1>6, <1>7, <1>8
<1> QED
  BY <1>4, <1>8, <1>9

LEMMA PipeStart == Init => Pipe!PipeInit
<1> SUFFICES ASSUME Init PROVE Pipe!PipeInit
  OBVIOUS
<1>1. Types
  BY InitInvariant DEF IInv
<1>2. stream \in Seq(Request) /\ Len(stream) \in Nat /\ DOMAIN stream = 1..Len(stream)
  BY <1>1, Streaming
<1>3. \A k \in 1..Len(stream) : HeadEnd(k) \in Nat /\ EndOf(k) \in Nat
  BY <1>2, RequestParts, Positions
<1>4. /\ [k \in DOMAIN stream |-> HeadEnd(k)] \in Seq(Nat)
      /\ [k \in DOMAIN stream |-> EndOf(k)] \in Seq(Nat)
  <2>1. /\ [k \in 1..Len(stream) |-> HeadEnd(k)] \in [1..Len(stream) -> Nat]
        /\ [k \in 1..Len(stream) |-> EndOf(k)] \in [1..Len(stream) -> Nat]
    BY <1>3
  <2>2. \A f \in [1..Len(stream) -> Nat] : f \in Seq(Nat)
    BY <1>2
  <2> QED
    BY <1>2, <2>1, <2>2
<1>5. ClientBytes(wire) = 0
  <2>1. wire \in Seq(Nat) /\ \A i \in 1..Len(wire) : wire[i] = 0
    BY DEF Init
  <2> QED
    BY <2>1, AllOrNone
<1>6. got = 0 /\ (IF stat = "BODYREQ" THEN req ELSE req - 1) = 0
  BY DEF Init
<1> QED
  BY <1>4, <1>5, <1>6, SentIs DEF Pipe!PipeInit

\* The streams' positions do not change.
LEMMA PipeConstants ==
  ASSUME stream' = stream
  PROVE  /\ [k \in DOMAIN stream |-> HeadEnd(k)]' = [k \in DOMAIN stream |-> HeadEnd(k)]
         /\ [k \in DOMAIN stream |-> EndOf(k)]' = [k \in DOMAIN stream |-> EndOf(k)]
BY DEF HeadEnd, LineEnd, EndOf

LEMMA PipeStep ==
  ASSUME IInv, IInv', [Next]_vars
  PROVE  [Pipe!Receive \/ Pipe!Judge \/ Pipe!Send]_(Pipe!pipeVars)
<1>0. Types /\ Places /\ Content
  BY DEF IInv
<1>1. /\ Passed \in Nat /\ Passed <= got /\ Judged \in Nat /\ Judged <= Len(stream)
      /\ Passed <= End(stream, Judged)
  BY PassedJudged
<1>2. ASSUME UNCHANGED <<stream, got, wire>>, Judged' = Judged
      PROVE  UNCHANGED Pipe!pipeVars
  BY <1>2, PipeConstants DEF Pipe!pipeVars, Judged
<1>3. ASSUME NEW sys \in 1..Length, Read(sys) PROVE Pipe!Receive
  <2>1. PICK n \in Nat : got' = got + n /\ 1 <= n
    <3>1. PICK space \in Nat : space = (Limit - rUsed) + (Limit - wUsed) /\ 1 <= space
      <4>1. Limit \in Nat /\ rUsed \in Nat /\ wUsed \in Nat
        BY <1>0, ForwardAssumption DEF Types
      <4>2. /\ (Limit - rUsed) + (Limit - wUsed) \in Nat
            /\ 1 <= (Limit - rUsed) + (Limit - wUsed)
        BY <1>3, <4>1 DEF Read
      <4> QED
        BY <4>2
    <3>2. sys \in Nat /\ 1 <= sys
      BY <1>0, Streaming
    <3>3. PICK n \in Nat : n = Min({sys, RoundUp(Min({sys, space}))}) /\ 1 <= n
      BY <3>1, <3>2, ReadSize
    <3> QED
      BY <1>3, <3>1, <3>3 DEF Read
  <2>2. got' > got
    BY <1>0, <2>1 DEF Types
  <2>3. UNCHANGED <<stream, stat, req, wire>>
    BY <1>3 DEF Read
  <2> QED
    BY <2>2, <2>3, PipeConstants DEF Pipe!Receive
<1>4. ASSUME NEW n \in Nat, Write(n) PROVE Pipe!Send \/ UNCHANGED Pipe!pipeVars
  <2>1. PICK a \in Nat, b \in Nat : /\ a = ClientBytes(wire) /\ b = ClientBytes(wire')
                                    /\ a <= b /\ b <= Passed
    BY <1>4, SentGrows
  <2>2. /\ UNCHANGED <<stream, got, stat, req>>
        /\ Total([i \in DOMAIN wire |-> IF wire[i] = 0 THEN 0 ELSE 1]) = a
        /\ Total([i \in DOMAIN wire |-> IF wire[i] = 0 THEN 0 ELSE 1])' = b
    BY <1>4, <2>1, SentIs DEF Write, ClientBytes, Ones
  <2>3. CASE a = b
    BY <2>2, <2>3, PipeConstants DEF Pipe!pipeVars
  <2>4. CASE a # b
    <3>1. Judged > 0 /\ b \in (a + 1)..got /\ b <= End(stream, Judged)
      <4>1. PICK p \in Nat, g \in Nat : p = Passed /\ g = got /\ p <= g
        BY <1>0, <1>1 DEF Types
      <4>2. b \in (a + 1)..g /\ p > 0
        BY <2>1, <2>4, <4>1
      <4>3. Judged # 0
        <5>1. End(stream, 0) = 0
          BY <1>0, Streaming, EndFacts
        <5> QED
          BY <1>1, <4>1, <4>2, <5>1
      <4>4. b <= End(stream, Judged)
        <5>1. Judged \in 0..Len(stream) /\ End(stream, Judged) \in Nat
          BY <1>0, <1>1, Streaming, EndFacts
        <5> QED
          BY <1>1, <2>1, <4>1, <5>1
      <4> QED
        BY <1>1, <4>1, <4>2, <4>3, <4>4
    <3>2. [k \in DOMAIN stream |-> EndOf(k)][Judged] = End(stream, Judged)
      <4>1. Judged \in DOMAIN stream
        BY <1>0, <1>1, <3>1, Streaming
      <4> QED
        BY <4>1, Positions
    <3> QED
      BY <2>2, <3>1, <3>2, PipeConstants DEF Pipe!Send, Judged
  <2> QED
    BY <2>3, <2>4
<1>5. CASE ParseAgain
  <2>1. UNCHANGED <<stream, got, wire>> /\ Judged' = Judged
    BY <1>5 DEF ParseAgain, Judged
  <2> QED
    BY <1>2, <2>1
<1>6. CASE ParseLine
  <2>1. UNCHANGED <<stream, got, wire>> /\ Judged' = Judged
    BY <1>6 DEF ParseLine, Judged
  <2> QED
    BY <1>2, <2>1
<1>7. ASSUME NEW pb, NEW pos, ForwardData(pb, pos) PROVE Judged' = req
  <2>1. req \in Nat
    BY <1>0 DEF Types
  <2>2. \/ stat' = "COMMONDREQ" /\ req' = req + 1
        \/ stat' = "BODYREQ" /\ req' = req
    BY <1>7 DEF ForwardData
  <2> QED
    BY <2>1, <2>2 DEF Judged
<1>8. CASE ParseHead
  <2>1. PICK f \in Found(HeadEnd(req)) :
          IF stream[req].body > 0
          THEN /\ stat' = "BODYREQ"
               /\ parse_buf' = f[1] /\ parse_pos' = f[2]
               /\ UNCHANGED <<readbuf, rUsed, writebuf, wUsed, curlen, req>>
          ELSE ForwardData(f[1], f[2])
    BY <1>8 DEF ParseHead
  <2>2. stat = "HEADREQ" /\ UNCHANGED <<stream, got, wire>>
    BY <1>8 DEF ParseHead
  <2>3. HeadOf(stream, req) <= got
    BY <2>2, HeadFound
  <2>4. Judged' = req /\ Judged = req - 1
    BY <1>7, <2>1, <2>2 DEF Judged
  <2>5. /\ req \in DOMAIN stream /\ Judged + 1 = req /\ Judged < Len(stream)
        /\ Len([k \in DOMAIN stream |-> EndOf(k)]) = Len(stream)
    <3>1. req \in Nat /\ req <= Len(stream) /\ 1 <= req /\ Len(stream) \in Nat
      BY <1>0, <2>2, Streaming DEF Types
    <3>2. DOMAIN stream = 1..Len(stream)
      BY <1>0, Streaming
    <3> QED
      BY <2>4, <3>1, <3>2
  <2>6. [k \in DOMAIN stream |-> HeadEnd(k)][req] <= got
    BY <2>3, <2>5, Positions
  <2> QED
    BY <2>2, <2>4, <2>5, <2>6, PipeConstants DEF Pipe!Judge, Judged
<1>9. CASE ForwardBody
  <2>1. stat = "BODYREQ" /\ UNCHANGED <<stream, got, wire>>
    BY <1>9 DEF ForwardBody
  <2>2. Judged' = req
    BY <1>7, <1>9 DEF ForwardBody
  <2> QED
    BY <1>2, <2>1, <2>2 DEF Judged
<1>10. CASE BodyLater
  <2>1. UNCHANGED <<stream, got, wire>> /\ Judged' = Judged
    BY <1>10 DEF BodyLater, Judged
  <2> QED
    BY <1>2, <2>1
<1>11. CASE UNCHANGED vars
  <2>1. UNCHANGED <<stream, got, wire>> /\ Judged' = Judged
    BY <1>11 DEF vars, Judged
  <2> QED
    BY <1>2, <2>1
<1>12. \A n \in 1..(Length + Len(stream) * IdLen) : n \in Nat
  <2>1. Len(stream) \in Nat /\ Len(stream) <= Len(stream) /\ Length \in Nat /\ IdLen \in Nat
    BY <1>0, Streaming, ForwardAssumption
  <2>2. Len(stream) * IdLen \in Nat
    BY <2>1, Products
  <2> QED
    BY <2>1, <2>2
<1> QED
  BY <1>3, <1>4, <1>5, <1>6, <1>8, <1>9, <1>10, <1>11, <1>12 DEF Next

\* The forwarding implements the pipe of requests: the backend is sent the
\* client's bytes in order, and none of a request whose head was not judged.
THEOREM ForwardImplementsPipe == Spec /\ []WholeLines => ImplementsPipe
<1>1. Init => Pipe!PipeInit
  BY PipeStart
<1>2. IInv /\ IInv' /\ [Next]_vars => [Pipe!Receive \/ Pipe!Judge \/ Pipe!Send]_(Pipe!pipeVars)
  BY PipeStep
<1> QED
  BY <1>1, <1>2, Invariance, PTL DEF Spec, ImplementsPipe, Pipe!PipeSpec
=============================================================================
