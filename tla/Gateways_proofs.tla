--------------------------- MODULE Gateways_proofs ---------------------------
(***************************************************************************)
(* Proofs about the gateways.  Their connections are connections of         *)
(* TimeQueue, so what is proved of its lists holds of them; and the parser, *)
(* whatever the messages and however their bytes come, passes on exactly    *)
(* the messages and leaves nothing behind.                                  *)
(*                                                                          *)
(* The invariant, GwInv, says what the bytes taken so far are at every turn *)
(* of the loop: the chunk is a run of bytes cut at increasing places        *)
(* (Holds, Rest), and what the parser has put aside is the run before it.   *)
(***************************************************************************)
EXTENDS Gateways, TimeQueue_proofs, SequenceTheorems

\* What the parser does is no step of the lists; the rest is theirs.
LEMMA NextKeepsTime == [Next]_vars => [TimeNext]_timeVars
<1> SUFFICES ASSUME [Next]_vars PROVE [TimeNext]_timeVars
  OBVIOUS
<1>1. CASE UNCHANGED vars
  BY <1>1 DEF vars
<1>2. ASSUME NEW c \in Conn, GwAccept(c) \/ GwIn(c) PROVE TimeNext
  BY <1>2 DEF GwAccept, GwIn, TimeNext
<1>3. ASSUME NEW c \in Conn, Others(c) PROVE TimeNext
  BY <1>3 DEF Others, TimeNext
<1>4. ASSUME NEW d \in 1..Timeout[list], Alarm(d) PROVE TimeNext
  BY <1>4 DEF Alarm, TimeNext
<1>5. CASE AnalyseHeader \/ ReadData \/ Deal \/ NotEnough
  BY <1>5 DEF AnalyseHeader, ReadData, Deal, NotEnough, EndTurn
<1> QED
  BY <1>1, <1>2, <1>3, <1>4, <1>5 DEF Next

\* The gateways with their parser (gateway_interface.c) do with the list and
\* its clock only what TimeQueue says any of the three kinds of connection do.
THEOREM GatewaysKeepTime == Spec => TimeSpec
<1>1. Init => TimeInit
  BY DEF Init
<1> QED
  BY <1>1, NextKeepsTime, PTL DEF Spec, TimeSpec

\* The list of gateways, and the two others, stay in the order of the last
\* event (connection.c:181) also with the parser between the events.
THEOREM GatewaysStaySorted == Spec => []Sorted
BY GatewaysKeepTime, ListsStaySorted, PTL

\* A gateway that is silent for its timeout is being closed
\* (timehandle.c:186-206).
THEOREM SilentGatewaysAreClosed == Spec => []IdleIsClosed
BY GatewaysKeepTime, SilentAreClosed, PTL

-----------------------------------------------------------------------------
(* Runs of bytes                                                            *)


\* The byte of c at place i.
At(c, i) == <<c, i>>

ByteOf(c) == {At(c, i) : i \in Nat}

LEMMA BytesShape ==
  ASSUME NEW c, NEW a \in Nat, NEW b \in Nat, a <= b
  PROVE  /\ Bytes(c, a, b) \in Seq(ByteOf(c))
         /\ Len(Bytes(c, a, b)) = b - a
         /\ \A i \in 1..(b - a) : Bytes(c, a, b)[i] = At(c, a + i)
         /\ a = b => Bytes(c, a, b) = <<>>
<1> DEFINE p == Bytes(c, a, b)
<1>1. p = [i \in 1..(b - a) |-> At(c, a + i)]
  BY DEF Bytes, At
<1> HIDE DEF p
<1>2. b - a \in Nat /\ \A i \in 1..(b - a) : At(c, a + i) \in ByteOf(c)
  BY DEF ByteOf
<1>3. p \in Seq(ByteOf(c))
  BY <1>1, <1>2
<1>4. Len(p) = b - a /\ \A i \in 1..(b - a) : p[i] = At(c, a + i)
  BY <1>1, <1>2
<1>5. ASSUME a = b PROVE p = <<>>
  <2>1. Len(p) = 0
    BY <1>4, <1>5
  <2> QED
    BY <1>3, <2>1
<1> QED
  BY <1>3, <1>4, <1>5 DEF p

LEMMA BytesLen ==
  ASSUME NEW c, NEW a \in Nat, NEW b \in Nat, a <= b
  PROVE  Len(Bytes(c, a, b)) = b - a
BY BytesShape

LEMMA NoBytes ==
  ASSUME NEW c, NEW a \in Nat
  PROVE  Bytes(c, a, a) = <<>>
<1>1. a <= a /\ a = a
  OBVIOUS
<1> QED
  BY <1>1, BytesShape, Zenon

\* Two sequences are the same when their elements are.
LEMMA SameSeq ==
  ASSUME NEW S, NEW p \in Seq(S), NEW q \in Seq(S), Len(p) = Len(q),
         \A i \in 1..Len(p) : p[i] = q[i]
  PROVE  p = q
OBVIOUS

LEMMA BytesFirst ==
  ASSUME NEW c, NEW a \in Nat, NEW b \in Nat, a <= b, NEW n \in 0..(b - a)
  PROVE  First(Bytes(c, a, b), n) = Bytes(c, a, a + n)
<1> DEFINE p == Bytes(c, a, b)
           q == Bytes(c, a, a + n)
           r == SubSeq(p, 1, n)
<1>0. a + n \in Nat /\ a <= a + n /\ a + n <= b /\ (a + n) - a = n
  OBVIOUS
<1>1. /\ p \in Seq(ByteOf(c)) /\ Len(p) = b - a
      /\ \A i \in 1..(b - a) : p[i] = At(c, a + i)
  BY BytesShape
<1>2. /\ q \in Seq(ByteOf(c)) /\ Len(q) = n
      /\ \A i \in 1..n : q[i] = At(c, a + i)
  <2>1. /\ q \in Seq(ByteOf(c)) /\ Len(q) = (a + n) - a
        /\ \A i \in 1..((a + n) - a) : q[i] = At(c, a + i)
    BY <1>0, BytesShape, Zenon
  <2> QED
    BY <1>0, <2>1, Zenon
<1> HIDE DEF p, q
<1>3. /\ r \in Seq(ByteOf(c)) /\ Len(r) = n
      /\ \A i \in 1..n : r[i] = p[i]
  BY <1>1
<1> HIDE DEF r
<1>4. r = q
  BY <1>1, <1>2, <1>3, SameSeq
<1> QED
  BY <1>4 DEF First, p, q, r

\* The rest of s behind its first n elements.
Behind(s, n) == SubSeq(s, n + 1, Len(s))

LEMMA BytesRest ==
  ASSUME NEW c, NEW a \in Nat, NEW b \in Nat, NEW d \in Nat, a <= b, b <= d
  PROVE  Behind(Bytes(c, a, d), b - a) = Bytes(c, b, d)
<1> DEFINE n == b - a
           p == Bytes(c, a, d)
           q == Bytes(c, b, d)
           r == SubSeq(p, n + 1, Len(p))
<1>0. a <= d /\ n \in 0..(d - a)
  OBVIOUS
<1>1. /\ p \in Seq(ByteOf(c)) /\ Len(p) = d - a
      /\ \A i \in 1..(d - a) : p[i] = At(c, a + i)
  BY <1>0, BytesShape
<1>2. /\ q \in Seq(ByteOf(c)) /\ Len(q) = d - b
      /\ \A i \in 1..(d - b) : q[i] = At(c, b + i)
  BY BytesShape
<1> HIDE DEF p, q
<1>3. /\ r \in Seq(ByteOf(c)) /\ Len(r) = (d - a) - n
      /\ \A i \in 1..((d - a) - n) : r[i] = p[i + n]
  BY <1>0, <1>1
<1> HIDE DEF r
<1>4. (d - a) - n = d - b
  OBVIOUS
<1>5. ASSUME NEW i \in 1..Len(r) PROVE r[i] = q[i]
  <2>1. i \in 1..(d - b) /\ i + n \in 1..(d - a) /\ a + (i + n) = b + i
    BY <1>3, <1>4
  <2> QED
    BY <1>1, <1>2, <1>3, <1>4, <2>1
<1>6. Len(r) = Len(q)
  BY <1>2, <1>3, <1>4
<1>7. r = q
  BY <1>2, <1>3, <1>5, <1>6, SameSeq
<1> QED
  BY <1>7 DEF n, p, q, r, Behind

LEMMA BytesJoin ==
  ASSUME NEW c, NEW a \in Nat, NEW b \in Nat, NEW d \in Nat, a <= b, b <= d
  PROVE  Bytes(c, a, b) \o Bytes(c, b, d) = Bytes(c, a, d)
<1> DEFINE p == Bytes(c, a, b)
           q == Bytes(c, b, d)
           s == Bytes(c, a, d)
           r == p \o q
<1>0. a <= d
  OBVIOUS
<1>1. /\ p \in Seq(ByteOf(c)) /\ Len(p) = b - a
      /\ \A i \in 1..(b - a) : p[i] = At(c, a + i)
  BY BytesShape
<1>2. /\ q \in Seq(ByteOf(c)) /\ Len(q) = d - b
      /\ \A i \in 1..(d - b) : q[i] = At(c, b + i)
  BY BytesShape
<1>3. /\ s \in Seq(ByteOf(c)) /\ Len(s) = d - a
      /\ \A i \in 1..(d - a) : s[i] = At(c, a + i)
  BY <1>0, BytesShape
<1> HIDE DEF p, q, s
<1>4. /\ r \in Seq(ByteOf(c)) /\ Len(r) = d - a
      /\ \A i \in 1..(d - a) : r[i] = IF i <= b - a THEN p[i] ELSE q[i - (b - a)]
  <2>1. /\ r \in Seq(ByteOf(c)) /\ Len(r) = Len(p) + Len(q)
        /\ \A i \in 1..(Len(p) + Len(q)) : r[i] = IF i <= Len(p) THEN p[i] ELSE q[i - Len(p)]
    BY <1>1, <1>2, ConcatProperties
  <2>2. Len(p) + Len(q) = d - a
    BY <1>1, <1>2
  <2> HIDE DEF r
  <2> QED
    BY <1>1, <2>1, <2>2
<1> HIDE DEF r
<1>5. ASSUME NEW i \in 1..(d - a) PROVE r[i] = s[i]
  <2>1. CASE i <= b - a
    BY <1>1, <1>3, <1>4, <2>1
  <2>2. CASE i > b - a
    <3>1. i - (b - a) \in 1..(d - b) /\ b + (i - (b - a)) = a + i
      BY <2>2
    <3> QED
      BY <1>2, <1>3, <1>4, <2>2, <3>1
  <2> QED
    BY <2>1, <2>2
<1>6. r = s
  BY <1>3, <1>4, <1>5, SameSeq
<1> QED
  BY <1>6 DEF p, q, r, s

\* The chunk q holds the bytes of c from place a + 1 to place b, in order, cut
\* into buffers none of which is empty.
Holds(q, c, a, b) ==
  \E P \in Seq(Nat) :
    /\ Len(P) = Len(q) + 1 /\ P[1] = a /\ P[Len(q) + 1] = b
    /\ \A i \in 1..Len(P) : P[i] <= b
    /\ \A i \in 1..Len(q) : P[i] < P[i + 1] /\ q[i] = Bytes(c, P[i], P[i + 1])

LEMMA HoldsNone ==
  ASSUME NEW c, NEW a \in Nat, NEW b, Holds(<<>>, c, a, b)
  PROVE  a = b
BY DEF Holds

LEMMA NoneHolds ==
  ASSUME NEW c, NEW a \in Nat
  PROVE  Holds(<<>>, c, a, a)
<1> DEFINE P == <<a>>
<1>1. P \in Seq(Nat) /\ Len(P) = 1 /\ P[1] = a
  OBVIOUS
<1>2. Len(<<>>) = 0
  OBVIOUS
<1> HIDE DEF P
<1> QED
  BY <1>1, <1>2 DEF Holds

LEMMA AppendHolds ==
  ASSUME NEW S, NEW q \in Seq(S), NEW c, NEW a, NEW b, Holds(q, c, a, b),
         NEW d \in Nat, b < d, Bytes(c, b, d) \in S
  PROVE  /\ Append(q, Bytes(c, b, d)) \in Seq(S)
         /\ Holds(Append(q, Bytes(c, b, d)), c, a, d)
<1> DEFINE e == Bytes(c, b, d)
           q2 == Append(q, e)
<1>1. PICK P \in Seq(Nat) :
        /\ Len(P) = Len(q) + 1 /\ P[1] = a /\ P[Len(q) + 1] = b
        /\ \A i \in 1..Len(P) : P[i] <= b
        /\ \A i \in 1..Len(q) : P[i] < P[i + 1] /\ q[i] = Bytes(c, P[i], P[i + 1])
  BY DEF Holds
<1> HIDE DEF e
<1>2. Len(q) \in Nat /\ b \in Nat /\ \A i \in 1..Len(P) : P[i] \in Nat
  BY <1>1
<1>3. /\ q2 \in Seq(S) /\ Len(q2) = Len(q) + 1 /\ q2[Len(q) + 1] = e
      /\ \A i \in 1..Len(q) : q2[i] = q[i]
  BY <1>2 DEF e
<1> HIDE DEF q2
<1> DEFINE P2 == Append(P, d)
<1>4. /\ P2 \in Seq(Nat) /\ Len(P2) = Len(P) + 1 /\ P2[Len(P) + 1] = d
      /\ \A i \in 1..Len(P) : P2[i] = P[i]
  BY <1>2
<1> HIDE DEF P2
<1>5. Len(P2) = Len(q2) + 1 /\ P2[1] = a /\ P2[Len(q2) + 1] = d
  BY <1>1, <1>2, <1>3, <1>4
<1>6. ASSUME NEW i \in 1..Len(P2) PROVE P2[i] <= d
  <2>1. CASE i \in 1..Len(P)
    <3>1. P2[i] = P[i] /\ P[i] \in Nat /\ P[i] <= b
      BY <1>1, <1>2, <1>4, <2>1
    <3> QED
      BY <1>2, <3>1
  <2>2. CASE i = Len(P) + 1
    BY <1>4, <2>2
  <2> QED
    BY <1>1, <1>2, <1>4, <2>1, <2>2
<1>7. ASSUME NEW i \in 1..Len(q2)
      PROVE  P2[i] < P2[i + 1] /\ q2[i] = Bytes(c, P2[i], P2[i + 1])
  <2>1. CASE i \in 1..Len(q)
    <3>1. i \in 1..Len(P) /\ i + 1 \in 1..Len(P)
      BY <1>1, <1>2, <2>1
    <3> QED
      BY <1>1, <1>3, <1>4, <2>1, <3>1
  <2>2. CASE i = Len(q) + 1
    BY <1>1, <1>2, <1>3, <1>4, <2>2 DEF e
  <2> QED
    BY <1>2, <1>3, <2>1, <2>2
<1>8. Holds(q2, c, a, d)
  BY <1>4, <1>5, <1>6, <1>7 DEF Holds
<1> QED
  BY <1>3, <1>8 DEF e, q2

LEMMA HoldsHead ==
  ASSUME NEW S, NEW q \in Seq(S), NEW c, NEW a, NEW b, Holds(q, c, a, b), q # <<>>
  PROVE  \E m \in Nat :
           /\ a \in Nat /\ b \in Nat /\ a < m /\ m <= b
           /\ Head(q) = Bytes(c, a, m)
           /\ Tail(q) \in Seq(S) /\ Holds(Tail(q), c, m, b)
<1>1. PICK P \in Seq(Nat) :
        /\ Len(P) = Len(q) + 1 /\ P[1] = a /\ P[Len(q) + 1] = b
        /\ \A i \in 1..Len(P) : P[i] <= b
        /\ \A i \in 1..Len(q) : P[i] < P[i + 1] /\ q[i] = Bytes(c, P[i], P[i + 1])
  BY DEF Holds
<1>2. Len(q) \in Nat /\ Len(q) >= 1 /\ Head(q) = q[1]
  OBVIOUS
<1>3. \A i \in 1..Len(P) : P[i] \in Nat
  BY <1>1
<1> DEFINE q2 == Tail(q)
           P2 == Tail(P)
<1>4. /\ q2 \in Seq(S) /\ Len(q2) = Len(q) - 1
      /\ \A i \in 1..(Len(q) - 1) : q2[i] = q[i + 1]
  BY <1>2
<1>5. /\ P2 \in Seq(Nat) /\ Len(P2) = Len(P) - 1
      /\ \A i \in 1..(Len(P) - 1) : P2[i] = P[i + 1]
  BY <1>1, <1>2
<1> HIDE DEF q2, P2
<1>6. /\ P[2] \in Nat /\ a \in Nat /\ b \in Nat /\ a < P[2] /\ P[2] <= b
      /\ Head(q) = Bytes(c, a, P[2])
  BY <1>1, <1>2, <1>3
<1>7. Len(P2) = Len(q2) + 1 /\ P2[1] = P[2] /\ P2[Len(q2) + 1] = b
  <2>1. /\ Len(P2) = Len(q) /\ Len(q2) + 1 = Len(q)
        /\ 1 \in 1..(Len(P) - 1) /\ Len(q) \in 1..(Len(P) - 1)
    BY <1>1, <1>2, <1>4, <1>5
  <2>2. P2[1] = P[1 + 1] /\ P2[Len(q)] = P[Len(q) + 1]
    BY <1>5, <2>1, Zenon
  <2>3. 1 + 1 = 2
    OBVIOUS
  <2> QED
    BY <1>1, <2>1, <2>2, <2>3, Zenon
<1>8. \A i \in 1..Len(P2) : P2[i] <= b
  BY <1>1, <1>2, <1>5
<1>9. ASSUME NEW i \in 1..Len(q2)
      PROVE  P2[i] < P2[i + 1] /\ q2[i] = Bytes(c, P2[i], P2[i + 1])
  <2>1. /\ i + 1 \in 1..Len(q) /\ i \in 1..(Len(q) - 1)
        /\ i \in 1..(Len(P) - 1) /\ i + 1 \in 1..(Len(P) - 1)
    BY <1>1, <1>2, <1>4
  <2> QED
    BY <1>1, <1>4, <1>5, <2>1
<1>10. Holds(q2, c, P[2], b)
  BY <1>5, <1>7, <1>8, <1>9 DEF Holds
<1> QED
  BY <1>4, <1>6, <1>10 DEF q2

\* The chunk q of c, from the place o of its first buffer on, holds the bytes
\* from place p + 1 to the last one read, g.
Rest(q, g, o, c, p) ==
  \E a \in Nat : /\ p = a + o
                 /\ Holds(q, c, a, g)
                 /\ IF q = <<>> THEN o = 0 ELSE o < Len(Head(q))

LEMMA RestNone ==
  ASSUME NEW g, NEW c, NEW p, NEW o, Rest(<<>>, g, o, c, p)
  PROVE  p = g
BY HoldsNone DEF Rest

\* A chunk of which nothing was taken.
LEMMA HoldsRest ==
  ASSUME NEW S, NEW q \in Seq(S), NEW g, NEW c, NEW a \in Nat, Holds(q, c, a, g)
  PROVE  Rest(q, g, 0, c, a)
<1>1. ASSUME q # <<>> PROVE 0 < Len(Head(q))
  <2>1. PICK m \in Nat : a < m /\ Head(q) = Bytes(c, a, m)
    BY <1>1, HoldsHead
  <2>2. a <= m /\ 0 < m - a
    BY <2>1
  <2>3. Len(Bytes(c, a, m)) = m - a
    BY <2>2, BytesLen, Zenon
  <2> QED
    BY <2>1, <2>2, <2>3
<1>2. a = a + 0
  OBVIOUS
<1> QED
  BY <1>1, <1>2 DEF Rest

LEMMA RestHead ==
  ASSUME NEW S, NEW q \in Seq(S), q # <<>>, NEW g, NEW o \in Nat, NEW c, NEW p,
         Rest(q, g, o, c, p)
  PROVE  \E m \in Nat :
           /\ p \in Nat /\ p - o \in Nat /\ g \in Nat /\ p < m /\ m <= g
           /\ Holds(q, c, p - o, g)
           /\ Head(q) = Bytes(c, p - o, m) /\ Len(Head(q)) = m - (p - o)
           /\ Behind(Head(q), o) = Bytes(c, p, m)
           /\ Tail(q) \in Seq(S)
           /\ Rest(Tail(q), g, 0, c, m)
<1> DEFINE h == Head(q)
           t == Tail(q)
<1>1. PICK a \in Nat : p = a + o /\ Holds(q, c, a, g) /\ o < Len(h)
  BY DEF Rest
<1>2. PICK m \in Nat :
        /\ a \in Nat /\ g \in Nat /\ a < m /\ m <= g
        /\ h = Bytes(c, a, m)
        /\ t \in Seq(S) /\ Holds(t, c, m, g)
  BY <1>1, HoldsHead
<1> HIDE DEF h, t
<1>3. Len(h) = m - a
  <2>1. a <= m
    BY <1>2
  <2>2. Len(Bytes(c, a, m)) = m - a
    BY <2>1, BytesShape
  <2> QED
    BY <1>2, <2>2
<1>4. p \in Nat /\ p - o = a /\ p < m /\ o \in 0..(m - a)
  BY <1>1, <1>2, <1>3
<1>5. Behind(h, o) = Bytes(c, p, m)
  <2>1. a <= p /\ p <= m /\ o = p - a
    BY <1>1, <1>4
  <2>2. Behind(Bytes(c, a, m), p - a) = Bytes(c, p, m)
    BY <1>4, <2>1, BytesRest, ZenonT(30)
  <2> QED
    BY <1>2, <2>1, <2>2, Zenon
<1>6. Rest(t, g, 0, c, m)
  BY <1>2, HoldsRest
<1> QED
  BY <1>1, <1>2, <1>3, <1>4, <1>5, <1>6 DEF h, t

-----------------------------------------------------------------------------
(* Where messages end                                                       *)

USE GatewaysAssumption

LEMMA Ends ==
  ASSUME NEW c \in Conn
  PROVE  LET n == Len(End[c]) IN
         /\ n \in Nat /\ DOMAIN End[c] = 1..n
         /\ LastByte(c) \in Nat
         /\ \A k \in 1..(n + 1) : Start(c, k) \in Nat /\ Start(c, k) <= LastByte(c)
         /\ \A k \in 1..n : /\ End[c][k] \in Nat
                            /\ Start(c, k) + HeaderLen < End[c][k]
                            /\ End[c][k] <= LastByte(c)
                            /\ Start(c, k + 1) = End[c][k]
         /\ Start(c, n + 1) = LastByte(c)
         /\ \A j, k \in 1..n : j < k => End[c][j] <= Start(c, k)
<1> DEFINE n == Len(End[c])
<1>1. End[c] \in Seq(Nat)
  OBVIOUS
<1>2. n \in Nat /\ DOMAIN End[c] = 1..n /\ \A k \in 1..n : End[c][k] \in Nat
  BY <1>1
<1>3. \A k \in 1..n : /\ End[c][k] > HeaderLen
                      /\ \A j \in 1..(k - 1) : End[c][k] > End[c][j] + HeaderLen
  BY <1>2
<1>4. End[c] = <<>> <=> n = 0
  BY <1>1
<1>5. LastByte(c) = IF n = 0 THEN 0 ELSE End[c][n]
  BY <1>4 DEF LastByte
<1> HIDE DEF n
<1>6. LastByte(c) \in Nat
  BY <1>2, <1>5
<1>7. ASSUME NEW k \in 1..n
      PROVE  /\ Start(c, k) \in Nat
             /\ Start(c, k) + HeaderLen < End[c][k]
             /\ End[c][k] <= LastByte(c)
             /\ Start(c, k + 1) = End[c][k]
  <2>1. End[c][k] <= LastByte(c)
    <3>1. CASE k = n
      BY <1>2, <1>5, <3>1
    <3>2. CASE k < n
      <4>1. n \in 1..n /\ k \in 1..(n - 1) /\ n # 0
        BY <1>2, <3>2
      <4>2. End[c][n] > End[c][k] + HeaderLen
        BY <1>3, <4>1
      <4> QED
        BY <1>2, <1>5, <4>1, <4>2
    <3> QED
      BY <1>2, <3>1, <3>2
  <2>2. Start(c, k + 1) = End[c][k]
    <3>1. k + 1 # 1 /\ (k + 1) - 1 = k
      BY <1>2
    <3> QED
      BY <3>1 DEF Start
  <2>3. Start(c, k) \in Nat /\ Start(c, k) + HeaderLen < End[c][k]
    <3>1. CASE k = 1
      BY <1>2, <1>3, <3>1 DEF Start
    <3>2. CASE k # 1
      <4>1. k - 1 \in 1..n /\ k - 1 \in 1..(k - 1)
        BY <1>2, <3>2
      <4>2. End[c][k] > End[c][k - 1] + HeaderLen /\ End[c][k - 1] \in Nat
        BY <1>2, <1>3, <4>1
      <4> QED
        BY <1>2, <3>2, <4>2 DEF Start
    <3> QED
      BY <3>1, <3>2
  <2> QED
    BY <2>1, <2>2, <2>3
<1>8. Start(c, n + 1) = LastByte(c)
  <2>1. CASE n = 0
    BY <1>5, <2>1 DEF Start
  <2>2. CASE n # 0
    <3>1. n + 1 # 1 /\ (n + 1) - 1 = n
      BY <1>2, <2>2
    <3> QED
      BY <1>5, <2>2, <3>1 DEF Start
  <2> QED
    BY <2>1, <2>2
<1>9. ASSUME NEW k \in 1..(n + 1)
      PROVE  Start(c, k) \in Nat /\ Start(c, k) <= LastByte(c)
  <2>1. CASE k = n + 1
    BY <1>6, <1>8, <2>1
  <2>2. CASE k \in 1..n
    BY <1>2, <1>6, <1>7, <2>2
  <2> QED
    BY <1>2, <2>1, <2>2
<1>10. ASSUME NEW j \in 1..n, NEW k \in 1..n, j < k
       PROVE  End[c][j] <= Start(c, k)
  <2>1. k # 1 /\ k - 1 \in 1..n
    BY <1>2, <1>10
  <2>2. Start(c, k) = End[c][k - 1]
    BY <2>1 DEF Start
  <2>3. CASE j = k - 1
    BY <1>2, <2>2, <2>3
  <2>4. CASE j < k - 1
    <3>1. j \in 1..((k - 1) - 1)
      BY <1>2, <2>4
    <3>2. End[c][k - 1] > End[c][j] + HeaderLen
      BY <1>3, <2>1, <3>1
    <3> QED
      BY <1>2, <2>1, <2>2, <3>2
  <2> QED
    BY <1>2, <1>10, <2>3, <2>4
<1> QED
  BY <1>2, <1>6, <1>7, <1>8, <1>9, <1>10 DEF n

LEMMA LengthInHeader ==
  ASSUME NEW c \in Conn, NEW k \in 1..Len(End[c]), NEW header,
         header[HeaderLen] = At(c, Start(c, k) + HeaderLen)
  PROVE  LengthIn(header) = End[c][k] - Start(c, k)
<1> DEFINE b == Start(c, k) + HeaderLen
           In1(j) == Start(c, j) < b /\ b <= End[c][j]
<1>1. DOMAIN End[c] = 1..Len(End[c]) /\ Len(End[c]) \in Nat
  BY Ends
<1>2. b \in Nat /\ Start(c, k) \in Nat /\ End[c][k] \in Nat /\ Start(c, k) < b /\ b < End[c][k]
  BY Ends
<1>3. In1(k)
  BY <1>2
<1>4. ASSUME NEW j \in 1..Len(End[c]), In1(j) PROVE j = k
  <2>1. /\ Start(c, j) \in Nat /\ End[c][j] \in Nat
        /\ j < k => End[c][j] <= Start(c, k)
        /\ k < j => End[c][k] <= Start(c, j)
    BY Ends, SMTT(30)
  <2> HIDE DEF b
  <2> QED
    BY <1>1, <1>2, <1>4, <2>1
<1>5. (CHOOSE j \in DOMAIN End[c] : In1(j)) = k
  BY <1>1, <1>3, <1>4
<1>6. header[HeaderLen][1] = c /\ header[HeaderLen][2] = b
  BY DEF At
<1> QED
  BY <1>5, <1>6 DEF LengthIn

HIDE GatewaysAssumption

-----------------------------------------------------------------------------
(* The invariant of the parser                                              *)

H == HeaderLen

\* Where the message that c's gateway is in begins and ends.
From(c) == Start(c, Len(dealt[c]) + 1)
To(c) == End[c][Len(dealt[c]) + 1]

\* There is such a message: not all were dealt with.
Inside(c) == Len(dealt[c]) + 1 <= Len(End[c])

\* The parser, which is in c's chunk, has taken everything up to place p.
Taken(c, p) == Rest(readbuf[c], got[c], observ.offset, c, p)

\* In the header of a message, or between two: what there is of the header is
\* in three_header_char.
InHeader(c) ==
  LET n == H - observ.header IN
  /\ ~observ.analysized /\ observ.header >= 1
  /\ First(three, n) = Bytes(c, From(c), From(c) + n)
  /\ Taken(c, From(c) + n)

\* Behind the header: what there is of the message is in buf.
InData(c) ==
  LET p == To(c) - observ.data IN
  /\ ~observ.analysized /\ observ.offset = 0 /\ observ.header = 0 /\ observ.data >= 1
  /\ Inside(c) /\ From(c) + H <= p
  /\ buf = Bytes(c, From(c), p)
  /\ Taken(c, p)

\* A message is whole in buf.
IsWhole(c) ==
  /\ observ.analysized /\ observ.header = H
  /\ Inside(c)
  /\ buf = Bytes(c, From(c), To(c))
  /\ Taken(c, To(c))

InParse(c) ==
  /\ BufferState = "ANALYSIZE_BUFFER_HEADER" => InHeader(c)
  /\ BufferState = "READ_BUFFER_DATA" => InData(c)
  /\ BufferState = "REBUILD_BUFFER_SUCCESS" => IsWhole(c)

\* No handler of c runs: its chunk has the begun message in one buffer.
AtRest(c) ==
  /\ From(c) <= got[c]
  /\ Inside(c) => got[c] < To(c)
  /\ readbuf[c] = IF got[c] = From(c) THEN <<>> ELSE <<Bytes(c, From(c), got[c])>>

GwInv ==
  /\ GatewaysTypeOK
  /\ MessagesIntact
  /\ \A c \in Conn : c # self /\ status[c] # "FREE" => AtRest(c)
  /\ self # NoConn => InParse(self)

-----------------------------------------------------------------------------
(* Lemmas about a turn                                                      *)

LEMMA TypedBytes ==
  ASSUME NEW c \in Conn, NEW a \in Nat, NEW b \in Nat, a <= b, b <= LastByte(c)
  PROVE  Bytes(c, a, b) \in Seq(Byte)
<1> DEFINE p == Bytes(c, a, b)
<1>1. p = [i \in 1..(b - a) |-> At(c, a + i)]
  BY DEF Bytes, At
<1>2. LastByte(c) \in Nat
  BY Ends
<1>3. ASSUME NEW i \in 1..(b - a) PROVE At(c, a + i) \in Byte
  <2>1. a + i \in 1..LastByte(c)
    BY <1>2
  <2> QED
    BY <2>1 DEF At, Byte
<1> HIDE DEF p
<1>4. p \in Seq(Byte)
  BY <1>1, <1>3
<1> QED
  BY <1>4 DEF p

LEMMA HNat == H \in Nat /\ H >= 1 /\ HeaderLen = H
BY GatewaysAssumption DEF H

\* What a turn leaves, the observer o and the chunk q, of which the first
\* buffer ended at place m: the message that ends at place e is whole or not.
After(o, q, g, c, m, e) ==
  LET q2 == IF o.analysized /\ o.offset > 0 THEN q ELSE Tail(q) IN
  /\ o \in [analysized : BOOLEAN, offset : Nat, header : 0..H, data : Nat]
  /\ m >= e => o.analysized /\ o.header = H /\ Rest(q2, g, o.offset, c, e)
  /\ m < e => /\ ~o.analysized /\ o.offset = 0 /\ o.header = 0 /\ o.data = e - m
              /\ Rest(q2, g, 0, c, m)

\* The wanted bytes are those from place x + 1 to place e, x being place
\* "from" of the first buffer.
LEMMA WholeTurn ==
  ASSUME NEW c \in Conn, NEW S, NEW q \in Seq(S), NEW g \in Nat,
         NEW x \in Nat, NEW e \in Nat, NEW m \in Nat, NEW from \in Nat,
         x <= m, x < e, from <= x, m <= g,
         Holds(q, c, x - from, g), q # <<>>, Len(Head(q)) = m - (x - from),
         Rest(Tail(q), g, 0, c, m),
         observ.data \in Nat
  PROVE  After(Whole(Bytes(c, x, m), e - x, from), q, g, c, m, e)
<1> DEFINE s == Bytes(c, x, m)
           n == e - x
           o == Whole(s, n, from)
           q2 == IF o.analysized /\ o.offset > 0 THEN q ELSE Tail(q)
<1>0. n \in Nat /\ n >= 1
  OBVIOUS
<1>1. Len(s) = m - x
  BY BytesLen, Zenon
<1>2. o = Whole(s, n, from)
  OBVIOUS
<1>6. e = x + n
  OBVIOUS
<1> HIDE DEF s, n, o
<1>3. CASE m > e
  <2>1. Len(s) > n /\ from + n \in Nat /\ from + n > 0
    BY <1>0, <1>1, <1>3, <1>6
  <2>2. o = Observ(TRUE, from + n, HeaderLen, observ.data)
    BY <1>2, <2>1, Zenon DEF Whole
  <2>3. o = [analysized |-> TRUE, offset |-> from + n, header |-> HeaderLen, data |-> observ.data]
    BY <2>2, Zenon DEF Observ
  <2>4. /\ o \in [analysized : BOOLEAN, offset : Nat, header : 0..H, data : Nat]
        /\ o.analysized /\ o.offset = from + n /\ o.header = H
    BY <2>1, <2>3, HNat
  <2>5. Rest(q, g, from + n, c, e)
    <3>1. x - from \in Nat /\ e = (x - from) + (from + n) /\ from + n < Len(Head(q))
      BY <1>0, <1>3, <1>6
    <3> QED
      BY <3>1, Zenon DEF Rest
  <2>6. q2 = q
    BY <2>1, <2>4, Zenon
  <2> HIDE DEF q2
  <2>7. Rest(q2, g, o.offset, c, e)
    BY <2>4, <2>5, <2>6, Zenon
  <2>8. ~(m < e)
    BY <1>3
  <2> QED
    BY <2>4, <2>7, <2>8, Zenon DEF q2, After, o, n, s
<1>4. CASE m = e
  <2>1. ~(Len(s) > n) /\ Len(s) = n
    BY <1>0, <1>1, <1>4, <1>6
  <2>2. o = Observ(TRUE, 0, HeaderLen, 0)
    BY <1>2, <2>1, Zenon DEF Whole
  <2>3. o = [analysized |-> TRUE, offset |-> 0, header |-> HeaderLen, data |-> 0]
    BY <2>2, Zenon DEF Observ
  <2>4. /\ o \in [analysized : BOOLEAN, offset : Nat, header : 0..H, data : Nat]
        /\ o.analysized /\ o.offset = 0 /\ o.header = H /\ ~(o.offset > 0)
    BY <2>3, HNat
  <2>5. q2 = Tail(q)
    BY <2>4, Zenon
  <2> HIDE DEF q2
  <2>6. Rest(q2, g, o.offset, c, e)
    BY <1>4, <2>4, <2>5, Zenon
  <2>7. ~(m < e)
    BY <1>4
  <2> QED
    BY <2>4, <2>6, <2>7, Zenon DEF q2, After, o, n, s
<1>5. CASE m < e
  <2>1. ~(Len(s) > n) /\ Len(s) # n /\ n - Len(s) = e - m /\ e - m \in Nat
    BY <1>0, <1>1, <1>5, <1>6
  <2>2. o = Observ(FALSE, 0, 0, e - m)
    BY <1>2, <2>1, Zenon DEF Whole
  <2>3. o = [analysized |-> FALSE, offset |-> 0, header |-> 0, data |-> e - m]
    BY <2>2, Zenon DEF Observ
  <2>4. /\ o \in [analysized : BOOLEAN, offset : Nat, header : 0..H, data : Nat]
        /\ ~o.analysized /\ o.offset = 0 /\ o.header = 0 /\ o.data = e - m
    BY <2>1, <2>3, HNat
  <2>5. q2 = Tail(q)
    BY <2>4, Zenon
  <2> HIDE DEF q2
  <2>6. Rest(q2, g, 0, c, m)
    BY <2>5, Zenon
  <2>7. ~(m >= e)
    BY <1>5
  <2> QED
    BY <2>4, <2>6, <2>7, Zenon DEF q2, After, o, n, s
<1> QED
  BY <1>3, <1>4, <1>5 DEF o, n, s

LEMMA InvFacts ==
  ASSUME GwInv, self # NoConn
  PROVE  /\ self \in Conn /\ status[self] = "WORKING"
         /\ readbuf[self] \in Seq(Seq(Byte)) /\ dealt[self] \in Seq(Seq(Byte))
         /\ got[self] \in Nat /\ got[self] <= LastByte(self)
         /\ Len(dealt[self]) + 1 \in 1..(Len(End[self]) + 1)
         /\ From(self) \in Nat /\ From(self) <= LastByte(self)
         /\ Inside(self) =>
              /\ To(self) \in Nat /\ To(self) <= LastByte(self)
              /\ From(self) + H < To(self)
              /\ Len(dealt[self]) + 1 \in 1..Len(End[self])
         /\ ~Inside(self) => From(self) = LastByte(self)
         /\ observ.offset \in Nat /\ observ.data \in Nat
         /\ observ.header \in 0..H /\ H \in Nat /\ H >= 1
         /\ observ = [analysized |-> observ.analysized, offset |-> observ.offset,
                      header |-> observ.header, data |-> observ.data]
         /\ InParse(self)
<1>1. self \in Conn /\ status[self] = "WORKING" /\ InParse(self)
  BY DEF GwInv, GatewaysTypeOK
<1>2. LastByte(self) \in Nat
  BY <1>1, Ends
<1>3. /\ readbuf[self] \in Seq(Seq(Byte)) /\ dealt[self] \in Seq(Seq(Byte))
      /\ got[self] \in Nat /\ got[self] <= LastByte(self)
  BY <1>1, <1>2 DEF GwInv, GatewaysTypeOK
<1>4. Len(dealt[self]) \in Nat /\ Len(dealt[self]) <= Len(End[self]) /\ Len(End[self]) \in Nat
  BY <1>1, <1>3, Ends DEF GwInv, MessagesIntact
<1>5. Len(dealt[self]) + 1 \in 1..(Len(End[self]) + 1)
  BY <1>4
<1>6. From(self) \in Nat /\ From(self) <= LastByte(self)
  BY <1>1, <1>5, Ends DEF From
<1>7. ASSUME Inside(self)
      PROVE  /\ To(self) \in Nat /\ To(self) <= LastByte(self)
             /\ From(self) + H < To(self)
             /\ Len(dealt[self]) + 1 \in 1..Len(End[self])
  <2>1. Len(dealt[self]) + 1 \in 1..Len(End[self])
    BY <1>4, <1>7 DEF Inside
  <2> QED
    BY <1>1, <2>1, Ends DEF From, To, H
<1>8. ASSUME ~Inside(self) PROVE From(self) = LastByte(self)
  <2>1. Len(dealt[self]) + 1 = Len(End[self]) + 1
    BY <1>4, <1>8 DEF Inside
  <2> QED
    BY <1>1, <2>1, Ends DEF From
<1>9. /\ observ.offset \in Nat /\ observ.data \in Nat
      /\ observ.header \in 0..H /\ H \in Nat /\ H >= 1
      /\ observ = [analysized |-> observ.analysized, offset |-> observ.offset,
                   header |-> observ.header, data |-> observ.data]
  BY HNat DEF GwInv, GatewaysTypeOK
<1> QED
  BY <1>1, <1>3, <1>5, <1>6, <1>7, <1>8, <1>9

\* Three places in their order.
Before(a, b, d) == a \in Nat /\ b \in Nat /\ d \in Nat /\ a <= b /\ b <= d

\* The bytes of the message so far, with those of the next buffer.
LEMMA DataMade ==
  ASSUME NEW c, NEW f, NEW p, NEW m, NEW e, Before(f, p, m), Before(f, p, e)
  PROVE  Bytes(c, f, p) \o First(Bytes(c, p, m),
           IF Len(Bytes(c, p, m)) < e - p THEN Len(Bytes(c, p, m)) ELSE e - p)
           = Bytes(c, f, IF m < e THEN m ELSE e)
<1> DEFINE s == Bytes(c, p, m)
           l == IF Len(s) < e - p THEN Len(s) ELSE e - p
           d == IF m < e THEN m ELSE e
<1>0. /\ f \in Nat /\ p \in Nat /\ m \in Nat /\ e \in Nat
      /\ f <= p /\ p <= m /\ p <= e
  BY DEF Before
<1>1. Len(s) = m - p
  BY <1>0, BytesLen, Zenon
<1> HIDE DEF s
<1>2. l \in 0..(m - p) /\ p + l = d /\ d \in Nat /\ p <= d
  BY <1>0, <1>1
<1> HIDE DEF l, d
<1>3. First(s, l) = Bytes(c, p, d)
  <2>1. First(Bytes(c, p, m), l) = Bytes(c, p, p + l)
    BY <1>0, <1>2, BytesFirst, Zenon
  <2> QED
    BY <1>2, <2>1, Zenon DEF s
<1>4. Bytes(c, f, p) \o Bytes(c, p, d) = Bytes(c, f, d)
  BY <1>0, <1>2, BytesJoin, ZenonT(30)
<1> QED
  BY <1>3, <1>4, Zenon DEF s, l, d

\* The header is completed from the next buffer.
LEMMA HeaderMade ==
  ASSUME NEW c, NEW f, NEW p, NEW b, NEW m, Before(f, p, b), Before(p, b, m)
  PROVE  Bytes(c, f, p) \o First(Bytes(c, p, m), b - p) = Bytes(c, f, b)
<1>0. /\ f \in Nat /\ p \in Nat /\ b \in Nat /\ m \in Nat
      /\ f <= p /\ p <= b /\ b <= m
  BY DEF Before
<1>1. p <= m /\ b - p \in 0..(m - p) /\ p + (b - p) = b
  BY <1>0
<1>2. First(Bytes(c, p, m), b - p) = Bytes(c, p, p + (b - p))
  BY <1>0, <1>1, BytesFirst, Zenon
<1>3. First(Bytes(c, p, m), b - p) = Bytes(c, p, b)
  BY <1>1, <1>2, Zenon
<1>4. Bytes(c, f, p) \o Bytes(c, p, b) = Bytes(c, f, b)
  BY <1>0, BytesJoin, Zenon
<1> QED
  BY <1>3, <1>4, Zenon

Parted(c, p, b, m) == Behind(Bytes(c, p, m), b - p) = Bytes(c, b, m)

LEMMA BehindHeader ==
  ASSUME NEW c, NEW p, NEW b, NEW m, Before(p, b, m)
  PROVE  Parted(c, p, b, m)
BY BytesRest DEF Before, Parted

\* What the header says of the message.
LEMMA HeaderSays ==
  ASSUME NEW c \in Conn, NEW k \in 1..Len(End[c]), NEW b \in Nat, b = Start(c, k) + H
  PROVE  LengthIn(Bytes(c, Start(c, k), b)) - HeaderLen = End[c][k] - b
<1> DEFINE f == Start(c, k)
           e == End[c][k]
           h == Bytes(c, f, b)
<1>1. H \in Nat /\ H >= 1 /\ HeaderLen = H
  BY HNat
<1>2. f \in Nat /\ e \in Nat
  BY Ends
<1> HIDE DEF f, e, h
<1>3. b = f + H
  BY DEF f
<1>4. f <= b /\ H \in 1..(b - f)
  BY <1>1, <1>2, <1>3
<1>5. h[H] = At(c, f + H)
  <2>1. \A i \in 1..(b - f) : h[i] = At(c, f + i)
    BY <1>2, <1>4, BytesShape DEF h
  <2> QED
    BY <1>4, <2>1, Zenon
<1>6. LengthIn(h) = e - f
  BY <1>1, <1>5, LengthInHeader DEF f, e
<1>7. LengthIn(h) - HeaderLen = e - b
  BY <1>1, <1>2, <1>3, <1>6
<1> QED
  BY <1>7 DEF f, e, h

\* A turn within the message of self changes nothing of the others.
LEMMA TurnKeeps ==
  ASSUME GwInv, self # NoConn,
         UNCHANGED <<timeVars, self, got, dealt>>,
         NEW q \in Seq(Seq(Byte)), readbuf' = [readbuf EXCEPT ![self] = q],
         BufferState' \in {"ANALYSIZE_BUFFER_HEADER", "READ_BUFFER_DATA",
                           "REBUILD_BUFFER_SUCCESS"},
         observ' \in [analysized : BOOLEAN, offset : Nat, header : 0..H, data : Nat],
         three' \in Seq(Byte), Len(three') <= H,
         buf' \in Seq(Byte),
         InParse(self)'
  PROVE  GwInv'
<1>1. GatewaysTypeOK'
  <2>1. TimeTypeOK'
    BY DEF GwInv, GatewaysTypeOK, TimeTypeOK, timeVars, Age
  <2>2. readbuf' \in [Conn -> Seq(Seq(Byte))]
    BY InvFacts DEF GwInv, GatewaysTypeOK
  <2> QED
    BY <2>1, <2>2 DEF GwInv, GatewaysTypeOK, timeVars, H
<1>2. MessagesIntact'
  BY DEF GwInv, MessagesIntact
<1>3. ASSUME NEW c \in Conn, c # self', status'[c] # "FREE" PROVE AtRest(c)'
  <2>1. AtRest(c) /\ c # self
    BY <1>3 DEF GwInv, timeVars
  <2>2. readbuf'[c] = readbuf[c]
    BY <2>1 DEF GwInv, GatewaysTypeOK
  <2> QED
    BY <2>1, <2>2 DEF AtRest, From, To, Inside
<1> QED
  BY <1>1, <1>2, <1>3 DEF GwInv

-----------------------------------------------------------------------------
(* The turns keep the invariant                                             *)

\* What the head of the chunk holds, and that there is a message to be in.
LEMMA HeadOfChunk ==
  ASSUME GwInv, self # NoConn, readbuf[self] # <<>>, NEW p, Taken(self, p),
         From(self) <= p
  PROVE  /\ Inside(self)
         /\ \E m \in Nat :
              /\ p \in Nat /\ p - observ.offset \in Nat /\ p < m /\ m <= got[self]
              /\ Holds(readbuf[self], self, p - observ.offset, got[self])
              /\ Len(tmp_buf) = m - (p - observ.offset)
              /\ tmp_buf = Bytes(self, p - observ.offset, m)
              /\ Behind(tmp_buf, observ.offset) = Bytes(self, p, m)
              /\ Tail(readbuf[self]) \in Seq(Seq(Byte))
              /\ Rest(Tail(readbuf[self]), got[self], 0, self, m)
<1> DEFINE q == readbuf[self]
           g == got[self]
           o == observ.offset
<1>1. /\ q \in Seq(Seq(Byte)) /\ o \in Nat /\ Rest(q, g, o, self, p) /\ q # <<>>
      /\ g \in Nat /\ g <= LastByte(self) /\ LastByte(self) \in Nat
      /\ From(self) \in Nat /\ From(self) <= p
      /\ ~Inside(self) => From(self) = LastByte(self)
  BY InvFacts, Ends DEF Taken
<1>2. tmp_buf = Head(q)
  BY DEF tmp_buf
<1> HIDE DEF q, g, o
<1>3. PICK m \in Nat :
           /\ p \in Nat /\ p - o \in Nat /\ g \in Nat /\ p < m /\ m <= g
           /\ Holds(q, self, p - o, g)
           /\ Head(q) = Bytes(self, p - o, m) /\ Len(Head(q)) = m - (p - o)
           /\ Behind(Head(q), o) = Bytes(self, p, m)
           /\ Tail(q) \in Seq(Seq(Byte))
           /\ Rest(Tail(q), g, 0, self, m)
  BY <1>1, RestHead, Zenon
<1>4. Inside(self)
  BY <1>1, <1>3
<1> QED
  BY <1>2, <1>3, <1>4, Zenon DEF q, g, o

\* A turn in which bytes are put into buf, up to place d of the message, the
\* wanted ones being those behind place x.
Turn(x, m, from) ==
  /\ Inside(self) /\ UNCHANGED <<timeVars, self, got, dealt>>
  /\ From(self) + H <= x /\ x < To(self) /\ x <= m /\ m <= got[self]
  /\ from <= x
  /\ readbuf[self] # <<>> /\ Tail(readbuf[self]) \in Seq(Seq(Byte))
  /\ Holds(readbuf[self], self, x - from, got[self])
  /\ Len(tmp_buf) = m - (x - from)
  /\ Rest(Tail(readbuf[self]), got[self], 0, self, m)
  /\ EndTurn(Whole(Bytes(self, x, m), To(self) - x, from))
  /\ buf' = Bytes(self, From(self), IF m < To(self) THEN m ELSE To(self))
  /\ three' \in Seq(Byte) /\ Len(three') <= H

LEMMA TurnToMessage ==
  ASSUME NEW x \in Nat, NEW m \in Nat, NEW from \in Nat,
         Turn(x, m, from), GwInv, self # NoConn
  PROVE  GwInv'
<1> DEFINE o == Whole(Bytes(self, x, m), To(self) - x, from)
           e == To(self)
           q == readbuf[self]
           q2 == IF o.analysized /\ o.offset > 0 THEN q ELSE Tail(q)
           g == got[self]
           f == From(self)
<1>1. /\ self \in Conn /\ q \in Seq(Seq(Byte)) /\ g \in Nat /\ g <= LastByte(self)
      /\ e \in Nat /\ e <= LastByte(self) /\ f \in Nat /\ f + H < e
      /\ observ.data \in Nat /\ H \in Nat /\ H >= 1 /\ LastByte(self) \in Nat
  BY InvFacts, Ends DEF Turn
<1>2. Len(Head(q)) = m - (x - from) /\ Tail(q) \in Seq(Seq(Byte))
  BY DEF Turn, tmp_buf
<1>3. /\ observ' = o /\ BufferState' = Recompute(o)
      /\ readbuf' = [readbuf EXCEPT ![self] = q2]
  BY DEF Turn, EndTurn
<1>4. q # <<>> /\ Holds(q, self, x - from, g) /\ Rest(Tail(q), g, 0, self, m)
  BY DEF Turn
<1>5. buf' = Bytes(self, f, IF m < e THEN m ELSE e)
  BY DEF Turn
<1>6. f + H <= x /\ x < e /\ x <= m /\ m <= g /\ from <= x
  BY DEF Turn
<1>7. o = Whole(Bytes(self, x, m), e - x, from)
  OBVIOUS
<1>8. From(self)' = f /\ To(self)' = e /\ Inside(self)' /\ got'[self] = g /\ self' = self
  BY DEF Turn, From, To, Inside
<1>9. q2 = IF o.analysized /\ o.offset > 0 THEN q ELSE Tail(q)
  OBVIOUS
<1> HIDE DEF o, e, q, g, f, q2
<1>11. /\ o \in [analysized : BOOLEAN, offset : Nat, header : 0..H, data : Nat]
       /\ m >= e =>
            /\ o.analysized /\ o.header = H
            /\ Rest(q2, g, o.offset, self, e)
       /\ m < e =>
            /\ ~o.analysized /\ o.offset = 0 /\ o.header = 0 /\ o.data = e - m
            /\ Rest(q2, g, 0, self, m)
  <2>1. After(Whole(Bytes(self, x, m), e - x, from), q, g, self, m, e)
    BY <1>1, <1>2, <1>4, <1>6, WholeTurn, Zenon
  <2> QED
    BY <1>7, <1>9, <2>1, Zenon DEF After
<1>12. q2 \in Seq(Seq(Byte))
  BY <1>1, <1>2, <1>9
<1>13. readbuf'[self] = q2
  BY <1>1, <1>3, <1>12 DEF GwInv, GatewaysTypeOK
<1>14. buf' \in Seq(Byte)
  <2>1. CASE m < e
    <3>1. f <= m /\ m <= LastByte(self)
      BY <1>1, <1>6
    <3> QED
      BY <1>1, <1>5, <2>1, <3>1, TypedBytes
  <2>2. CASE ~(m < e)
    <3>1. f <= e
      BY <1>1
    <3> QED
      BY <1>1, <1>5, <2>2, <3>1, TypedBytes
  <2> QED
    BY <2>1, <2>2
<1>15. /\ BufferState' \in {"ANALYSIZE_BUFFER_HEADER", "READ_BUFFER_DATA",
                            "REBUILD_BUFFER_SUCCESS"}
       /\ InParse(self)'
  <2>1. CASE m >= e
    <3>1. BufferState' = "REBUILD_BUFFER_SUCCESS"
      BY <1>3, <1>11, <2>1 DEF Recompute
    <3>2. ~(m < e)
      BY <1>1, <2>1
    <3>3. IsWhole(self)'
      BY <1>3, <1>5, <1>8, <1>11, <1>13, <2>1, <3>2 DEF IsWhole, Taken
    <3> QED
      BY <3>1, <3>3 DEF InParse
  <2>2. CASE m < e
    <3>1. e - m \in Nat /\ e - m >= 1 /\ e - (e - m) = m /\ f + H <= m
      BY <1>1, <1>6, <2>2
    <3>2. BufferState' = "READ_BUFFER_DATA"
      BY <1>3, <1>11, <2>2, <3>1 DEF Recompute
    <3>3. InData(self)'
      BY <1>3, <1>5, <1>8, <1>11, <1>13, <2>2, <3>1 DEF InData, Taken
    <3> QED
      BY <3>2, <3>3 DEF InParse
  <2> QED
    BY <1>1, <2>1, <2>2
<1> QED
  BY <1>3, <1>11, <1>12, <1>14, <1>15, TurnKeeps DEF Turn

\* READ_BUFFER_DATA goes on with the message.
LEMMA ReadDataKeeps ==
  ASSUME GwInv, self # NoConn, ReadData
  PROVE  GwInv'
<1> DEFINE f == From(self)
           e == To(self)
           n == observ.data
           p == e - n
           q == readbuf[self]
<1>1. /\ InData(self) /\ q # <<>>
      /\ buf' = buf \o First(tmp_buf, IF Len(tmp_buf) < n THEN Len(tmp_buf) ELSE n)
      /\ EndTurn(Whole(tmp_buf, n, 0))
      /\ three' = three
  BY InvFacts DEF ReadData, InParse
<1>2. /\ Inside(self) /\ f + H <= p /\ buf = Bytes(self, f, p) /\ Taken(self, p)
      /\ observ.offset = 0 /\ n >= 1
  BY <1>1 DEF InData
<1>3. f \in Nat /\ e \in Nat /\ n \in Nat /\ H \in Nat /\ f + H < e
  BY <1>2, InvFacts
<1>4. UNCHANGED <<timeVars, self, got, dealt>> /\ three' \in Seq(Byte) /\ Len(three') <= H
  BY <1>1 DEF EndTurn, GwInv, GatewaysTypeOK, H
<1> HIDE DEF f, e, n, q
<1>5. p \in Nat /\ f <= p /\ p < e /\ p <= e /\ e - p = n /\ p - 0 = p
  BY <1>2, <1>3
<1> HIDE DEF p
<1>6. PICK m \in Nat :
        /\ p < m /\ m <= got[self]
        /\ Holds(q, self, p - 0, got[self])
        /\ Len(tmp_buf) = m - (p - 0)
        /\ tmp_buf = Bytes(self, p - 0, m)
        /\ Tail(q) \in Seq(Seq(Byte))
        /\ Rest(Tail(q), got[self], 0, self, m)
  BY <1>1, <1>2, <1>5, HeadOfChunk, Zenon DEF q, f
<1>7. p <= m
  BY <1>5, <1>6
<1>11. Before(f, p, m) /\ Before(f, p, e)
  BY <1>3, <1>5, <1>7 DEF Before
<1>8. buf' = Bytes(self, f, IF m < e THEN m ELSE e)
  <2>1. Bytes(self, f, p) \o First(Bytes(self, p, m),
           IF Len(Bytes(self, p, m)) < e - p THEN Len(Bytes(self, p, m)) ELSE e - p)
          = Bytes(self, f, IF m < e THEN m ELSE e)
    BY <1>11, DataMade, Zenon
  <2> QED
    BY <1>1, <1>2, <1>5, <1>6, <2>1, Zenon
<1>9. EndTurn(Whole(Bytes(self, p, m), e - p, 0))
  BY <1>1, <1>5, <1>6, Zenon
<1>10. Turn(p, m, 0)
  <2>1. 0 <= p
    BY <1>5
  <2> QED
    BY <1>1, <1>2, <1>4, <1>5, <1>6, <1>7, <1>8, <1>9, <2>1, Zenon DEF Turn, q, f, e
<1> QED
  BY <1>5, <1>10, TurnToMessage

\* ANALYSIZE_BUFFER_HEADER with the rest of the header in the buffer.
LEMMA WholeHeaderKeeps ==
  ASSUME GwInv, self # NoConn, AnalyseHeader,
         Len(Behind(tmp_buf, observ.offset)) >= observ.header
  PROVE  GwInv'
<1> DEFINE f == From(self)
           e == To(self)
           need == observ.header
           o == observ.offset
           p == f + (H - need)
           b == f + H
           q == readbuf[self]
           s == Behind(tmp_buf, o)
           header == First(three, H - need) \o First(s, need)
           rest == Behind(s, need)
           n == LengthIn(header) - HeaderLen
<1>1. /\ InHeader(self) /\ q # <<>> /\ Len(s) >= need
      /\ three' = header
      /\ buf' = header \o First(rest, IF Len(rest) < n THEN Len(rest) ELSE n)
      /\ EndTurn(Whole(rest, n, o + need))
  BY InvFacts DEF AnalyseHeader, InParse, Behind, H
<1>2. need >= 1 /\ First(three, H - need) = Bytes(self, f, p) /\ Taken(self, p)
  BY <1>1 DEF InHeader
<1>3. /\ self \in Conn /\ f \in Nat /\ need \in 0..H /\ H \in Nat /\ H >= 1
      /\ o \in Nat /\ LastByte(self) \in Nat /\ f <= LastByte(self)
  BY InvFacts, Ends
<1>4. UNCHANGED <<timeVars, self, got, dealt>>
  BY <1>1 DEF EndTurn
<1>5. LengthIn(Bytes(self, f, b)) - HeaderLen = e - b \/ ~Inside(self)
  <2> SUFFICES ASSUME Inside(self)
               PROVE  LengthIn(Bytes(self, f, b)) - HeaderLen = e - b
    OBVIOUS
  <2> DEFINE k == Len(dealt[self]) + 1
  <2>1. k \in 1..Len(End[self])
    BY InvFacts
  <2>2. f = Start(self, k) /\ e = End[self][k]
    BY DEF From, To
  <2> HIDE DEF k, f, e
  <2>3. b \in Nat /\ b = Start(self, k) + H
    BY <1>3, <2>2
  <2> HIDE DEF b
  <2>4. LengthIn(Bytes(self, Start(self, k), b)) - HeaderLen = End[self][k] - b
    BY <1>3, <2>1, <2>3, HeaderSays
  <2> QED
    BY <2>2, <2>4
<1> HIDE DEF f, e, need, o, q, s, header, rest, n
<1>6. p \in Nat /\ b \in Nat /\ f <= p /\ p <= b /\ b - p = need /\ f <= b /\ b - f = H
  BY <1>2, <1>3
<1>7. p - o = b - (o + need) \/ ~(p - o \in Nat)
  BY <1>2, <1>3
<1> HIDE DEF p, b
<1>8. /\ Inside(self)
      /\ \E m \in Nat :
           /\ p - o \in Nat /\ p < m /\ m <= got[self]
           /\ Holds(q, self, p - o, got[self])
           /\ Len(tmp_buf) = m - (p - o)
           /\ tmp_buf = Bytes(self, p - o, m)
           /\ s = Bytes(self, p, m)
           /\ Tail(q) \in Seq(Seq(Byte))
           /\ Rest(Tail(q), got[self], 0, self, m)
  BY <1>1, <1>2, <1>6, HeadOfChunk, Zenon DEF q, f, o, s
<1>9. PICK m \in Nat :
           /\ p - o \in Nat /\ p < m /\ m <= got[self]
           /\ Holds(q, self, p - o, got[self])
           /\ Len(tmp_buf) = m - (p - o)
           /\ tmp_buf = Bytes(self, p - o, m)
           /\ s = Bytes(self, p, m)
           /\ Tail(q) \in Seq(Seq(Byte))
           /\ Rest(Tail(q), got[self], 0, self, m)
  BY <1>8
<1>10. b <= m
  <2>1. p <= m
    BY <1>6, <1>9
  <2>2. Len(Bytes(self, p, m)) = m - p
    BY <1>6, <2>1, BytesLen, Zenon
  <2>3. m - p >= need
    BY <1>1, <1>9, <2>2, Zenon
  <2> QED
    BY <1>3, <1>6, <2>3
<1>19. Before(f, p, b) /\ Before(p, b, m)
  BY <1>3, <1>6, <1>10 DEF Before
<1>11. header = Bytes(self, f, b) /\ rest = Bytes(self, b, m)
  <2>1. Bytes(self, f, p) \o First(Bytes(self, p, m), b - p) = Bytes(self, f, b)
    BY <1>19, HeaderMade, Zenon
  <2>3. Behind(Bytes(self, p, m), b - p) = Bytes(self, b, m)
    <3>1. Before(p, b, m)
      BY <1>19
    <3>2. Parted(self, p, b, m)
      BY <3>1, BehindHeader, Zenon
    <3> QED
      BY <3>2, Zenon DEF Parted
  <2>2. header = Bytes(self, f, p) \o First(s, need) /\ rest = Behind(s, need)
    BY <1>2, Zenon DEF header, rest
  <2> QED
    BY <1>6, <1>9, <2>1, <2>2, <2>3, Zenon
<1>12. n = e - b /\ e \in Nat /\ b < e /\ b <= e /\ e <= LastByte(self)
  <2>1. e \in Nat /\ b < e /\ e <= LastByte(self)
    BY <1>8, InvFacts DEF e, f, b
  <2>2. n = e - b
    BY <1>5, <1>8, <1>11, Zenon DEF n
  <2> QED
    BY <1>6, <2>1, <2>2
<1>20. Before(f, b, m) /\ Before(f, b, e)
  BY <1>3, <1>6, <1>10, <1>12 DEF Before
<1>13. buf' = Bytes(self, f, IF m < e THEN m ELSE e)
  <2>1. Bytes(self, f, b) \o First(Bytes(self, b, m),
           IF Len(Bytes(self, b, m)) < e - b THEN Len(Bytes(self, b, m)) ELSE e - b)
          = Bytes(self, f, IF m < e THEN m ELSE e)
    BY <1>20, DataMade, Zenon
  <2> QED
    BY <1>1, <1>11, <1>12, <2>1, Zenon
<1>14. three' \in Seq(Byte) /\ Len(three') <= H
  <2>1. b <= LastByte(self)
    BY <1>3, <1>6, <1>12
  <2>2. Bytes(self, f, b) \in Seq(Byte) /\ Len(Bytes(self, f, b)) = b - f
    BY <1>3, <1>6, <2>1, TypedBytes, BytesLen, Zenon
  <2> QED
    BY <1>1, <1>3, <1>6, <1>11, <2>2
<1>15. EndTurn(Whole(Bytes(self, b, m), e - b, o + need))
  BY <1>1, <1>11, <1>12, Zenon
<1>16. o + need \in Nat /\ o + need <= b /\ p - o = b - (o + need)
  BY <1>3, <1>6, <1>7, <1>9
<1>17. f + H = b /\ f + H <= b
  BY <1>3, <1>6
<1>18. Turn(b, m, o + need)
  BY <1>1, <1>4, <1>6, <1>8, <1>9, <1>10, <1>12, <1>13, <1>14, <1>15, <1>16, <1>17, Zenon
     DEF Turn, q, f, e
<1> QED
  BY <1>6, <1>16, <1>18, TurnToMessage, Zenon

\* ANALYSIZE_BUFFER_HEADER with too little for the header in the buffer.
LEMMA HeaderPartKeeps ==
  ASSUME GwInv, self # NoConn, AnalyseHeader,
         ~(Len(Behind(tmp_buf, observ.offset)) >= observ.header)
  PROVE  GwInv'
<1> DEFINE f == From(self)
           need == observ.header
           o == observ.offset
           p == f + (H - need)
           q == readbuf[self]
           s == Behind(tmp_buf, o)
           o2 == Observ(FALSE, 0, need - Len(s), observ.data)
<1>1. /\ InHeader(self) /\ q # <<>> /\ ~(Len(s) >= need)
      /\ three' = First(three, H - need) \o s
      /\ UNCHANGED buf
      /\ EndTurn(o2)
  BY InvFacts DEF AnalyseHeader, InParse, Behind, H
<1>2. need >= 1 /\ First(three, H - need) = Bytes(self, f, p) /\ Taken(self, p)
  BY <1>1 DEF InHeader
<1>3. /\ self \in Conn /\ f \in Nat /\ need \in 0..H /\ H \in Nat /\ H >= 1
      /\ o \in Nat /\ LastByte(self) \in Nat /\ got[self] \in Nat
      /\ got[self] <= LastByte(self) /\ observ.data \in Nat
  BY InvFacts, Ends
<1>4. UNCHANGED <<timeVars, self, got, dealt>> /\ buf' \in Seq(Byte)
  BY <1>1 DEF EndTurn, GwInv, GatewaysTypeOK
<1>5. From(self)' = f /\ got'[self] = got[self] /\ self' = self
  BY <1>4 DEF From
<1>6. o2 = [analysized |-> FALSE, offset |-> 0, header |-> need - Len(s), data |-> observ.data]
  BY DEF Observ
<1> HIDE DEF o2
<1>7. /\ observ' = o2 /\ BufferState' = Recompute(o2)
      /\ readbuf' = [readbuf EXCEPT ![self] = Tail(q)]
  BY <1>1, <1>6 DEF EndTurn
<1> HIDE DEF f, need, o, q, s
<1>8. p \in Nat /\ f <= p
  BY <1>2, <1>3
<1> HIDE DEF p
<1>9. PICK m \in Nat :
           /\ p < m /\ m <= got[self]
           /\ s = Bytes(self, p, m)
           /\ Tail(q) \in Seq(Seq(Byte))
           /\ Rest(Tail(q), got[self], 0, self, m)
  BY <1>1, <1>2, <1>8, HeadOfChunk, Zenon DEF q, f, o, s
<1>10. p <= m
  BY <1>8, <1>9
<1>11. Len(s) = m - p
  BY <1>8, <1>9, <1>10, BytesLen, Zenon
<1>12. /\ need - Len(s) \in 0..H /\ need - Len(s) >= 1 /\ f <= m
       /\ H - (need - Len(s)) = m - f /\ m - f <= H /\ f + (m - f) = m /\ m <= LastByte(self)
       /\ m - f \in 0..(m - f)
  BY <1>1, <1>2, <1>3, <1>8, <1>9, <1>10, <1>11, SMTT(30) DEF p
<1>13. three' = Bytes(self, f, m)
  <2>1. Bytes(self, f, p) \o Bytes(self, p, m) = Bytes(self, f, m)
    BY <1>3, <1>8, <1>10, BytesJoin, Zenon
  <2> QED
    BY <1>1, <1>2, <1>9, <2>1, Zenon
<1>14. three' \in Seq(Byte) /\ Len(three') <= H
  <2>1. Bytes(self, f, m) \in Seq(Byte)
    BY <1>3, <1>12, TypedBytes, Zenon
  <2>2. Len(Bytes(self, f, m)) = m - f
    BY <1>3, <1>12, BytesLen, Zenon
  <2> QED
    BY <1>12, <1>13, <2>1, <2>2
<1>15. First(three', m - f) = Bytes(self, f, m)
  <2>1. First(Bytes(self, f, m), m - f) = Bytes(self, f, f + (m - f))
    BY <1>3, <1>12, BytesFirst, Zenon
  <2> QED
    BY <1>12, <1>13, <2>1, Zenon
<1>16. /\ o2 \in [analysized : BOOLEAN, offset : Nat, header : 0..H, data : Nat]
       /\ ~o2.analysized /\ o2.offset = 0 /\ o2.header = need - Len(s)
  BY <1>3, <1>6, <1>12
<1>17. BufferState' = "ANALYSIZE_BUFFER_HEADER"
  BY <1>7, <1>12, <1>16 DEF Recompute
<1>18. readbuf'[self] = Tail(q)
  BY <1>3, <1>7 DEF GwInv, GatewaysTypeOK
<1>19. InHeader(self)'
  <2>1. ~observ'.analysized /\ observ'.header >= 1 /\ H - observ'.header = m - f
    BY <1>7, <1>12, <1>16
  <2>3. First(three', H - observ'.header) = Bytes(self, f, f + (H - observ'.header))
    BY <1>12, <1>15, <2>1
  <2>4. Rest(readbuf'[self], got'[self], observ'.offset, self, f + (H - observ'.header))
    BY <1>5, <1>7, <1>9, <1>12, <1>16, <1>18, <2>1
  <2> QED
    BY <1>5, <2>1, <2>3, <2>4 DEF InHeader, Taken
<1>20. InParse(self)'
  BY <1>17, <1>19 DEF InParse
<1> QED
  BY <1>4, <1>7, <1>9, <1>14, <1>16, <1>17, <1>20, TurnKeeps

\* REBUILD_BUFFER_SUCCESS passes the message on, and the next one begins.
LEMMA DealKeeps ==
  ASSUME GwInv, self # NoConn, Deal
  PROVE  GwInv'
<1> DEFINE k == Len(dealt[self]) + 1
           d2 == Append(dealt[self], buf)
           e == To(self)
<1>1. /\ IsWhole(self)
      /\ observ' = [observ EXCEPT !.analysized = FALSE]
      /\ BufferState' = Recompute(observ')
      /\ dealt' = [dealt EXCEPT ![self] = d2]
      /\ buf' = <<>>
      /\ UNCHANGED <<timeVars, self, got, readbuf, three>>
  BY InvFacts DEF Deal, InParse
<1>2. /\ self \in Conn /\ k \in 1..Len(End[self]) /\ dealt[self] \in Seq(Seq(Byte))
      /\ Len(End[self]) \in Nat
      /\ e \in Nat /\ H \in Nat /\ H >= 1 /\ HeaderLen = H
      /\ dealt \in [Conn -> Seq(Seq(Byte))] /\ buf \in Seq(Byte)
      /\ three \in Seq(Byte) /\ Len(three) <= H
      /\ observ \in [analysized : BOOLEAN, offset : Nat, header : 0..HeaderLen, data : Nat]
  BY <1>1, InvFacts, Ends, HNat DEF IsWhole, GwInv, GatewaysTypeOK
<1>3. /\ d2 \in Seq(Seq(Byte)) /\ Len(d2) = k
      /\ d2[k] = buf /\ \A j \in 1..(k - 1) : d2[j] = dealt[self][j]
  BY <1>2
<1>4. /\ buf = Message(self, k) /\ Start(self, k + 1) = e /\ Taken(self, e)
      /\ observ.analysized /\ observ.header = H
  <2>1. Start(self, k + 1) = End[self][k]
    BY <1>2, Ends
  <2> QED
    BY <1>1, <2>1 DEF IsWhole, From, To, Message
<1> HIDE DEF d2, e
<1>5. dealt'[self] = d2 /\ \A c \in Conn : c # self => dealt'[c] = dealt[c]
  BY <1>1, <1>2
<1>6. From(self)' = e
  BY <1>1, <1>3, <1>4, <1>5 DEF From
<1>7. /\ ~observ'.analysized /\ observ'.header = H /\ observ'.offset = observ.offset
      /\ observ' \in [analysized : BOOLEAN, offset : Nat, header : 0..HeaderLen, data : Nat]
  BY <1>1, <1>2, <1>4
<1>8. BufferState' = "ANALYSIZE_BUFFER_HEADER"
  BY <1>1, <1>2, <1>7 DEF Recompute
<1>9. InHeader(self)'
  <2>1. First(three, 0) = <<>>
    BY <1>2 DEF First
  <2>2. Bytes(self, e, e) = <<>>
    BY <1>2, NoBytes, Zenon
  <2>3. H - observ'.header = 0 /\ e + 0 = e
    BY <1>2, <1>7
  <2>4. Rest(readbuf'[self], got'[self], observ'.offset, self, e)
    BY <1>1, <1>4, <1>7 DEF Taken
  <2>5. First(three', H - observ'.header) = Bytes(self, e, e + (H - observ'.header))
    BY <1>1, <2>1, <2>2, <2>3
  <2>6. Rest(readbuf'[self], got'[self], observ'.offset, self, e + (H - observ'.header))
    BY <2>3, <2>4
  <2> QED
    BY <1>1, <1>2, <1>6, <1>7, <2>5, <2>6 DEF InHeader, Taken
<1>10. InParse(self)'
  BY <1>8, <1>9 DEF InParse
<1>11. GatewaysTypeOK'
  <2>1. TimeTypeOK'
    BY <1>1 DEF GwInv, GatewaysTypeOK, TimeTypeOK, timeVars, Age
  <2>2. dealt' \in [Conn -> Seq(Seq(Byte))]
    BY <1>1, <1>2, <1>3
  <2>3. buf' \in Seq(Byte)
    BY <1>1
  <2> QED
    BY <1>1, <1>7, <1>8, <2>1, <2>2, <2>3 DEF GwInv, GatewaysTypeOK, timeVars
<1>12. MessagesIntact'
  <2> SUFFICES ASSUME NEW c \in Conn
               PROVE  /\ Len(dealt'[c]) <= Len(End[c])
                      /\ \A j \in DOMAIN dealt'[c] : dealt'[c][j] = Message(c, j)
    BY DEF MessagesIntact
  <2>1. CASE c # self
    BY <1>5, <2>1 DEF GwInv, MessagesIntact
  <2>2. CASE c = self
    <3>1. Len(d2) <= Len(End[self])
      BY <1>2, <1>3
    <3>2. ASSUME NEW j \in DOMAIN d2 PROVE d2[j] = Message(self, j)
      <4>1. j \in 1..k
        BY <1>3
      <4>2. CASE j = k
        BY <1>3, <1>4, <4>2
      <4>3. CASE j # k
        <5>1. j \in 1..(k - 1) /\ j \in DOMAIN dealt[self]
          BY <1>2, <4>1, <4>3
        <5> QED
          BY <1>2, <1>3, <5>1 DEF GwInv, MessagesIntact
      <4> QED
        BY <4>2, <4>3
    <3> QED
      BY <1>5, <2>2, <3>1, <3>2
  <2> QED
    BY <2>1, <2>2
<1>13. ASSUME NEW c \in Conn, c # self', status'[c] # "FREE" PROVE AtRest(c)'
  <2>1. AtRest(c) /\ c # self
    BY <1>1, <1>13 DEF GwInv, timeVars
  <2>2. dealt'[c] = dealt[c]
    BY <1>5, <2>1
  <2> QED
    BY <1>1, <2>1, <2>2 DEF AtRest, From, To, Inside
<1> QED
  BY <1>1, <1>10, <1>11, <1>12, <1>13 DEF GwInv

\* NO_ENOUGH_BUFFER puts what there is of the message back.
LEMMA NotEnoughKeeps ==
  ASSUME GwInv, self # NoConn, NotEnough
  PROVE  GwInv'
<1> DEFINE f == From(self)
           e == To(self)
           g == got[self]
           left == IF Recompute(observ) = "ANALYSIZE_BUFFER_HEADER"
                   THEN First(three, HeaderLen - observ.header) ELSE buf
           q2 == IF left = <<>> THEN readbuf[self] ELSE <<left>>
<1>1. /\ BufferState # "REBUILD_BUFFER_SUCCESS" /\ readbuf[self] = <<>>
      /\ readbuf' = [readbuf EXCEPT ![self] = q2]
      /\ observ' = Observ(FALSE, 0, 0, 0)
      /\ BufferState' = Recompute(observ)
      /\ self' = NoConn
      /\ buf' = <<>>
      /\ UNCHANGED <<timeVars, got, three, dealt>>
  BY DEF NotEnough
<1>2. /\ self \in Conn /\ f \in Nat /\ g \in Nat /\ g <= LastByte(self)
      /\ H \in Nat /\ H >= 1 /\ HeaderLen = H /\ observ.header \in 0..H
      /\ Inside(self) => e \in Nat /\ f + H < e
      /\ readbuf \in [Conn -> Seq(Seq(Byte))] /\ NoConn \notin Conn
      /\ observ.data \in Nat /\ LastByte(self) \in Nat
  BY InvFacts, HNat, Ends, GatewaysAssumption DEF GwInv, GatewaysTypeOK
<1>3. \/ BufferState = "ANALYSIZE_BUFFER_HEADER" /\ InHeader(self)
      \/ BufferState = "READ_BUFFER_DATA" /\ InData(self)
  BY <1>1, InvFacts DEF GwInv, GatewaysTypeOK, InParse
<1>4. /\ f <= g /\ (Inside(self) => g < e) /\ left = Bytes(self, f, g)
      /\ Recompute(observ) \in {"ANALYSIZE_BUFFER_HEADER", "READ_BUFFER_DATA"}
  <2>1. CASE InHeader(self)
    <3> DEFINE n == H - observ.header
    <3>1. /\ ~observ.analysized /\ observ.header >= 1
          /\ First(three, n) = Bytes(self, f, f + n) /\ Taken(self, f + n)
      BY <2>1 DEF InHeader
    <3>2. Recompute(observ) = "ANALYSIZE_BUFFER_HEADER"
      BY <1>2, <3>1 DEF Recompute
    <3>3. left = First(three, n)
      BY <1>2, <3>2
    <3> HIDE DEF left, f, g, e
    <3>4. f + n = g
      BY <1>1, <3>1, RestNone, Zenon DEF Taken, g
    <3>5. n \in 0..H
      BY <1>2
    <3> HIDE DEF n
    <3>6. f <= g /\ (Inside(self) => g < e)
      BY <1>2, <3>4, <3>5
    <3> QED
      BY <3>1, <3>2, <3>3, <3>4, <3>6
  <2>2. CASE InData(self)
    <3> DEFINE p == e - observ.data
    <3>1. /\ ~observ.analysized /\ observ.header = 0 /\ observ.data >= 1
          /\ Inside(self) /\ f + H <= p
          /\ buf = Bytes(self, f, p) /\ Taken(self, p)
      BY <2>2 DEF InData
    <3>2. Recompute(observ) = "READ_BUFFER_DATA"
      BY <1>2, <3>1 DEF Recompute
    <3>3. left = buf
      BY <3>2
    <3> HIDE DEF left, f, g, e
    <3>4. p = g
      BY <1>1, <3>1, RestNone, Zenon DEF Taken, g
    <3>6. f <= g /\ g < e
      BY <1>2, <3>1, <3>4
    <3> HIDE DEF p
    <3> QED
      BY <3>1, <3>2, <3>3, <3>4, <3>6
  <2> QED
    BY <1>3, <2>1, <2>2
<1> HIDE DEF left, f, g, e
<1>5. /\ Bytes(self, f, g) \in Seq(Byte) /\ Len(Bytes(self, f, g)) = g - f
  <2>1. Bytes(self, f, g) \in Seq(Byte)
    BY <1>2, <1>4, TypedBytes, Zenon
  <2>2. Len(Bytes(self, f, g)) = g - f
    BY <1>2, <1>4, BytesLen, Zenon
  <2> QED
    BY <2>1, <2>2
<1>6. q2 = IF g = f THEN <<>> ELSE <<Bytes(self, f, g)>>
  BY <1>1, <1>2, <1>4, <1>5
<1> HIDE DEF q2
<1>7. q2 \in Seq(Seq(Byte))
  BY <1>5, <1>6
<1>8. /\ readbuf' \in [Conn -> Seq(Seq(Byte))] /\ readbuf'[self] = q2
      /\ \A c \in Conn : c # self => readbuf'[c] = readbuf[c]
  BY <1>1, <1>2, <1>7
<1>9. GatewaysTypeOK'
  <2>1. TimeTypeOK'
    BY <1>1 DEF GwInv, GatewaysTypeOK, TimeTypeOK, timeVars, Age
  <2>2. observ' \in [analysized : BOOLEAN, offset : Nat, header : 0..HeaderLen, data : Nat]
    BY <1>1, <1>2 DEF Observ
  <2>3. buf' \in Seq(Byte)
    BY <1>1
  <2> QED
    BY <1>1, <1>4, <1>8, <2>1, <2>2, <2>3 DEF GwInv, GatewaysTypeOK, timeVars
<1>10. MessagesIntact'
  BY <1>1 DEF GwInv, MessagesIntact
<1>11. ASSUME NEW c \in Conn, status'[c] # "FREE" PROVE AtRest(c)'
  <2>1. /\ From(c)' = From(c) /\ To(c)' = To(c) /\ Inside(c)' = Inside(c)
        /\ got' = got
    BY <1>1 DEF From, To, Inside
  <2>2. CASE c = self
    BY <1>4, <1>6, <1>8, <2>1, <2>2 DEF AtRest, f, e, g
  <2>3. CASE c # self
    <3>1. AtRest(c) /\ readbuf'[c] = readbuf[c]
      BY <1>1, <1>8, <1>11, <2>3 DEF GwInv, timeVars
    <3> QED
      BY <2>1, <3>1 DEF AtRest
  <2> QED
    BY <2>2, <2>3
<1> QED
  BY <1>1, <1>9, <1>10, <1>11 DEF GwInv

-----------------------------------------------------------------------------
(* The other steps keep the invariant                                       *)

\* The chunk of a connection at rest, with what was read in one more buffer.
LEMMA RestHolds ==
  ASSUME GwInv, NEW c \in Conn, c # self, status[c] # "FREE"
  PROVE  /\ From(c) \in Nat /\ got[c] \in Nat
         /\ readbuf[c] \in Seq(Seq(Byte))
         /\ Holds(readbuf[c], c, From(c), got[c])
<1> DEFINE f == From(c)
           g == got[c]
           q == readbuf[c]
<1>1. /\ f <= g /\ q = IF g = f THEN <<>> ELSE <<Bytes(c, f, g)>>
  BY DEF GwInv, AtRest
<1>2. Len(dealt[c]) \in Nat /\ Len(End[c]) \in Nat /\ Len(dealt[c]) <= Len(End[c])
  BY Ends DEF GwInv, GatewaysTypeOK, MessagesIntact
<1>3. f \in Nat
  <2>1. Len(dealt[c]) + 1 \in 1..(Len(End[c]) + 1)
    BY <1>2
  <2> QED
    BY <2>1, Ends DEF From
<1>4. g \in Nat /\ g <= LastByte(c) /\ q \in Seq(Seq(Byte))
  BY DEF GwInv, GatewaysTypeOK
<1> HIDE DEF f, g, q
<1>5. ASSUME g = f PROVE Holds(q, c, f, g)
  <2>1. q = <<>>
    BY <1>1, <1>5
  <2>2. Holds(<<>>, c, f, f)
    BY <1>3, NoneHolds
  <2> QED
    BY <1>5, <2>1, <2>2, Zenon
<1>6. ASSUME g # f PROVE Holds(q, c, f, g)
  <2>1. f < g
    BY <1>1, <1>3, <1>4, <1>6
  <2>2. Bytes(c, f, g) \in Seq(Byte)
    BY <1>1, <1>3, <1>4, TypedBytes, Zenon
  <2>3. Holds(<<>>, c, f, f)
    BY <1>3, NoneHolds
  <2>4. <<>> \in Seq(Seq(Byte))
    OBVIOUS
  <2>5. Holds(Append(<<>>, Bytes(c, f, g)), c, f, g)
    BY <1>4, <2>1, <2>2, <2>3, <2>4, AppendHolds, Zenon
  <2>6. q = Append(<<>>, Bytes(c, f, g))
    BY <1>1, <1>6
  <2> QED
    BY <2>5, <2>6, Zenon
<1>7. Holds(q, c, f, g)
  BY <1>5, <1>6, Zenon
<1> QED
  BY <1>3, <1>4, <1>7 DEF f, g, q

\* What is read goes behind it.
LEMMA ReadHolds ==
  ASSUME NEW c \in Conn, NEW q \in Seq(Seq(Byte)), NEW f, NEW g \in Nat, Holds(q, c, f, g),
         NEW m \in Nat, NEW n \in Nat, g < m, m <= n, n <= LastByte(c),
         NEW q2, q2 = q \o (IF m = n THEN <<Bytes(c, g, n)>>
                            ELSE <<Bytes(c, g, m), Bytes(c, m, n)>>)
  PROVE  q2 \in Seq(Seq(Byte)) /\ Holds(q2, c, f, n)
<1>0. g <= m /\ m <= LastByte(c)
  BY Ends
<1>1. Bytes(c, g, m) \in Seq(Byte)
  BY <1>0, TypedBytes, Zenon
<1>2. Bytes(c, m, n) \in Seq(Byte)
  BY TypedBytes, Zenon
<1> DEFINE q1 == Append(q, Bytes(c, g, m))
<1>3. q1 \in Seq(Seq(Byte)) /\ Holds(q1, c, f, m)
  BY <1>1, AppendHolds, Zenon
<1>4. CASE m = n
  <2>1. q2 = q1
    BY <1>1, <1>4
  <2> QED
    BY <1>3, <1>4, <2>1, Zenon
<1>5. CASE m # n
  <2>1. m < n
    BY <1>5
  <2>2. q2 = Append(q1, Bytes(c, m, n))
    BY <1>1, <1>2, <1>5
  <2> HIDE DEF q1
  <2>3. Append(q1, Bytes(c, m, n)) \in Seq(Seq(Byte)) /\ Holds(Append(q1, Bytes(c, m, n)), c, f, n)
    BY <1>2, <1>3, <2>1, AppendHolds, Zenon
  <2> QED
    BY <2>2, <2>3, Zenon
<1> QED
  BY <1>4, <1>5

\* gateway_handle reads and enters the parser.
LEMMA GwInKeeps ==
  ASSUME GwInv, TimeTypeOK', self = NoConn, NEW c \in Conn, GwIn(c)
  PROVE  GwInv'
<1> DEFINE f == From(c)
           g == got[c]
<1>0. NoConn \notin Conn /\ HeaderLen = H /\ H \in Nat /\ H >= 1
  BY GatewaysAssumption, HNat
<1>1. /\ status[c] = "WORKING" /\ status' = status /\ self' = c
      /\ BufferState' = "ANALYSIZE_BUFFER_HEADER"
      /\ observ' = Observ(FALSE, 0, HeaderLen, 0)
      /\ buf' = <<>> /\ UNCHANGED <<three, dealt>>
  BY DEF GwIn, StartParse
<1>2. /\ f \in Nat /\ g \in Nat /\ readbuf[c] \in Seq(Seq(Byte))
      /\ Holds(readbuf[c], c, f, g)
  BY <1>0, <1>1, RestHolds
<1>3. PICK n \in (g + 1)..LastByte(c) : \E m \in (g + 1)..n :
        /\ got' = [got EXCEPT ![c] = n]
        /\ readbuf' = [readbuf EXCEPT ![c] =
             @ \o (IF m = n THEN <<Bytes(c, g, n)>>
                   ELSE <<Bytes(c, g, m), Bytes(c, m, n)>>)]
  BY DEF GwIn
<1>4. PICK m \in (g + 1)..n :
        /\ got' = [got EXCEPT ![c] = n]
        /\ readbuf' = [readbuf EXCEPT ![c] =
             readbuf[c] \o (IF m = n THEN <<Bytes(c, g, n)>>
                            ELSE <<Bytes(c, g, m), Bytes(c, m, n)>>)]
  BY <1>3
<1> DEFINE q2 == readbuf[c] \o (IF m = n THEN <<Bytes(c, g, n)>>
                                ELSE <<Bytes(c, g, m), Bytes(c, m, n)>>)
<1>5. q2 = readbuf[c] \o (IF m = n THEN <<Bytes(c, g, n)>>
                          ELSE <<Bytes(c, g, m), Bytes(c, m, n)>>)
  OBVIOUS
<1>6. readbuf' = [readbuf EXCEPT ![c] = q2]
  BY <1>4
<1>7. /\ readbuf \in [Conn -> Seq(Seq(Byte))] /\ got \in [Conn -> Nat]
      /\ \A d \in Conn : got[d] <= LastByte(d)
      /\ three \in Seq(Byte)
  BY DEF GwInv, GatewaysTypeOK
<1> HIDE DEF f, g, q2
<1>8. g < m /\ m <= n /\ n <= LastByte(c) /\ m \in Nat /\ n \in Nat
  BY <1>2, Ends
<1>9. q2 \in Seq(Seq(Byte)) /\ Holds(q2, c, f, n)
  BY <1>2, <1>5, <1>8, ReadHolds, Zenon
<1>10. /\ readbuf' \in [Conn -> Seq(Seq(Byte))] /\ readbuf'[c] = q2
       /\ \A d \in Conn : d # c => readbuf'[d] = readbuf[d]
       /\ got' \in [Conn -> Nat] /\ got'[c] = n
       /\ \A d \in Conn : d # c => got'[d] = got[d]
  BY <1>4, <1>6, <1>7, <1>8, <1>9
<1>11. /\ observ' = [analysized |-> FALSE, offset |-> 0, header |-> H, data |-> 0]
  BY <1>0, <1>1 DEF Observ
<1>12. GatewaysTypeOK'
  <2>1. observ' \in [analysized : BOOLEAN, offset : Nat, header : 0..HeaderLen, data : Nat]
    BY <1>0, <1>11
  <2>2. buf' \in Seq(Byte)
    BY <1>1
  <2>3. \A d \in Conn : got'[d] <= LastByte(d)
    BY <1>7, <1>8, <1>10
  <2> QED
    BY <1>1, <1>10, <2>1, <2>2, <2>3 DEF GwInv, GatewaysTypeOK
<1>13. MessagesIntact'
  BY <1>1 DEF GwInv, MessagesIntact
<1>14. InHeader(c)'
  <2>1. /\ ~observ'.analysized /\ observ'.header >= 1 /\ observ'.offset = 0
        /\ H - observ'.header = 0 /\ f + 0 = f
    BY <1>0, <1>2, <1>11
  <2>2. From(c)' = f
    BY <1>1 DEF From, f
  <2>3. First(three', 0) = Bytes(c, f, f)
    <3>1. First(three, 0) = <<>>
      BY <1>7 DEF First
    <3>2. Bytes(c, f, f) = <<>>
      BY <1>2, NoBytes, Zenon
    <3> QED
      BY <1>1, <3>1, <3>2
  <2>4. Rest(q2, n, 0, c, f)
    BY <1>2, <1>9, HoldsRest
  <2>5. First(three', H - observ'.header) = Bytes(c, f, f + (H - observ'.header))
    BY <2>1, <2>3
  <2>6. Rest(readbuf'[c], got'[c], observ'.offset, c, f + (H - observ'.header))
    BY <1>10, <2>1, <2>4
  <2> QED
    BY <2>1, <2>2, <2>5, <2>6 DEF InHeader, Taken
<1>15. InParse(c)'
  BY <1>1, <1>14 DEF InParse
<1>16. ASSUME NEW d \in Conn, d # c, status'[d] # "FREE" PROVE AtRest(d)'
  <2>1. AtRest(d)
    BY <1>0, <1>1, <1>16 DEF GwInv
  <2>2. readbuf'[d] = readbuf[d] /\ got'[d] = got[d] /\ dealt' = dealt
    BY <1>1, <1>10, <1>16
  <2> QED
    BY <2>1, <2>2 DEF AtRest, From, To, Inside
<1> QED
  BY <1>1, <1>12, <1>13, <1>15, <1>16 DEF GwInv

\* A new gateway has sent nothing.
LEMMA GwAcceptKeeps ==
  ASSUME GwInv, TimeTypeOK', self = NoConn, NEW c \in Conn, GwAccept(c)
  PROVE  GwInv'
<1>1. /\ status' = [status EXCEPT ![c] = "WORKING"]
      /\ got' = [got EXCEPT ![c] = 0]
      /\ readbuf' = [readbuf EXCEPT ![c] = <<>>]
      /\ dealt' = [dealt EXCEPT ![c] = <<>>]
      /\ UNCHANGED <<self, parseVars>>
      /\ NoConn \notin Conn
  BY GatewaysAssumption DEF GwAccept, Accept
<1>2. /\ got \in [Conn -> Nat] /\ readbuf \in [Conn -> Seq(Seq(Byte))]
      /\ dealt \in [Conn -> Seq(Seq(Byte))] /\ DOMAIN status = Conn
  BY DEF GwInv, GatewaysTypeOK, TimeTypeOK
<1>3. /\ got' \in [Conn -> Nat] /\ got'[c] = 0
      /\ \A d \in Conn : d # c => got'[d] = got[d] /\ status'[d] = status[d]
  BY <1>1, <1>2
<1>4. /\ readbuf' \in [Conn -> Seq(Seq(Byte))] /\ readbuf'[c] = <<>>
      /\ \A d \in Conn : d # c => readbuf'[d] = readbuf[d]
  BY <1>1, <1>2
<1>5. /\ dealt' \in [Conn -> Seq(Seq(Byte))] /\ dealt'[c] = <<>>
      /\ \A d \in Conn : d # c => dealt'[d] = dealt[d]
  BY <1>1, <1>2
<1>6. /\ got' \in [Conn -> Nat] /\ got'[c] = 0
      /\ readbuf' \in [Conn -> Seq(Seq(Byte))] /\ readbuf'[c] = <<>>
      /\ dealt' \in [Conn -> Seq(Seq(Byte))] /\ dealt'[c] = <<>>
      /\ \A d \in Conn : d # c => /\ got'[d] = got[d] /\ readbuf'[d] = readbuf[d]
                                /\ dealt'[d] = dealt[d] /\ status'[d] = status[d]
  BY <1>3, <1>4, <1>5
<1>7. \A d \in Conn : got'[d] <= LastByte(d)
  <2>1. \A d \in Conn : got[d] <= LastByte(d)
    BY DEF GwInv, GatewaysTypeOK
  <2>2. LastByte(c) \in Nat
    BY Ends
  <2>3. 0 <= LastByte(c)
    BY <2>2
  <2> QED
    BY <1>3, <2>1, <2>3
<1>8. GatewaysTypeOK'
  BY <1>1, <1>6, <1>7 DEF GwInv, GatewaysTypeOK, parseVars
<1>9. MessagesIntact'
  <2> SUFFICES ASSUME NEW d \in Conn
               PROVE  /\ Len(dealt'[d]) <= Len(End[d])
                      /\ \A k \in DOMAIN dealt'[d] : dealt'[d][k] = Message(d, k)
    BY DEF MessagesIntact
  <2>1. CASE d = c
    BY <1>6, <2>1, Ends
  <2>2. CASE d # c
    BY <1>6, <2>2 DEF GwInv, MessagesIntact
  <2> QED
    BY <2>1, <2>2
<1>10. ASSUME NEW d \in Conn, status'[d] # "FREE" PROVE AtRest(d)'
  <2>1. CASE d = c
    <3>1. From(c)' = 0
      BY <1>6 DEF From, Start
    <3>2. Inside(c)' => 0 < To(c)'
      <4>1. ASSUME Inside(c)' PROVE 0 < To(c)'
        <5>1. 1 \in 1..Len(End[c]) /\ To(c)' = End[c][1]
          BY <1>6, <4>1, Ends DEF Inside, To
        <5> QED
          BY <5>1, HNat, Ends
      <4> QED
        BY <4>1
    <3> QED
      BY <1>6, <2>1, <3>1, <3>2 DEF AtRest
  <2>2. CASE d # c
    <3>1. AtRest(d)
      BY <1>1, <1>6, <1>10, <2>2 DEF GwInv
    <3> QED
      BY <1>6, <2>2, <3>1 DEF AtRest, From, To, Inside
  <2> QED
    BY <2>1, <2>2
<1> QED
  BY <1>1, <1>8, <1>9, <1>10 DEF GwInv

\* The events that bring no bytes.
LEMMA QuietKeeps ==
  ASSUME GwInv, TimeTypeOK', self = NoConn, UNCHANGED gwVars,
         \A c \in Conn : status'[c] # "FREE" => status[c] # "FREE"
  PROVE  GwInv'
<1>1. NoConn \notin Conn /\ UNCHANGED <<self, got, readbuf, BufferState, observ, three, buf, dealt>>
  BY GatewaysAssumption DEF gwVars, parseVars
<1>2. GatewaysTypeOK'
  BY <1>1 DEF GwInv, GatewaysTypeOK
<1>3. MessagesIntact'
  BY <1>1 DEF GwInv, MessagesIntact
<1>4. ASSUME NEW c \in Conn, status'[c] # "FREE" PROVE AtRest(c)'
  <2>1. AtRest(c)
    BY <1>1, <1>4 DEF GwInv
  <2> QED
    BY <1>1, <2>1 DEF AtRest, From, To, Inside
<1> QED
  BY <1>1, <1>2, <1>3, <1>4 DEF GwInv

-----------------------------------------------------------------------------
(* The theorems                                                             *)

LEMMA GwInitInv == Init => GwInv
<1> SUFFICES ASSUME Init PROVE GwInv
  OBVIOUS
<1>1. TimeTypeOK
  BY TimeInitInv DEF Init, TimeInv
<1>2. /\ got \in [Conn -> Nat] /\ \A c \in Conn : got[c] <= LastByte(c)
      /\ readbuf \in [Conn -> Seq(Seq(Byte))] /\ dealt \in [Conn -> Seq(Seq(Byte))]
  BY Ends DEF Init
<1>3. observ \in [analysized : BOOLEAN, offset : Nat, header : 0..HeaderLen, data : Nat]
  BY HNat DEF Init, Observ
<1>4. /\ self = NoConn /\ three \in Seq(Byte) /\ Len(three) <= HeaderLen /\ buf \in Seq(Byte)
      /\ BufferState = "ANALYSIZE_BUFFER_HEADER"
  BY HNat DEF Init
<1>5. GatewaysTypeOK
  BY <1>1, <1>2, <1>3, <1>4 DEF GatewaysTypeOK
<1>6. MessagesIntact
  BY Ends DEF Init, MessagesIntact
<1>7. \A c \in Conn : status[c] = "FREE"
  BY DEF Init, TimeInit
<1> QED
  BY <1>4, <1>5, <1>6, <1>7 DEF GwInv

LEMMA GwStep == TimeInv /\ GwInv /\ TimeInv' /\ [Next]_vars => GwInv'
<1> SUFFICES ASSUME TimeInv, GwInv, TimeInv', [Next]_vars PROVE GwInv'
  OBVIOUS
<1>0. TimeTypeOK' /\ TimeTypeOK
  BY DEF TimeInv
<1>1. CASE UNCHANGED vars
  <2>1. UNCHANGED <<status, self, got, readbuf, BufferState, observ, three, buf, dealt>>
    BY <1>1 DEF vars, timeVars, gwVars, parseVars
  <2>2. GatewaysTypeOK'
    BY <1>0, <2>1 DEF GwInv, GatewaysTypeOK
  <2>3. MessagesIntact'
    BY <2>1 DEF GwInv, MessagesIntact
  <2>4. \A c \in Conn : c # self' /\ status'[c] # "FREE" => AtRest(c)'
    BY <2>1 DEF GwInv, AtRest, From, To, Inside
  <2>5. self' # NoConn => InParse(self)'
    BY <2>1 DEF GwInv, InParse, InHeader, InData, IsWhole, From, To, Inside, Taken
  <2> QED
    BY <2>2, <2>3, <2>4, <2>5 DEF GwInv
<1>2. ASSUME self = NoConn, NEW c \in Conn, GwAccept(c) PROVE GwInv'
  BY <1>0, <1>2, GwAcceptKeeps
<1>3. ASSUME self = NoConn, NEW c \in Conn, GwIn(c) PROVE GwInv'
  BY <1>0, <1>3, GwInKeeps
<1>4. ASSUME self = NoConn, NEW c \in Conn, Others(c) PROVE GwInv'
  <2>1. UNCHANGED gwVars
    BY <1>4 DEF Others
  <2>2. \A d \in Conn : status'[d] # "FREE" => status[d] # "FREE"
    <3>1. CASE Received(c) \/ Sent(c)
      BY <1>0, <3>1 DEF Received, Sent, Handled, EndHandler, TimeTypeOK
    <3>2. CASE SignalClose(c) \/ Free(c)
      BY <1>0, <3>2 DEF SignalClose, Free, TimeTypeOK
    <3> QED
      BY <1>4, <3>1, <3>2 DEF Others
  <2> QED
    BY <1>0, <1>4, <2>1, <2>2, QuietKeeps
<1>5. ASSUME self = NoConn, NEW d \in 1..Timeout[list], Alarm(d) PROVE GwInv'
  <2>1. UNCHANGED gwVars
    BY <1>5 DEF Alarm
  <2>2. \A c \in Conn : status'[c] # "FREE" => status[c] # "FREE"
    <3> SUFFICES ASSUME NEW c \in Conn, status'[c] # "FREE" PROVE status[c] # "FREE"
      OBVIOUS
    <3>1. queue' = queue
      BY <1>5 DEF Alarm, Tick
    <3>2. \E i \in DOMAIN queue : queue[i] = c
      BY <1>0, <3>1 DEF TimeTypeOK
    <3> QED
      BY <1>0, <3>2 DEF TimeTypeOK
  <2> QED
    BY <1>0, <1>5, <2>1, <2>2, QuietKeeps
<1>6. ASSUME self # NoConn, AnalyseHeader PROVE GwInv'
  BY <1>6, WholeHeaderKeeps, HeaderPartKeeps
<1>7. ASSUME self # NoConn, ReadData PROVE GwInv'
  BY <1>7, ReadDataKeeps
<1>8. ASSUME self # NoConn, Deal PROVE GwInv'
  BY <1>8, DealKeeps
<1>9. ASSUME self # NoConn, NotEnough PROVE GwInv'
  BY <1>9, NotEnoughKeeps
<1> QED
  BY <1>1, <1>2, <1>3, <1>4, <1>5, <1>6, <1>7, <1>8, <1>9 DEF Next

LEMMA GwAlways == Spec => [](TimeInv /\ GwInv)
<1>1. Init => TimeInv /\ GwInv
  BY GwInitInv, TimeInitInv DEF Init
<1>2. TimeInv /\ GwInv /\ [Next]_vars => (TimeInv /\ GwInv)'
  <2> SUFFICES ASSUME TimeInv, GwInv, [Next]_vars PROVE TimeInv' /\ GwInv'
    OBVIOUS
  <2>1. TimeInv'
    BY NextKeepsTime, TimeStep
  <2> QED
    BY <2>1, GwStep
<1> QED
  BY <1>1, <1>2, PTL DEF Spec

\* The variables of the gateways and of the parser's static state
\* (gateway_interface.c) stay within their types.
THEOREM GatewaysTypeCorrect == Spec => []GatewaysTypeOK
<1>1. GwInv => GatewaysTypeOK
  BY DEF GwInv
<1> QED
  BY <1>1, GwAlways, PTL

\* Whatever messages the gateways send, and however their bytes come cut and
\* interleaved, try_read_rbuffer gives deel_gw_buffer exactly these messages,
\* whole and in order.
THEOREM MessagesAlwaysIntact == Spec => []MessagesIntact
<1>1. GwInv => MessagesIntact
  BY DEF GwInv
<1> QED
  BY <1>1, GwAlways, PTL

\* When the handler of a gateway has returned, no whole message is left in
\* its readbuf, and of an unfinished one no byte is lost.
THEOREM NothingEverWaits == Spec => []NothingWaits
<1>1. GwInv => NothingWaits
  <2> SUFFICES ASSUME GwInv, NEW c \in Conn, c # self, status[c] # "FREE"
               PROVE  LET k == Len(dealt[c]) + 1
                          from == Start(c, k)
                      IN /\ k \in DOMAIN End[c] => got[c] < End[c][k]
                         /\ readbuf[c] = IF got[c] = from THEN <<>>
                                         ELSE <<Bytes(c, from, got[c])>>
    BY DEF NothingWaits
  <2>1. AtRest(c)
    BY DEF GwInv
  <2>2. Len(dealt[c]) + 1 \in DOMAIN End[c] => Inside(c)
    BY Ends DEF Inside
  <2> QED
    BY <2>1, <2>2 DEF AtRest, From, To
<1> QED
  BY <1>1, GwAlways, PTL
=============================================================================
