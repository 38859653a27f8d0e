-------------------------- MODULE TimeQueue_proofs ---------------------------
(***************************************************************************)
(* Proof that a list of connections stays in the order of their last        *)
(* events and that no silent connection is missed by the timer, for any     *)
(* number of connections and any timeouts.                                  *)
(***************************************************************************)
EXTENDS TimeQueue, Queues_proofs

USE TimeAssumption

\* The inductive invariant.  IdleIsClosed is inductive only with Sorted: the
\* walk of the timer reaches every silent connection because they come first.
TimeInv == TimeTypeOK /\ Sorted /\ IdleIsClosed

LEMMA PlaceOf ==
  ASSUME TimeTypeOK, NEW c \in Conn, status[c] # "FREE"
  PROVE  Place(c) \in DOMAIN queue /\ queue[Place(c)] = c
<1>1. \E i \in DOMAIN queue : queue[i] = c
  BY DEF TimeTypeOK
<1> QED
  BY <1>1 DEF Place

\* The ages of connections.
LEMMA Ages ==
  ASSUME TimeTypeOK
  PROVE  /\ Timeout[list] \in Nat \ {0}
         /\ \A c \in Conn : /\ rec[c] \in Nat /\ rec[c] <= Timeout[list]
                            /\ snd[c] \in Nat /\ snd[c] <= Timeout[list]
                            /\ Silence(c) \in Nat
                            /\ Silence(c) <= rec[c] /\ Silence(c) <= snd[c]
                            /\ Silence(c) = rec[c] \/ Silence(c) = snd[c]
  BY DEF TimeTypeOK, Age, Silence, LastAge

\* An event of c: c goes to the tail, silent for no time, its close may be
\* signalled; the others keep their order, ages and status.
LEMMA EventStep ==
  ASSUME TimeInv, NEW c \in Conn, status[c] # "FREE", MoveToTail(c),
         UNCHANGED list, EndHandler(c),
         rec' \in [Conn -> Age], snd' \in [Conn -> Age],
         Silence(c)' = 0,
         \A d \in Conn : d # c => rec'[d] = rec[d] /\ snd'[d] = snd[d]
  PROVE  TimeInv'
<1> DEFINE n == Len(queue)
           i == Place(c)
           Old(k) == IF k < i THEN k ELSE k + 1
<1>0. /\ status' \in [Conn -> {"FREE", "WORKING", "CLOSED"}]
      /\ \A d \in Conn : /\ status'[d] = "FREE" <=> status[d] = "FREE"
                         /\ status[d] = "CLOSED" => status'[d] = "CLOSED"
  BY DEF EndHandler, TimeInv, TimeTypeOK
<1>1. i \in DOMAIN queue /\ queue[i] = c /\ queue \in Seq(Conn)
  BY PlaceOf DEF TimeInv, TimeTypeOK
<1>2. queue' = ToTail(queue, i, c)
  BY DEF MoveToTail
<1> HIDE DEF i
<1>3. /\ queue' \in Seq(Conn)
      /\ DOMAIN queue' = 1..n /\ n \in DOMAIN queue' /\ queue'[n] = c
      /\ \A k \in DOMAIN queue' : k # n =>
           Old(k) \in DOMAIN queue /\ Old(k) # i /\ queue'[k] = queue[Old(k)]
      /\ \A k, l \in DOMAIN queue' : k # n /\ l # n => (k <= l <=> Old(k) <= Old(l))
      /\ \A j \in DOMAIN queue : j # i => \E k \in DOMAIN queue' : k # n /\ queue'[k] = queue[j]
  <2>1. queue' \in Seq(Conn) /\ Moved(queue, i, c, queue')
    BY <1>1, <1>2, ToTailShape
  <2> QED
    BY <2>1 DEF Moved
<1>4. n \in Nat /\ DOMAIN queue' \subseteq Nat /\ \A k \in DOMAIN queue' : k <= n
  BY <1>1, <1>3
<1>5. \A k \in DOMAIN queue' : k # n => queue'[k] \in Conn /\ queue'[k] # c
  BY <1>1, <1>3 DEF TimeInv, TimeTypeOK
<1>6. TimeTypeOK'
  <2>1. \A k, l \in DOMAIN queue' : queue'[k] = queue'[l] => k = l
    <3> SUFFICES ASSUME NEW k \in DOMAIN queue', NEW l \in DOMAIN queue',
                        queue'[k] = queue'[l]
                 PROVE  k = l
      OBVIOUS
    <3>1. CASE k = n \/ l = n
      BY <3>1, <1>3, <1>5
    <3>2. CASE k # n /\ l # n
      <4>1. Old(k) = Old(l)
        BY <3>2, <1>3 DEF TimeInv, TimeTypeOK
      <4> QED
        BY <4>1, <3>2, <1>3, <1>4
    <3> QED
      BY <3>1, <3>2
  <2>2. \A d \in Conn : status'[d] # "FREE" <=> \E k \in DOMAIN queue' : queue'[k] = d
    <3> SUFFICES ASSUME NEW d \in Conn
                 PROVE  (\E j \in DOMAIN queue : queue[j] = d)
                          <=> (\E k \in DOMAIN queue' : queue'[k] = d)
      BY <1>0 DEF TimeInv, TimeTypeOK
    <3>1. CASE d = c
      BY <3>1, <1>1, <1>3
    <3>2. CASE d # c
      <4>1. ASSUME NEW j \in DOMAIN queue, queue[j] = d
            PROVE  \E k \in DOMAIN queue' : queue'[k] = d
        BY <4>1, <3>2, <1>1, <1>3
      <4>2. ASSUME NEW k \in DOMAIN queue', queue'[k] = d
            PROVE  \E j \in DOMAIN queue : queue[j] = d
        <5>1. k # n
          BY <4>2, <3>2, <1>3
        <5> QED
          BY <4>2, <5>1, <1>3
      <4> QED
        BY <4>1, <4>2
    <3> QED
      BY <3>1, <3>2
  <2> QED
    BY <1>0, <1>3, <2>1, <2>2 DEF TimeInv, TimeTypeOK, Age
<1>7. \A d \in Conn : d # c => Silence(d)' = Silence(d)
  BY DEF Silence
<1>8. \A d \in Conn : Silence(d)' \in Nat
  BY <1>6, Ages DEF TimeTypeOK, Age, Silence, LastAge
<1>9. Sorted'
  <2> SUFFICES ASSUME NEW k \in DOMAIN queue', NEW l \in DOMAIN queue', k <= l
               PROVE  Silence(queue[k])' >= Silence(queue[l])'
    BY DEF Sorted
  <2>1. CASE l = n
    BY <2>1, <1>3, <1>4, <1>8
  <2>2. CASE l # n
    <3>1. k # n
      BY <2>2, <1>4
    <3>2. Silence(queue[Old(k)]) >= Silence(queue[Old(l)])
      BY <2>2, <3>1, <1>3 DEF TimeInv, Sorted
    <3>3. Silence(queue[k])' = Silence(queue[Old(k)]) /\ Silence(queue[l])' = Silence(queue[Old(l)])
      BY <2>2, <3>1, <1>3, <1>5, <1>7
    <3> QED
      BY <3>2, <3>3
  <2> QED
    BY <2>1, <2>2
<1>10. IdleIsClosed'
  <2> SUFFICES ASSUME NEW k \in DOMAIN queue', Silence(queue[k])' >= Timeout[list]'
               PROVE  status'[queue'[k]] = "CLOSED"
    BY DEF IdleIsClosed
  <2>1. k # n
    BY <1>3, Ages DEF TimeInv
  <2>2. Silence(queue[Old(k)]) >= Timeout[list]
    BY <2>1, <1>3, <1>5, <1>7
  <2>3. queue'[k] \in Conn /\ status[queue'[k]] = "CLOSED"
    BY <2>1, <2>2, <1>3, <1>5 DEF TimeInv, IdleIsClosed
  <2> QED
    BY <2>3, <1>0
<1> QED
  BY <1>6, <1>9, <1>10 DEF TimeInv

LEMMA AcceptStep ==
  ASSUME TimeInv, NEW c \in Conn, Accept(c)
  PROVE  TimeInv'
<1> DEFINE n == Len(queue)
<1>1. /\ queue \in Seq(Conn) /\ n \in Nat /\ DOMAIN queue = 1..n
      /\ status[c] = "FREE" /\ \A i \in DOMAIN queue : queue[i] # c
  BY DEF TimeInv, TimeTypeOK, Accept
<1>2. /\ queue' \in Seq(Conn) /\ DOMAIN queue' = 1..(n + 1) /\ queue'[n + 1] = c
      /\ \A i \in DOMAIN queue : queue'[i] = queue[i]
  BY <1>1 DEF Accept
<1>3. \A i \in DOMAIN queue' : i = n + 1 \/ (i \in DOMAIN queue /\ queue'[i] # c)
  BY <1>1, <1>2
<1>4. Silence(c)' = 0 /\ \A d \in Conn : d # c => Silence(d)' = Silence(d)
  BY DEF Accept, TimeInv, TimeTypeOK, Silence, LastAge
<1>5. TimeTypeOK'
  <2>1. /\ rec' \in [Conn -> Age'] /\ snd' \in [Conn -> Age']
        /\ list' \in Lists /\ status' \in [Conn -> {"FREE", "WORKING", "CLOSED"}]
    BY DEF Accept, TimeInv, TimeTypeOK, Age
  <2>2. \A i, j \in DOMAIN queue' : queue'[i] = queue'[j] => i = j
    BY <1>1, <1>2, <1>3 DEF TimeInv, TimeTypeOK
  <2>3. ASSUME NEW d \in Conn
        PROVE  status'[d] # "FREE" <=> \E i \in DOMAIN queue' : queue'[i] = d
    <3>1. CASE d = c
      BY <3>1, <1>1, <1>2, SMTT(30) DEF Accept, TimeInv, TimeTypeOK
    <3>2. CASE d # c
      <4>1. status'[d] = status[d]
        BY <3>2 DEF Accept, TimeInv, TimeTypeOK
      <4>2. (\E i \in DOMAIN queue : queue[i] = d) <=> (\E i \in DOMAIN queue' : queue'[i] = d)
        BY <3>2, <1>1, <1>2, <1>3
      <4> QED
        BY <4>1, <4>2 DEF TimeInv, TimeTypeOK
    <3> QED
      BY <3>1, <3>2
  <2> QED
    BY <1>2, <2>1, <2>2, <2>3 DEF TimeTypeOK
<1>6. \A d \in Conn : Silence(d)' \in Nat
  BY <1>5, Ages DEF TimeTypeOK, Age, Silence, LastAge
<1>7. Sorted'
  <2> SUFFICES ASSUME NEW k \in DOMAIN queue', NEW l \in DOMAIN queue', k <= l
               PROVE  Silence(queue[k])' >= Silence(queue[l])'
    BY DEF Sorted
  <2>1. CASE l = n + 1
    BY <2>1, <1>2, <1>4, <1>6
  <2>2. CASE l # n + 1
    BY <2>2, <1>1, <1>2, <1>3, <1>4 DEF TimeInv, Sorted
  <2> QED
    BY <2>1, <2>2
<1>8. IdleIsClosed'
  <2> SUFFICES ASSUME NEW k \in DOMAIN queue', Silence(queue[k])' >= Timeout[list]'
               PROVE  status'[queue'[k]] = "CLOSED"
    BY DEF IdleIsClosed
  <2>1. k # n + 1
    BY <1>2, <1>4, Ages DEF TimeInv, Accept
  <2>2. k \in DOMAIN queue /\ queue'[k] = queue[k] /\ queue[k] # c /\ queue[k] \in Conn
    BY <2>1, <1>1, <1>2, <1>3
  <2>3. status[queue[k]] = "CLOSED"
    BY <2>2, <1>4 DEF TimeInv, IdleIsClosed, Accept
  <2> QED
    BY <2>2, <2>3 DEF Accept, TimeInv, TimeTypeOK
<1> QED
  BY <1>5, <1>7, <1>8 DEF TimeInv

LEMMA ReceivedStep ==
  ASSUME TimeInv, NEW c \in Conn, Received(c)
  PROVE  TimeInv'
<1>1. status[c] # "FREE" /\ MoveToTail(c) /\ UNCHANGED list /\ EndHandler(c)
  BY DEF Received, Handled
<1>2. rec' \in [Conn -> Age] /\ snd' \in [Conn -> Age]
  BY Ages DEF Received, TimeInv, TimeTypeOK, Age
<1>3. Silence(c)' = 0 /\ \A d \in Conn : d # c => rec'[d] = rec[d] /\ snd'[d] = snd[d]
  BY DEF Received, TimeInv, TimeTypeOK, Age, Silence, LastAge
<1> QED
  BY <1>1, <1>2, <1>3, EventStep

LEMMA SentStep ==
  ASSUME TimeInv, NEW c \in Conn, Sent(c)
  PROVE  TimeInv'
<1>1. status[c] # "FREE" /\ MoveToTail(c) /\ UNCHANGED list /\ EndHandler(c)
  BY DEF Sent, Handled
<1>2. rec' \in [Conn -> Age] /\ snd' \in [Conn -> Age]
  BY Ages DEF Sent, TimeInv, TimeTypeOK, Age
<1>3. Silence(c)' = 0 /\ \A d \in Conn : d # c => rec'[d] = rec[d] /\ snd'[d] = snd[d]
  <2>1. rec[c] \in Nat /\ snd'[c] = 0 /\ rec' = rec
    BY Ages DEF Sent, TimeInv, TimeTypeOK
  <2>2. Silence(c)' = 0
    BY <2>1 DEF Silence, LastAge
  <2> QED
    BY <2>2 DEF Sent, TimeInv, TimeTypeOK
<1> QED
  BY <1>1, <1>2, <1>3, EventStep

LEMMA SignalCloseStep ==
  ASSUME TimeInv, NEW c \in Conn, SignalClose(c)
  PROVE  TimeInv'
<1>1. TimeTypeOK'
  BY DEF TimeInv, TimeTypeOK, SignalClose, Age
<1>2. Sorted'
  BY DEF TimeInv, Sorted, SignalClose, Silence, LastAge
<1>3. IdleIsClosed'
  <2>1. \A d : Silence(d)' = Silence(d)
    BY DEF SignalClose, Silence
  <2>2. \A i \in DOMAIN queue : queue[i] \in Conn
    BY DEF TimeInv, TimeTypeOK
  <2> QED
    BY <2>1, <2>2 DEF TimeInv, TimeTypeOK, IdleIsClosed, SignalClose
<1> QED
  BY <1>1, <1>2, <1>3 DEF TimeInv

LEMMA FreeStep ==
  ASSUME TimeInv, NEW c \in Conn, Free(c)
  PROVE  TimeInv'
<1> DEFINE i == Place(c)
           Old(k) == IF k < i THEN k ELSE k + 1
<1>1. i \in DOMAIN queue /\ queue[i] = c /\ queue \in Seq(Conn)
  BY PlaceOf DEF TimeInv, TimeTypeOK, Free
<1>2. queue' = Without(queue, i)
  BY DEF Free
<1> HIDE DEF i
<1>3. queue' \in Seq(Conn)
  BY <1>1, <1>2, WithoutShape
<1>4. /\ \A k \in DOMAIN queue' :
           Old(k) \in DOMAIN queue /\ Old(k) # i /\ queue'[k] = queue[Old(k)]
      /\ \A k, l \in DOMAIN queue' : k <= l <=> Old(k) <= Old(l)
      /\ \A j \in DOMAIN queue : j # i =>
           \E k \in DOMAIN queue' : Old(k) = j /\ queue'[k] = queue[j]
  BY <1>1, <1>2, WithoutPlaces
<1>5. \A k \in DOMAIN queue' : queue'[k] \in Conn /\ queue'[k] # c
  BY <1>1, <1>4 DEF TimeInv, TimeTypeOK
<1>6. \A d : Silence(d)' = Silence(d)
  BY DEF Free, Silence
<1>7. TimeTypeOK'
  <2>1. \A k, l \in DOMAIN queue' : queue'[k] = queue'[l] => k = l
    <3> SUFFICES ASSUME NEW k \in DOMAIN queue', NEW l \in DOMAIN queue',
                        queue'[k] = queue'[l]
                 PROVE  k = l
      OBVIOUS
    <3>1. Old(k) = Old(l) /\ Old(k) \in Nat /\ k \in Nat /\ l \in Nat
      BY <1>1, <1>3, <1>4 DEF TimeInv, TimeTypeOK
    <3>2. i \in Nat
      BY <1>1
    <3> QED
      BY <3>1, <3>2, <1>4
  <2>2. ASSUME NEW d \in Conn
        PROVE  status'[d] # "FREE" <=> \E k \in DOMAIN queue' : queue'[k] = d
    <3>1. CASE d = c
      BY <3>1, <1>5 DEF Free, TimeInv, TimeTypeOK
    <3>2. CASE d # c
      <4>1. status'[d] = status[d]
        BY <3>2 DEF Free, TimeInv, TimeTypeOK
      <4>2. ASSUME NEW j \in DOMAIN queue, queue[j] = d
            PROVE  \E k \in DOMAIN queue' : queue'[k] = d
        BY <4>2, <3>2, <1>1, <1>4
      <4>3. ASSUME NEW k \in DOMAIN queue', queue'[k] = d
            PROVE  \E j \in DOMAIN queue : queue[j] = d
        BY <4>3, <1>4
      <4> QED
        BY <4>1, <4>2, <4>3 DEF TimeInv, TimeTypeOK
    <3> QED
      BY <3>1, <3>2
  <2>3. /\ rec' \in [Conn -> Age'] /\ snd' \in [Conn -> Age']
        /\ list' \in Lists /\ status' \in [Conn -> {"FREE", "WORKING", "CLOSED"}]
    BY DEF Free, TimeInv, TimeTypeOK, Age
  <2> QED
    BY <1>3, <2>1, <2>2, <2>3 DEF TimeTypeOK
<1>8. Sorted'
  <2> SUFFICES ASSUME NEW k \in DOMAIN queue', NEW l \in DOMAIN queue', k <= l
               PROVE  Silence(queue[k])' >= Silence(queue[l])'
    BY DEF Sorted
  <2>1. Silence(queue[Old(k)]) >= Silence(queue[Old(l)])
    BY <1>4 DEF TimeInv, Sorted
  <2>2. Silence(queue[k])' = Silence(queue[Old(k)]) /\ Silence(queue[l])' = Silence(queue[Old(l)])
    BY <1>4, <1>6
  <2> QED
    BY <2>1, <2>2
<1>9. IdleIsClosed'
  <2> SUFFICES ASSUME NEW k \in DOMAIN queue', Silence(queue[k])' >= Timeout[list]'
               PROVE  status'[queue'[k]] = "CLOSED"
    BY DEF IdleIsClosed
  <2>1. Silence(queue[Old(k)]) >= Timeout[list]
    BY <1>4, <1>6 DEF Free
  <2>2. status[queue'[k]] = "CLOSED"
    BY <2>1, <1>4 DEF TimeInv, IdleIsClosed
  <2> QED
    BY <2>2, <1>5 DEF Free, TimeInv, TimeTypeOK
<1> QED
  BY <1>7, <1>8, <1>9 DEF TimeInv

\* The walk: all grow older alike, so the order stays; whoever has been silent
\* for the timeout is behind others who have been too, and is reached.
LEMMA TickStep ==
  ASSUME TimeInv, NEW d \in 1..Timeout[list], Tick(d)
  PROVE  TimeInv'
<1> DEFINE T == Timeout[list]
<1>1. T \in Nat \ {0} /\ d \in Nat /\ list' = list /\ queue' = queue
  BY Ages DEF TimeInv, Tick
<1>2. \A c \in Conn : /\ rec'[c] = Older(rec[c], d) /\ snd'[c] = Older(snd[c], d)
                       /\ rec[c] \in Nat /\ snd[c] \in Nat
  BY Ages DEF TimeInv, TimeTypeOK, Tick
<1>3. \A c \in Conn : rec'[c] \in 0..T /\ snd'[c] \in 0..T
  BY <1>1, <1>2 DEF Older
<1>4. \A c \in Conn : /\ Silence(c)' = Older(Silence(c), d)
                       /\ Silence(c) \in Nat
  BY <1>1, <1>2 DEF Silence, LastAge, Older
<1>5. \A c, e \in Conn : Silence(c) >= Silence(e) => Silence(c)' >= Silence(e)'
  BY <1>1, <1>4 DEF Older
<1>6. \A i \in DOMAIN queue : queue[i] \in Conn
  BY DEF TimeInv, TimeTypeOK
<1>7. Sorted'
  BY <1>1, <1>5, <1>6 DEF TimeInv, Sorted
<1>8. \A c \in Conn : WalkAge(c)' >= Silence(c)'
  BY <1>1, <1>2, <1>3 DEF WalkAge, Silence, LastAge
<1>9. \A c \in Conn : Silence(c)' \in Nat /\ WalkAge(c)' \in Nat
  BY <1>1, <1>3 DEF WalkAge, Silence, LastAge
<1>10. IdleIsClosed'
  <2> SUFFICES ASSUME NEW i \in DOMAIN queue, Silence(queue[i])' >= T
               PROVE  status'[queue[i]] = "CLOSED"
    BY <1>1 DEF IdleIsClosed
  <2>1. i \in Nat /\ \A j \in 1..i : j \in DOMAIN queue /\ j <= i
    BY DEF TimeInv, TimeTypeOK
  <2>2. ASSUME NEW j \in 1..i
        PROVE  WalkAge(queue[j])' >= T
    <3>1. Silence(queue[j])' >= Silence(queue[i])'
      BY <2>1, <1>1, <1>7 DEF Sorted
    <3>2. WalkAge(queue[j])' >= Silence(queue[j])'
      BY <2>1, <1>1, <1>6, <1>8
    <3> QED
      BY <3>1, <3>2, <2>1, <1>1, <1>6, <1>9
  <2>3. Passed(i)'
    BY <2>2, <1>1 DEF Passed
  <2> QED
    BY <2>3, <1>6 DEF Tick
<1>11. TimeTypeOK'
  <2>1. rec' \in [Conn -> Age'] /\ snd' \in [Conn -> Age']
    BY <1>1, <1>3 DEF Tick, Age
  <2>2. status' \in [Conn -> {"FREE", "WORKING", "CLOSED"}]
    BY DEF Tick, TimeInv, TimeTypeOK
  <2>3. \A c \in Conn : status'[c] # "FREE" <=> \E i \in DOMAIN queue : queue[i] = c
    BY DEF Tick, TimeInv, TimeTypeOK
  <2> QED
    BY <1>1, <2>1, <2>2, <2>3 DEF TimeInv, TimeTypeOK
<1> QED
  BY <1>7, <1>10, <1>11 DEF TimeInv

-----------------------------------------------------------------------------
LEMMA TimeInitInv == TimeInit => TimeInv
<1> SUFFICES ASSUME TimeInit PROVE TimeInv
  OBVIOUS
<1>1. Timeout[list] \in Nat \ {0} /\ DOMAIN queue = {} /\ queue \in Seq(Conn)
  BY DEF TimeInit
<1>2. rec \in [Conn -> Age] /\ snd \in [Conn -> Age]
  BY <1>1 DEF TimeInit, Age
<1> QED
  BY <1>1, <1>2 DEF TimeInit, TimeInv, TimeTypeOK, Sorted, IdleIsClosed

LEMMA TimeStep == TimeInv /\ [TimeNext]_timeVars => TimeInv'
<1> SUFFICES ASSUME TimeInv, [TimeNext]_timeVars PROVE TimeInv'
  OBVIOUS
<1>1. CASE UNCHANGED timeVars
  BY <1>1 DEF timeVars, TimeInv, TimeTypeOK, Age, Sorted, IdleIsClosed, Silence, LastAge
<1>2. ASSUME NEW c \in Conn, Accept(c) PROVE TimeInv'
  BY <1>2, AcceptStep
<1>3. ASSUME NEW c \in Conn, Received(c) PROVE TimeInv'
  BY <1>3, ReceivedStep
<1>4. ASSUME NEW c \in Conn, Sent(c) PROVE TimeInv'
  BY <1>4, SentStep
<1>5. ASSUME NEW c \in Conn, SignalClose(c) PROVE TimeInv'
  BY <1>5, SignalCloseStep
<1>6. ASSUME NEW c \in Conn, Free(c) PROVE TimeInv'
  BY <1>6, FreeStep
<1>7. ASSUME NEW d \in 1..Timeout[list], Tick(d) PROVE TimeInv'
  BY <1>7, TickStep
<1> QED
  BY <1>1, <1>2, <1>3, <1>4, <1>5, <1>6, <1>7 DEF TimeNext

\* The lists of connections stay in the order of the last event on each
\* (connection.c:181), whatever events come, closes happen and time passes.
THEOREM ListsStaySorted == TimeSpec => []Sorted
<1>1. TimeInv => Sorted
  BY DEF TimeInv
<1> QED
  BY <1>1, TimeInitInv, TimeStep, PTL DEF TimeSpec

\* time_handle stops its walk early and still misses none: a connection
\* silent for its timeout is being closed (timehandle.c:102-210).
THEOREM SilentAreClosed == TimeSpec => []IdleIsClosed
<1>1. TimeInv => IdleIsClosed
  BY DEF TimeInv
<1> QED
  BY <1>1, TimeInitInv, TimeStep, PTL DEF TimeSpec
=============================================================================
