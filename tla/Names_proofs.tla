---------------------------- MODULE Names_proofs -----------------------------
(***************************************************************************)
(* First the cache: its two indexes never come apart, and it is a book of   *)
(* names which only forgets all at once.  Then the whole: a connection is   *)
(* made only to an address that was answered for its own name, the tree of  *)
(* waiting connections is right, and the cache in this system is the cache  *)
(* of DnsCache.  For any names, hashes, addresses, connections, keys,       *)
(* queries and answers.                                                     *)
(***************************************************************************)
EXTENDS Names, Queues_proofs

USE CacheAssumption

CacheInv == CacheTypeOK /\ CacheConsistent

NamesIn(q) == {q[i].name : i \in DOMAIN q}

\* The second conjunct of CacheConsistent, as sets of names.
LEMMA Buckets ==
  ASSUME CacheTypeOK
  PROVE  (\A h \in Crc : bucket[h] = {queue[i].name : i \in {k \in DOMAIN queue :
                                                   Hash[queue[k].name] = h}})
         <=> (\A h \in Crc : bucket[h] = {n \in NamesIn(queue) : Hash[n] = h})
  BY DEF NamesIn

\* A name is found exactly when an entry has it; Place is that entry.
FindsAll ==
  \A n \in Name : /\ Found(n) <=> n \in NamesIn(queue)
                  /\ Found(n) => Place(n) \in DOMAIN queue /\ queue[Place(n)].name = n

LEMMA FoundIsListed == CacheInv => FindsAll
<1> SUFFICES ASSUME CacheInv, NEW n \in Name
             PROVE  /\ Found(n) <=> n \in NamesIn(queue)
                    /\ Found(n) => Place(n) \in DOMAIN queue /\ queue[Place(n)].name = n
  BY DEF FindsAll
<1>1. \A h \in Crc : bucket[h] = {m \in NamesIn(queue) : Hash[m] = h}
  BY Buckets DEF CacheInv, CacheConsistent
<1>2. Hash[n] \in Crc
  OBVIOUS
<1>3. Found(n) <=> n \in NamesIn(queue)
  BY <1>1, <1>2 DEF CacheInv, CacheConsistent, Found
<1>4. Found(n) => \E i \in DOMAIN queue : queue[i].name = n
  BY <1>3 DEF NamesIn
<1> QED
  BY <1>3, <1>4 DEF Place

LEMMA NewFoundIsListed == CacheInv' => FindsAll'
BY FoundIsListed, PTL

LEMMA InsertStep ==
  ASSUME CacheInv, NEW n \in Name, NEW a \in Addr, Insert(n, a)
  PROVE  /\ CacheInv'
         /\ \A m \in Name : Cached(m)' = IF m = n THEN a ELSE Cached(m)
<1> DEFINE e == [name |-> n, ip |-> a, age |-> 0]
           L == Len(queue')
<1>0. e \in Entry /\ e.name = n /\ e.ip = a /\ e.age = 0
  BY DEF Entry
<1> HIDE DEF e
<1>a. /\ \A i \in DOMAIN queue : i \in Nat
      /\ \A i, j \in DOMAIN queue : queue[i].name = queue[j].name => i = j
      /\ \A i, j \in DOMAIN queue : i <= j => queue[i].age >= queue[j].age
  BY DEF CacheInv, CacheTypeOK, CacheConsistent
\* Whether an entry of the name was there or not, the new queue is the old
\* one without it, in order, and the new entry at the tail.
<1>1. /\ queue' \in Seq(Entry) /\ L \in Nat /\ DOMAIN queue' = 1..L /\ L > 0
      /\ queue'[L] = e
      /\ \A k \in DOMAIN queue' : k # L =>
           \E j \in DOMAIN queue : queue'[k] = queue[j] /\ queue[j].name # n
      /\ \A k, l \in DOMAIN queue' : k < l /\ l # L =>
           \E i, j \in DOMAIN queue : i < j /\ queue'[k] = queue[i] /\ queue'[l] = queue[j]
      /\ \A j \in DOMAIN queue : queue[j].name # n =>
           \E k \in DOMAIN queue' : k # L /\ queue'[k] = queue[j]
  <2>1. CASE Found(n)
    <3> DEFINE i == Place(n)
    <3>1. i \in DOMAIN queue /\ queue[i].name = n /\ queue \in Seq(Entry)
      BY <2>1, FoundIsListed DEF FindsAll, CacheInv, CacheTypeOK
    <3>2. queue' = ToTail(queue, i, e)
      BY <2>1 DEF Insert, ToTail, e
    <3> HIDE DEF i
    <3>3. queue' \in Seq(Entry) /\ Moved(queue, i, e, queue')
      BY <3>1, <3>2, <1>0, ToTailShape
    <3>4. Len(queue) \in Nat /\ DOMAIN queue = 1..Len(queue) /\ i \in Nat
      BY <3>1
    <3>5. L = Len(queue) /\ L > 0 /\ DOMAIN queue' = 1..L /\ queue'[L] = e
      BY <3>1, <3>3, <3>4 DEF Moved
    <3>6. \A j \in DOMAIN queue : queue[j].name = n => j = i
      BY <3>1 DEF CacheInv, CacheConsistent
    <3>7. ASSUME NEW k \in DOMAIN queue', k # L
          PROVE  \E j \in DOMAIN queue : queue'[k] = queue[j] /\ queue[j].name # n
      BY <3>3, <3>5, <3>6, <3>7 DEF Moved
    <3>8. ASSUME NEW k \in DOMAIN queue', NEW l \in DOMAIN queue', k < l, l # L
          PROVE  \E h, j \in DOMAIN queue : h < j /\ queue'[k] = queue[h] /\ queue'[l] = queue[j]
      <4> DEFINE Old(x) == IF x < i THEN x ELSE x + 1
      <4>1. k # L /\ k \in Nat /\ l \in Nat
        BY <3>4, <3>5, <3>8
      <4>2. /\ Old(k) \in DOMAIN queue /\ queue'[k] = queue[Old(k)]
            /\ Old(l) \in DOMAIN queue /\ queue'[l] = queue[Old(l)]
        BY <4>1, <3>3, <3>5, <3>8 DEF Moved
      <4>3. Old(k) < Old(l)
        BY <4>1, <3>4, <3>8
      <4> QED
        BY <4>2, <4>3
    <3>9. \A j \in DOMAIN queue : queue[j].name # n =>
            \E k \in DOMAIN queue' : k # L /\ queue'[k] = queue[j]
      BY <3>1, <3>3, <3>5 DEF Moved
    <3> QED
      BY <3>3, <3>4, <3>5, <3>7, <3>8, <3>9
  <2>2. CASE ~Found(n)
    <3>1. queue' = Append(queue, e) /\ queue \in Seq(Entry)
      BY <2>2 DEF Insert, e, CacheInv, CacheTypeOK
    <3>2. \A j \in DOMAIN queue : queue[j].name # n
      BY <2>2, FoundIsListed DEF FindsAll, NamesIn
    <3>3. /\ queue' \in Seq(Entry) /\ L = Len(queue) + 1 /\ queue'[L] = e
          /\ Len(queue) \in Nat /\ DOMAIN queue = 1..Len(queue) /\ DOMAIN queue' = 1..L
          /\ \A j \in DOMAIN queue : queue'[j] = queue[j]
      BY <3>1, <1>0
    <3> QED
      BY <3>2, <3>3
  <2> QED
    BY <2>1, <2>2
<1>2. NamesIn(queue') = NamesIn(queue) \cup {n}
  BY <1>0, <1>1 DEF NamesIn
<1>3. CacheTypeOK'
  BY <1>1 DEF Insert, CacheInv, CacheTypeOK
<1>4. \A k \in DOMAIN queue' : queue'[k].name = n => k = L
  BY <1>1
<1>5. \A k, l \in DOMAIN queue' : queue'[k].name = queue'[l].name => k = l
  <2> SUFFICES ASSUME NEW k \in DOMAIN queue', NEW l \in DOMAIN queue', k < l,
                      queue'[k].name = queue'[l].name
               PROVE  FALSE
    BY <1>0, <1>1, SMTT(30)
  <2>1. CASE l = L
    <3>1. queue'[L].name = n
      BY <1>0, <1>1
    <3>2. queue'[k].name = n
      BY <2>1, <3>1
    <3>3. k = L
      BY <3>2, <1>4
    <3> QED
      BY <2>1, <3>3, <1>1
  <2>2. CASE l # L
    <3>1. PICK i, j \in DOMAIN queue : i < j /\ queue'[k] = queue[i] /\ queue'[l] = queue[j]
      BY <2>2, <1>1
    <3>2. i = j
      BY <3>1, <1>a
    <3> QED
      BY <3>1, <3>2, <1>a
  <2> QED
    BY <2>1, <2>2
<1>6. \A h \in Crc : bucket'[h] = {m \in NamesIn(queue') : Hash[m] = h}
  <2>1. \A h \in Crc : bucket[h] = {m \in NamesIn(queue) : Hash[m] = h}
    BY Buckets DEF CacheInv, CacheConsistent
  <2>2. \A h \in Crc : bucket'[h] = IF h = Hash[n] THEN bucket[h] \cup {n} ELSE bucket[h]
    BY DEF Insert, CacheInv, CacheTypeOK
  <2> SUFFICES ASSUME NEW h \in Crc
               PROVE  bucket'[h] = {m \in NamesIn(queue') : Hash[m] = h}
    OBVIOUS
  <2>3. CASE h = Hash[n]
    BY <2>1, <2>2, <2>3, <1>2
  <2>4. CASE h # Hash[n]
    <3>1. bucket'[h] = {m \in NamesIn(queue) : Hash[m] = h}
      BY <2>1, <2>2, <2>4
    <3>2. {m \in NamesIn(queue') : Hash[m] = h} = {m \in NamesIn(queue) : Hash[m] = h}
      BY <2>4, <1>2, Zenon
    <3> QED
      BY <3>1, <3>2
  <2> QED
    BY <2>3, <2>4
<1>7. nodes' = {h \in Crc : bucket'[h] # {}}
  <2>1. \A h \in Crc : bucket'[h] = IF h = Hash[n] THEN bucket[h] \cup {n} ELSE bucket[h]
    BY DEF Insert, CacheInv, CacheTypeOK
  <2>2. nodes' = nodes \cup {Hash[n]} /\ nodes = {h \in Crc : bucket[h] # {}} /\ Hash[n] \in Crc
    BY DEF Insert, CacheInv, CacheConsistent
  <2> QED
    BY <2>1, <2>2
<1>8. \A k, l \in DOMAIN queue' : k <= l => queue'[k].age >= queue'[l].age
  <2>1. \A k \in DOMAIN queue' : queue'[k].age \in Nat
    <3>1. \A k \in DOMAIN queue' : queue'[k] \in Entry
      BY <1>1
    <3> QED
      BY <3>1 DEF Entry
  <2> SUFFICES ASSUME NEW k \in DOMAIN queue', NEW l \in DOMAIN queue', k < l
               PROVE  queue'[k].age >= queue'[l].age
    BY <1>1, <2>1
  <2>2. CASE l = L
    BY <2>1, <2>2, <1>0, <1>1
  <2>3. CASE l # L
    <3>1. PICK i, j \in DOMAIN queue : i < j /\ queue'[k] = queue[i] /\ queue'[l] = queue[j]
      BY <2>3, <1>1
    <3> QED
      BY <3>1, <1>a
  <2> QED
    BY <2>2, <2>3
<1>9. CacheInv'
  <2>1. (\A h \in Crc : bucket[h] = {queue[i].name : i \in {k \in DOMAIN queue :
                                                   Hash[queue[k].name] = h}})'
    BY <1>6 DEF NamesIn
  <2> QED
    BY <2>1, <1>3, <1>5, <1>7, <1>8 DEF CacheInv, CacheConsistent
<1>10. ASSUME NEW m \in Name
       PROVE  Cached(m)' = IF m = n THEN a ELSE Cached(m)
  <2>1. /\ Found(m) <=> m \in NamesIn(queue)
        /\ Found(m) => Place(m) \in DOMAIN queue /\ queue[Place(m)].name = m
    BY FoundIsListed DEF FindsAll
  <2>2. /\ Found(m)' <=> m \in NamesIn(queue')
        /\ Found(m)' => Place(m)' \in DOMAIN queue' /\ queue'[Place(m)'].name = m
    BY <1>9, NewFoundIsListed DEF FindsAll
  <2>3. CASE m = n
    BY <2>2, <2>3, <1>0, <1>2, <1>4, <1>1 DEF Cached
  <2>4. CASE m # n /\ m \in NamesIn(queue)
    <3>1. \E k \in DOMAIN queue' : queue'[k] = queue[Place(m)]
      BY <2>1, <2>4, <1>1
    <3>2. queue'[Place(m)'] = queue[Place(m)]
      BY <2>1, <2>2, <2>4, <3>1, <1>2, <1>5
    <3> QED
      BY <2>1, <2>2, <2>4, <3>2, <1>2 DEF Cached
  <2>5. CASE m # n /\ m \notin NamesIn(queue)
    BY <2>1, <2>2, <2>5, <1>2 DEF Cached
  <2> QED
    BY <2>3, <2>4, <2>5
<1> QED
  BY <1>9, <1>10

\* The queue is in the order of age, so the newest entry is stale only when
\* all are: the walk from the newest takes all or none.
LEMMA KeptAllOrNone ==
  ASSUME CacheInv
  PROVE  \/ Kept = Len(queue)
         \/ Kept = 0 /\ \A i \in DOMAIN queue : Stale(queue[i])
<1> DEFINE n == Len(queue)
           IsKept(k) == /\ k = 0 \/ ~Stale(queue[k])
                        /\ \A i \in (k + 1)..n : Stale(queue[i])
<1>1. n \in Nat /\ DOMAIN queue = 1..n
  BY DEF CacheInv, CacheTypeOK
<1>2. \A i \in DOMAIN queue : queue[i].age \in Nat
  <2>1. \A i \in DOMAIN queue : queue[i] \in Entry
    BY DEF CacheInv, CacheTypeOK
  <2> QED
    BY <2>1 DEF Entry
<1>3. CASE n > 0 /\ ~Stale(queue[n])
  <2>1. n \in 0..n /\ IsKept(n)
    BY <1>1, <1>3
  <2>2. ASSUME NEW k \in 0..n, IsKept(k)
        PROVE  k = n
    <3>0. n \in Nat /\ k \in Nat /\ k <= n
      BY <1>1
    <3>1. k # n => n \in (k + 1)..n
      <4> HIDE DEF n
      <4> QED
        BY <3>0
    <3>2. k # n => Stale(queue[n])
      BY <2>2, <3>1
    <3> QED
      BY <1>3, <3>2
  <2>3. Kept = CHOOSE k \in 0..n : IsKept(k)
    BY DEF Kept
  <2> HIDE DEF IsKept
  <2> QED
    BY <2>1, <2>2, <2>3
<1>4. CASE n = 0 \/ Stale(queue[n])
  <2>1. \A i \in DOMAIN queue : Stale(queue[i])
    <3> SUFFICES ASSUME NEW i \in DOMAIN queue PROVE Stale(queue[i])
      OBVIOUS
    <3>1. n \in DOMAIN queue /\ i <= n
      BY <1>1
    <3>2. queue[i].age >= queue[n].age
      BY <3>1 DEF CacheInv, CacheConsistent
    <3>3. queue[n].age > CacheTimeout
      BY <1>1, <1>4 DEF Stale
    <3> QED
      BY <3>1, <3>2, <3>3, <1>2 DEF Stale
  <2>2. 0 \in 0..n /\ IsKept(0)
    BY <1>1, <2>1
  <2>3. \A k \in 0..n : IsKept(k) => k = 0
    BY <1>1, <2>1
  <2>4. Kept = CHOOSE k \in 0..n : IsKept(k)
    BY DEF Kept
  <2> HIDE DEF IsKept
  <2>5. Kept = 0
    BY <2>2, <2>3, <2>4
  <2> QED
    BY <2>1, <2>5
<1> QED
  BY <1>1, <1>3, <1>4

LEMMA ExpireStep ==
  ASSUME CacheInv, Expire
  PROVE  /\ CacheInv'
         /\ \/ \A m \in Name : Cached(m)' = Cached(m)
            \/ \A m \in Name : Cached(m)' = Unknown
<1> DEFINE n == Len(queue)
           gone == {queue[i].name : i \in (Kept + 1)..n}
<1>1. n \in Nat /\ DOMAIN queue = 1..n /\ queue \in Seq(Entry)
  BY DEF CacheInv, CacheTypeOK
<1>2. /\ queue' = SubSeq(queue, 1, Kept)
      /\ bucket' = [h \in Crc |-> bucket[h] \ gone]
      /\ nodes' = {h \in nodes : bucket'[h] # {}}
  BY DEF Expire
<1>3. /\ nodes = {h \in Crc : bucket[h] # {}}
      /\ \A h \in Crc : bucket[h] = {m \in NamesIn(queue) : Hash[m] = h}
      /\ bucket \in [Crc -> SUBSET Name]
  BY Buckets DEF CacheInv, CacheTypeOK, CacheConsistent
<1>4. CASE Kept = n
  <2>1. gone = {}
    BY <1>1, <1>4
  <2>2. queue' = queue
    BY <1>1, <1>2, <1>4
  <2> HIDE DEF gone
  <2>3. bucket' = bucket
    BY <1>2, <1>3, <2>1
  <2>4. nodes' = nodes
    BY <1>2, <1>3, <2>3
  <2> QED
    BY <2>2, <2>3, <2>4
       DEF CacheInv, CacheTypeOK, CacheConsistent, Cached, Found, Place
<1>5. CASE Kept = 0
  <2>1. gone = NamesIn(queue)
    BY <1>1, <1>5 DEF NamesIn
  <2>2. queue' = <<>>
    BY <1>1, <1>2, <1>5
  <2> HIDE DEF gone
  <2>3. bucket' = [h \in Crc |-> {}]
    BY <1>2, <1>3, <2>1
  <2>4. nodes' = {}
    BY <1>2, <1>3, <2>3
  <2>5. DOMAIN queue' = {} /\ queue' \in Seq(Entry)
    BY <2>2
  <2>6. CacheInv'
    BY <2>3, <2>4, <2>5 DEF CacheInv, CacheTypeOK, CacheConsistent
  <2>7. \A m \in Name : Cached(m)' = Unknown
    BY <2>4 DEF Cached, Found
  <2> QED
    BY <2>6, <2>7
<1> QED
  BY <1>4, <1>5, KeptAllOrNone

LEMMA GrowOldStep ==
  ASSUME CacheInv, GrowOld
  PROVE  CacheInv' /\ \A m \in Name : Cached(m)' = Cached(m)
<1> DEFINE Up(a) == IF a <= CacheTimeout THEN a + 1 ELSE a
<1>1. \A i \in DOMAIN queue : queue[i] \in Entry
  BY DEF CacheInv, CacheTypeOK
<1>2. /\ DOMAIN queue' = DOMAIN queue
      /\ \A i \in DOMAIN queue : queue'[i] = [queue[i] EXCEPT !.age = Up(queue[i].age)]
  BY DEF GrowOld
<1>3. \A i \in DOMAIN queue : /\ queue'[i] \in Entry
                               /\ queue'[i].name = queue[i].name
                               /\ queue'[i].ip = queue[i].ip
                               /\ queue'[i].age = Up(queue[i].age)
                               /\ queue[i].age \in Nat
  BY <1>1, <1>2 DEF Entry
<1>4. queue' \in Seq(Entry)
  <2>1. Len(queue) \in Nat /\ DOMAIN queue = 1..Len(queue)
    BY DEF CacheInv, CacheTypeOK
  <2>2. queue' = [i \in 1..Len(queue) |-> queue'[i]]
    BY <2>1 DEF GrowOld
  <2> QED
    BY <2>1, <2>2, <1>3
<1>5. nodes' = nodes /\ bucket' = bucket
  BY DEF GrowOld
<1>6. \A i, j \in DOMAIN queue : i <= j => queue'[i].age >= queue'[j].age
  <2>1. \A i, j \in DOMAIN queue : i <= j => queue[i].age >= queue[j].age
    BY DEF CacheInv, CacheConsistent
  <2> QED
    BY <1>3, <2>1
<1>7. NamesIn(queue') = NamesIn(queue)
  BY <1>2, <1>3 DEF NamesIn
<1>8. \A h \in Crc : bucket'[h] = {m \in NamesIn(queue') : Hash[m] = h}
  BY <1>5, <1>7, Buckets DEF CacheInv, CacheConsistent
<1>9. CacheInv'
  <2>1. CacheTypeOK'
    BY <1>4, <1>5 DEF CacheInv, CacheTypeOK
  <2>2. (\A h \in Crc : bucket[h] = {queue[i].name : i \in {k \in DOMAIN queue :
                                                   Hash[queue[k].name] = h}})'
    BY <1>8 DEF NamesIn
  <2>3. \A i, j \in DOMAIN queue' : queue'[i].name = queue'[j].name => i = j
    BY <1>2, <1>3 DEF CacheInv, CacheConsistent
  <2>4. nodes' = {h \in Crc : bucket'[h] # {}}
    BY <1>5 DEF CacheInv, CacheConsistent
  <2> QED
    BY <2>1, <2>2, <2>3, <2>4, <1>2, <1>6 DEF CacheInv, CacheConsistent
<1>10. ASSUME NEW m \in Name
       PROVE  Cached(m)' = Cached(m)
  <2>1. Found(m)' = Found(m)
    BY <1>5 DEF Found
  <2>2. Place(m)' = Place(m)
    BY <1>2, <1>3 DEF Place
  <2>3. Found(m) => Place(m) \in DOMAIN queue
    BY FoundIsListed DEF FindsAll
  <2> QED
    BY <2>1, <2>2, <2>3, <1>3 DEF Cached
<1> QED
  BY <1>9, <1>10

-----------------------------------------------------------------------------
LEMMA CacheInitInv == CacheInit => CacheInv /\ \A m \in Name : Cached(m) = Unknown
<1> SUFFICES ASSUME CacheInit PROVE CacheInv /\ \A m \in Name : Cached(m) = Unknown
  OBVIOUS
<1>1. DOMAIN queue = {} /\ queue \in Seq(Entry) /\ nodes = {}
  BY DEF CacheInit
<1>2. CacheInv
  BY <1>1 DEF CacheInit, CacheInv, CacheTypeOK, CacheConsistent
<1> QED
  BY <1>1, <1>2 DEF Cached, Found

LEMMA CacheStep == CacheInv /\ [CacheNext]_cacheVars => CacheInv'
<1> SUFFICES ASSUME CacheInv, [CacheNext]_cacheVars PROVE CacheInv'
  OBVIOUS
<1>1. CASE UNCHANGED cacheVars
  BY <1>1 DEF cacheVars, CacheInv, CacheTypeOK, CacheConsistent
<1> QED
  BY <1>1, InsertStep, ExpireStep, GrowOldStep DEF CacheNext

\* The queue of entries and the tree of names never come apart: a name has
\* one entry, found by its hash (dnscache.c:132-214).
THEOREM IndexesAgree == CacheSpec => []CacheConsistent
<1>1. CacheInv => CacheConsistent
  BY DEF CacheInv
<1> QED
  BY <1>1, CacheInitInv, CacheStep, PTL DEF CacheSpec

\* The cache is a book of names: it tells of each what was learnt last, until
\* it forgets all names at once.
THEOREM CacheIsABook == CacheSpec => IsABook
<1>1. CacheInit => Book!BookInit
  BY CacheInitInv DEF Book!BookInit
<1>2. CacheInv /\ [CacheNext]_cacheVars => [Book!BookNext]_([n \in Name |-> Cached(n)])
  <2> SUFFICES ASSUME CacheInv, [CacheNext]_cacheVars
               PROVE  [Book!BookNext]_([n \in Name |-> Cached(n)])
    OBVIOUS
  <2>1. ASSUME NEW n \in Name, NEW a \in Addr, Insert(n, a)
        PROVE  Book!BookNext
    <3>1. \A m \in Name : Cached(m)' = IF m = n THEN a ELSE Cached(m)
      BY <2>1, InsertStep
    <3>2. Book!Learn(n, a)
      BY <3>1 DEF Book!Learn
    <3> QED
      BY <3>2 DEF Book!BookNext
  <2>2. CASE Expire
    BY <2>2, ExpireStep DEF Book!BookNext, Book!ForgetAll
  <2>3. CASE GrowOld
    BY <2>3, GrowOldStep
  <2>4. CASE UNCHANGED cacheVars
    BY <2>4 DEF cacheVars, Cached, Found, Place
  <2> QED
    BY <2>1, <2>2, <2>3, <2>4 DEF CacheNext
<1> QED
  BY <1>1, <1>2, CacheInitInv, CacheStep, PTL DEF CacheSpec, IsABook, Book!BookSpec

-----------------------------------------------------------------------------
(* Queries, connections and the words of answers.                           *)

USE NamesAssumption

\* The words of answers on their way: t in dns_ctx, r in readbuf, n on the net.
Words(t, r, n) == Len(t) + Len(r) + Len(n)

WordAt(t, r, n, i) ==
  IF i <= Len(t) THEN t[i]
  ELSE IF i <= Len(t) + Len(r) THEN r[i - Len(t)]
  ELSE n[i - (Len(t) + Len(r))]

\* An answer a, b: whoever waits under the key a, as k and w tell, may be
\* given b.
Good(k, w, a, b) ==
  /\ a \in Key
  /\ b \in Addr \cup {Unknown}
  /\ \A c \in Conn : k[c] = a => b \in Answers[w[c]] \cup {Unknown}

\* All words are pairs of a key and a good answer.
Paired(k, w, t, r, n) ==
  \E m \in Nat :
    /\ Words(t, r, n) = 2 * m
    /\ \A j \in 1..m : Good(k, w, WordAt(t, r, n, 2 * j - 1), WordAt(t, r, n, 2 * j))

ConnOK ==
  /\ status \in [Conn -> {"FREE", "INIT", "CONNECT", "CLOSED"}]
  /\ key \in [Conn -> Key \cup {0}]
  /\ host \in [Conn -> Name \cup {NoName}]
  /\ want \in [Conn -> Name \cup {NoName}]
  /\ ip \in [Conn -> Addr \cup {Unknown}]
  /\ nextKey \in Key
  /\ WaitersIndexed
  /\ \A c \in Conn : key[c] # 0 => host[c] = want[c]
  /\ \A c \in Conn : ip[c] # Unknown => ip[c] \in Answers[want[c]]

CacheOK == CacheInv /\ \A n \in Name : Cached(n) # Unknown => Cached(n) \in Answers[n]

\* A query names what the connection that waits for it asked for.
Asks(q) == \A c \in Conn : key[c] = q.key => q.name = want[c]

QueryOK ==
  /\ wbuf \in Seq(Query) /\ asked \in SUBSET Query
  /\ \A q \in asked : Asks(q)
  /\ \A i \in DOMAIN wbuf : Asks(wbuf[i])

WordsOK ==
  /\ rbuf \in Seq(Word) /\ net \in Seq(Word) /\ tmp \in Seq(Word)
  /\ Len(tmp) <= 1
  /\ fate = "running" => Paired(key, want, tmp, rbuf, net)

\* The inductive invariant.  RightAddress needs the way of each query and of
\* its answer: a query under a key bears the name its owner waits for, and
\* the words are paired, so that no answer is taken for a key.
NamesInv == ConnOK /\ CacheOK /\ QueryOK /\ WordsOK

-----------------------------------------------------------------------------
LEMMA KeysAreNat == Key \subseteq Nat /\ 0 \notin Key
BY DEF Key

\* Nobody waits now who did not, under the same key for the same name.
Fewer(k, w) == \A c \in Conn : k[c] = 0 \/ (k[c] = key[c] /\ w[c] = want[c])

LEMMA SameWords ==
  ASSUME NEW k, NEW w, Fewer(k, w),
         NEW t, NEW r, NEW n, NEW t2, NEW r2, NEW n2,
         Paired(key, want, t, r, n),
         Words(t2, r2, n2) = Words(t, r, n),
         \A i \in 1..Words(t, r, n) : WordAt(t2, r2, n2, i) = WordAt(t, r, n, i)
  PROVE  Paired(k, w, t2, r2, n2)
<1>1. PICK m \in Nat :
        /\ Words(t, r, n) = 2 * m
        /\ \A j \in 1..m : Good(key, want, WordAt(t, r, n, 2 * j - 1), WordAt(t, r, n, 2 * j))
  BY DEF Paired
<1>2. ASSUME NEW j \in 1..m
      PROVE  Good(k, w, WordAt(t2, r2, n2, 2 * j - 1), WordAt(t2, r2, n2, 2 * j))
  <2>1. 2 * j - 1 \in 1..Words(t, r, n) /\ 2 * j \in 1..Words(t, r, n)
    BY <1>1
  <2>2. Good(key, want, WordAt(t2, r2, n2, 2 * j - 1), WordAt(t2, r2, n2, 2 * j))
    BY <1>1, <2>1
  <2> QED
    BY <2>2, KeysAreNat DEF Good, Fewer
<1> QED
  BY <1>1, <1>2 DEF Paired

\* The first answer is taken.
LEMMA FirstTaken ==
  ASSUME NEW k, NEW w, Fewer(k, w),
         NEW t, NEW r, NEW n, NEW t2, NEW r2, NEW n2,
         Paired(key, want, t, r, n),
         Words(t, r, n) \in Nat, Words(t, r, n) >= 1,
         Words(t2, r2, n2) = Words(t, r, n) - 2,
         \A i \in 1..Words(t2, r2, n2) : WordAt(t2, r2, n2, i) = WordAt(t, r, n, i + 2)
  PROVE  /\ Paired(k, w, t2, r2, n2)
         /\ Good(key, want, WordAt(t, r, n, 1), WordAt(t, r, n, 2))
<1>1. PICK m \in Nat :
        /\ Words(t, r, n) = 2 * m
        /\ \A j \in 1..m : Good(key, want, WordAt(t, r, n, 2 * j - 1), WordAt(t, r, n, 2 * j))
  BY DEF Paired
<1>2. m - 1 \in Nat /\ Words(t2, r2, n2) = 2 * (m - 1) /\ 1 \in 1..m
  BY <1>1
<1>3. Good(key, want, WordAt(t, r, n, 2 * 1 - 1), WordAt(t, r, n, 2 * 1))
  BY <1>1, <1>2
<1>4. ASSUME NEW j \in 1..(m - 1)
      PROVE  Good(k, w, WordAt(t2, r2, n2, 2 * j - 1), WordAt(t2, r2, n2, 2 * j))
  <2>1. /\ 2 * j - 1 \in 1..Words(t2, r2, n2) /\ 2 * j \in 1..Words(t2, r2, n2)
        /\ j + 1 \in 1..m
        /\ (2 * j - 1) + 2 = 2 * (j + 1) - 1 /\ 2 * j + 2 = 2 * (j + 1)
    BY <1>1, <1>2
  <2>2. Good(key, want, WordAt(t, r, n, 2 * (j + 1) - 1), WordAt(t, r, n, 2 * (j + 1)))
    BY <1>1, <2>1
  <2>3. Good(key, want, WordAt(t2, r2, n2, 2 * j - 1), WordAt(t2, r2, n2, 2 * j))
    BY <2>1, <2>2
  <2> QED
    BY <2>3, KeysAreNat DEF Good, Fewer
<1>5. Paired(k, w, t2, r2, n2)
  BY <1>2, <1>4 DEF Paired
<1> QED
  BY <1>3, <1>5

\* An answer comes in.
LEMMA AnswerAdded ==
  ASSUME NEW t, NEW r, NEW n, NEW n2, NEW a, NEW b,
         Paired(key, want, t, r, n), Good(key, want, a, b),
         Words(t, r, n2) = Words(t, r, n) + 2,
         \A i \in 1..Words(t, r, n) : WordAt(t, r, n2, i) = WordAt(t, r, n, i),
         WordAt(t, r, n2, Words(t, r, n) + 1) = a,
         WordAt(t, r, n2, Words(t, r, n) + 2) = b
  PROVE  Paired(key, want, t, r, n2)
<1>1. PICK m \in Nat :
        /\ Words(t, r, n) = 2 * m
        /\ \A j \in 1..m : Good(key, want, WordAt(t, r, n, 2 * j - 1), WordAt(t, r, n, 2 * j))
  BY DEF Paired
<1>2. m + 1 \in Nat /\ Words(t, r, n2) = 2 * (m + 1)
  BY <1>1
<1>3. ASSUME NEW j \in 1..(m + 1)
      PROVE  Good(key, want, WordAt(t, r, n2, 2 * j - 1), WordAt(t, r, n2, 2 * j))
  <2>1. CASE j = m + 1
    <3>1. 2 * j - 1 = Words(t, r, n) + 1 /\ 2 * j = Words(t, r, n) + 2
      BY <1>1, <2>1
    <3> QED
      BY <3>1
  <2>2. CASE j \in 1..m
    <3>1. 2 * j - 1 \in 1..Words(t, r, n) /\ 2 * j \in 1..Words(t, r, n)
      BY <1>1, <2>2
    <3> QED
      BY <1>1, <2>2, <3>1
  <2> QED
    BY <2>1, <2>2
<1> QED
  BY <1>2, <1>3 DEF Paired

-----------------------------------------------------------------------------
(* What the parts of the invariant need of a step                           *)

LEMMA CacheFrame == CacheOK /\ UNCHANGED cacheVars => CacheOK'
BY DEF CacheOK, cacheVars, CacheInv, CacheTypeOK, CacheConsistent, Cached, Found, Place

LEMMA WordsFrame ==
  ASSUME WordsOK, Fewer(key', want'), UNCHANGED <<rbuf, net, tmp>>,
         fate' = "running" => fate = "running"
  PROVE  WordsOK'
BY SameWords DEF WordsOK

LEMMA QueryFrame ==
  ASSUME QueryOK, Fewer(key', want'), wbuf' \in Seq(Query),
         \A q \in asked' : q \in asked \/ \E i \in DOMAIN wbuf : q = wbuf[i],
         \A j \in DOMAIN wbuf' : \E i \in DOMAIN wbuf : wbuf'[j] = wbuf[i]
  PROVE  QueryOK'
<1>1. /\ \A q \in asked : q \in Query /\ Asks(q)
      /\ \A i \in DOMAIN wbuf : wbuf[i] \in Query /\ Asks(wbuf[i])
  BY DEF QueryOK
<1>2. ASSUME NEW q \in Query, Asks(q) PROVE Asks(q)'
  <2>1. q.key \in Key
    BY DEF Query
  <2> QED
    BY <1>2, <2>1, KeysAreNat DEF Asks, Fewer
<1>3. ASSUME NEW q \in asked' PROVE q \in Query /\ Asks(q)'
  <2>1. q \in Query /\ Asks(q)
    BY <1>1
  <2> QED
    BY <1>2, <2>1
<1>4. ASSUME NEW j \in DOMAIN wbuf' PROVE Asks(wbuf[j])'
  <2>1. PICK i \in DOMAIN wbuf : wbuf'[j] = wbuf[i]
    OBVIOUS
  <2>2. wbuf'[j] \in Query /\ Asks(wbuf'[j])
    BY <1>1, <2>1
  <2>3. wbuf'[j].key \in Key
    BY <2>2 DEF Query
  <2> QED
    BY <2>2, <2>3, KeysAreNat DEF Asks, Fewer
<1>5. asked' \in SUBSET Query
  BY <1>3
<1> QED
  BY <1>3, <1>4, <1>5 DEF QueryOK

\* A connection is freed.
LEMMA FreeConnStep ==
  ASSUME ConnOK, NEW c \in Conn, FreeConn(c), UNCHANGED nextKey
  PROVE  ConnOK' /\ Fewer(key', want')
<1>1. /\ status'[c] = "FREE" /\ key'[c] = 0 /\ host'[c] = NoName
      /\ want'[c] = NoName /\ ip'[c] = Unknown
      /\ \A d \in Conn : d # c =>
           /\ status'[d] = status[d] /\ key'[d] = key[d] /\ host'[d] = host[d]
           /\ want'[d] = want[d] /\ ip'[d] = ip[d]
  BY DEF ConnOK, FreeConn, DelNode
<1>2. /\ status' \in [Conn -> {"FREE", "INIT", "CONNECT", "CLOSED"}]
      /\ key' \in [Conn -> Key \cup {0}]
      /\ host' \in [Conn -> Name \cup {NoName}]
      /\ want' \in [Conn -> Name \cup {NoName}]
      /\ ip' \in [Conn -> Addr \cup {Unknown}]
  BY DEF ConnOK, FreeConn, DelNode
<1>3. WaitersIndexed'
  BY <1>1 DEF ConnOK, WaitersIndexed
<1>4. Fewer(key', want')
  BY <1>1 DEF Fewer
<1> QED
  BY <1>1, <1>2, <1>3, <1>4 DEF ConnOK

\* The close of a waiting connection is signalled.
LEMMA ClosedStep ==
  ASSUME ConnOK, NEW c \in Conn, status[c] = "INIT",
         status' = [status EXCEPT ![c] = "CLOSED"],
         UNCHANGED <<key, host, want, ip, nextKey>>
  PROVE  ConnOK' /\ Fewer(key', want')
<1>1. /\ status' \in [Conn -> {"FREE", "INIT", "CONNECT", "CLOSED"}]
      /\ status'[c] = "CLOSED"
      /\ \A d \in Conn : d # c => status'[d] = status[d]
  BY DEF ConnOK
<1>2. WaitersIndexed'
  BY <1>1 DEF ConnOK, WaitersIndexed
<1> QED
  BY <1>1, <1>2 DEF ConnOK, Fewer

LEMMA SameConns ==
  ASSUME ConnOK, UNCHANGED <<status, key, host, want, ip, nextKey>>
  PROVE  ConnOK' /\ Fewer(key', want')
BY DEF ConnOK, Fewer, WaitersIndexed

\* A step of the loop that changes none of this.
LEMMA SameAll ==
  ASSUME NamesInv, UNCHANGED <<cacheVars, status, key, host, want, ip, nextKey>>,
         UNCHANGED <<wbuf, asked, rbuf, net, tmp>>,
         fate' = "running" => fate = "running"
  PROVE  NamesInv'
<1>1. ConnOK' /\ Fewer(key', want')
  BY SameConns DEF NamesInv
<1>2. QueryOK'
  BY DEF NamesInv, QueryOK, Asks
<1> QED
  BY <1>1, <1>2, CacheFrame, WordsFrame DEF NamesInv

-----------------------------------------------------------------------------
(* The actions                                                              *)

LEMMA LookupHitStep ==
  ASSUME NamesInv, NEW c \in Conn, NEW n \in Name, LookupHit(c, n)
  PROVE  NamesInv'
<1>1. Cached(n) \in Addr /\ Cached(n) \in Answers[n]
  <2>1. Place(n) \in DOMAIN queue /\ Cached(n) = queue[Place(n)].ip
    BY FoundIsListed DEF NamesInv, CacheOK, LookupHit, FindsAll, Cached
  <2>2. queue \in Seq(Entry) /\ \A i \in DOMAIN queue : queue[i] \in Entry
    BY DEF NamesInv, CacheOK, CacheInv, CacheTypeOK
  <2>3. queue[Place(n)] \in Entry
    BY <2>1, <2>2
  <2>4. Cached(n) \in Addr
    BY <2>1, <2>3 DEF Entry
  <2> QED
    BY <2>4, CacheAssumption DEF NamesInv, CacheOK
<1>2. key[c] = 0
  BY DEF NamesInv, ConnOK, WaitersIndexed, LookupHit
<1>3. /\ status'[c] = "CONNECT" /\ want'[c] = n /\ ip'[c] = Cached(n)
      /\ key' = key /\ host' = host /\ nextKey' = nextKey
      /\ \A d \in Conn : d # c =>
           status'[d] = status[d] /\ want'[d] = want[d] /\ ip'[d] = ip[d]
  BY DEF NamesInv, ConnOK, LookupHit
<1>4. /\ status' \in [Conn -> {"FREE", "INIT", "CONNECT", "CLOSED"}]
      /\ want' \in [Conn -> Name \cup {NoName}]
      /\ ip' \in [Conn -> Addr \cup {Unknown}]
  BY <1>1 DEF NamesInv, ConnOK, LookupHit
<1>5. WaitersIndexed'
  BY <1>2, <1>3 DEF NamesInv, ConnOK, WaitersIndexed
<1>6. ConnOK'
  BY <1>1, <1>2, <1>3, <1>4, <1>5 DEF NamesInv, ConnOK
<1>7. Fewer(key', want')
  BY <1>2, <1>3 DEF Fewer
<1>8. UNCHANGED <<cacheVars, wbuf, asked, rbuf, net, tmp, fate>>
  BY DEF LookupHit, linkVars, netVars, loopVars
<1>9. QueryOK'
  BY <1>7, <1>8, QueryFrame DEF NamesInv, QueryOK
<1> QED
  BY <1>6, <1>7, <1>8, <1>9, CacheFrame, WordsFrame DEF NamesInv

LEMMA FreeStep ==
  ASSUME NamesInv, NEW c \in Conn, Served(c) \/ CloseJob(c)
  PROVE  NamesInv'
<1>1. ConnOK' /\ Fewer(key', want')
  BY FreeConnStep DEF NamesInv, Served, CloseJob
<1>2. UNCHANGED <<cacheVars, wbuf, asked, rbuf, net, tmp, fate>>
  BY DEF Served, CloseJob, linkVars, netVars, loopVars
<1>3. QueryOK'
  BY <1>1, <1>2, QueryFrame DEF NamesInv, QueryOK
<1> QED
  BY <1>1, <1>2, <1>3, CacheFrame, WordsFrame DEF NamesInv

LEMMA CloseStep ==
  ASSUME NamesInv, NEW c \in Conn, Hangup(c) \/ TimerClose(c)
  PROVE  NamesInv'
<1>1. ConnOK' /\ Fewer(key', want')
  BY ClosedStep DEF NamesInv, Hangup, TimerClose, TimedOut
<1>2. UNCHANGED <<cacheVars, wbuf, asked, rbuf, net, tmp, fate>>
  BY DEF Hangup, TimerClose, linkVars, netVars
<1>3. QueryOK'
  BY <1>1, <1>2, QueryFrame DEF NamesInv, QueryOK
<1> QED
  BY <1>1, <1>2, <1>3, CacheFrame, WordsFrame DEF NamesInv

\* A connection that begins to wait takes a key that nothing under way has.
LEMMA KeyAdded ==
  ASSUME NEW k, NEW w, NEW x, NEW t, NEW r, NEW n,
         \A c \in Conn : k[c] = x \/ (k[c] = key[c] /\ w[c] = want[c]),
         \A i \in 1..Words(t, r, n) : WordAt(t, r, n, i) # x,
         Paired(key, want, t, r, n)
  PROVE  Paired(k, w, t, r, n)
<1>1. PICK m \in Nat :
        /\ Words(t, r, n) = 2 * m
        /\ \A j \in 1..m : Good(key, want, WordAt(t, r, n, 2 * j - 1), WordAt(t, r, n, 2 * j))
  BY DEF Paired
<1>2. ASSUME NEW j \in 1..m
      PROVE  Good(k, w, WordAt(t, r, n, 2 * j - 1), WordAt(t, r, n, 2 * j))
  <2>1. 2 * j - 1 \in 1..Words(t, r, n)
    BY <1>1
  <2>2. Good(key, want, WordAt(t, r, n, 2 * j - 1), WordAt(t, r, n, 2 * j))
    BY <1>1
  <2> QED
    BY <2>1, <2>2 DEF Good
<1> QED
  BY <1>1, <1>2 DEF Paired

LEMMA NextKeyIsKey == ConnOK => NextKey \in Key
BY DEF ConnOK, NextKey, Key

LEMMA LookupMissStep ==
  ASSUME NamesInv, NEW c \in Conn, NEW n \in Name, LookupMiss(c, n)
  PROVE  NamesInv'
<1>1. /\ key[c] = 0 /\ nextKey \in Key /\ n # NoName /\ rbuf = <<>>
      /\ \A d \in Conn : key[d] # nextKey
  BY DEF NamesInv, ConnOK, WaitersIndexed, LookupMiss, ClientRuns, Idle, NextKeyIsFree
<1>2. /\ status'[c] = "INIT" /\ key'[c] = nextKey /\ host'[c] = n
      /\ want'[c] = n /\ ip'[c] = Unknown
      /\ \A d \in Conn : d # c =>
           /\ status'[d] = status[d] /\ key'[d] = key[d] /\ host'[d] = host[d]
           /\ want'[d] = want[d] /\ ip'[d] = ip[d]
  BY DEF NamesInv, ConnOK, LookupMiss
<1>3. /\ status' \in [Conn -> {"FREE", "INIT", "CONNECT", "CLOSED"}]
      /\ key' \in [Conn -> Key \cup {0}]
      /\ host' \in [Conn -> Name \cup {NoName}]
      /\ want' \in [Conn -> Name \cup {NoName}]
      /\ ip' \in [Conn -> Addr \cup {Unknown}]
  BY <1>1 DEF NamesInv, ConnOK, LookupMiss
<1>4. nextKey' \in Key
  BY <1>1, NextKeyIsKey DEF NamesInv, LookupMiss
<1>5. WaitersIndexed'
  BY <1>1, <1>2, KeysAreNat DEF NamesInv, ConnOK, WaitersIndexed
<1>6. ConnOK'
  BY <1>2, <1>3, <1>4, <1>5 DEF NamesInv, ConnOK
<1>7. QueryOK'
  <2>1. /\ \A q \in asked : q.key # nextKey
        /\ \A i \in DOMAIN wbuf : wbuf[i].key # nextKey
    BY DEF LookupMiss, NextKeyIsFree
  <2>2. wbuf \in Seq(Query) /\ asked \in SUBSET Query /\ asked' = asked
    BY DEF NamesInv, QueryOK, LookupMiss, netVars
  <2>3. \A q : (q.key # nextKey /\ Asks(q)) => Asks(q)'
    BY <1>2 DEF Asks
  <2>4. \A q \in asked : Asks(q)'
    BY <2>1, <2>3 DEF NamesInv, QueryOK
  <2>5. \A i \in DOMAIN wbuf : Asks(wbuf[i]) /\ wbuf[i].key # nextKey
    BY <2>1 DEF NamesInv, QueryOK
  <2>6. CASE wbuf' = wbuf
    BY <2>2, <2>4, <2>5, <2>6, <1>2 DEF QueryOK, Asks
  <2>7. CASE wbuf' = Append(wbuf, [key |-> nextKey, name |-> n])
    <3> DEFINE q == [key |-> nextKey, name |-> n]
    <3>1. q \in Query /\ q.key = nextKey /\ q.name = n
      BY <1>1 DEF Query
    <3> HIDE DEF q
    <3>2. /\ wbuf' \in Seq(Query)
          /\ \A j \in DOMAIN wbuf' : wbuf'[j] = q \/ (j \in DOMAIN wbuf /\ wbuf'[j] = wbuf[j])
      BY <2>2, <2>7, <3>1 DEF q
    <3>3. \A d \in Conn : key'[d] = nextKey => want'[d] = n
      BY <1>1, <1>2
    <3>4. ASSUME NEW j \in DOMAIN wbuf' PROVE Asks(wbuf[j])'
      <4>1. CASE wbuf'[j] = q
        BY <3>1, <3>3, <4>1 DEF Asks
      <4>2. CASE j \in DOMAIN wbuf /\ wbuf'[j] = wbuf[j]
        BY <2>5, <4>2, <1>2 DEF Asks
      <4> QED
        BY <3>2, <4>1, <4>2
    <3> QED
      BY <2>2, <2>4, <3>2, <3>4 DEF QueryOK
  <2> QED
    BY <2>6, <2>7 DEF LookupMiss
<1>8. WordsOK'
  <2>1. UNCHANGED <<rbuf, net, tmp>> /\ fate = "running"
    BY DEF LookupMiss, netVars, ClientRuns, Idle
  <2>2. \A i \in 1..Words(tmp, rbuf, net) : WordAt(tmp, rbuf, net, i) # nextKey
    <3>1. /\ \A i \in DOMAIN net : net[i] # nextKey
          /\ \A i \in DOMAIN tmp : tmp[i] # nextKey
      BY DEF LookupMiss, NextKeyIsFree
    <3>2. /\ DOMAIN net = 1..Len(net) /\ DOMAIN tmp = 1..Len(tmp)
          /\ Len(net) \in Nat /\ Len(tmp) \in Nat /\ Len(rbuf) = 0
      BY <1>1 DEF NamesInv, WordsOK
    <3> QED
      BY <3>1, <3>2 DEF Words, WordAt
  <2>3. Paired(key', want', tmp, rbuf, net)
    BY <1>2, <2>1, <2>2, KeyAdded DEF NamesInv, WordsOK
  <2> QED
    BY <2>1, <2>3 DEF NamesInv, WordsOK
<1>9. CacheOK'
  BY CacheFrame DEF NamesInv, LookupMiss
<1> QED
  BY <1>6, <1>7, <1>8, <1>9 DEF NamesInv

LEMMA AnswerStep ==
  ASSUME NamesInv, NEW q \in asked, NEW a \in Answers[q.name] \cup {Unknown},
         Answer(q, a)
  PROVE  NamesInv'
<1>1. /\ UNCHANGED <<cacheVars, status, key, host, want, ip, nextKey>>
      /\ UNCHANGED <<wbuf, rbuf, tmp, fate>>
      /\ asked' \subseteq asked /\ net' = net \o <<q.key, a>> /\ fate = "running"
  BY DEF Answer, connVars, linkVars, loopVars, Idle
<1>2. ConnOK' /\ Fewer(key', want')
  BY <1>1, SameConns DEF NamesInv
<1>3. QueryOK'
  BY <1>1, <1>2, QueryFrame DEF NamesInv, QueryOK
<1>4. q \in Query /\ Asks(q)
  BY DEF NamesInv, QueryOK
<1>5. q.key \in Key /\ q.name \in Name
  BY <1>4 DEF Query
<1>6. Answers[q.name] \subseteq Addr
  BY <1>5
<1>7. Good(key, want, q.key, a)
  BY <1>4, <1>5, <1>6 DEF Good, Asks
<1>8. q.key \in Word /\ a \in Word
  BY <1>5, <1>6 DEF Word
<1>9. WordsOK'
  <2> DEFINE n2 == net \o <<q.key, a>>
             W == Words(tmp, rbuf, net)
  <2>1. tmp \in Seq(Word) /\ rbuf \in Seq(Word) /\ net \in Seq(Word)
    BY DEF NamesInv, WordsOK
  <2>2. Len(tmp) \in Nat /\ Len(rbuf) \in Nat /\ Len(net) \in Nat
    BY <2>1
  <2>3. /\ n2 \in Seq(Word) /\ Len(n2) = Len(net) + 2
        /\ \A i \in 1..Len(net) : n2[i] = net[i]
        /\ n2[Len(net) + 1] = q.key /\ n2[Len(net) + 2] = a
    BY <2>1, <1>8
  <2> HIDE DEF n2
  <2>4. Words(tmp, rbuf, n2) = W + 2
    BY <2>2, <2>3 DEF Words
  <2>5. \A i \in 1..W : WordAt(tmp, rbuf, n2, i) = WordAt(tmp, rbuf, net, i)
    BY <2>2, <2>3 DEF Words, WordAt
  <2>6. /\ WordAt(tmp, rbuf, n2, W + 1) = q.key
        /\ WordAt(tmp, rbuf, n2, W + 2) = a
    <3>1. /\ (W + 1) - (Len(tmp) + Len(rbuf)) = Len(net) + 1
          /\ (W + 2) - (Len(tmp) + Len(rbuf)) = Len(net) + 2
          /\ W \in Nat /\ W >= Len(tmp) + Len(rbuf) /\ W >= Len(tmp)
      BY <2>2 DEF Words
    <3> HIDE DEF W
    <3> QED
      BY <2>2, <2>3, <3>1 DEF WordAt
  <2>7. Paired(key, want, tmp, rbuf, net)
    BY <1>1 DEF NamesInv, WordsOK
  <2>8. Paired(key, want, tmp, rbuf, n2)
    <3> HIDE DEF W
    <3> QED
      BY <1>7, <2>4, <2>5, <2>6, <2>7, AnswerAdded DEF W
  <2> QED
    BY <1>1, <2>3, <2>8 DEF NamesInv, WordsOK, n2
<1> QED
  BY <1>1, <1>2, <1>3, <1>9, CacheFrame DEF NamesInv

\* dns_conn, or the DNS program, is lost, and queries with it.
LEMMA LossStep ==
  ASSUME NamesInv, ProgramGone \/ DnsLost \/ DnsClose
  PROVE  NamesInv'
<1>1. /\ UNCHANGED <<cacheVars, status, key, host, want, ip, nextKey>>
      /\ UNCHANGED <<rbuf, tmp>>
  BY DEF ProgramGone, DnsLost, DnsClose, connVars, linkVars
<1>2. ConnOK' /\ Fewer(key', want')
  BY <1>1, SameConns DEF NamesInv
<1>3. QueryOK'
  <2>1. /\ asked' = asked \/ asked' = {}
        /\ wbuf' = wbuf \/ wbuf' = <<>>
    BY DEF ProgramGone, DnsLost, DnsClose, linkVars, netVars
  <2>2. /\ wbuf' \in Seq(Query)
        /\ \A j \in DOMAIN wbuf' : \E i \in DOMAIN wbuf : wbuf'[j] = wbuf[i]
    <3>1. <<>> \in Seq(Query) /\ DOMAIN <<>> = {}
      OBVIOUS
    <3> QED
      BY <2>1, <3>1 DEF NamesInv, QueryOK
  <2> QED
    BY <1>2, <2>1, <2>2, QueryFrame DEF NamesInv
<1>4. WordsOK'
  <2>1. CASE ProgramGone \/ DnsLost
    <3>1. UNCHANGED <<rbuf, net, tmp, fate>>
      BY <2>1 DEF ProgramGone, DnsLost, linkVars, netVars, loopVars
    <3> QED
      BY <1>2, <3>1, WordsFrame DEF NamesInv
  <2>2. CASE DnsClose
    <3>1. /\ net' = <<>> /\ rbuf' = <<>> /\ tmp' = tmp
          /\ fate' = "running" => tmp = <<>>
      BY <1>1, <2>2 DEF DnsClose, DnsJob, CurrentJob, Idle
    <3>2. Paired(key', want', <<>>, <<>>, <<>>)
      <4>1. Words(<<>>, <<>>, <<>>) = 2 * 0
        BY DEF Words
      <4> QED
        BY <4>1 DEF Paired
    <3>3. net' \in Seq(Word) /\ rbuf' \in Seq(Word)
      BY <3>1
    <3> QED
      BY <3>1, <3>2, <3>3 DEF NamesInv, WordsOK
  <2> QED
    BY <2>1, <2>2
<1> QED
  BY <1>1, <1>2, <1>3, <1>4, CacheFrame DEF NamesInv

\* Queries are written.
LEMMA WrittenStep ==
  ASSUME NamesInv, NEW n \in 0..Len(wbuf),
         Written(n) \/ UNCHANGED <<asked, wbuf>>,
         UNCHANGED <<cacheVars, connVars, rbuf, tmp, net, fate>>
  PROVE  NamesInv'
<1>1. ConnOK' /\ Fewer(key', want')
  BY SameConns DEF NamesInv, connVars
<1>2. wbuf \in Seq(Query) /\ Len(wbuf) \in Nat /\ DOMAIN wbuf = 1..Len(wbuf)
  BY DEF NamesInv, QueryOK
<1>3. CASE UNCHANGED <<asked, wbuf>>
  BY <1>1, <1>3, QueryFrame, CacheFrame, WordsFrame DEF NamesInv, QueryOK
<1>4. CASE /\ asked' = asked \cup {wbuf[i] : i \in 1..n}
           /\ wbuf' = SubSeq(wbuf, n + 1, Len(wbuf))
  <2>1. /\ wbuf' \in Seq(Query)
        /\ \A j \in DOMAIN wbuf' : j + n \in DOMAIN wbuf /\ wbuf'[j] = wbuf[j + n]
    BY <1>2, <1>4
  <2>2. \A q \in asked' : q \in asked \/ \E i \in DOMAIN wbuf : q = wbuf[i]
    BY <1>2, <1>4
  <2>3. QueryOK'
    BY <1>1, <2>1, <2>2, QueryFrame DEF NamesInv
  <2> QED
    BY <1>1, <2>3, CacheFrame, WordsFrame DEF NamesInv
<1> QED
  BY <1>3, <1>4 DEF Written

LEMMA DnsInStep ==
  ASSUME NamesInv, NEW n \in 1..Len(net), DnsIn(n)
  PROVE  NamesInv'
<1>1. /\ UNCHANGED <<cacheVars, status, key, host, want, ip, nextKey>>
      /\ UNCHANGED <<wbuf, asked, tmp, fate>>
      /\ rbuf' = SubSeq(net, 1, n) /\ net' = SubSeq(net, n + 1, Len(net))
      /\ fate = "running" /\ rbuf = <<>>
  BY DEF DnsIn, connVars, loopVars, DnsEvent, Idle
<1>2. ConnOK' /\ Fewer(key', want')
  BY <1>1, SameConns DEF NamesInv
<1>3. QueryOK'
  BY <1>1, <1>2, QueryFrame DEF NamesInv, QueryOK
<1>4. WordsOK'
  <2> DEFINE r2 == SubSeq(net, 1, n)
             n2 == SubSeq(net, n + 1, Len(net))
  <2>1. tmp \in Seq(Word) /\ net \in Seq(Word)
        /\ Len(tmp) \in Nat /\ Len(net) \in Nat /\ n \in 1..Len(net) /\ Len(rbuf) = 0
    BY <1>1 DEF NamesInv, WordsOK
  <2>2. /\ r2 \in Seq(Word) /\ Len(r2) = n
        /\ \A i \in 1..n : r2[i] = net[i]
    BY <2>1
  <2>3. /\ n2 \in Seq(Word) /\ Len(n2) = Len(net) - n
        /\ \A i \in 1..(Len(net) - n) : n2[i] = net[i + n]
    BY <2>1
  <2> HIDE DEF r2, n2
  <2>4. Words(tmp, r2, n2) = Words(tmp, rbuf, net)
    BY <2>1, <2>2, <2>3 DEF Words
  <2>5. ASSUME NEW i \in 1..Words(tmp, rbuf, net)
        PROVE  WordAt(tmp, r2, n2, i) = WordAt(tmp, rbuf, net, i)
    <3>1. i \in 1..(Len(tmp) + Len(net))
      BY <2>1 DEF Words
    <3>2. CASE i <= Len(tmp)
      BY <3>2 DEF WordAt
    <3>3. CASE i > Len(tmp) /\ i <= Len(tmp) + n
      BY <2>1, <2>2, <3>1, <3>3 DEF WordAt
    <3>4. CASE i > Len(tmp) + n
      <4>1. /\ i - (Len(tmp) + n) \in 1..(Len(net) - n)
            /\ (i - (Len(tmp) + n)) + n = i - (Len(tmp) + 0)
        BY <2>1, <3>1, <3>4
      <4>2. n2[i - (Len(tmp) + n)] = net[i - (Len(tmp) + 0)]
        BY <2>3, <4>1
      <4> QED
        BY <2>1, <2>2, <3>1, <3>4, <4>2 DEF WordAt
    <3> QED
      BY <2>1, <3>1, <3>2, <3>3, <3>4
  <2>6. Paired(key', want', tmp, r2, n2)
    BY <1>1, <1>2, <2>4, <2>5, SameWords DEF NamesInv, WordsOK
  <2> QED
    BY <1>1, <2>2, <2>3, <2>6 DEF NamesInv, WordsOK, r2, n2
<1> QED
  BY <1>1, <1>2, <1>3, <1>4, CacheFrame DEF NamesInv

-----------------------------------------------------------------------------
(* The parsing loop                                                         *)

\* The first word of an answer goes to dns_ctx.
LEMMA FirstWordStep ==
  ASSUME NamesInv, fate = "running", rbuf # <<>>, tmp = <<>>,
         rbuf' = Tail(rbuf), tmp' = <<Head(rbuf)>>,
         UNCHANGED <<cacheVars, status, key, host, ip>>,
         UNCHANGED <<nextKey, want, wbuf, net, asked, fate>>
  PROVE  NamesInv'
<1>1. ConnOK' /\ Fewer(key', want')
  BY SameConns DEF NamesInv
<1>2. QueryOK'
  BY <1>1, QueryFrame DEF NamesInv, QueryOK
<1>3. WordsOK'
  <2> DEFINE t2 == <<Head(rbuf)>>
             r2 == Tail(rbuf)
  <2>1. /\ rbuf \in Seq(Word) /\ net \in Seq(Word)
        /\ Len(rbuf) \in Nat /\ Len(rbuf) >= 1 /\ Len(net) \in Nat /\ Len(tmp) = 0
    BY DEF NamesInv, WordsOK
  <2>2. /\ t2 \in Seq(Word) /\ Len(t2) = 1 /\ t2[1] = rbuf[1]
        /\ r2 \in Seq(Word) /\ Len(r2) = Len(rbuf) - 1
        /\ \A i \in 1..(Len(rbuf) - 1) : r2[i] = rbuf[i + 1]
    BY <2>1
  <2> HIDE DEF t2, r2
  <2>3. Words(t2, r2, net) = Words(tmp, rbuf, net)
    BY <2>1, <2>2 DEF Words
  <2>4. ASSUME NEW i \in 1..Words(tmp, rbuf, net)
        PROVE  WordAt(t2, r2, net, i) = WordAt(tmp, rbuf, net, i)
    <3>1. i \in 1..(Len(rbuf) + Len(net))
      BY <2>1 DEF Words
    <3>2. CASE i = 1
      BY <2>1, <2>2, <3>2 DEF WordAt
    <3>3. CASE i > 1 /\ i <= Len(rbuf)
      <4>1. i - 1 \in 1..(Len(rbuf) - 1) /\ (i - 1) + 1 = i /\ i - 0 = i
        BY <2>1, <3>1, <3>3
      <4>2. r2[i - 1] = rbuf[i - 0]
        BY <2>2, <4>1
      <4> QED
        BY <2>1, <2>2, <3>1, <3>3, <4>2 DEF WordAt
    <3>4. CASE i > Len(rbuf)
      <4>1. i - (1 + (Len(rbuf) - 1)) = i - (0 + Len(rbuf))
        BY <2>1, <3>1
      <4> QED
        BY <2>1, <2>2, <3>1, <3>4, <4>1 DEF WordAt
    <3> QED
      BY <2>1, <3>1, <3>2, <3>3, <3>4
  <2>5. Paired(key', want', t2, r2, net)
    BY <1>1, <2>3, <2>4, SameWords DEF NamesInv, WordsOK
  <2> QED
    BY <2>1, <2>2, <2>5 DEF NamesInv, WordsOK, t2, r2
<1> QED
  BY <1>1, <1>2, <1>3, CacheFrame DEF NamesInv

\* With its second word an answer is whole, and good.
LEMMA SecondWord ==
  ASSUME NamesInv, fate = "running", rbuf # <<>>, tmp # <<>>,
         rbuf' = Tail(rbuf), tmp' = <<>>, net' = net, Fewer(key', want')
  PROVE  WordsOK' /\ Good(key, want, tmp[1], Head(rbuf))
<1>1. /\ rbuf \in Seq(Word) /\ net \in Seq(Word) /\ tmp \in Seq(Word)
      /\ Len(rbuf) \in Nat /\ Len(rbuf) >= 1 /\ Len(net) \in Nat /\ Len(tmp) = 1
      /\ Head(rbuf) = rbuf[1]
  <2>1. rbuf \in Seq(Word) /\ net \in Seq(Word) /\ tmp \in Seq(Word) /\ Len(tmp) <= 1
    BY DEF NamesInv, WordsOK
  <2>2. Len(rbuf) \in Nat /\ Len(rbuf) >= 1 /\ Head(rbuf) = rbuf[1]
    BY <2>1
  <2>3. Len(tmp) = 1
    <3>1. Len(tmp) \in Nat /\ tmp = [i \in 1..Len(tmp) |-> tmp[i]]
      BY <2>1
    <3>2. Len(tmp) # 0
      BY <3>1
    <3> QED
      BY <2>1, <3>1, <3>2
  <2>4. Len(net) \in Nat
    BY <2>1
  <2> QED
    BY <2>1, <2>2, <2>3, <2>4
<1> DEFINE r2 == Tail(rbuf)
           t2 == <<>>
<1>2. /\ t2 \in Seq(Word) /\ Len(t2) = 0
      /\ r2 \in Seq(Word) /\ Len(r2) = Len(rbuf) - 1
      /\ \A i \in 1..(Len(rbuf) - 1) : r2[i] = rbuf[i + 1]
  BY <1>1
<1> HIDE DEF t2, r2
<1>3. /\ Words(tmp, rbuf, net) \in Nat /\ Words(tmp, rbuf, net) >= 1
      /\ Words(t2, r2, net) = Words(tmp, rbuf, net) - 2
  BY <1>1, <1>2 DEF Words
<1>4. ASSUME NEW i \in 1..Words(t2, r2, net)
      PROVE  WordAt(t2, r2, net, i) = WordAt(tmp, rbuf, net, i + 2)
  <2>1. i \in 1..((Len(rbuf) - 1) + Len(net))
    BY <1>1, <1>2 DEF Words
  <2>2. CASE i <= Len(rbuf) - 1
    <3>1. i \in 1..(Len(rbuf) - 1) /\ i - 0 = i /\ (i + 2) - 1 = i + 1
      BY <1>1, <2>1, <2>2
    <3>2. r2[i - 0] = rbuf[(i + 2) - 1]
      BY <1>2, <3>1
    <3> QED
      BY <1>1, <1>2, <2>1, <2>2, <3>2 DEF WordAt
  <2>3. CASE i > Len(rbuf) - 1
    <3>1. i - (0 + (Len(rbuf) - 1)) = (i + 2) - (1 + Len(rbuf))
      BY <1>1, <2>1
    <3> QED
      BY <1>1, <1>2, <2>1, <2>3, <3>1 DEF WordAt
  <2> QED
    BY <1>1, <2>1, <2>2, <2>3
<1>5. /\ WordAt(tmp, rbuf, net, 1) = tmp[1]
      /\ WordAt(tmp, rbuf, net, 2) = Head(rbuf)
  BY <1>1 DEF WordAt
<1>6. /\ Paired(key', want', t2, r2, net)
      /\ Good(key, want, WordAt(tmp, rbuf, net, 1), WordAt(tmp, rbuf, net, 2))
  BY <1>3, <1>4, FirstTaken DEF NamesInv, WordsOK
<1> QED
  BY <1>1, <1>2, <1>5, <1>6 DEF NamesInv, WordsOK, t2, r2

\* Nobody waits for the answer any more.
LEMMA LateAnswerStep ==
  ASSUME NamesInv, fate = "running", rbuf # <<>>, tmp # <<>>,
         rbuf' = Tail(rbuf), tmp' = <<>>,
         UNCHANGED <<cacheVars, status, key, host, ip>>,
         UNCHANGED <<nextKey, want, wbuf, net, asked, fate>>
  PROVE  NamesInv'
<1>1. ConnOK' /\ Fewer(key', want')
  BY SameConns DEF NamesInv
<1>2. QueryOK'
  BY <1>1, QueryFrame DEF NamesInv, QueryOK
<1>3. WordsOK'
  BY <1>1, SecondWord
<1> QED
  BY <1>1, <1>2, <1>3, CacheFrame DEF NamesInv

\* What a connection is woken with.
LEMMA WokenAnswer ==
  ASSUME NamesInv, fate = "running", rbuf # <<>>, tmp # <<>>,
         NEW c \in Asker(tmp[1]), DelNode(c),
         rbuf' = Tail(rbuf), tmp' = <<>>, UNCHANGED <<want, net>>
  PROVE  LET a == Head(rbuf) IN
         /\ WordsOK' /\ Fewer(key', want')
         /\ key[c] # 0 /\ host[c] \in Name /\ host[c] = want[c]
         /\ a = Unknown \/ (a \in Addr /\ a \in Answers[want[c]])
<1>1. c \in Conn /\ key[c] = tmp[1]
  BY DEF Asker
<1>2. key'[c] = 0 /\ \A d \in Conn : d # c => key'[d] = key[d]
  BY <1>1 DEF NamesInv, ConnOK, DelNode
<1>3. Fewer(key', want')
  BY <1>2 DEF Fewer
<1>4. WordsOK' /\ Good(key, want, tmp[1], Head(rbuf))
  BY <1>3, SecondWord
<1>5. key[c] # 0 /\ host[c] \in Name /\ host[c] = want[c]
  BY <1>1, <1>4, KeysAreNat DEF NamesInv, ConnOK, WaitersIndexed, Good
<1> QED
  BY <1>1, <1>3, <1>4, <1>5 DEF Good

\* The connection that waits is woken.
LEMMA WokenStep ==
  ASSUME NamesInv, fate = "running", rbuf # <<>>, tmp # <<>>,
         NEW c \in Asker(tmp[1]), NEW ok \in BOOLEAN,
         WakeUp(c, Head(rbuf), ok), DelNode(c),
         rbuf' = Tail(rbuf), tmp' = <<>>,
         UNCHANGED <<nextKey, want, wbuf, net, asked, fate>>
  PROVE  NamesInv'
<1> DEFINE a == Head(rbuf)
<1>1. c \in Conn /\ key[c] = tmp[1]
  BY DEF Asker
<1>2. /\ key'[c] = 0 /\ host'[c] = NoName
      /\ \A d \in Conn : d # c => key'[d] = key[d] /\ host'[d] = host[d]
      /\ key' \in [Conn -> Key \cup {0}]
      /\ host' \in [Conn -> Name \cup {NoName}]
  BY <1>1 DEF NamesInv, ConnOK, DelNode
<1>3. WordsOK' /\ Fewer(key', want')
  BY WokenAnswer
<1>5. key[c] # 0 /\ host[c] \in Name /\ host[c] = want[c]
  BY WokenAnswer
<1>6. a = Unknown \/ (a \in Addr /\ a \in Answers[want[c]])
  BY WokenAnswer
<1> HIDE DEF a
<1>7. QueryOK'
  BY <1>3, QueryFrame DEF NamesInv, QueryOK
<1>8. CacheOK'
  <2>1. CASE a = Unknown
    BY <2>1, CacheFrame DEF NamesInv, WakeUp, a
  <2>2. CASE a # Unknown
    <3>1. Insert(host[c], a) /\ a \in Addr
      BY <1>6, <2>2 DEF WakeUp, a
    <3>2. /\ CacheInv'
          /\ \A m \in Name : Cached(m)' = IF m = host[c] THEN a ELSE Cached(m)
      BY <1>5, <3>1, InsertStep DEF NamesInv, CacheOK
    <3> QED
      BY <1>5, <1>6, <2>2, <3>2 DEF NamesInv, CacheOK
  <2> QED
    BY <2>1, <2>2
<1>9. ConnOK'
  <2>1. \/ /\ a # Unknown
           /\ status' = [status EXCEPT ![c] = "CONNECT"]
           /\ ip' = [ip EXCEPT ![c] = a]
        \/ /\ status' = [status EXCEPT ![c] = "CLOSED"]
           /\ ip' = ip
    BY DEF WakeUp, a
  <2>2. /\ status'[c] \in {"CONNECT", "CLOSED"}
        /\ \A d \in Conn : d # c => status'[d] = status[d]
        /\ status' \in [Conn -> {"FREE", "INIT", "CONNECT", "CLOSED"}]
    BY <1>1, <2>1 DEF NamesInv, ConnOK
  <2>3. /\ ip' \in [Conn -> Addr \cup {Unknown}]
        /\ \A d \in Conn : ip'[d] = ip[d] \/ (d = c /\ a # Unknown /\ ip'[d] = a)
    BY <1>1, <1>6, <2>1 DEF NamesInv, ConnOK
  <2>4. \A d \in Conn : ip'[d] # Unknown => ip'[d] \in Answers[want[d]]
    BY <1>6, <2>3 DEF NamesInv, ConnOK
  <2>5. WaitersIndexed'
    <3>1. WaitersIndexed
      BY DEF NamesInv, ConnOK
    <3>2. \A d \in Conn : key'[d] # 0 <=> host'[d] # NoName
      BY <1>2, <3>1 DEF WaitersIndexed
    <3>3. \A d \in Conn : /\ status'[d] = "FREE" => key'[d] = 0
                          /\ status'[d] = "INIT" => key'[d] # 0
      BY <1>2, <2>2, <3>1 DEF WaitersIndexed
    <3>4. \A d, e \in Conn : key'[d] = key'[e] /\ key'[d] # 0 => d = e
      BY <1>2, <3>1 DEF WaitersIndexed
    <3> QED
      BY <3>2, <3>3, <3>4 DEF WaitersIndexed
  <2>6. \A d \in Conn : key'[d] # 0 => host'[d] = want[d]
    BY <1>2 DEF NamesInv, ConnOK
  <2>7. want' = want /\ nextKey' = nextKey
    OBVIOUS
  <2> QED
    BY <1>2, <2>2, <2>3, <2>4, <2>5, <2>6, <2>7 DEF NamesInv, ConnOK
<1> QED
  BY <1>3, <1>7, <1>8, <1>9 DEF NamesInv

LEMMA ParseWordStep ==
  ASSUME NamesInv, NEW ok \in BOOLEAN, ParseWord(ok)
  PROVE  NamesInv'
<1>1. /\ fate = "running" /\ rbuf # <<>> /\ rbuf' = Tail(rbuf)
      /\ UNCHANGED <<nextKey, want, wbuf, net, asked, fate>>
  BY DEF ParseWord, netVars
<1>2. CASE /\ tmp = <<>> /\ tmp' = <<Head(rbuf)>>
           /\ UNCHANGED <<cacheVars, status, key, host, ip>>
  BY <1>1, <1>2, FirstWordStep
<1>3. CASE /\ tmp # <<>> /\ tmp' = <<>>
           /\ UNCHANGED <<cacheVars, status, key, host, ip>>
  BY <1>1, <1>3, LateAnswerStep
<1>4. ASSUME NEW c \in Asker(tmp[1]), tmp # <<>>, tmp' = <<>>,
             WakeUp(c, Head(rbuf), ok), DelNode(c)
      PROVE  NamesInv'
  BY <1>1, <1>4, WokenStep
<1> QED
  BY <1>2, <1>3, <1>4 DEF ParseWord

-----------------------------------------------------------------------------
LEMMA TimeStep ==
  ASSUME NamesInv, Tick \/ \E ok \in BOOLEAN : TimerEnd(ok)
  PROVE  NamesInv'
<1>1. /\ UNCHANGED <<status, key, host, want, ip, nextKey>>
      /\ UNCHANGED <<wbuf, asked, rbuf, net, tmp, fate>>
  BY DEF Tick, TimerEnd, connVars, linkVars, netVars
<1>2. ConnOK' /\ Fewer(key', want')
  BY <1>1, SameConns DEF NamesInv
<1>3. QueryOK'
  BY <1>1, <1>2, QueryFrame DEF NamesInv, QueryOK
<1>4. CacheOK'
  BY GrowOldStep, ExpireStep DEF NamesInv, CacheOK, Tick, TimerEnd
<1> QED
  BY <1>1, <1>2, <1>3, <1>4, WordsFrame DEF NamesInv

LEMMA NamesInitInv == NamesInit => NamesInv
<1> SUFFICES ASSUME NamesInit PROVE NamesInv
  OBVIOUS
<1>1. ConnOK
  BY DEF NamesInit, ConnOK, WaitersIndexed, Key
<1>2. CacheOK
  BY CacheInitInv DEF NamesInit, CacheOK
<1>3. QueryOK
  BY DEF NamesInit, QueryOK
<1>4. WordsOK
  <2>1. Words(<<>>, <<>>, <<>>) = 2 * 0
    BY DEF Words
  <2> QED
    BY <2>1 DEF NamesInit, WordsOK, Paired
<1> QED
  BY <1>1, <1>2, <1>3, <1>4 DEF NamesInv

LEMMA NamesStep == NamesInv /\ [Next]_vars => NamesInv'
<1> SUFFICES ASSUME NamesInv, [Next]_vars PROVE NamesInv'
  OBVIOUS
<1>1. CASE UNCHANGED vars
  BY <1>1, SameAll DEF vars, connVars, linkVars, netVars, loopVars
<1>2. CASE Clients
  BY <1>2, LookupHitStep, LookupMissStep, FreeStep, CloseStep DEF Clients
<1>3. CASE Program
  BY <1>3, AnswerStep, LossStep DEF Program
<1>4. CASE DnsEvents
  <2>1. ASSUME NEW n \in 0..Len(wbuf), DnsOut(n) PROVE NamesInv'
    BY <2>1, WrittenStep DEF DnsOut, loopVars
  <2> QED
    BY <1>4, <2>1, DnsInStep, LossStep DEF DnsEvents
<1>5. CASE Loop
  <2>1. ASSUME NEW n \in 0..Len(wbuf), DnsWrite(n) PROVE NamesInv'
    BY <2>1, WrittenStep DEF DnsWrite
  <2>2. CASE StartJobs \/ LastOtherJob \/ PassJob \/ ClearJobs \/ DnsJobDangling
    BY <2>2, SameAll DEF StartJobs, LastOtherJob, PassJob, ClearJobs, DnsJobDangling,
                         connVars, linkVars, netVars
  <2>3. ASSUME NEW c \in Conn, CloseJob(c) \/ TimerClose(c) PROVE NamesInv'
    BY <2>3, FreeStep, CloseStep
  <2> QED
    BY <1>5, <2>1, <2>2, <2>3, ParseWordStep, LossStep, TimeStep DEF Loop
<1>6. CASE Tick
  BY <1>6, TimeStep
<1> QED
  BY <1>1, <1>2, <1>3, <1>4, <1>5, <1>6 DEF Next

LEMMA NamesAlways == Spec => []NamesInv
BY NamesInitInv, NamesStep, PTL DEF Spec

-----------------------------------------------------------------------------
\* Whoever waits for an address is in dns_conn_tree, alone under his key, and
\* whoever is freed is not (dns_parse.c, connection.c).
THEOREM WaitersAlwaysIndexed == Spec => []WaitersIndexed
<1>1. NamesInv => WaitersIndexed
  BY DEF NamesInv, ConnOK
<1> QED
  BY <1>1, NamesAlways, PTL

\* A connection is made only to an address the DNS program gave for its own
\* name, and the cache remembers nothing else: however answers are cut, late
\* or lost, and whatever was closed meanwhile (dns_parse.c:25-207).
THEOREM AlwaysRightAddress == Spec => []RightAddress
<1>1. NamesInv => RightAddress
  <2> SUFFICES ASSUME NamesInv, NEW i \in DOMAIN queue
               PROVE  queue[i].ip \in Answers[queue[i].name]
    BY DEF NamesInv, ConnOK, RightAddress
  <2> DEFINE n == queue[i].name
  <2>1. queue[i] \in Entry
    BY DEF NamesInv, CacheOK, CacheInv, CacheTypeOK
  <2>2. n \in Name /\ queue[i].ip \in Addr
    BY <2>1 DEF Entry
  <2>3. n \in NamesIn(queue)
    BY DEF NamesIn
  <2>4. Found(n) /\ Place(n) \in DOMAIN queue /\ queue[Place(n)].name = n
    BY <2>2, <2>3, FoundIsListed DEF FindsAll, NamesInv, CacheOK
  <2>5. Place(n) = i
    BY <2>4 DEF NamesInv, CacheOK, CacheInv, CacheConsistent
  <2>6. Cached(n) = queue[i].ip
    BY <2>4, <2>5 DEF Cached
  <2> QED
    BY <2>2, <2>6, CacheAssumption DEF NamesInv, CacheOK
<1> QED
  BY <1>1, NamesAlways, PTL

\* The cache's indexes agree in this system (dnscache.c:132-214).
THEOREM CacheStaysConsistent == Spec => []CacheConsistent
<1>1. NamesInv => CacheConsistent
  BY DEF NamesInv, CacheOK, CacheInv
<1> QED
  BY <1>1, NamesAlways, PTL

\* The cache of this system is the cache of DnsCache.
THEOREM NamesUseCache == Spec => CacheSpec
<1>1. NamesInit => CacheInit
  BY DEF NamesInit
<1>2. NamesInv /\ [Next]_vars => [CacheNext]_cacheVars
  <2> SUFFICES ASSUME NamesInv, [Next]_vars, cacheVars' # cacheVars PROVE CacheNext
    OBVIOUS
  <2>1. \/ Tick
        \/ \E ok \in BOOLEAN : TimerEnd(ok)
        \/ \E ok \in BOOLEAN : ParseWord(ok)
    <3>1. ~UNCHANGED vars
      BY DEF vars, cacheVars
    <3>2. ~Clients
      BY DEF Clients, LookupHit, LookupMiss, Served, Hangup, cacheVars
    <3>3. ~Program /\ ~DnsEvents
      BY DEF Program, Answer, ProgramGone, DnsEvents, DnsIn, DnsLost, DnsOut, cacheVars
    <3>4. /\ ~(StartJobs \/ LastOtherJob \/ PassJob \/ ClearJobs)
          /\ ~(DnsJobDangling \/ DnsClose)
          /\ \A n : ~DnsWrite(n)
          /\ \A c : ~CloseJob(c) /\ ~TimerClose(c)
      BY DEF StartJobs, LastOtherJob, PassJob, ClearJobs, DnsJobDangling, DnsClose,
             DnsWrite, CloseJob, TimerClose, cacheVars
    <3> QED
      BY <3>1, <3>2, <3>3, <3>4 DEF Next, Loop
  <2>2. CASE Tick \/ \E ok \in BOOLEAN : TimerEnd(ok)
    BY <2>2 DEF Tick, TimerEnd, CacheNext
  <2>3. ASSUME NEW ok \in BOOLEAN, ParseWord(ok) PROVE CacheNext
    <3>1. /\ fate = "running" /\ rbuf # <<>> /\ rbuf' = Tail(rbuf)
          /\ UNCHANGED <<want, net>>
      BY <2>3 DEF ParseWord, netVars
    <3>2. PICK c \in Asker(tmp[1]) :
            tmp # <<>> /\ tmp' = <<>> /\ WakeUp(c, Head(rbuf), ok) /\ DelNode(c)
      BY <2>3 DEF ParseWord
    <3>3. /\ host[c] \in Name
          /\ Head(rbuf) = Unknown \/ Head(rbuf) \in Addr
      BY <3>1, <3>2, WokenAnswer
    <3>4. Insert(host[c], Head(rbuf)) /\ Head(rbuf) # Unknown
      BY <3>2 DEF WakeUp
    <3> QED
      BY <3>3, <3>4 DEF CacheNext
  <2> QED
    BY <2>1, <2>2, <2>3
<1> QED
  BY <1>1, <1>2, NamesAlways, PTL DEF Spec, CacheSpec

\* What peer_create is told by the cache, in this system too, is what was
\* learnt last of each name until all names are forgotten at once.
THEOREM NamesKeepABook == Spec => IsABook
BY NamesUseCache, CacheIsABook

-----------------------------------------------------------------------------
(* The types of the rest: the job list and where the loop is.               *)

LoopJob == Job(Conn \cup {Dns}, {"OUT", "CLOSE"})

RestOK ==
  /\ idle \in [Conn -> 0..ConnTimeout]
  /\ link \in {"null", "WORKING", "CLOSED"}
  /\ sock \in {"none", "open", "gone"}
  /\ jobs \in Seq(LoopJob)
  /\ phase \in {"timer", "events", "jobs", "last"}
  /\ fate \in {"running", "null_deref", "use_after_free", "misreads"}

LEMMA NewJobTyped ==
  ASSUME NEW c \in Conn \cup {Dns}, NEW evs \in SUBSET {"OUT", "CLOSE"}
  PROVE  NewJob(evs, c) \in LoopJob
BY DEF NewJob, LoopJob, Job

\* job_addconn and job_delconn return lists of jobs.
LEMMA AddConnTyped ==
  ASSUME NEW q \in Seq(LoopJob), NEW c \in Conn \cup {Dns},
         NEW evs \in SUBSET {"OUT", "CLOSE"}
  PROVE  /\ AddConn(q, evs, c) \in Seq(LoopJob)
         /\ AddConn(q, evs, c) # <<>>
<1> DEFINE n == Len(q)
<1>1. CASE n > 0 /\ q[n].conn = c
  <2> DEFINE e == IF q[n].deld THEN evs ELSE q[n].events \cup evs
             j == NewJob(e, c)
  <2>1. q[n] \in LoopJob
    BY <1>1
  <2>2. e \in SUBSET {"OUT", "CLOSE"}
    BY <2>1 DEF LoopJob, Job
  <2>3. j \in LoopJob
    BY <2>2, NewJobTyped
  <2>4. AddConn(q, evs, c) = [q EXCEPT ![n] = j]
    BY <1>1 DEF AddConn
  <2> HIDE DEF j
  <2>5. [q EXCEPT ![n] = j] \in Seq(LoopJob) /\ Len([q EXCEPT ![n] = j]) = n
    BY <1>1, <2>3
  <2> QED
    BY <1>1, <2>4, <2>5
<1>2. CASE ~(n > 0 /\ q[n].conn = c)
  <2>1. AddConn(q, evs, c) = Append(q, NewJob(evs, c))
    BY <1>2 DEF AddConn
  <2> QED
    BY <2>1, NewJobTyped
<1> QED
  BY <1>1, <1>2

LEMMA DelConnTyped ==
  ASSUME NEW q \in Seq(LoopJob), NEW c
  PROVE  DelConn(q, c) \in Seq(LoopJob) /\ Len(DelConn(q, c)) = Len(q)
<1>1. \A i \in 1..Len(q) : q[i] \in LoopJob
  OBVIOUS
<1>2. \A i \in 1..Len(q) : [q[i] EXCEPT !.deld = TRUE] \in LoopJob
  BY <1>1 DEF LoopJob, Job
<1> DEFINE f(i) == IF q[i].conn = c THEN [q[i] EXCEPT !.deld = TRUE] ELSE q[i]
<1>3. \A i \in 1..Len(q) : f(i) \in LoopJob
  BY <1>1, <1>2
<1>4. DelConn(q, c) = [i \in 1..Len(q) |-> f(i)]
  BY DEF DelConn
<1> HIDE DEF f
<1> QED
  BY <1>3, <1>4

\* Any handler that adds a job leaves a list of jobs.
LEMMA AddJobTyped ==
  ASSUME RestOK, NEW c \in Conn \cup {Dns}, NEW evs \in SUBSET {"OUT", "CLOSE"},
         AddJob(evs, c)
  PROVE  jobs' \in Seq(LoopJob)
<1>1. CASE jobs' = AddConn(jobs, evs, c)
  BY <1>1, AddConnTyped DEF RestOK
<1>2. CASE jobs' = Append(jobs, NewJob(evs, c))
  BY <1>2, NewJobTyped DEF RestOK
<1> QED
  BY <1>1, <1>2 DEF AddJob

LEMMA RestLoop ==
  ASSUME RestOK, Loop
  PROVE  RestOK'
<1>1. ASSUME NEW ok \in BOOLEAN, ParseWord(ok) PROVE RestOK'
  <2>1. jobs' = jobs \/ \E c \in Conn : AddJob({"CLOSE"}, c)
    BY <1>1 DEF ParseWord, WakeUp, Asker
  <2>2. jobs' \in Seq(LoopJob)
    BY <2>1, AddJobTyped DEF RestOK
  <2> QED
    BY <1>1, <2>2 DEF ParseWord, RestOK, netVars
<1>2. CASE StartJobs \/ LastOtherJob \/ ClearJobs \/ DnsJobDangling
  BY <1>2 DEF StartJobs, LastOtherJob, ClearJobs, DnsJobDangling, RestOK, connVars, linkVars, netVars
<1>3. CASE PassJob \/ DnsClose
  <2>1. jobs # <<>> /\ jobs' = Tail(jobs)
    BY <1>3 DEF PassJob, DnsClose, DnsJob, CurrentJob
  <2>2. jobs' \in Seq(LoopJob)
    BY <2>1 DEF RestOK
  <2> QED
    BY <1>3, <2>2 DEF PassJob, DnsClose, RestOK, connVars, linkVars, netVars
<1>4. ASSUME NEW c \in Conn, CloseJob(c) PROVE RestOK'
  <2>1. jobs # <<>> /\ jobs' = Tail(DelConn(jobs, c))
    BY <1>4 DEF CloseJob, CurrentJob
  <2>2. jobs' \in Seq(LoopJob)
    BY <2>1, DelConnTyped DEF RestOK
  <2>3. idle' \in [Conn -> 0..ConnTimeout]
    BY <1>4, NamesAssumption DEF CloseJob, FreeConn, RestOK
  <2> QED
    BY <1>4, <2>2, <2>3 DEF CloseJob, RestOK, linkVars, netVars
<1>5. ASSUME NEW n \in 0..Len(wbuf), DnsWrite(n) PROVE RestOK'
  <2>1. jobs # <<>>
    BY <1>5 DEF DnsWrite, DnsJob, CurrentJob
  <2>2. /\ jobs' = Tail(jobs) \/ jobs' = Tail(AddConn(jobs, {"CLOSE"}, Dns))
           \/ jobs' = Append(Tail(jobs), NewJob({"CLOSE"}, Dns))
    BY <1>5 DEF DnsWrite
  <2>3. /\ AddConn(jobs, {"CLOSE"}, Dns) \in Seq(LoopJob) \ {<<>>}
        /\ NewJob({"CLOSE"}, Dns) \in LoopJob /\ jobs \in Seq(LoopJob)
    BY AddConnTyped, NewJobTyped DEF RestOK
  <2>4. \A q \in Seq(LoopJob) \ {<<>>} : Tail(q) \in Seq(LoopJob)
    OBVIOUS
  <2>5. Tail(jobs) \in Seq(LoopJob) /\ Tail(AddConn(jobs, {"CLOSE"}, Dns)) \in Seq(LoopJob)
    BY <2>1, <2>3, <2>4
  <2>6. \A q \in Seq(LoopJob), j \in LoopJob : Append(q, j) \in Seq(LoopJob)
    OBVIOUS
  <2>7. Append(Tail(jobs), NewJob({"CLOSE"}, Dns)) \in Seq(LoopJob)
    BY <2>3, <2>5, <2>6
  <2>8. jobs' \in Seq(LoopJob)
    BY <2>2, <2>5, <2>7
  <2> QED
    BY <1>5, <2>8 DEF DnsWrite, RestOK, connVars
<1>6. ASSUME NEW c \in Conn, TimerClose(c) PROVE RestOK'
  BY <1>6, AddJobTyped DEF TimerClose, RestOK, linkVars, netVars
<1>7. ASSUME NEW ok \in BOOLEAN, TimerEnd(ok) PROVE RestOK'
  BY <1>7 DEF TimerEnd, RestOK, connVars
<1> QED
  BY <1>1, <1>2, <1>3, <1>4, <1>5, <1>6, <1>7 DEF Loop

LEMMA RestStep == RestOK /\ [Next]_vars => RestOK'
<1> SUFFICES ASSUME RestOK, [Next]_vars PROVE RestOK'
  OBVIOUS
<1>1. ASSUME NEW c \in Conn, NEW n \in Name, LookupHit(c, n) \/ LookupMiss(c, n)
      PROVE  RestOK'
  <2>1. idle' \in [Conn -> 0..ConnTimeout]
    BY <1>1, NamesAssumption DEF LookupHit, LookupMiss, RestOK
  <2>2. CASE LookupHit(c, n)
    BY <2>1, <2>2 DEF LookupHit, RestOK, linkVars, netVars, loopVars
  <2>3. CASE LookupMiss(c, n)
    <3>1. jobs' = jobs \/ AddJob({"OUT"}, Dns)
      BY <2>3 DEF LookupMiss
    <3>2. jobs' \in Seq(LoopJob)
      BY <3>1, AddJobTyped DEF RestOK
    <3> QED
      BY <2>1, <2>3, <3>2 DEF LookupMiss, RestOK, netVars
  <2> QED
    BY <1>1, <2>2, <2>3
<1>2. ASSUME NEW c \in Conn, Served(c) \/ Hangup(c) PROVE RestOK'
  <2>1. idle' \in [Conn -> 0..ConnTimeout]
    BY <1>2, NamesAssumption DEF Served, Hangup, FreeConn, RestOK
  <2>2. jobs' = jobs \/ AddJob({"CLOSE"}, c)
    BY <1>2 DEF Served, Hangup, loopVars
  <2>3. jobs' \in Seq(LoopJob)
    BY <2>2, AddJobTyped DEF RestOK
  <2> QED
    BY <1>2, <2>1, <2>3 DEF Served, Hangup, RestOK, linkVars, netVars, loopVars
<1>3. CASE Program
  BY <1>3 DEF Program, Answer, ProgramGone, RestOK, connVars, linkVars, loopVars
<1>4. CASE DnsEvents
  <2>1. jobs' = jobs \/ AddJob({"CLOSE"}, Dns)
    BY <1>4 DEF DnsEvents, DnsIn, DnsLost, DnsOut, SignalDnsClose, loopVars
  <2>2. jobs' \in Seq(LoopJob)
    BY <2>1, AddJobTyped DEF RestOK
  <2> QED
    BY <1>4, <2>2 DEF DnsEvents, DnsIn, DnsLost, DnsOut, SignalDnsClose, RestOK,
                      connVars, netVars, loopVars
<1>5. CASE Tick
  <2>1. idle' \in [Conn -> 0..ConnTimeout]
    BY <1>5, NamesAssumption DEF Tick, RestOK
  <2> QED
    BY <1>5, <2>1 DEF Tick, RestOK, linkVars, netVars
<1>6. CASE UNCHANGED vars
  BY <1>6 DEF vars, connVars, linkVars, netVars, loopVars, RestOK
<1> QED
  BY <1>1, <1>2, <1>3, <1>4, <1>5, <1>6, RestLoop DEF Next, Clients

\* Nothing in the connections, the cache, the job list, dns_conn's buffers or
\* the words on their way ever loses its type: a key is never 0 where one is
\* due, and the timer's seconds stop at the timeout (conn_dns.c, dns_parse.c).
THEOREM NamesTypeCorrect == Spec => []NamesTypeOK
<1>1. NamesInit => RestOK
  BY NamesAssumption DEF NamesInit, RestOK
<1>2. Spec => []RestOK
  BY <1>1, RestStep, PTL DEF Spec
<1>3. NamesInv /\ RestOK => NamesTypeOK
  BY DEF NamesInv, ConnOK, CacheOK, CacheInv, QueryOK, WordsOK, RestOK, NamesTypeOK, LoopJob
<1> QED
  BY <1>2, <1>3, NamesAlways, PTL
=============================================================================
