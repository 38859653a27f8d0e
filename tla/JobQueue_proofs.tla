--------------------------- MODULE JobQueue_proofs ---------------------------
(***************************************************************************)
(* Proofs about the job phase of the main loop, for any number of           *)
(* connections, events and jobs: the list is well formed, the loop never    *)
(* calls a handler of a freed connection, iterations start with an empty    *)
(* list, and a promised event is in a job that will run.                    *)
(***************************************************************************)
EXTENDS JobQueue, FiniteSetTheorems, TLAPS

-----------------------------------------------------------------------------
(* The operators of job.c.                                                  *)

\* job_addconn returns a list of jobs, one longer at most, that differs from
\* the old one in its last element only; that one is an unmarked job of c
\* with the events asked for (job.c:138-163).
LEMMA AddConnShape ==
  ASSUME NEW C, NEW E, NEW q \in Seq(Job(C, E)), NEW c \in C, NEW evs \in SUBSET E
  PROVE  LET r == AddConn(q, evs, c) IN
         /\ r \in Seq(Job(C, E))
         /\ Len(r) \in Nat /\ Len(r) > 0 /\ Len(r) \in {Len(q), Len(q) + 1}
         /\ r[Len(r)].conn = c /\ ~r[Len(r)].deld /\ evs \subseteq r[Len(r)].events
         /\ \A i \in 1..Len(r) : i # Len(r) => i \in 1..Len(q) /\ r[i] = q[i]
         /\ \A i \in 1..Len(q) :
              \/ i \in 1..Len(r) /\ r[i] = q[i]
              \/ /\ i = Len(q) /\ i = Len(r) /\ q[i].conn = c
                 /\ q[i].deld \/ q[i].events \subseteq r[i].events
<1> DEFINE n == Len(q)
           r == AddConn(q, evs, c)
<1>0. n \in Nat
  OBVIOUS
<1>1. CASE n > 0 /\ q[n].conn = c
  <2> DEFINE e == IF q[n].deld THEN evs ELSE q[n].events \cup evs
             j == NewJob(e, c)
  <2>1. q[n] \in Job(C, E)
    BY <1>0, <1>1
  <2>2. j \in Job(C, E) /\ j.conn = c /\ j.deld = FALSE /\ j.events = e
    BY <2>1 DEF Job, NewJob
  <2>3. r = [q EXCEPT ![n] = j]
    BY <1>1 DEF AddConn
  <2> HIDE DEF j, r
  <2>4. r \in Seq(Job(C, E)) /\ Len(r) = n /\ r[n] = j
        /\ \A i \in 1..n : i # n => r[i] = q[i]
    BY <1>0, <1>1, <2>2, <2>3
  <2>5. evs \subseteq e /\ (q[n].deld \/ q[n].events \subseteq e)
    OBVIOUS
  <2> QED
    BY <1>0, <1>1, <2>2, <2>4, <2>5 DEF r
<1>2. CASE ~(n > 0 /\ q[n].conn = c)
  <2> DEFINE j == NewJob(evs, c)
  <2>1. j \in Job(C, E) /\ j.conn = c /\ j.deld = FALSE /\ j.events = evs
    BY DEF Job, NewJob
  <2>2. r = Append(q, j)
    BY <1>2 DEF AddConn
  <2> HIDE DEF j, r
  <2>3. r \in Seq(Job(C, E)) /\ Len(r) = n + 1 /\ r[n + 1] = j
        /\ \A i \in 1..n : r[i] = q[i]
    BY <1>0, <2>1, <2>2
  <2> QED
    BY <1>0, <2>1, <2>3 DEF r
<1> QED
  BY <1>1, <1>2

\* job_delconn keeps the list but marks every job of c (job.c:184-199).
LEMMA DelConnShape ==
  ASSUME NEW C, NEW E, NEW q \in Seq(Job(C, E)), NEW c
  PROVE  LET r == DelConn(q, c) IN
         /\ r \in Seq(Job(C, E)) /\ Len(r) = Len(q)
         /\ \A i \in 1..Len(q) :
              /\ r[i].conn = q[i].conn
              /\ q[i].conn = c => r[i].deld
              /\ q[i].conn # c => r[i] = q[i]
<1>1. \A i \in 1..Len(q) : q[i] \in Job(C, E)
  OBVIOUS
<1>2. \A i \in 1..Len(q) :
        LET j == [q[i] EXCEPT !.deld = TRUE] IN
        j \in Job(C, E) /\ j.conn = q[i].conn /\ j.deld = TRUE
  BY <1>1 DEF Job
<1> DEFINE f(i) == IF q[i].conn = c THEN [q[i] EXCEPT !.deld = TRUE] ELSE q[i]
<1>3. \A i \in 1..Len(q) :
        /\ f(i) \in Job(C, E) /\ f(i).conn = q[i].conn
        /\ q[i].conn = c => f(i).deld
        /\ q[i].conn # c => f(i) = q[i]
  BY <1>1, <1>2, Zenon
<1>4. DelConn(q, c) = [i \in 1..Len(q) |-> f(i)]
  BY DEF DelConn
<1> HIDE DEF f
<1>5. /\ DelConn(q, c) \in Seq(Job(C, E)) /\ Len(DelConn(q, c)) = Len(q)
      /\ \A i \in 1..Len(q) : DelConn(q, c)[i] = f(i)
  BY <1>3, <1>4
<1> QED
  BY <1>3, <1>5, Zenon

\* job_del marks one job (job.h).
LEMMA DelJobShape ==
  ASSUME NEW C, NEW E, NEW q \in Seq(Job(C, E)), NEW k \in 1..Len(q)
  PROVE  LET r == DelJob(q, k) IN
         /\ r \in Seq(Job(C, E)) /\ Len(r) = Len(q)
         /\ r[k].conn = q[k].conn /\ r[k].deld
         /\ \A i \in 1..Len(q) : i # k => r[i] = q[i]
<1>1. q[k] \in Job(C, E)
  OBVIOUS
<1>2. LET j == [q[k] EXCEPT !.deld = TRUE] IN
      j \in Job(C, E) /\ j.conn = q[k].conn /\ j.deld = TRUE
  BY <1>1 DEF Job
<1> QED
  BY <1>1, <1>2 DEF DelJob

\* job_clear leaves an empty list when every job is marked (job.c:79-101).
LEMMA ClearEmpties ==
  ASSUME NEW q \in Seq(Job(Conn, Event)), \A i \in 1..Len(q) : q[i].deld
  PROVE  Clear(q) = <<>>
<1> DEFINE kept == {i \in 1..Len(q) : ~q[i].deld}
<1>1. kept = {}
  OBVIOUS
<1>2. Cardinality(kept) = 0
  BY <1>1, FS_EmptySet
<1>3. 1..Cardinality(kept) = 1..0
  BY <1>2, Zenon
<1>4. 1..0 = {}
  OBVIOUS
<1>5. Clear(q) = [n \in 1..Cardinality(kept) |->
                    q[CHOOSE i \in kept : Cardinality({k \in kept : k < i}) + 1 = n]]
  BY DEF Clear
<1> QED
  BY <1>3, <1>4, <1>5

-----------------------------------------------------------------------------
(* The loop over the list.                                                  *)

\* The list is typed and everything the loop has passed is marked: neither is
\* inductive without the other, as the index cur must stay inside the list.
WellFormed == TypeOK /\ PassedAreMarked

LEMMA WellFormedInit == Init => WellFormed
  BY JobAssumption DEF Init, WellFormed, TypeOK, PassedAreMarked

LEMMA WellFormedNewConn ==
  ASSUME WellFormed, NEW c \in Conn, NewConn(c)
  PROVE  WellFormed'
  BY DEF NewConn, WellFormed, TypeOK, PassedAreMarked

LEMMA WellFormedAddJob ==
  ASSUME WellFormed, NEW c \in Conn, NEW e \in Event, AddJob(e, c)
  PROVE  WellFormed'
<1> DEFINE r == AddConn(jobs, {e}, c)
<1>1. jobs \in Seq(Job(Conn, Event)) /\ {e} \in SUBSET Event
  BY DEF WellFormed, TypeOK
<1>2. /\ r \in Seq(Job(Conn, Event))
      /\ Len(r) \in Nat /\ Len(r) > 0 /\ Len(r) \in {Len(jobs), Len(jobs) + 1}
      /\ r[Len(r)].conn = c
      /\ \A i \in 1..Len(r) : i # Len(r) => i \in 1..Len(jobs) /\ r[i] = jobs[i]
  BY <1>1, AddConnShape
<1>3. jobs' = r
  BY DEF AddJob
<1> HIDE DEF r
<1>4. TypeOK'
  <2>1. owed' \in [Conn -> SUBSET Event] /\ tail' \in [Conn -> SUBSET Event]
    BY DEF AddJob, WellFormed, TypeOK
  <2> QED
    BY <1>2, <1>3, <2>1 DEF AddJob, WellFormed, TypeOK
<1>5. cur \in Nat /\ Len(jobs) \in Nat
  BY <1>1 DEF WellFormed, TypeOK
<1>6. self # NoConn => cur \in 1..Len(jobs)
  BY <1>1 DEF WellFormed, PassedAreMarked
<1>7. phase = "events" => cur = 0
  BY DEF WellFormed, PassedAreMarked
<1>8. phase = "events" \/ self # NoConn
  BY DEF AddJob, HandlerRuns
<1>9. DOMAIN jobs = 1..Len(jobs) /\ DOMAIN r = 1..Len(r)
  BY <1>1, <1>2
<1>10. \A i \in 1..Len(r) : i < cur => r[i].deld
  <2> SUFFICES ASSUME NEW i \in 1..Len(r), i < cur PROVE r[i].deld
    OBVIOUS
  <2>1. cur \in 1..Len(jobs)
    BY <1>5, <1>6, <1>7, <1>8
  <2>2. i # Len(r)
    BY <1>2, <1>5, <2>1
  <2>3. i \in 1..Len(jobs) /\ r[i] = jobs[i]
    BY <1>2, <2>2
  <2>4. jobs[i].deld
    BY <1>9, <2>3 DEF WellFormed, PassedAreMarked
  <2> QED
    BY <2>3, <2>4
<1>11. cur \in 1..(Len(jobs) + 1) => cur \in 1..(Len(r) + 1)
  BY <1>2, <1>5
<1>12. self # NoConn => cur \in 1..Len(r) /\ r[cur].conn = self
  <2> SUFFICES ASSUME self # NoConn PROVE cur \in 1..Len(r) /\ r[cur].conn = self
    OBVIOUS
  <2>1. cur \in 1..Len(jobs) /\ jobs[cur].conn = self
    BY <1>9 DEF WellFormed, PassedAreMarked
  <2>2. \A i \in 1..Len(jobs) :
          i \in 1..Len(r) /\ (r[i] = jobs[i] \/ (r[i].conn = c /\ jobs[i].conn = c))
    <3>1. \A i \in 1..Len(jobs) :
            \/ i \in 1..Len(r) /\ r[i] = jobs[i]
            \/ i = Len(jobs) /\ i = Len(r) /\ jobs[i].conn = c
      BY <1>1, AddConnShape DEF r
    <3> QED
      BY <3>1, <1>2, <1>5
  <2> QED
    BY <2>1, <2>2
<1>13. PassedAreMarked'
  BY <1>3, <1>9, <1>10, <1>11, <1>12 DEF AddJob, WellFormed, PassedAreMarked
<1> QED
  BY <1>4, <1>13 DEF WellFormed

LEMMA WellFormedLoop ==
  ASSUME WellFormed, Loop
  PROVE  WellFormed'
<1> USE JobAssumption
<1>0. /\ jobs \in Seq(Job(Conn, Event)) /\ cur \in Nat /\ Len(jobs) \in Nat
      /\ DOMAIN jobs = 1..Len(jobs)
      /\ \A i \in 1..Len(jobs) : i < cur => jobs[i].deld
      /\ phase = "jobs" => cur \in 1..(Len(jobs) + 1)
      /\ phase = "events" => self = NoConn /\ cur = 0
      /\ self # NoConn => cur \in 1..Len(jobs) /\ jobs[cur].conn = self
  BY DEF WellFormed, TypeOK, PassedAreMarked
<1>1. CASE StartJobs
  BY <1>0, <1>1 DEF StartJobs, WellFormed, TypeOK, PassedAreMarked
<1>2. CASE RunJob
  <2>1. cur \in 1..Len(jobs) /\ jobs[cur] \in Job(Conn, Event)
    BY <1>0, <1>2 DEF RunJob
  <2>2. self' = jobs[cur].conn /\ self' \in Conn /\ self' # NoConn
    BY <1>2, <2>1 DEF RunJob, Job
  <2>3. owed' \in [Conn -> SUBSET Event] /\ tail' \in [Conn -> SUBSET Event]
    BY <1>2, <2>2 DEF RunJob, WellFormed, TypeOK
  <2> QED
    BY <1>0, <1>2, <2>1, <2>2, <2>3 DEF RunJob, WellFormed, TypeOK, PassedAreMarked
<1>3. CASE SkipJob
  BY <1>0, <1>3 DEF SkipJob, WellFormed, TypeOK, PassedAreMarked
<1>4. CASE ClearJobs
  <2>1. \A i \in 1..Len(jobs) : jobs[i].deld
    BY <1>0, <1>4 DEF ClearJobs
  <2>2. jobs' = <<>>
    BY <1>0, <1>4, <2>1, ClearEmpties DEF ClearJobs
  <2> QED
    BY <1>4, <2>2 DEF ClearJobs, WellFormed, TypeOK, PassedAreMarked
<1>5. CASE CloseSelf
  <2>1. self \in Conn /\ self # NoConn
    BY <1>5 DEF CloseSelf, WellFormed, TypeOK
  <2>2. /\ DelConn(jobs, self) \in Seq(Job(Conn, Event))
        /\ Len(DelConn(jobs, self)) = Len(jobs)
        /\ \A i \in 1..Len(jobs) :
             /\ jobs[i].conn = self => DelConn(jobs, self)[i].deld
             /\ jobs[i].conn # self => DelConn(jobs, self)[i] = jobs[i]
    BY <1>0, DelConnShape
  <2>3. owed' \in [Conn -> SUBSET Event] /\ tail' \in [Conn -> SUBSET Event]
        /\ live' \in SUBSET Conn
    BY <1>5 DEF CloseSelf, WellFormed, TypeOK
  <2>4. \A i \in 1..Len(jobs) : i < cur + 1 => DelConn(jobs, self)[i].deld
    <3> SUFFICES ASSUME NEW i \in 1..Len(jobs), i < cur + 1
                 PROVE  DelConn(jobs, self)[i].deld
      OBVIOUS
    <3>1. i = cur \/ i < cur
      BY <1>0
    <3>2. jobs[i].conn = self \/ jobs[i].deld
      BY <1>0, <2>1, <3>1
    <3> QED
      BY <2>2, <3>2
  <2>5. phase = "jobs"
    BY <1>0, <2>1 DEF WellFormed, TypeOK
  <2> QED
    BY <1>0, <1>5, <2>1, <2>2, <2>3, <2>4, <2>5
       DEF CloseSelf, WellFormed, TypeOK, PassedAreMarked
<1>6. ASSUME self # NoConn, jobs' = DelJob(jobs, cur), cur' = cur + 1, self' = NoConn,
             phase' = phase, live' \in SUBSET Conn,
             owed' \in [Conn -> SUBSET Event], tail' \in [Conn -> SUBSET Event]
      PROVE  WellFormed'
  <2>1. /\ jobs' \in Seq(Job(Conn, Event)) /\ Len(jobs') = Len(jobs)
        /\ jobs'[cur].deld /\ \A i \in 1..Len(jobs) : i # cur => jobs'[i] = jobs[i]
    <3>1. cur \in 1..Len(jobs)
      BY <1>0, <1>6
    <3> DEFINE r == DelJob(jobs, cur)
    <3>2. /\ r \in Seq(Job(Conn, Event)) /\ Len(r) = Len(jobs) /\ r[cur].deld
          /\ \A i \in 1..Len(jobs) : i # cur => r[i] = jobs[i]
      <4>1. jobs \in Seq(Job(Conn, Event))
        BY <1>0
      <4> QED
        BY <3>1, <4>1, DelJobShape
    <3>3. jobs' = r
      BY <1>6
    <3> HIDE DEF r
    <3> QED
      BY <3>2, <3>3, Zenon
  <2>2. \A i \in 1..Len(jobs) : i < cur + 1 => jobs'[i].deld
    BY <1>0, <2>1
  <2>3. phase = "jobs"
    BY <1>0, <1>6 DEF WellFormed, TypeOK
  <2> QED
    BY <1>0, <1>6, <2>1, <2>2, <2>3 DEF WellFormed, TypeOK, PassedAreMarked
<1>7. CASE CloseService
  <2>1. self # NoConn /\ live' \in SUBSET Conn
        /\ owed' \in [Conn -> SUBSET Event] /\ tail' \in [Conn -> SUBSET Event]
    BY <1>7 DEF CloseService, WellFormed, TypeOK
  <2> QED
    BY <1>6, <1>7, <2>1 DEF CloseService
<1>8. CASE ReturnJob
  BY <1>6, <1>8 DEF ReturnJob, WellFormed, TypeOK
<1> QED
  BY <1>1, <1>2, <1>3, <1>4, <1>5, <1>7, <1>8 DEF Loop

LEMMA WellFormedStep == WellFormed /\ [Next]_vars => WellFormed'
<1>1. ASSUME WellFormed, UNCHANGED vars PROVE WellFormed'
  BY <1>1 DEF vars, WellFormed, TypeOK, PassedAreMarked
<1> QED
  BY <1>1, WellFormedNewConn, WellFormedAddJob, WellFormedLoop DEF Next

\* The job list and the loop's position keep their types, and everything
\* before the position is marked: no iteration starts with old jobs
\* (server.c:361-371, job.c:79-101).
THEOREM JobListWellFormed == Spec => [](TypeOK /\ PassedAreMarked)
<1>1. Spec => []WellFormed
  BY WellFormedInit, WellFormedStep, PTL DEF Spec
<1> QED
  BY <1>1, PTL DEF WellFormed

\* Whatever the handlers do to connections and jobs, the list stays a list of
\* jobs of connections and the loop's variables keep their types (job.c:79-199).
THEOREM JobTypesKept == Spec => []TypeOK
BY JobListWellFormed, PTL
-----------------------------------------------------------------------------
(* What a step does to the list, in terms of its elements.                  *)

\* The facts about the list and the loop that both invariants below use.
LEMMA ListFacts ==
  ASSUME WellFormed
  PROVE  /\ jobs \in Seq(Job(Conn, Event)) /\ cur \in Nat /\ Len(jobs) \in Nat
         /\ DOMAIN jobs = 1..Len(jobs)
         /\ \A i \in 1..Len(jobs) : jobs[i].conn \in Conn
         /\ \A i \in 1..Len(jobs) : i < cur => jobs[i].deld
         /\ phase = "jobs" => cur \in 1..(Len(jobs) + 1)
         /\ phase = "events" => self = NoConn /\ cur = 0
         /\ self # NoConn => cur \in 1..Len(jobs) /\ jobs[cur].conn = self
<1>1. jobs \in Seq(Job(Conn, Event)) /\ cur \in Nat /\ Len(jobs) \in Nat
      /\ DOMAIN jobs = 1..Len(jobs)
  BY DEF WellFormed, TypeOK
<1>2. \A i \in 1..Len(jobs) : jobs[i].conn \in Conn
  <2>1. \A i \in 1..Len(jobs) : jobs[i] \in Job(Conn, Event)
    BY <1>1
  <2> QED
    BY <2>1 DEF Job
<1> QED
  BY <1>1, <1>2 DEF WellFormed, PassedAreMarked

\* job_clear finds every job marked and leaves the list empty.
LEMMA ClearedEmpty ==
  ASSUME WellFormed, ClearJobs
  PROVE  jobs' = <<>> /\ \A i \in 1..Len(jobs) : jobs[i].deld
<1>1. \A i \in 1..Len(jobs) : jobs[i].deld
  BY ListFacts DEF ClearJobs
<1> QED
  BY <1>1, ListFacts, ClearEmpties DEF ClearJobs

\* A handler that returns, or that closes a service connection, changes the
\* list at the loop's position only.
LEMMA MarkedCurrent ==
  ASSUME WellFormed, self # NoConn
  PROVE  LET r == DelJob(jobs, cur) IN
         /\ DOMAIN r = 1..Len(jobs)
         /\ r[cur].deld /\ cur \in 1..Len(jobs)
         /\ \A i \in 1..Len(jobs) : i # cur => r[i] = jobs[i]
<1> DEFINE r == DelJob(jobs, cur)
<1>1. cur \in 1..Len(jobs)
  BY ListFacts
<1>2. /\ r \in Seq(Job(Conn, Event)) /\ Len(r) = Len(jobs) /\ r[cur].deld
      /\ \A i \in 1..Len(jobs) : i # cur => r[i] = jobs[i]
  BY <1>1, ListFacts, DelJobShape
<1> HIDE DEF r
<1>3. DOMAIN r = 1..Len(jobs)
  BY <1>2
<1> QED
  BY <1>1, <1>2, <1>3 DEF r

\* A handler that closes its own connection marks the jobs of that one only.
LEMMA MarkedOwn ==
  ASSUME WellFormed, self # NoConn
  PROVE  LET r == DelConn(jobs, self) IN
         /\ DOMAIN r = 1..Len(jobs)
         /\ \A i \in 1..Len(jobs) :
              /\ r[i].conn = jobs[i].conn
              /\ jobs[i].conn = self => r[i].deld
              /\ jobs[i].conn # self => r[i] = jobs[i]
<1> DEFINE r == DelConn(jobs, self)
<1>1. /\ r \in Seq(Job(Conn, Event)) /\ Len(r) = Len(jobs)
      /\ \A i \in 1..Len(jobs) :
              /\ r[i].conn = jobs[i].conn
              /\ jobs[i].conn = self => r[i].deld
              /\ jobs[i].conn # self => r[i] = jobs[i]
  BY ListFacts, DelConnShape
<1> HIDE DEF r
<1>2. DOMAIN r = 1..Len(jobs)
  BY <1>1
<1> QED
  BY <1>1, <1>2 DEF r

\* Every job of the list is in r as it was, or it is the last one, of c, and
\* has its events and more in r, unless it was marked.
KeepsJobs(r, c) ==
  \A i \in 1..Len(jobs) :
     \/ i \in 1..Len(r) /\ r[i] = jobs[i]
     \/ /\ i = Len(jobs) /\ i = Len(r) /\ jobs[i].conn = c
        /\ jobs[i].deld \/ jobs[i].events \subseteq r[i].events

\* job_addconn, from a handler: the list grows by one at most; its last job
\* is an unmarked one of c with event e; the others are as they were, and the
\* old last one keeps its events if it was unmarked.
LEMMA Added ==
  ASSUME WellFormed, NEW c \in Conn, NEW e \in Event
  PROVE  LET r == AddConn(jobs, {e}, c) IN
         /\ DOMAIN r = 1..Len(r)
         /\ Len(r) \in Nat /\ Len(r) > 0 /\ Len(r) \in {Len(jobs), Len(jobs) + 1}
         /\ r[Len(r)].conn = c /\ ~r[Len(r)].deld /\ e \in r[Len(r)].events
         /\ \A i \in 1..Len(r) : i # Len(r) => i \in 1..Len(jobs) /\ r[i] = jobs[i]
         /\ KeepsJobs(r, c)
<1> DEFINE r == AddConn(jobs, {e}, c)
<1>1. /\ r \in Seq(Job(Conn, Event))
      /\ Len(r) \in Nat /\ Len(r) > 0 /\ Len(r) \in {Len(jobs), Len(jobs) + 1}
      /\ r[Len(r)].conn = c /\ ~r[Len(r)].deld /\ {e} \subseteq r[Len(r)].events
      /\ \A i \in 1..Len(r) : i # Len(r) => i \in 1..Len(jobs) /\ r[i] = jobs[i]
      /\ \A i \in 1..Len(jobs) :
           \/ i \in 1..Len(r) /\ r[i] = jobs[i]
           \/ /\ i = Len(jobs) /\ i = Len(r) /\ jobs[i].conn = c
              /\ jobs[i].deld \/ jobs[i].events \subseteq r[i].events
  <2>1. jobs \in Seq(Job(Conn, Event)) /\ {e} \in SUBSET Event
    BY ListFacts
  <2> QED
    BY <2>1, AddConnShape
<1> HIDE DEF r
<1>2. DOMAIN r = 1..Len(r) /\ e \in r[Len(r)].events
  BY <1>1
<1>3. KeepsJobs(r, c)
  BY <1>1, Zenon DEF KeepsJobs
<1> QED
  BY <1>1, <1>2, <1>3 DEF r

-----------------------------------------------------------------------------
(* No job of a freed connection.                                            *)

LEMMA LiveStep ==
  ASSUME WellFormed, JobsOfLiveConns, [Next]_vars
  PROVE  JobsOfLiveConns'
<1> USE JobAssumption
<1>0. /\ \A i \in 1..Len(jobs) : ~jobs[i].deld /\ jobs[i].conn \notin Service
                                   => jobs[i].conn \in live
      /\ self \in Conn \ Service => self \in live
      /\ DOMAIN jobs = 1..Len(jobs)
  BY ListFacts DEF JobsOfLiveConns
<1>1. ASSUME NEW c \in Conn, NewConn(c) PROVE JobsOfLiveConns'
  BY <1>0, <1>1 DEF NewConn, JobsOfLiveConns
<1>2. ASSUME NEW c \in Conn, NEW e \in Event, AddJob(e, c) PROVE JobsOfLiveConns'
  <2> DEFINE r == AddConn(jobs, {e}, c)
  <2>1. DOMAIN r = 1..Len(r) /\ r[Len(r)].conn = c
        /\ \A i \in 1..Len(r) : i # Len(r) => i \in 1..Len(jobs) /\ r[i] = jobs[i]
    BY Added
  <2>2. jobs' = r /\ c \in live /\ live' = live /\ self' = self
    BY <1>2 DEF AddJob
  <2> HIDE DEF r
  <2>3. \A i \in 1..Len(r) : ~r[i].deld /\ r[i].conn \notin Service => r[i].conn \in live
    BY <1>0, <2>1, <2>2
  <2> QED
    BY <1>0, <2>1, <2>2, <2>3 DEF JobsOfLiveConns
<1>3. CASE StartJobs
  BY <1>0, <1>3 DEF StartJobs, JobsOfLiveConns
<1>4. CASE RunJob
  <2>1. cur \in 1..Len(jobs)
    BY <1>4, ListFacts DEF RunJob
  <2> QED
    BY <1>0, <1>4, <2>1 DEF RunJob, JobsOfLiveConns
<1>5. CASE SkipJob
  BY <1>0, <1>5 DEF SkipJob, JobsOfLiveConns
<1>6. CASE ClearJobs
  <2>1. jobs' = <<>> /\ live' = live /\ self' = self
    BY <1>6, ClearedEmpty DEF ClearJobs
  <2>2. DOMAIN jobs' = {}
    BY <2>1
  <2> QED
    BY <1>0, <2>1, <2>2 DEF JobsOfLiveConns
<1>7. CASE CloseSelf
  <2>1. self # NoConn /\ self' = NoConn /\ live' = live \ {self} /\ jobs' = DelConn(jobs, self)
    BY <1>7 DEF CloseSelf, WellFormed, TypeOK
  <2>2. DOMAIN jobs' = 1..Len(jobs)
        /\ \A i \in 1..Len(jobs) :
             /\ jobs'[i].conn = jobs[i].conn
             /\ jobs[i].conn = self => jobs'[i].deld
             /\ jobs[i].conn # self => jobs'[i] = jobs[i]
    BY <2>1, MarkedOwn
  <2> QED
    BY <1>0, <2>1, <2>2 DEF JobsOfLiveConns
<1>8. ASSUME self # NoConn, self' = NoConn, jobs' = DelJob(jobs, cur),
             live' = live \/ (self \in Service /\ live' = live \ {self})
      PROVE  JobsOfLiveConns'
  <2>1. DOMAIN jobs' = 1..Len(jobs) /\ jobs'[cur].deld
        /\ \A i \in 1..Len(jobs) : i # cur => jobs'[i] = jobs[i]
    BY <1>8, MarkedCurrent
  <2> QED
    BY <1>0, <1>8, <2>1 DEF JobsOfLiveConns
<1>9. CASE CloseService
  <2>1. self # NoConn
    BY <1>9 DEF CloseService, WellFormed, TypeOK
  <2> QED
    BY <1>8, <1>9, <2>1 DEF CloseService
<1>10. CASE ReturnJob
  BY <1>8, <1>10 DEF ReturnJob
<1>11. CASE UNCHANGED vars
  BY <1>0, <1>11 DEF vars, JobsOfLiveConns
<1> QED
  BY <1>1, <1>2, <1>3, <1>4, <1>5, <1>6, <1>7, <1>9, <1>10, <1>11 DEF Next, Loop

\* The loop never calls the handler of a connection freed by connection_del
\* (job_delconn in conn_handle_thisclose, conn_peer.c:46-53), whatever the
\* handlers do to the list while the loop runs over it.
THEOREM NoHandlerOfFreedConn == Spec => []JobsOfLiveConns
<1>1. Init => JobsOfLiveConns
  BY JobAssumption DEF Init, JobsOfLiveConns
<1>2. Spec => []WellFormed
  BY WellFormedInit, WellFormedStep, PTL DEF Spec
<1> QED
  BY <1>1, <1>2, LiveStep, PTL DEF Spec
-----------------------------------------------------------------------------
(* A promised event is in a job that will run.                              *)

\* Job i of list q is still to be run at position k, no handler running if
\* idle: Pending(i), for any list.
Waits(q, i, k, idle) == ~q[i].deld /\ (i > k \/ (i = k /\ idle))

LEMMA PromiseStep ==
  ASSUME WellFormed, PromiseKept, [Next]_vars
  PROVE  PromiseKept'
<1> USE JobAssumption
<1>0. /\ DOMAIN jobs = 1..Len(jobs) /\ cur \in Nat /\ Len(jobs) \in Nat
      /\ \A i \in 1..Len(jobs) : i < cur => jobs[i].deld
      /\ phase = "jobs" => cur \in 1..(Len(jobs) + 1)
      /\ phase = "events" => self = NoConn /\ cur = 0
      /\ self # NoConn => cur \in 1..Len(jobs) /\ jobs[cur].conn = self
  BY ListFacts
<1>1. ASSUME NEW d \in Conn, NEW x \in owed[d] \ tail[d]
      PROVE  \E i \in 1..Len(jobs) : Waits(jobs, i, cur, self = NoConn)
                                     /\ jobs[i].conn = d /\ x \in jobs[i].events
  BY <1>0, <1>1 DEF PromiseKept, Pending, Waits
<1>2. SUFFICES ASSUME NEW d \in Conn, NEW x \in owed'[d] \ tail'[d]
               PROVE  \E i \in DOMAIN jobs' : Waits(jobs', i, cur', self' = NoConn)
                                              /\ jobs'[i].conn = d /\ x \in jobs'[i].events
  BY DEF PromiseKept, Pending, Waits
<1>3. owed \in [Conn -> SUBSET Event] /\ tail \in [Conn -> SUBSET Event]
  BY DEF WellFormed, TypeOK
<1>4. ASSUME NEW c \in Conn, NewConn(c)
      PROVE  \E i \in DOMAIN jobs' : Waits(jobs', i, cur', self' = NoConn)
                                     /\ jobs'[i].conn = d /\ x \in jobs'[i].events
  BY <1>0, <1>1, <1>2, <1>4 DEF NewConn
<1>5. ASSUME NEW c \in Conn, NEW e \in Event, AddJob(e, c)
      PROVE  \E i \in DOMAIN jobs' : Waits(jobs', i, cur', self' = NoConn)
                                     /\ jobs'[i].conn = d /\ x \in jobs'[i].events
  <2> DEFINE r == AddConn(jobs, {e}, c)
  <2>1. /\ DOMAIN r = 1..Len(r)
        /\ Len(r) \in Nat /\ Len(r) > 0 /\ Len(r) \in {Len(jobs), Len(jobs) + 1}
        /\ r[Len(r)].conn = c /\ ~r[Len(r)].deld /\ e \in r[Len(r)].events
        /\ KeepsJobs(r, c)
    BY Added
  <2>2. jobs' = r /\ cur' = cur /\ self' = self
        /\ owed' = [owed EXCEPT ![c] = @ \cup {e}]
        /\ tail' = (IF c = self /\ cur = Len(jobs) THEN [tail EXCEPT ![c] = @ \cup {e}] ELSE tail)
        /\ (phase = "events" \/ self # NoConn)
    BY <1>5 DEF AddJob, HandlerRuns
  <2> HIDE DEF r
  <2>5. Len(r) \in Nat /\ Len(r) > 0 /\ Len(r) \in {Len(jobs), Len(jobs) + 1}
    BY <2>1, Zenon
  <2>6. \A i \in 1..Len(jobs) :
              \/ i \in 1..Len(r) /\ r[i] = jobs[i]
              \/ /\ i = Len(jobs) /\ i = Len(r) /\ jobs[i].conn = c
                 /\ jobs[i].deld \/ jobs[i].events \subseteq r[i].events
    BY <2>1, Zenon DEF KeepsJobs
  <2>3. CASE x \in owed[d] \ tail[d]
    <3>1. PICK i \in 1..Len(jobs) : Waits(jobs, i, cur, self = NoConn)
                                    /\ jobs[i].conn = d /\ x \in jobs[i].events
      BY <1>1, <2>3
    <3>2. CASE i \in 1..Len(r) /\ r[i] = jobs[i]
      BY <2>1, <2>2, <3>1, <3>2 DEF Waits
    <3>3. CASE i = Len(r) /\ jobs[i].conn = c /\ (jobs[i].deld \/ jobs[i].events \subseteq r[i].events)
      <4>1. ~jobs[i].deld
        BY <3>1 DEF Waits
      <4>2. i \in 1..Len(r)
        BY <2>5, <3>3
      <4>3. r[i].conn = d /\ ~r[i].deld
        BY <2>1, <3>1, <3>3, Zenon
      <4>4. x \in r[i].events
        BY <3>1, <3>3, <4>1, Zenon
      <4> QED
        BY <2>1, <2>2, <3>1, <4>2, <4>3, <4>4 DEF Waits
    <3> QED
      BY <2>6, <3>2, <3>3
  <2>4. CASE x \notin owed[d] \ tail[d]
    <3>1. d = c /\ x = e /\ ~(c = self /\ cur = Len(jobs))
      BY <1>2, <1>3, <2>2, <2>4
    <3>2. Len(r) > cur \/ (Len(r) = cur /\ self = NoConn)
      <4>1. CASE self = NoConn
        BY <1>0, <2>5, <2>2, <4>1
      <4>2. CASE self # NoConn
        <5>1. cur \in 1..Len(jobs) /\ jobs[cur].conn = self /\ cur <= Len(r)
          BY <1>0, <2>5, <4>2
        <5>2. ASSUME Len(r) = cur PROVE FALSE
          <6>1. Len(r) = Len(jobs)
            <7>1. Len(r) = Len(jobs) \/ Len(r) = Len(jobs) + 1
              BY <2>5, Zenon
            <7>2. Len(r) <= Len(jobs)
              BY <5>1, <5>2
            <7> DEFINE n == Len(jobs)
                       m == Len(r)
            <7>3. n \in Nat /\ (m = n \/ m = n + 1) /\ m <= n
              BY <1>0, <7>1, <7>2
            <7> HIDE DEF n, m
            <7>4. m = n
              BY <7>3
            <7> QED
              BY <7>4 DEF n, m
          <6>2. jobs[Len(r)].conn = c
            <7>1. Len(r) \in 1..Len(jobs)
              BY <5>1, <5>2
            <7> QED
              BY <2>1, <2>6, <7>1, Zenon
          <6>3. jobs[cur].conn = c /\ cur = Len(jobs)
            BY <5>2, <6>1, <6>2, Zenon
          <6> QED
            BY <3>1, <5>1, <6>3, Zenon
        <5> QED
          BY <1>0, <2>5, <5>1, <5>2
      <4> QED
        BY <4>1, <4>2
    <3>3. Len(r) \in 1..Len(r)
      BY <2>5
    <3> QED
      BY <2>1, <2>2, <3>1, <3>2, <3>3 DEF Waits
  <2> QED
    BY <2>3, <2>4
<1>6. CASE StartJobs
  <2>1. cur = 0 /\ cur' = 1 /\ jobs' = jobs /\ owed' = owed /\ tail' = tail
        /\ self = NoConn /\ self' = NoConn
    BY <1>0, <1>6 DEF StartJobs
  <2> QED
    BY <1>0, <1>1, <1>2, <2>1 DEF Waits
<1>7. CASE RunJob
  <2>1. self' = jobs[cur].conn /\ cur \in 1..Len(jobs) /\ jobs' = jobs /\ cur' = cur
        /\ owed' = [owed EXCEPT ![self'] = @ \ jobs[cur].events]
        /\ tail' = [tail EXCEPT ![self'] = @ \ jobs[cur].events]
    BY <1>0, <1>7 DEF RunJob
  <2>2. self' \in Conn
    BY <2>1, ListFacts
  <2>3. x \in owed[d] \ tail[d] /\ (d = self' => x \notin jobs[cur].events)
    BY <1>2, <1>3, <2>1, <2>2
  <2>4. PICK i \in 1..Len(jobs) : Waits(jobs, i, cur, self = NoConn)
                                  /\ jobs[i].conn = d /\ x \in jobs[i].events
    BY <1>1, <2>3
  <2>5. i # cur
    BY <2>1, <2>3, <2>4
  <2> QED
    BY <1>0, <2>1, <2>4, <2>5 DEF Waits
<1>8. CASE SkipJob
  <2>1. jobs' = jobs /\ cur' = cur + 1 /\ self' = self /\ self = NoConn /\ jobs[cur].deld
        /\ owed' = owed /\ tail' = tail
    BY <1>8 DEF SkipJob
  <2>2. PICK i \in 1..Len(jobs) : Waits(jobs, i, cur, self = NoConn)
                                  /\ jobs[i].conn = d /\ x \in jobs[i].events
    BY <1>1, <1>2, <2>1
  <2>3. i # cur
    BY <2>1, <2>2 DEF Waits
  <2> QED
    BY <1>0, <2>1, <2>2, <2>3 DEF Waits
<1>9. CASE ClearJobs
  <2>1. \A i \in 1..Len(jobs) : jobs[i].deld
    BY <1>9, ClearedEmpty
  <2>2. owed' = owed /\ tail' = tail
    BY <1>9 DEF ClearJobs
  <2> QED
    BY <1>1, <1>2, <2>1, <2>2 DEF Waits
<1>10. CASE CloseSelf
  <2>1. /\ self # NoConn /\ self \in Conn /\ self' = NoConn
        /\ jobs' = DelConn(jobs, self) /\ cur' = cur + 1
        /\ owed' = [owed EXCEPT ![self] = {}] /\ tail' = [tail EXCEPT ![self] = {}]
    BY <1>10 DEF CloseSelf, WellFormed, TypeOK
  <2>2. d # self /\ x \in owed[d] \ tail[d]
    BY <1>2, <1>3, <2>1
  <2>3. PICK i \in 1..Len(jobs) : Waits(jobs, i, cur, self = NoConn)
                                  /\ jobs[i].conn = d /\ x \in jobs[i].events
    BY <1>1, <2>2
  <2>4. DOMAIN jobs' = 1..Len(jobs) /\ jobs'[i] = jobs[i]
    BY <2>1, <2>2, <2>3, MarkedOwn
  <2> QED
    BY <1>0, <2>1, <2>3, <2>4 DEF Waits
<1>11. ASSUME self # NoConn, self' = NoConn, jobs' = DelJob(jobs, cur), cur' = cur + 1,
              x \in owed[d] \ tail[d]
       PROVE  \E i \in DOMAIN jobs' : Waits(jobs', i, cur', self' = NoConn)
                                      /\ jobs'[i].conn = d /\ x \in jobs'[i].events
  <2>1. PICK i \in 1..Len(jobs) : Waits(jobs, i, cur, self = NoConn)
                                  /\ jobs[i].conn = d /\ x \in jobs[i].events
    BY <1>1, <1>11
  <2>2. i > cur
    BY <1>11, <2>1 DEF Waits
  <2>3. DOMAIN jobs' = 1..Len(jobs) /\ jobs'[i] = jobs[i]
    BY <1>0, <1>11, <2>1, <2>2, MarkedCurrent
  <2> QED
    BY <1>0, <1>11, <2>1, <2>2, <2>3 DEF Waits
<1>12. CASE CloseService
  <2>1. /\ self # NoConn /\ self \in Conn /\ self' = NoConn
        /\ jobs' = DelJob(jobs, cur) /\ cur' = cur + 1
        /\ owed' = [owed EXCEPT ![self] = {}] /\ tail' = [tail EXCEPT ![self] = {}]
    BY <1>12 DEF CloseService, WellFormed, TypeOK
  <2>2. x \in owed[d] \ tail[d]
    BY <1>2, <1>3, <2>1
  <2> QED
    BY <1>11, <2>1, <2>2
<1>13. CASE ReturnJob
  BY <1>2, <1>11, <1>13 DEF ReturnJob
<1>14. CASE UNCHANGED vars
  BY <1>0, <1>1, <1>2, <1>14 DEF vars
<1> QED
  BY <1>4, <1>5, <1>6, <1>7, <1>8, <1>9, <1>10, <1>12, <1>13, <1>14 DEF Next, Loop

\* What job_addconn promised with JOB_OK stays in a job that the loop is
\* still going to run, except what the handler of the last job promised to
\* its own connection: that is merged into the job being run (job.c:138-163).
THEOREM PromisesAreKept == Spec => []PromiseKept
<1>1. Init => PromiseKept
  BY DEF Init, PromiseKept
<1>2. Spec => []WellFormed
  BY WellFormedInit, WellFormedStep, PTL DEF Spec
<1> QED
  BY <1>1, <1>2, PromiseStep, PTL DEF Spec
=============================================================================
