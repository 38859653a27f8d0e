-------------------------- MODULE ProxyLoop_proofs ---------------------------
(***************************************************************************)
(* Proofs about the event loop with its clients and backends, for any       *)
(* number of connections, any limit and any traffic: links are mutual or    *)
(* their holder is about to be freed, no pointer that will be followed      *)
(* dangles, data stays between the two ends it belongs to, a connection     *)
(* that lost its peer is told, and flow control bounds every buffer (IInv); *)
(* and no input is lost, though epoll is edge triggered: an IN event means  *)
(* data, no wake-up is missed and no input is stuck (Flow).  A client's     *)
(* last data is flushed, and a frontend's connection that was signalled to  *)
(* close gets its CLOSE event (Shuts).                                      *)
(***************************************************************************)
EXTENDS ProxyLoop, TLAPS

JobSet == Job(Conn \cup {Dns}, JobEvent)

\* The events that end a connection.
Ends == {"PEERCLOSE", "CLOSE"}

-----------------------------------------------------------------------------
(* What a job list promises, from position f on: f is 2 while the handler   *)
(* of the first job runs, and 1 otherwise.                                  *)

ToRun(q, f, i) == i \in 1..Len(q) /\ i >= f /\ ~q[i].deld

\* A job of c will hand it the event e.
DueIn(q, f, c, e) == \E i \in 1..Len(q) : ToRun(q, f, i) /\ q[i].conn = c /\ e \in q[i].events

\* No job of c ends it.
NoEndIn(q, f, c) == \A i \in 1..Len(q) : ToRun(q, f, i) /\ q[i].conn = c => q[i].events \cap Ends = {}

\* Jobs are of connections in S, or of the DNS connection.
OnlyOf(q, f, S) == \A i \in 1..Len(q) : ToRun(q, f, i) /\ q[i].conn \in Conn => q[i].conn \in S

\* The next job of c closes it.
NextClosesIn(q, f, c) ==
  \E i \in 1..Len(q) :
    /\ ToRun(q, f, i) /\ q[i].conn = c /\ "CLOSE" \in q[i].events
    /\ \A j \in 1..Len(q) : j < i /\ ToRun(q, f, j) => q[j].conn # c

\* A job of c closes it, and c has no job before it that comes after the end
\* of p: once p has ended, the next job of c is the one that closes it.
ClosesFirstIn(q, f, c, p) ==
  \E i \in 1..Len(q) :
    /\ ToRun(q, f, i) /\ q[i].conn = c /\ "CLOSE" \in q[i].events
    /\ \A j, k \in 1..Len(q) :
         /\ j < i /\ ToRun(q, f, j) /\ q[j].conn = c
         /\ k < j /\ ToRun(q, f, k) /\ q[k].conn = p
         => q[k].events \cap Ends = {}

\* The DNS connection gets no job but to write.
DnsWrites(q) == \A i \in 1..Len(q) : q[i].conn = Dns => q[i].events \subseteq {"OUT"}

-----------------------------------------------------------------------------
(* job_addconn                                                              *)

\* Only the last job of the new list differs from the old one; it is an
\* unmarked job of x with the events asked for and those of the unmarked job
\* it absorbed (job.c:138-163).
Added(q, evs, x, r) ==
  /\ r \in Seq(JobSet)
  /\ Len(q) \in Nat /\ Len(r) \in Nat /\ Len(r) > 0 /\ Len(r) \in {Len(q), Len(q) + 1}
  /\ r[Len(r)].conn = x /\ ~r[Len(r)].deld /\ evs \subseteq r[Len(r)].events
  /\ \A i \in 1..Len(r) : i # Len(r) => i \in 1..Len(q) /\ r[i] = q[i]
  /\ Len(r) = Len(q) => q[Len(q)].conn = x
  /\ Len(r) = Len(q) /\ ~q[Len(q)].deld => r[Len(r)].events = q[Len(q)].events \cup evs
  /\ Len(r) # Len(q) \/ q[Len(q)].deld => r[Len(r)].events = evs

\* job_addconn does what Added says.
LEMMA AddConnAdds ==
  ASSUME NEW q \in Seq(JobSet), NEW x \in Conn \cup {Dns}, NEW evs \in SUBSET JobEvent
  PROVE  Added(q, evs, x, AddConn(q, evs, x))
<1> DEFINE n == Len(q)
           r == AddConn(q, evs, x)
<1>0. n \in Nat
  OBVIOUS
<1>1. CASE n > 0 /\ q[n].conn = x
  <2> DEFINE e == IF q[n].deld THEN evs ELSE q[n].events \cup evs
             j == NewJob(e, x)
  <2>1. q[n] \in JobSet
    BY <1>0, <1>1
  <2>2. j \in JobSet /\ j.conn = x /\ j.deld = FALSE /\ j.events = e
    BY <2>1 DEF Job, JobSet, NewJob
  <2>3. r = [q EXCEPT ![n] = j]
    BY <1>1 DEF AddConn
  <2> HIDE DEF j, r
  <2>4. r \in Seq(JobSet) /\ Len(r) = n /\ r[n] = j
        /\ \A i \in 1..n : i # n => r[i] = q[i]
    BY <1>0, <1>1, <2>2, <2>3
  <2> QED
    BY <1>0, <1>1, <2>2, <2>4 DEF r, Added
<1>2. CASE ~(n > 0 /\ q[n].conn = x)
  <2> DEFINE j == NewJob(evs, x)
  <2>1. j \in JobSet /\ j.conn = x /\ j.deld = FALSE /\ j.events = evs
    BY DEF Job, JobSet, NewJob
  <2>2. r = Append(q, j)
    BY <1>2 DEF AddConn
  <2> HIDE DEF j, r
  <2>3. r \in Seq(JobSet) /\ Len(r) = n + 1 /\ r[n + 1] = j
        /\ \A i \in 1..n : r[i] = q[i]
    BY <1>0, <2>1, <2>2
  <2> QED
    BY <1>0, <2>1, <2>3 DEF r, Added
<1> QED
  BY <1>1, <1>2

\* A promise is kept when a job is added.
LEMMA AddedKeepsDue ==
  ASSUME NEW q \in Seq(JobSet), NEW evs, NEW x, NEW r, Added(q, evs, x, r),
         NEW f \in {1, 2}, NEW c, NEW e, DueIn(q, f, c, e)
  PROVE  DueIn(r, f, c, e)
  BY DEF Added, DueIn, ToRun

\* The new promise holds, unless the job is absorbed by the one that runs.
LEMMA AddedIsDue ==
  ASSUME NEW q \in Seq(JobSet), NEW evs, NEW x, NEW r, Added(q, evs, x, r),
         NEW f \in {1, 2}, f = 2 => q # <<>> /\ q[1].conn # x, NEW e \in evs
  PROVE  DueIn(r, f, x, e)
<1>1. f = 2 => Len(q) > 0
  BY DEF Added
<1>2. ToRun(r, f, Len(r))
  BY <1>1 DEF Added, ToRun
<1> QED
  BY <1>2 DEF Added, DueIn, ToRun

\* A new job that ends nothing, or is another's, ends nobody else.
LEMMA AddedKeepsNoEnd ==
  ASSUME NEW q \in Seq(JobSet), NEW evs, NEW x, NEW r, Added(q, evs, x, r),
         NEW f \in {1, 2}, NEW c, c # x \/ evs \cap Ends = {}, NoEndIn(q, f, c)
  PROVE  NoEndIn(r, f, c)
  BY DEF Added, NoEndIn, ToRun

\* The close that was next stays next: the new job comes last.
LEMMA AddedKeepsNext ==
  ASSUME NEW q \in Seq(JobSet), NEW evs, NEW x, NEW r, Added(q, evs, x, r),
         NEW f \in {1, 2}, NEW c, NextClosesIn(q, f, c)
  PROVE  NextClosesIn(r, f, c)
<1>1. PICK i \in 1..Len(q) :
        /\ ToRun(q, f, i) /\ q[i].conn = c /\ "CLOSE" \in q[i].events
        /\ \A j \in 1..Len(q) : j < i /\ ToRun(q, f, j) => q[j].conn # c
  BY DEF NextClosesIn
<1>2. ToRun(r, f, i) /\ r[i].conn = c /\ "CLOSE" \in r[i].events
  BY <1>1 DEF Added, ToRun
<1>3. \A j \in 1..Len(r) : j < i => j \in 1..Len(q) /\ r[j] = q[j]
  BY DEF Added
<1>4. \A j \in 1..Len(r) : j < i /\ ToRun(r, f, j) => r[j].conn # c
  BY <1>1, <1>3 DEF ToRun
<1> QED
  BY <1>2, <1>4 DEF NextClosesIn, ToRun

\* Nor does a new job come between an end of p and the close of c.
LEMMA AddedKeepsClosesFirst ==
  ASSUME NEW q \in Seq(JobSet), NEW evs, NEW x, NEW r, Added(q, evs, x, r),
         NEW f \in {1, 2}, NEW c, NEW p, ClosesFirstIn(q, f, c, p)
  PROVE  ClosesFirstIn(r, f, c, p)
<1>1. PICK i \in 1..Len(q) :
        /\ ToRun(q, f, i) /\ q[i].conn = c /\ "CLOSE" \in q[i].events
        /\ \A j, k \in 1..Len(q) :
             /\ j < i /\ ToRun(q, f, j) /\ q[j].conn = c
             /\ k < j /\ ToRun(q, f, k) /\ q[k].conn = p
             => q[k].events \cap Ends = {}
  BY DEF ClosesFirstIn
<1>2. ToRun(r, f, i) /\ r[i].conn = c /\ "CLOSE" \in r[i].events
  BY <1>1 DEF Added, ToRun
<1>3. \A j \in 1..Len(r) : j < i => j \in 1..Len(q) /\ r[j] = q[j]
  BY DEF Added
<1>4. ASSUME NEW j \in 1..Len(r), NEW k \in 1..Len(r),
             j < i, ToRun(r, f, j), r[j].conn = c,
             k < j, ToRun(r, f, k), r[k].conn = p
      PROVE  r[k].events \cap Ends = {}
  <2>1. k < i
    BY <1>4
  <2>2. /\ j \in 1..Len(q) /\ r[j] = q[j]
        /\ k \in 1..Len(q) /\ r[k] = q[k]
    BY <1>3, <1>4, <2>1
  <2>3. ToRun(q, f, j) /\ ToRun(q, f, k)
    BY <1>4, <2>2 DEF ToRun
  <2> QED
    BY <1>1, <1>4, <2>2, <2>3
<1> QED
  BY <1>2, <1>4 DEF ClosesFirstIn, ToRun

LEMMA AddedKeepsDnsWrites ==
  ASSUME NEW q \in Seq(JobSet), NEW evs, NEW x, NEW r, Added(q, evs, x, r),
         x = Dns => evs \subseteq {"OUT"}, DnsWrites(q)
  PROVE  DnsWrites(r)
  BY DEF Added, DnsWrites

\* The first job stays the first.
LEMMA AddedKeepsHead ==
  ASSUME NEW q \in Seq(JobSet), NEW evs, NEW x, NEW r, Added(q, evs, x, r), q # <<>>
  PROVE  r # <<>> /\ r[1].conn = q[1].conn
<1>1. Len(q) > 0
  BY DEF Added
<1> QED
  BY <1>1 DEF Added

\* conn_signal_thisclose: c closes after p was told, and everything c has
\* still to do before that comes before p's end (conn_peer.c:14-33).
LEMMA SignalClosesFirst ==
  ASSUME NEW q \in Seq(JobSet), NEW c \in Conn, NEW p \in Conn, c # p,
         NEW s \in Seq(JobSet), Added(q, {"PEERCLOSE"}, p, s),
         NEW r, Added(s, {"CLOSE"}, c, r),
         NEW f \in {1, 2}, NoEndIn(q, f, p)
  PROVE  ClosesFirstIn(r, f, c, p)
<1>1. Len(r) = Len(s) + 1 /\ Len(s) > 0
  BY DEF Added
<1>2. ToRun(r, f, Len(r)) /\ r[Len(r)].conn = c /\ "CLOSE" \in r[Len(r)].events
  BY <1>1 DEF Added, ToRun
<1>3. ASSUME NEW j \in 1..Len(r), NEW k \in 1..Len(r),
             j < Len(r), r[j].conn = c, k < j, ToRun(r, f, k), r[k].conn = p
      PROVE  r[k].events \cap Ends = {}
  <2>1. j \in 1..Len(s) /\ r[j] = s[j] /\ k \in 1..Len(s) /\ r[k] = s[k]
    BY <1>1, <1>3 DEF Added
  <2>2. j # Len(s)
    BY <1>3, <2>1 DEF Added
  <2>3. k < Len(s)
    BY <1>1, <1>3, <2>1, <2>2
  <2>4. k \in 1..Len(q) /\ s[k] = q[k]
    BY <2>1, <2>3 DEF Added
  <2> QED
    BY <1>3, <2>1, <2>4 DEF NoEndIn, ToRun
<1> QED
  BY <1>2, <1>3 DEF ClosesFirstIn, ToRun

-----------------------------------------------------------------------------
(* job_delconn                                                              *)

\* The list stays as it is, but every job of c is marked (job.c:184-199).
Deleted(q, c, r) ==
  /\ r \in Seq(JobSet) /\ Len(r) = Len(q) /\ Len(q) \in Nat
  /\ \A i \in 1..Len(q) :
       /\ r[i].conn = q[i].conn
       /\ r[i].events = q[i].events
       /\ q[i].conn = c => r[i].deld
       /\ q[i].conn # c => r[i] = q[i]

\* job_delconn does what Deleted says.
LEMMA DelConnDeletes ==
  ASSUME NEW q \in Seq(JobSet), NEW c
  PROVE  Deleted(q, c, DelConn(q, c))
<1>1. \A i \in 1..Len(q) : q[i] \in JobSet
  OBVIOUS
<1>2. \A i \in 1..Len(q) :
        LET j == [q[i] EXCEPT !.deld = TRUE] IN
        j \in JobSet /\ j.conn = q[i].conn /\ j.events = q[i].events /\ j.deld = TRUE
  BY <1>1 DEF Job, JobSet
<1> DEFINE g(i) == IF q[i].conn = c THEN [q[i] EXCEPT !.deld = TRUE] ELSE q[i]
<1>3. \A i \in 1..Len(q) :
        /\ g(i) \in JobSet /\ g(i).conn = q[i].conn /\ g(i).events = q[i].events
        /\ q[i].conn = c => g(i).deld
        /\ q[i].conn # c => g(i) = q[i]
  BY <1>1, <1>2, Zenon
<1>4. DelConn(q, c) = [i \in 1..Len(q) |-> g(i)]
  BY DEF DelConn
<1> HIDE DEF g
<1>5. /\ DelConn(q, c) \in Seq(JobSet) /\ Len(DelConn(q, c)) = Len(q)
      /\ \A i \in 1..Len(q) : DelConn(q, c)[i] = g(i)
  BY <1>3, <1>4
<1>6. Len(q) \in Nat
  OBVIOUS
<1> QED
  BY <1>3, <1>5, <1>6, Zenon DEF Deleted

\* Of the jobs to run, those of c go and the others stay.
StillRuns(q, f, c, r) ==
  /\ Len(r) = Len(q)
  /\ \A i \in 1..Len(q) : r[i].conn = q[i].conn /\ r[i].events = q[i].events
  /\ \A i \in 1..Len(q) : ToRun(r, f, i) <=> ToRun(q, f, i) /\ q[i].conn # c

\* Seen from the loop, the jobs of c are gone and the others untouched.
LEMMA DeletedRuns ==
  ASSUME NEW q \in Seq(JobSet), NEW c, NEW r, Deleted(q, c, r), NEW f \in {1, 2}
  PROVE  StillRuns(q, f, c, r)
  BY DEF Deleted, StillRuns, ToRun

LEMMA DeletedKeepsDue ==
  ASSUME NEW q, NEW c, NEW r, NEW f, StillRuns(q, f, c, r),
         NEW d, d # c, NEW e, DueIn(q, f, d, e)
  PROVE  DueIn(r, f, d, e)
  BY DEF StillRuns, DueIn

LEMMA DeletedKeepsNoEnd ==
  ASSUME NEW q, NEW c, NEW r, NEW f, StillRuns(q, f, c, r), NEW d, NoEndIn(q, f, d)
  PROVE  NoEndIn(r, f, d)
  BY DEF StillRuns, NoEndIn

LEMMA DeletedKeepsNext ==
  ASSUME NEW q, NEW c, NEW r, NEW f, StillRuns(q, f, c, r),
         NEW d, d # c, NextClosesIn(q, f, d)
  PROVE  NextClosesIn(r, f, d)
  BY DEF StillRuns, NextClosesIn

LEMMA DeletedKeepsClosesFirst ==
  ASSUME NEW q, NEW c, NEW r, NEW f, StillRuns(q, f, c, r),
         NEW d, d # c, NEW p, ClosesFirstIn(q, f, d, p)
  PROVE  ClosesFirstIn(r, f, d, p)
  BY DEF StillRuns, ClosesFirstIn

LEMMA DeletedKeepsDnsWrites ==
  ASSUME NEW q \in Seq(JobSet), NEW c, NEW r, Deleted(q, c, r), DnsWrites(q)
  PROVE  DnsWrites(r)
  BY DEF Deleted, DnsWrites

-----------------------------------------------------------------------------
(* The loop takes a job: the first one runs, f grows from 1 to 2.           *)

LEMMA TakenDue ==
  ASSUME NEW q \in Seq(JobSet), q # <<>>, NEW c, NEW e, DueIn(q, 1, c, e)
  PROVE  (q[1].conn = c /\ e \in q[1].events) \/ DueIn(q, 2, c, e)
  BY DEF DueIn, ToRun

LEMMA TakenNoEnd ==
  ASSUME NEW q \in Seq(JobSet), NEW c, NoEndIn(q, 1, c)
  PROVE  NoEndIn(q, 2, c)
  BY DEF NoEndIn, ToRun

LEMMA TakenEnds ==
  ASSUME NEW q \in Seq(JobSet), q # <<>>, ~q[1].deld, NoEndIn(q, 1, q[1].conn)
  PROVE  q[1].events \cap Ends = {}
  BY DEF NoEndIn, ToRun

LEMMA TakenOnlyOf ==
  ASSUME NEW q \in Seq(JobSet), q # <<>>, ~q[1].deld, NEW S, OnlyOf(q, 1, S)
  PROVE  OnlyOf(q, 2, S) /\ (q[1].conn \in Conn => q[1].conn \in S)
  BY DEF OnlyOf, ToRun

\* Unless it is the job that is taken, the close that was next still is.
LEMMA TakenNext ==
  ASSUME NEW q \in Seq(JobSet), q # <<>>, ~q[1].deld, NEW c, NextClosesIn(q, 1, c)
  PROVE  IF q[1].conn = c THEN "CLOSE" \in q[1].events ELSE NextClosesIn(q, 2, c)
<1>1. PICK i \in 1..Len(q) :
        /\ ToRun(q, 1, i) /\ q[i].conn = c /\ "CLOSE" \in q[i].events
        /\ \A j \in 1..Len(q) : j < i /\ ToRun(q, 1, j) => q[j].conn # c
  BY DEF NextClosesIn
<1>2. ToRun(q, 1, 1)
  BY DEF ToRun
<1>3. CASE q[1].conn = c
  <2>1. i = 1
    BY <1>1, <1>2, <1>3
  <2> QED
    BY <1>1, <1>3, <2>1
<1>4. CASE q[1].conn # c
  <2>1. ToRun(q, 2, i)
    BY <1>1, <1>4 DEF ToRun
  <2>2. \A j \in 1..Len(q) : j < i /\ ToRun(q, 2, j) => q[j].conn # c
    BY <1>1 DEF ToRun
  <2> QED
    BY <1>1, <1>4, <2>1, <2>2 DEF NextClosesIn
<1> QED
  BY <1>3, <1>4

\* If c runs with CLOSE its close is under way; if p runs its end, c's close is next.
LEMMA TakenClosesFirst ==
  ASSUME NEW q \in Seq(JobSet), q # <<>>, ~q[1].deld, NEW c, NEW p, c # p,
         ClosesFirstIn(q, 1, c, p)
  PROVE  \/ q[1].conn = c /\ "CLOSE" \in q[1].events
         \/ /\ ClosesFirstIn(q, 2, c, p)
            /\ q[1].conn = p /\ q[1].events \cap Ends # {} => NextClosesIn(q, 2, c)
<1>1. PICK i \in 1..Len(q) :
        /\ ToRun(q, 1, i) /\ q[i].conn = c /\ "CLOSE" \in q[i].events
        /\ \A j, k \in 1..Len(q) :
             /\ j < i /\ ToRun(q, 1, j) /\ q[j].conn = c
             /\ k < j /\ ToRun(q, 1, k) /\ q[k].conn = p
             => q[k].events \cap Ends = {}
  BY DEF ClosesFirstIn
<1>2. ToRun(q, 1, 1)
  BY DEF ToRun
<1>3. CASE i = 1
  BY <1>1, <1>3
<1>4. CASE i # 1
  <2>1. ToRun(q, 2, i)
    BY <1>1, <1>4 DEF ToRun
  <2>2. \A j \in 1..Len(q) : ToRun(q, 2, j) => ToRun(q, 1, j) /\ 1 < j
    BY DEF ToRun
  <2>3. ClosesFirstIn(q, 2, c, p)
    BY <1>1, <2>1, <2>2 DEF ClosesFirstIn
  <2>4. ASSUME q[1].conn = p, q[1].events \cap Ends # {}
        PROVE  NextClosesIn(q, 2, c)
    <3>1. 1 \in 1..Len(q)
      BY <1>2 DEF ToRun
    <3>2. \A j \in 1..Len(q) : j < i /\ ToRun(q, 2, j) => q[j].conn # c
      BY <1>1, <1>2, <2>2, <2>4, <3>1
    <3> QED
      BY <1>1, <2>1, <3>2 DEF NextClosesIn
  <2> QED
    BY <2>3, <2>4
<1> QED
  BY <1>3, <1>4

-----------------------------------------------------------------------------
(* The loop leaves the first job, which ran (f = 2) or is marked.           *)

\* What is to run after the first job is what is to run in the rest.
Left(q, f, r) ==
  /\ r \in Seq(JobSet) /\ Len(r) \in Nat /\ Len(q) = Len(r) + 1
  /\ \A i \in 1..Len(r) : r[i] = q[i + 1]
  /\ \A i \in 1..Len(r) : ToRun(r, 1, i) <=> ToRun(q, f, i + 1)
  /\ ~ToRun(q, f, 1)
  /\ \A i \in 1..Len(q) : i = 1 \/ \E k \in 1..Len(r) : i = k + 1

\* job_clear frees the job that has run, or one that was marked.
LEMMA TailLeaves ==
  ASSUME NEW q \in Seq(JobSet), q # <<>>, NEW f \in {1, 2}, f = 2 \/ q[1].deld
  PROVE  Left(q, f, Tail(q))
<1>1. /\ Tail(q) \in Seq(JobSet) /\ Len(Tail(q)) \in Nat /\ Len(q) = Len(Tail(q)) + 1
      /\ \A i \in 1..Len(Tail(q)) : Tail(q)[i] = q[i + 1]
  OBVIOUS
<1> DEFINE r == Tail(q)
<1> HIDE DEF r
<1>2. \A i \in 1..Len(q) : i = 1 \/ \E k \in 1..Len(r) : i = k + 1
  <2> SUFFICES ASSUME NEW i \in 1..Len(q), i # 1 PROVE \E k \in 1..Len(r) : i = k + 1
    OBVIOUS
  <2>1. i - 1 \in 1..Len(r) /\ i = (i - 1) + 1
    BY <1>1 DEF r
  <2> QED
    BY <2>1
<1>3. ~ToRun(q, f, 1)
  BY DEF ToRun
<1>4. \A i \in 1..Len(r) : ToRun(r, 1, i) <=> ToRun(q, f, i + 1)
  BY <1>1 DEF r, ToRun
<1> QED
  BY <1>1, <1>2, <1>3, <1>4 DEF r, Left

LEMMA LeftDue ==
  ASSUME NEW q, NEW f, NEW r, Left(q, f, r), NEW c, NEW e, DueIn(q, f, c, e)
  PROVE  DueIn(r, 1, c, e)
  BY DEF Left, DueIn

LEMMA LeftNoEnd ==
  ASSUME NEW q, NEW f, NEW r, Left(q, f, r), NEW c, NoEndIn(q, f, c)
  PROVE  NoEndIn(r, 1, c)
<1>1. \A i \in 1..Len(r) : i + 1 \in 1..Len(q)
  BY DEF Left
<1> QED
  BY <1>1 DEF Left, NoEndIn

LEMMA LeftOnlyOf ==
  ASSUME NEW q, NEW f, NEW r, Left(q, f, r), NEW S, OnlyOf(q, f, S)
  PROVE  OnlyOf(r, 1, S)
<1>1. \A i \in 1..Len(r) : i + 1 \in 1..Len(q)
  BY DEF Left
<1> QED
  BY <1>1 DEF Left, OnlyOf

LEMMA LeftNext ==
  ASSUME NEW q, NEW f, NEW r, Left(q, f, r), NEW c, NextClosesIn(q, f, c)
  PROVE  NextClosesIn(r, 1, c)
<1>1. PICK n \in 1..Len(q) :
        /\ ToRun(q, f, n) /\ q[n].conn = c /\ "CLOSE" \in q[n].events
        /\ \A j \in 1..Len(q) : j < n /\ ToRun(q, f, j) => q[j].conn # c
  BY DEF NextClosesIn
<1>2. PICK i \in 1..Len(r) : n = i + 1
  BY <1>1 DEF Left
<1>3. \A j \in 1..Len(r) : j + 1 \in 1..Len(q) /\ (j < i => j + 1 < n)
  BY <1>2 DEF Left
<1>4. \A j \in 1..Len(r) : j < i /\ ToRun(r, 1, j) => r[j].conn # c
  BY <1>1, <1>3 DEF Left
<1>5. ToRun(r, 1, i) /\ r[i].conn = c /\ "CLOSE" \in r[i].events
  BY <1>1, <1>2 DEF Left
<1> QED
  BY <1>4, <1>5 DEF NextClosesIn

LEMMA LeftClosesFirst ==
  ASSUME NEW q, NEW f, NEW r, Left(q, f, r), NEW c, NEW p, ClosesFirstIn(q, f, c, p)
  PROVE  ClosesFirstIn(r, 1, c, p)
<1>1. PICK n \in 1..Len(q) :
        /\ ToRun(q, f, n) /\ q[n].conn = c /\ "CLOSE" \in q[n].events
        /\ \A j, k \in 1..Len(q) :
             /\ j < n /\ ToRun(q, f, j) /\ q[j].conn = c
             /\ k < j /\ ToRun(q, f, k) /\ q[k].conn = p
             => q[k].events \cap Ends = {}
  BY DEF ClosesFirstIn
<1>2. PICK i \in 1..Len(r) : n = i + 1
  BY <1>1 DEF Left
<1>3. \A j \in 1..Len(r) : j + 1 \in 1..Len(q) /\ (j < i => j + 1 < n)
  BY <1>2 DEF Left
<1>4. ASSUME NEW j \in 1..Len(r), NEW k \in 1..Len(r),
             j < i, ToRun(r, 1, j), r[j].conn = c,
             k < j, ToRun(r, 1, k), r[k].conn = p
      PROVE  r[k].events \cap Ends = {}
  <2>1. j + 1 \in 1..Len(q) /\ k + 1 \in 1..Len(q) /\ j + 1 < n /\ k + 1 < j + 1
    BY <1>3, <1>4 DEF Left
  <2>2. /\ ToRun(q, f, j + 1) /\ q[j + 1].conn = c
        /\ ToRun(q, f, k + 1) /\ q[k + 1].conn = p /\ r[k] = q[k + 1]
    BY <1>4 DEF Left
  <2> QED
    BY <1>1, <2>1, <2>2
<1>5. ToRun(r, 1, i) /\ r[i].conn = c /\ "CLOSE" \in r[i].events
  BY <1>1, <1>2 DEF Left
<1> QED
  BY <1>4, <1>5 DEF ClosesFirstIn

LEMMA LeftDnsWrites ==
  ASSUME NEW q, NEW f, NEW r, Left(q, f, r), DnsWrites(q)
  PROVE  DnsWrites(r)
<1>1. \A i \in 1..Len(r) : i + 1 \in 1..Len(q)
  BY DEF Left
<1> QED
  BY <1>1 DEF Left, DnsWrites

-----------------------------------------------------------------------------
(* The inductive invariant.                                                 *)

LiveSet == {c \in Conn : Live(c)}

First == IF phase = "jobs" /\ self # None THEN 2 ELSE 1

\* A handler reads, parses or looks for a peer, one at a time.
OneStage == \A d, e \in ev \cap {"IN", "PARSE", "CONNECT"} : d = e

\* Handlers run in two phases only; the events that end a connection come
\* from jobs, never from epoll, and are treated before anything else.
LoopOK ==
  /\ self = None => ev = {}
  /\ self # None => phase \in {"events", "jobs"}
  /\ Closing => phase = "jobs"
  /\ phase \in {"wait", "jobs"} => batch = NoEvents
  /\ phase = "events" => \A c \in Conn \cup {Dns} : batch[c] \subseteq FdEvent
  /\ batch[Dns] \subseteq {"IN"}
  /\ phase = "jobs" /\ self # None => jobs # <<>> /\ jobs[1].conn = self
  /\ phase = "wait" => jobs = <<>>
  /\ self = Dns => ev \subseteq {"IN", "OUT"} /\ ("IN" \in ev => phase = "events")
  /\ DnsWrites(jobs)
  /\ ev \cap {"PARSE", "CONNECT", "WAKE"} # {} => ~Closing
  /\ self \in Clients /\ ev \cap {"PARSE", "CONNECT"} # {} => status[self] = "WORKING"
  /\ OneStage

\* Whatever refers to a connection refers to one that exists; memory that was
\* freed is not watched and has no data.
Alive ==
  /\ OnlyOf(jobs, First, LiveSet)
  /\ self \in Conn => Live(self) \/ ev = {}
  /\ \A c \in Conn : peer[c] # None => Live(c)

References ==
  /\ \A c \in Conn : batch[c] # {} => Live(c)
  /\ \A c \in Conn : waitOn[c] # None => Live(c) /\ Live(waitOn[c])
  /\ \A b \in Backends : dns[b] # "none" => Live(b)
  /\ \A c \in Conn : ~Live(c) => lsn[c] = {} /\ sock[c] = "idle" /\ rbuf[c] = 0 /\ wbuf[c] = 0

Mutual(c) == peer[c] # None /\ peer[peer[c]] = c

\* c points to a connection that does not point back.
Cut(c) == peer[c] # None /\ peer[peer[c]] # c

\* Nothing is under way that ends c.
NoEnd(c) == (self = c => ~Closing) /\ NoEndIn(jobs, First, c)

\* The close of a cut connection runs before it can use its link: it runs
\* now, or it is next in the job phase, or it is next once the connection at
\* the other end has ended, and that one waits for its end without a link.
ClosesNow(c) == self = c /\ "CLOSE" \in ev
ClosesNext(c) == NextClosesIn(jobs, First, c) /\ phase = "jobs" /\ (self = c => ev = {})
ClosesAfter(c, p) ==
  /\ ClosesFirstIn(jobs, First, c, p)
  /\ Live(p) /\ peer[p] = None /\ (p \in Clients => status[p] # "WORKING")
  /\ self = p /\ Closing => NextClosesIn(jobs, First, c)
Doomed(c) == ClosesNow(c) \/ ClosesNext(c) \/ ClosesAfter(c, peer[c])

Links ==
  /\ \A c \in Conn : peer[c] # None => (c \in Clients <=> peer[c] \in Backends)
  /\ \A c \in Conn : Mutual(c) => NoEnd(c)
  /\ \A c \in Clients : status[c] = "WORKING" => NoEnd(c)
  /\ \A c \in Conn : Cut(c) => Doomed(c)
  /\ \A b \in Backends : Mutual(b) => owner[b] = peer[b]

\* A connection that was told that its peer has gone has its event.
Told ==
  \A c \in Conn : status[c] = "PEERCLOSED" =>
    \/ self = c /\ Closing
    \/ DueIn(jobs, First, c, "PEERCLOSE")
    \/ DueIn(jobs, First, c, "CLOSE")

\* Only a client that is not working any more may have an error page on top.
Extra(c) == IF c \in Clients /\ status[c] # "WORKING" THEN 1 ELSE 0

Buffers ==
  /\ \A c \in Conn : rbuf[c] <= 2 * Limit /\ wbuf[c] <= 2 * Limit + Extra(c)
  /\ \A c \in Conn : Mutual(c) => rbuf[c] + wbuf[peer[c]] <= 2 * Limit + Extra(peer[c])

\* Alive, Links and Told depend on each other.
Linked == Alive /\ Links /\ Told

IInv == TypeOK /\ LoopOK /\ References /\ Linked /\ Buffers

-----------------------------------------------------------------------------
(* Types.                                                                   *)

\* The list after conn_signal_thisclose(c) is a list of jobs.
LEMMA SignalJobs ==
  ASSUME TypeOK, NEW c \in Conn, SignalThisClose(c)
  PROVE  jobs' \in Seq(JobSet)
<1> DEFINE p == peer[c]
           s == AfterPeerClose(jobs, p)
<1>1. jobs \in Seq(JobSet) /\ p \in Conn \cup {None}
  BY DEF TypeOK, JobSet
<1>2. s \in Seq(JobSet)
  <2>1. CASE p = None
    BY <1>1, <2>1 DEF AfterPeerClose
  <2>2. CASE p # None
    <3>1. Added(jobs, {"PEERCLOSE"}, p, AddConn(jobs, {"PEERCLOSE"}, p))
      BY <1>1, <2>2, AddConnAdds DEF JobEvent
    <3> QED
      BY <2>2, <3>1 DEF AfterPeerClose, Added
  <2> QED
    BY <2>1, <2>2
<1>3. Added(s, {"CLOSE"}, c, AddConn(s, {"CLOSE"}, c))
  BY <1>2, AddConnAdds DEF JobEvent
<1> QED
  BY <1>3 DEF SignalThisClose, Added

LEMMA SignalType ==
  ASSUME TypeOK, NEW c \in Conn, SignalThisClose(c)
  PROVE  /\ jobs' \in Seq(JobSet)
         /\ status' \in [Conn -> Status]
         /\ peer' \in [Conn -> Conn \cup {None}]
  BY SignalJobs DEF SignalThisClose, TypeOK, Status

LEMMA FailType ==
  ASSUME TypeOK, self \in Conn, Fail(self),
         UNCHANGED <<lsn, rbuf, wbuf, waitOn, reqstat, netVars>>
  PROVE  TypeOK'
  BY SignalType DEF Fail, TypeOK, netVars, JobSet

LEMMA NetworkType ==
  ASSUME TypeOK, Network
  PROVE  TypeOK'
<1> USE ProxyAssumption
<1>0. Move => left' \in Nat \cup {-1}
  BY DEF Move, TypeOK
<1>1. ASSUME NEW c \in Clients, Accept(c) PROVE TypeOK'
  BY <1>1 DEF Accept, TypeOK, loopVars, ghosts, Conn, Status, Sock
<1>2. ASSUME NEW c \in Conn, Arrive(c) PROVE TypeOK'
  BY <1>0, <1>2 DEF Arrive, TypeOK, loopVars, connVars, ghosts, Sock
<1>3. ASSUME NEW c \in Conn, RemoteEof(c) PROVE TypeOK'
  BY <1>0, <1>3 DEF RemoteEof, TypeOK, loopVars, connVars, ghosts, Sock
<1>4. ASSUME NEW c \in Conn, RemoteReset(c) PROVE TypeOK'
  BY <1>0, <1>4 DEF RemoteReset, TypeOK, loopVars, connVars, ghosts, Sock
<1>5. ASSUME NEW c \in Conn, Drain(c) PROVE TypeOK'
  BY <1>0, <1>5 DEF Drain, TypeOK, loopVars, connVars, ghosts, Sock
<1>6. ASSUME NEW b \in Backends, Connected(b) PROVE TypeOK'
  BY <1>0, <1>6 DEF Connected, TypeOK, loopVars, connVars, ghosts, Sock, Conn
<1> QED
  BY <1>1, <1>2, <1>3, <1>4, <1>5, <1>6 DEF Network

LEMMA LoopType ==
  ASSUME TypeOK, LoopOK, Timer \/ MainLoop
  PROVE  TypeOK'
<1>1. ASSUME NEW S \in SUBSET Conn, TimerFires(S) PROVE TypeOK'
  BY <1>1 DEF TimerFires, TypeOK, connVars, netVars, ghosts
<1>2. ASSUME NEW c \in Conn, TimeoutOne(c) PROVE TypeOK'
  <2>1. SignalThisClose(c)
    BY <1>2 DEF TimeoutOne
  <2>2. owner' = owner
    BY <1>2 DEF TimeoutOne, ghosts
  <2> QED
    BY <1>2, <2>1, <2>2, SignalType DEF TimeoutOne, TypeOK, netVars, ghosts, JobSet
<1>3. ASSUME NEW r \in BOOLEAN, EvWait(r) PROVE TypeOK'
  <2>1. \A c \in Conn : Reported[c] \subseteq FdEvent
    BY DEF Reported, Readiness, TypeOK, FdEvent
  <2>2. batch' \in [Conn \cup {Dns} -> SUBSET (FdEvent \cup {"TIMEOUT"})]
    <3>1. \A c \in Conn \cup {Dns} :
            (IF c = Dns THEN {e \in {"IN"} : r} ELSE Reported[c]) \subseteq FdEvent
      BY <2>1 DEF FdEvent
    <3> QED
      BY <1>3, <3>1 DEF EvWait
  <2> QED
    BY <1>3, <2>2 DEF EvWait, TypeOK, connVars, ghosts
<1>4. ASSUME NEW c \in Conn \cup {Dns}, Dispatch(c) PROVE TypeOK'
  <2>1. ev' \in SUBSET Step
    BY <1>4 DEF Dispatch, LoopOK, Step
  <2> QED
    BY <1>4, <2>1 DEF Dispatch, TypeOK, connVars, netVars, ghosts
<1>5. ASSUME StartJobs PROVE TypeOK'
  BY <1>5 DEF StartJobs, TypeOK, connVars, netVars, ghosts
<1>6. ASSUME RunJob PROVE TypeOK'
  <2>1. Head(jobs) \in JobSet
    BY <1>6 DEF RunJob, TypeOK, JobSet
  <2>2. Head(jobs).conn \in Conn \cup {Dns} /\ Head(jobs).events \in SUBSET JobEvent
    BY <2>1 DEF JobSet, Job
  <2> QED
    BY <1>6, <2>2 DEF RunJob, TypeOK, connVars, netVars, Step
<1>7. ASSUME SkipJob \/ Return \/ EndJobs PROVE TypeOK'
  <2>1. jobs # <<>> => Tail(jobs) \in Seq(JobSet)
    BY DEF TypeOK, JobSet
  <2>2. jobs' \in Seq(JobSet) /\ jobs' \in Seq(Job(Conn \cup {Dns}, JobEvent))
    BY <1>7, <2>1 DEF SkipJob, Return, EndJobs, LoopOK, TypeOK, JobSet
  <2>3. handed' \in SUBSET JobEvent /\ UNCHANGED <<connVars, batch, ev, netVars, owner>>
    BY <1>7 DEF SkipJob, Return, EndJobs, TypeOK, ghosts
  <2>4. phase' \in {"wait", "jobs"} \cup {phase} /\ self' \in {self, None}
    BY <1>7 DEF SkipJob, Return, EndJobs
  <2> QED
    BY <2>2, <2>3, <2>4 DEF TypeOK, connVars, netVars
<1> QED
  BY <1>1, <1>2, <1>3, <1>4, <1>5, <1>6, <1>7 DEF Timer, MainLoop

LEMMA CloseType ==
  ASSUME TypeOK, HandlePeerClose \/ HandleThisClose \/ HandleErr
  PROVE  TypeOK'
<1> USE ProxyAssumption
<1>1. ASSUME HandlePeerClose PROVE TypeOK'
  <2>1. ev' \in SUBSET Step
    <3>1. "OUT" \in Step /\ "CLOSE" \in Step
      BY DEF Step, JobEvent
    <3>2. ev' \subseteq ev \cup {"OUT", "CLOSE"}
      BY <1>1 DEF HandlePeerClose
    <3> QED
      BY <3>1, <3>2 DEF TypeOK
  <2>2. status' \in [Conn -> Status]
    BY <1>1 DEF HandlePeerClose, TypeOK, Status
  <2> QED
    BY <1>1, <2>1, <2>2 DEF HandlePeerClose, TypeOK, netVars, ghosts
<1>2. ASSUME HandleThisClose PROVE TypeOK'
  <2>1. Deleted(jobs, self, DelConn(jobs, self))
    BY DelConnDeletes DEF TypeOK, JobSet
  <2>2. jobs' \in Seq(JobSet)
    BY <1>2, <2>1 DEF HandleThisClose, Deleted
  <2> QED
    BY <1>2, <2>2 DEF HandleThisClose, TypeOK, Status, Sock, JobSet
<1>3. ASSUME HandleErr PROVE TypeOK'
  BY <1>3, FailType DEF HandleErr
<1> QED
  BY <1>1, <1>2, <1>3

LEMMA InType ==
  ASSUME TypeOK, HandlesIn
  PROVE  TypeOK'
<1> USE ProxyAssumption
<1>1. ASSUME ReadSome PROVE TypeOK'
  <2> DEFINE n == Least(sysin[self], Space(self))
  <2>1. self \in Conn /\ n > 0
    BY <1>1 DEF ReadSome, DoesIn
  <2>2. Space(self) \in Int /\ sysin[self] \in 0..SysCap
    BY <2>1 DEF Space, TypeOK
  <2>3. n \in Nat /\ sysin[self] - n \in 0..SysCap
    BY <2>1, <2>2 DEF Least
  <2> HIDE DEF n
  <2>4. sysin' \in [Conn -> 0..SysCap] /\ rbuf' \in [Conn -> Nat]
    BY <1>1, <2>1, <2>3 DEF ReadSome, TypeOK, n
  <2>5. lsn' \in [Conn -> SUBSET {"IN", "OUT"}] /\ armed' \in [Conn -> BOOLEAN]
    BY <1>1, <2>1 DEF ReadSome, ModFd, TypeOK
  <2> QED
    BY <1>1, <2>4, <2>5 DEF ReadSome, TypeOK, ghosts, Step
<1>2. ASSUME ReadFull PROVE TypeOK'
  <2>1. self \in Conn
    BY <1>2 DEF ReadFull, DoesIn
  <2>2. lsn' \in [Conn -> SUBSET {"IN", "OUT"}] /\ armed' \in [Conn -> BOOLEAN]
        /\ waitOn' \in [Conn -> Conn \cup {None}]
    <3>1. CASE peer[self] = None
      BY <1>2, <3>1 DEF ReadFull, TypeOK
    <3>2. CASE peer[self] # None
      <4>1. waitOn' = [waitOn EXCEPT ![self] = IF @ = None THEN peer[self] ELSE @]
            /\ ModFd(self, lsn[self] \ {"IN"}, sysin[self], canwrite[self])
        BY <1>2, <3>2 DEF ReadFull
      <4>2. (IF waitOn[self] = None THEN peer[self] ELSE waitOn[self]) \in Conn \cup {None}
        BY <2>1 DEF TypeOK
      <4>3. waitOn' \in [Conn -> Conn \cup {None}]
        BY <4>1, <4>2 DEF TypeOK
      <4>4. lsn[self] \ {"IN"} \in SUBSET {"IN", "OUT"}
        BY <2>1 DEF TypeOK
      <4> QED
        BY <2>1, <4>1, <4>3, <4>4 DEF ModFd, TypeOK
    <3> QED
      BY <3>1, <3>2
  <2> QED
    BY <1>2, <2>2 DEF ReadFull, TypeOK, ghosts, Step
<1>3. ASSUME ReadFails PROVE TypeOK'
  <2>1. self \in Conn
    BY <1>3 DEF ReadFails, DoesIn
  <2>2. CASE Fail(self)
    BY <1>3, <2>1, <2>2, FailType DEF ReadFails
  <2>3. CASE ~Fail(self)
    BY <1>3, <2>3 DEF ReadFails, TypeOK, netVars, Step, FdEvent
  <2> QED
    BY <2>2, <2>3
<1> QED
  BY <1>1, <1>2, <1>3 DEF HandlesIn

\* OUT for a live connection or for the DNS connection.
LEMMA OutJobs ==
  ASSUME TypeOK, NEW x \in Conn \cup {Dns}, NEW e \in JobEvent
  PROVE  AddConn(jobs, {e}, x) \in Seq(JobSet)
<1>1. Added(jobs, {e}, x, AddConn(jobs, {e}, x))
  BY AddConnAdds DEF TypeOK, JobSet
<1> QED
  BY <1>1 DEF Added

LEMMA RequestType ==
  ASSUME TypeOK, HandlesRequest
  PROVE  TypeOK'
<1> USE ProxyAssumption
<1>0. Parses \/ Connects => self \in Conn
  BY DEF Parses, Connects, Conn
<1>1. ASSUME ParseFails \/ ConnectFails PROVE TypeOK'
  BY <1>0, <1>1, FailType DEF ParseFails, ConnectFails
<1>2. ASSUME ParseDenied PROVE TypeOK'
  BY <1>0, <1>2 DEF ParseDenied, TypeOK, Status, Step, FdEvent, netVars, ghosts
<1>3. ASSUME ParseDone PROVE TypeOK'
  BY <1>3 DEF ParseDone, TypeOK, connVars, netVars, ghosts
<1>9. ASSUME UsePeer PROVE TypeOK'
  BY <1>9 DEF UsePeer, Connects, TypeOK, Step, netVars, ghosts
<1>4. ASSUME NEW x \in BOOLEAN, ParseHead(x) PROVE TypeOK'
  <2>1. jobs' \in Seq(JobSet)
    <3>1. peer[self] \in Conn \cup {None}
      BY <1>0, <1>4 DEF ParseHead, TypeOK
    <3> QED
      BY <1>4, <3>1, OutJobs DEF ParseHead, AfterPeerClose, JobEvent, TypeOK, JobSet
  <2> QED
    BY <1>0, <1>4, <2>1 DEF ParseHead, TypeOK, Status, Step, netVars, ghosts, JobSet
<1>5. ASSUME NEW x \in BOOLEAN, ParseBody(x) PROVE TypeOK'
  <2>1. self \in Clients /\ self \in Conn /\ peer[self] \in Conn
    BY <1>0, <1>5 DEF ParseBody, Parses, TypeOK
  <2>2. jobs' \in Seq(JobSet)
    BY <1>5, <2>1, OutJobs DEF ParseBody, JobEvent, TypeOK, JobSet
  <2>3. rbuf' \in [Conn -> Nat] /\ wbuf' \in [Conn -> Nat]
        /\ reqstat' \in [Clients -> {"COMMONDREQ", "BODYREQ"}]
    BY <1>5, <2>1 DEF ParseBody, TypeOK
  <2> QED
    BY <1>5, <2>2, <2>3 DEF ParseBody, TypeOK, netVars, ghosts, JobSet
<1>6. ASSUME NEW b \in Backends, CreatePeerByName(b) PROVE TypeOK'
  <2>1. jobs' \in Seq(JobSet)
    BY <1>6, OutJobs DEF CreatePeerByName, JobEvent
  <2>2. self \in Clients
    BY <1>6 DEF CreatePeerByName, Connects
  <2> QED
    BY <1>6, <2>1, <2>2 DEF CreatePeerByName, TypeOK, netVars, JobSet, Conn, Status, Step
<1>7. ASSUME NEW b \in Backends, QueryFails(b) PROVE TypeOK'
  <2>1. self \in Clients /\ b \in Conn /\ self \in Conn
    BY <1>7 DEF QueryFails, Connects, Conn
  <2>2. AddConn(jobs, {"PEERCLOSE"}, b) \in Seq(JobSet)
    BY <2>1, OutJobs DEF JobEvent
  <2>3. Added(AddConn(jobs, {"PEERCLOSE"}, b), {"CLOSE"}, self, jobs')
    BY <1>7, <2>1, <2>2, AddConnAdds DEF QueryFails, JobEvent
  <2>4. jobs' \in Seq(JobSet)
    BY <2>3 DEF Added
  <2> QED
    BY <1>7, <2>1, <2>4 DEF QueryFails, TypeOK, netVars, JobSet, Conn, Status, Step
<1>8. ASSUME NEW b \in Backends, NEW how \in {"open", "connecting"}, CreatePeer(b, how)
      PROVE  TypeOK'
  BY <1>8 DEF CreatePeer, Connects, TypeOK, Conn, Status, Sock, Step, ConnectStatus, ConnectLsn
<1> QED
  BY <1>1, <1>2, <1>3, <1>4, <1>5, <1>6, <1>7, <1>8, <1>9 DEF HandlesRequest

LEMMA BackendType ==
  ASSUME TypeOK, BackendForwards \/ BackendForwardFails
  PROVE  TypeOK'
<1> USE ProxyAssumption
<1>1. ASSUME BackendForwards PROVE TypeOK'
  <2>1. self \in Conn /\ peer[self] \in Conn
    BY <1>1 DEF BackendForwards, TypeOK, Conn
  <2>2. jobs' \in Seq(JobSet)
    BY <1>1, <2>1, OutJobs DEF BackendForwards, JobEvent, TypeOK, JobSet
  <2>3. rbuf' \in [Conn -> Nat] /\ wbuf' \in [Conn -> Nat]
    BY <1>1, <2>1 DEF BackendForwards, TypeOK
  <2> QED
    BY <1>1, <2>2, <2>3 DEF BackendForwards, TypeOK, netVars, ghosts, JobSet
<1>2. ASSUME BackendForwardFails PROVE TypeOK'
  BY <1>2, FailType DEF BackendForwardFails, Conn
<1> QED
  BY <1>1, <1>2

LEMMA OutType ==
  ASSUME TypeOK, HandlesOut
  PROVE  TypeOK'
<1> USE ProxyAssumption
<1>1. ASSUME OutRefused PROVE TypeOK'
  <2>1. CASE Fail(self)
    BY <1>1, <2>1, FailType DEF OutRefused, DoesOut
  <2>2. CASE ~Fail(self)
    BY <1>1, <2>2 DEF OutRefused, TypeOK, netVars
  <2> QED
    BY <2>1, <2>2
<1>2. DoesOut => /\ StatusAfterOut(self) \in Status
                 /\ LsnBeforeWrite(self) \in SUBSET {"IN", "OUT"}
  BY DEF DoesOut, StatusAfterOut, LsnBeforeWrite, TypeOK, Status
<1>3. ASSUME WriteFails PROVE TypeOK'
  BY <1>2, <1>3 DEF WriteFails, DoesOut, TypeOK, netVars, ghosts
<1>4. ASSUME NEW k \in 0..(2 * Limit), WriteSome(k) PROVE TypeOK'
  <2>1. self \in Conn
    BY <1>4 DEF WriteSome, DoesOut
  <2>2. wbuf' \in [Conn -> Nat] /\ canwrite' \in [Conn -> BOOLEAN]
    BY <1>4, <2>1 DEF WriteSome, TypeOK
  <2>3. lsn' \in [Conn -> SUBSET {"IN", "OUT"}] /\ armed' \in [Conn -> BOOLEAN]
    BY <1>2, <1>4, <2>1 DEF WriteSome, ModFd, TypeOK
  <2> QED
    BY <1>2, <1>4, <2>1, <2>2, <2>3 DEF WriteSome, TypeOK, ghosts
<1>5. ASSUME NEW room \in BOOLEAN, AllWritten(room)
      PROVE  /\ self \in Conn
             /\ wbuf' \in [Conn -> Nat] /\ canwrite' \in [Conn -> BOOLEAN]
             /\ lsn' \in [Conn -> SUBSET {"IN", "OUT"}] /\ armed' \in [Conn -> BOOLEAN]
             /\ UNCHANGED <<rbuf, waitOn, reqstat, dns, phase, batch, self, sock, sysin, left, ghosts>>
  <2>1. self \in Conn
    BY <1>5 DEF AllWritten, DoesOut
  <2>2. lsn' \in [Conn -> SUBSET {"IN", "OUT"}] /\ armed' \in [Conn -> BOOLEAN]
    <3>1. CASE {"OUT"} \subseteq LsnBeforeWrite(self) \/ status[self] = "CONNECTING"
      <4>1. ModFd(self, LsnBeforeWrite(self) \ {"OUT"}, sysin[self], room)
        BY <1>5, <3>1 DEF AllWritten
      <4>2. LsnBeforeWrite(self) \ {"OUT"} \in SUBSET {"IN", "OUT"}
        BY <1>2, <1>5 DEF AllWritten
      <4> QED
        BY <2>1, <4>1, <4>2 DEF ModFd, TypeOK
    <3>2. CASE ~({"OUT"} \subseteq LsnBeforeWrite(self) \/ status[self] = "CONNECTING")
      BY <1>5, <3>2 DEF AllWritten, TypeOK
    <3> QED
      BY <3>1, <3>2
  <2> QED
    BY <1>5, <2>1, <2>2 DEF AllWritten, TypeOK
<1>6. ASSUME NEW room \in BOOLEAN, WriteLast(room) PROVE TypeOK'
  BY <1>5, <1>6, SignalType DEF WriteLast, TypeOK, ghosts, JobSet
<1>7. ASSUME NEW room \in BOOLEAN, WriteAll(room) PROVE TypeOK'
  <2>1. ev' \in SUBSET Step
    BY <1>7 DEF WriteAll, Step
  <2>2. DoesOut
    BY <1>7 DEF WriteAll, AllWritten
  <2> QED
    BY <1>2, <1>5, <1>7, <2>1, <2>2 DEF WriteAll, TypeOK, ghosts
<1>8. ASSUME NEW w \in Conn, Wake(w) PROVE TypeOK'
  <2>1. jobs' \in Seq(JobSet)
    BY <1>8, OutJobs DEF Wake, JobEvent
  <2>2. lsn' \in [Conn -> SUBSET {"IN", "OUT"}] /\ armed' \in [Conn -> BOOLEAN]
    BY <1>8 DEF Wake, ModFd, TypeOK
  <2> QED
    BY <1>8, <2>1, <2>2 DEF Wake, TypeOK, ghosts, JobSet
<1> QED
  BY <1>1, <1>3, <1>4, <1>6, <1>7, <1>8 DEF HandlesOut

LEMMA DnsType ==
  ASSUME TypeOK, HandlesDns
  PROVE  TypeOK'
<1> USE ProxyAssumption
<1>1. ASSUME DnsSend PROVE TypeOK'
  BY <1>1 DEF DnsSend, TypeOK, netVars, ghosts
<1>2. ASSUME DnsReadDone PROVE TypeOK'
  BY <1>2 DEF DnsReadDone, TypeOK, connVars, netVars, ghosts
<1>3. ASSUME NEW b \in Backends, DnsNotFound(b) PROVE TypeOK'
  <2>1. SignalThisClose(b) /\ b \in Conn
    BY <1>3 DEF DnsNotFound, Conn
  <2> QED
    BY <1>3, <2>1, SignalType DEF DnsNotFound, TypeOK, netVars, ghosts, JobSet
<1>4. ASSUME NEW b \in Backends, NEW how \in {"open", "connecting"}, DnsFound(b, how)
      PROVE  TypeOK'
  BY <1>4 DEF DnsFound, TypeOK, Conn, Status, Sock, ConnectStatus, ConnectLsn, ghosts
<1> QED
  BY <1>1, <1>2, <1>3, <1>4 DEF HandlesDns

\* Types hold in the beginning ...
LEMMA TypeInit == Init => TypeOK
  BY ProxyAssumption DEF Init, TypeOK, NoEvents, Status, Sock

\* ... and after every step.
LEMMA TypeStep == TypeOK /\ LoopOK /\ [Next]_vars => TypeOK'
<1> SUFFICES ASSUME TypeOK, LoopOK, [Next]_vars PROVE TypeOK'
  OBVIOUS
<1>1. ASSUME Handler PROVE TypeOK'
  BY <1>1, CloseType, InType, RequestType, BackendType, OutType, DnsType DEF Handler
<1>2. ASSUME UNCHANGED vars PROVE TypeOK'
  BY <1>2 DEF vars, connVars, loopVars, netVars, ghosts, TypeOK
<1> QED
  BY <1>1, <1>2, NetworkType, LoopType DEF Next

-----------------------------------------------------------------------------
(* Steps that end nothing.                                                  *)

\* The promises of the job list about ends are kept.
Kept ==
  /\ \A c \in Conn, e \in Ends : DueIn(jobs, First, c, e) => DueIn(jobs', First', c, e)
  /\ \A c \in Conn : NextClosesIn(jobs, First, c) => NextClosesIn(jobs', First', c)
  /\ \A c, p \in Conn : ClosesFirstIn(jobs, First, c, p) => ClosesFirstIn(jobs', First', c, p)

\* A job to read or write, or none.
GentleJobs ==
  \/ jobs' = jobs
  \/ \E x \in Conn, e \in {"IN", "OUT"} : jobs' = AddConn(jobs, {e}, x) /\ Live(x)

\* Nobody's link changes, nothing starts to end, and nothing that ends stops.
Gentle ==
  /\ UNCHANGED <<peer, self, owner>>
  /\ phase' = phase \/ (self = None /\ phase # "jobs")
  /\ GentleJobs
  /\ Closing' => Closing
  /\ "CLOSE" \in ev => "CLOSE" \in ev'
  /\ ev = {} => ev' = {}
  /\ \A c \in Conn : Live(c) => Live(c)'
  /\ \A c \in Clients : status'[c] = "WORKING" =>
       status[c] = "WORKING" \/ (~Live(c) /\ self = None)
  /\ \A c \in Conn : status'[c] = "PEERCLOSED" =>
       status[c] = "PEERCLOSED" /\ (self = c /\ Closing => Closing')

\* The loop stands before the first job, or runs it.
LEMMA FirstIs == First \in {1, 2}
  BY DEF First

\* Adding a job keeps what the list promises about ends.
LEMMA AddKept ==
  ASSUME jobs \in Seq(JobSet), NEW evs, NEW x, Added(jobs, evs, x, jobs'), First' = First
  PROVE  Kept
<1>1. \A c \in Conn, e \in Ends : DueIn(jobs, First, c, e) => DueIn(jobs', First', c, e)
  BY AddedKeepsDue, FirstIs
<1>2. \A c \in Conn : NextClosesIn(jobs, First, c) => NextClosesIn(jobs', First', c)
  BY AddedKeepsNext, FirstIs
<1>3. \A c, p \in Conn : ClosesFirstIn(jobs, First, c, p) => ClosesFirstIn(jobs', First', c, p)
  BY AddedKeepsClosesFirst, FirstIs
<1> QED
  BY <1>1, <1>2, <1>3 DEF Kept

\* A job to read or write is no end and is of a live connection.
LEMMA GentleJobsKept ==
  ASSUME TypeOK, Alive, Gentle
  PROVE  /\ Kept /\ First' = First
         /\ \A c \in Conn : NoEndIn(jobs, First, c) => NoEndIn(jobs', First', c)
         /\ OnlyOf(jobs', First', LiveSet')
<1>1. First' = First
  BY DEF Gentle, First
<1>2. LiveSet \subseteq LiveSet'
  BY DEF LiveSet, Gentle
<1>3. jobs \in Seq(JobSet) /\ OnlyOf(jobs, First, LiveSet)
  BY DEF TypeOK, JobSet, Alive
<1>4. CASE jobs' = jobs
  <2>1. OnlyOf(jobs', First', LiveSet')
    BY <1>1, <1>2, <1>3, <1>4 DEF OnlyOf
  <2> QED
    BY <1>1, <1>4, <2>1 DEF Kept
<1>5. CASE jobs' # jobs
  <2>1. PICK x \in Conn, e \in {"IN", "OUT"} : jobs' = AddConn(jobs, {e}, x) /\ Live(x)
    BY <1>5 DEF Gentle, GentleJobs
  <2>2. Added(jobs, {e}, x, jobs')
    BY <1>3, <2>1, AddConnAdds DEF JobEvent
  <2>3. \A c \in Conn : NoEndIn(jobs, First, c) => NoEndIn(jobs', First', c)
    <3>1. {e} \cap Ends = {}
      BY DEF Ends
    <3> QED
      BY <1>1, <1>3, <2>2, <3>1, AddedKeepsNoEnd, FirstIs
  <2>4. OnlyOf(jobs', First', LiveSet')
    <3>1. x \in Conn => x \in LiveSet'
      BY <1>2, <2>1 DEF LiveSet
    <3> DEFINE f == First
               S == LiveSet
               T == LiveSet'
    <3>2. f \in {1, 2} /\ S \subseteq T /\ OnlyOf(jobs, f, S) /\ (x \in Conn => x \in T)
      BY <1>2, <1>3, <3>1, FirstIs
    <3>3. First' = f
      BY <1>1
    <3> HIDE DEF f, S, T
    <3>4. OnlyOf(jobs', f, T)
      BY <1>3, <2>2, <3>2 DEF Added, OnlyOf, ToRun
    <3> QED
      BY <3>3, <3>4 DEF T
  <2> QED
    BY <1>1, <1>3, <2>2, <2>3, <2>4, AddKept
<1> QED
  BY <1>4, <1>5

\* A gentle step keeps the invariant about links.
LEMMA GentleLinked ==
  ASSUME TypeOK, Linked, Gentle
  PROVE  Linked'
<1> USE ProxyAssumption
<1>1. Alive /\ Links /\ Told
  BY DEF Linked
<1>2. /\ Kept /\ First' = First
      /\ \A c \in Conn : NoEndIn(jobs, First, c) => NoEndIn(jobs', First', c)
      /\ OnlyOf(jobs', First', LiveSet')
  BY <1>1, GentleJobsKept
<1>3. Alive'
  BY <1>1, <1>2 DEF Alive, Gentle
<1>4. \A c \in Conn : NoEnd(c) => NoEnd(c)'
  BY <1>2 DEF NoEnd, Gentle
<1>5. \A c \in Conn : (Mutual(c) <=> Mutual(c)') /\ (Cut(c) <=> Cut(c)')
  BY DEF Mutual, Cut, Gentle
<1>6. \A c \in Clients : status'[c] = "WORKING" => NoEnd(c)'
  <2> SUFFICES ASSUME NEW c \in Clients, status'[c] = "WORKING" PROVE NoEnd(c)'
    OBVIOUS
  <2>1. CASE status[c] = "WORKING"
    BY <1>1, <1>4, <2>1 DEF Links, Conn
  <2>2. CASE ~Live(c) /\ self = None
    <3>1. NoEndIn(jobs, First, c)
      BY <1>1, <2>2 DEF Alive, OnlyOf, NoEndIn, LiveSet, Conn
    <3> QED
      BY <1>2, <2>2, <3>1 DEF NoEnd, Conn, Gentle
  <2> QED
    BY <2>1, <2>2 DEF Gentle
<1>7. ASSUME NEW c \in Conn, Cut(c), Doomed(c) PROVE Doomed(c)'
  <2>1. CASE ClosesNow(c)
    BY <2>1 DEF Doomed, ClosesNow, Gentle
  <2>2. CASE ClosesNext(c)
    <3>1. ClosesNext(c)'
      BY <1>2, <2>2 DEF ClosesNext, Kept, Gentle
    <3> QED
      BY <3>1 DEF Doomed
  <2>3. CASE ClosesAfter(c, peer[c])
    <3>1. peer[c] \in Conn /\ peer' = peer
      BY <1>7 DEF Cut, TypeOK, Gentle
    <3>2. Live(peer[c])' /\ (peer[c] \in Clients => status'[peer[c]] # "WORKING")
      BY <2>3, <3>1 DEF ClosesAfter, Gentle
    <3>3. ClosesAfter(c, peer[c])'
      BY <1>2, <2>3, <3>1, <3>2 DEF ClosesAfter, Kept, Gentle
    <3> QED
      BY <3>1, <3>3 DEF Doomed
  <2> QED
    BY <1>7, <2>1, <2>2, <2>3 DEF Doomed
<1>8. Links'
  <2>1. \A c \in Conn : Mutual(c)' => NoEnd(c)'
    BY <1>1, <1>4, <1>5 DEF Links
  <2>2. \A c \in Conn : Cut(c)' => Doomed(c)'
    BY <1>1, <1>5, <1>7 DEF Links
  <2>3. peer' = peer /\ owner' = owner
    BY DEF Gentle
  <2> QED
    BY <1>1, <1>5, <1>6, <2>1, <2>2, <2>3 DEF Links, Conn
<1>9. Told'
  BY <1>1, <1>2 DEF Told, Kept, Ends, Gentle
<1> QED
  BY <1>3, <1>8, <1>9 DEF Linked

\* The network touches no link and no job.
LEMMA NetworkGentle ==
  ASSUME TypeOK, Network
  PROVE  Gentle
<1> USE ProxyAssumption
<1>1. ASSUME NEW c \in Clients, Accept(c) PROVE Gentle
  BY <1>1 DEF Accept, Quiet, TypeOK, loopVars, ghosts, Conn, Gentle, GentleJobs, Live, Closing
<1>2. ASSUME UNCHANGED <<connVars, loopVars, ghosts>> PROVE Gentle
  BY <1>2 DEF connVars, loopVars, ghosts, Gentle, GentleJobs, Live, Closing
<1> QED
  BY <1>1, <1>2 DEF Network, Arrive, RemoteEof, RemoteReset, Drain, Connected

\* Neither do the timer's choice, epoll_wait and the change to the job phase.
LEMMA LoopGentle ==
  ASSUME Timer \/ StartJobs \/ \E r \in BOOLEAN : EvWait(r)
  PROVE  Gentle
<1>1. ASSUME NEW S, TimerFires(S) PROVE Gentle
  BY <1>1 DEF TimerFires, Quiet, connVars, ghosts, Gentle, GentleJobs, Live, Closing
<1>2. ASSUME StartJobs PROVE Gentle
  BY <1>2 DEF StartJobs, connVars, ghosts, Gentle, GentleJobs, Live, Closing
<1>3. ASSUME NEW r, EvWait(r) PROVE Gentle
  BY <1>3 DEF EvWait, connVars, ghosts, Gentle, GentleJobs, Live, Closing
<1> QED
  BY <1>1, <1>2, <1>3 DEF Timer

\* conn_handle_peerclose goes on to write or to close: it goes on ending.
LEMMA PeerCloseGentle ==
  ASSUME TypeOK, LoopOK, HandlePeerClose
  PROVE  Gentle
<1>1. UNCHANGED <<peer, self, owner, phase, jobs>>
  BY DEF HandlePeerClose, ghosts
<1>2. self \in Conn /\ "PEERCLOSE" \in ev /\ Closing /\ ev # {}
  BY DEF HandlePeerClose, Closing
<1>3. "CLOSE" \in ev => "CLOSE" \in ev'
  BY DEF HandlePeerClose
<1>4. \A c \in Conn : status'[c] = status[c] \/ status'[c] = "CLOSING_WRITE"
  BY DEF HandlePeerClose, TypeOK
<1>5. status'[self] = "PEERCLOSED" => "CLOSE" \in ev'
  BY <1>2 DEF HandlePeerClose, TypeOK
<1> QED
  BY <1>1, <1>2, <1>3, <1>4, <1>5 DEF Gentle, GentleJobs, Live, Closing, Conn

\* A step of a handler that is not about ends: it stays so, and a client goes
\* on with a request only while it is working.
Harmless ==
  /\ UNCHANGED <<peer, self, owner, phase, batch>>
  /\ GentleJobs
  /\ ~Closing /\ ~Closing' /\ ev # {}
  /\ \A c \in Conn :
       \/ status'[c] = status[c]
       \/ Live(c) /\ status'[c] \in {"CLOSING_WRITE", "CONNECTING"}
       \/ Live(c) /\ status'[c] = "WORKING" /\ c \in Backends
  /\ self = Dns => ev' \subseteq ev
  /\ self \in Clients /\ ev' \cap {"PARSE", "CONNECT"} # {} => status'[self] = "WORKING"
  /\ OneStage => OneStage'

LEMMA HarmlessGentle ==
  ASSUME Harmless
  PROVE  Gentle
<1>1. "CLOSE" \notin ev /\ Closing # TRUE
  BY DEF Harmless, Closing
<1> QED
  BY <1>1, ProxyAssumption DEF Harmless, Gentle, Live, Conn

\* Reading signals a close or is harmless.
LEMMA InGentle ==
  ASSUME TypeOK, LoopOK, Alive, HandlesIn, ~Fail(self)
  PROVE  Harmless
<1>1. DoesIn
  BY DEF HandlesIn, ReadSome, ReadFull, ReadFails
<1>2. UNCHANGED <<status, peer, self, owner, phase, jobs, batch>>
  BY DEF HandlesIn, ReadSome, ReadFull, ReadFails, ghosts
<1>3. ev' \subseteq (ev \ {"IN"}) \cup {"PARSE", "OUT"}
  BY DEF HandlesIn, ReadSome, ReadFull, ReadFails
<1>4. self \in Clients /\ ev' \cap {"PARSE", "CONNECT"} # {} => status[self] = "WORKING"
  BY ProxyAssumption DEF HandlesIn, ReadSome, ReadFull, ReadFails, LoopOK
<1>5. self # Dns
  BY <1>1, ProxyAssumption DEF DoesIn, Conn
<1> QED
  <2>1. OneStage => OneStage'
    <3>1. ev' \cap {"IN", "PARSE", "CONNECT"} \subseteq {"PARSE"} \/ ~OneStage
      BY <1>1, <1>3 DEF DoesIn, OneStage
    <3> QED
      BY <3>1 DEF OneStage
  <2> QED
    BY <1>1, <1>2, <1>3, <1>4, <1>5, <2>1 DEF DoesIn, Harmless, GentleJobs, Closing

\* So is treating a request, but for a change of the peer.
LEMMA RequestGentle ==
  ASSUME TypeOK, LoopOK, Alive,
         ParseDenied \/ ParseHead(FALSE) \/ UsePeer \/ ParseDone \/ \E x \in BOOLEAN : ParseBody(x)
  PROVE  Harmless
<1> USE ProxyAssumption
<1>1. self \in Clients /\ self \in Conn /\ self # Dns /\ ev \cap {"PARSE", "CONNECT"} # {}
  BY DEF ParseDenied, ParseHead, UsePeer, ParseDone, ParseBody, Parses, Connects, Conn
<1>2. ~Closing /\ status[self] = "WORKING"
  BY <1>1 DEF LoopOK
<1>3. ASSUME ParseDenied PROVE Harmless
  <2>1. ev' \cap {"IN", "PARSE", "CONNECT"} = {}
    BY <1>3 DEF ParseDenied, Parses, LoopOK, OneStage
  <2> QED
    BY <1>1, <1>2, <1>3, <2>1 DEF ParseDenied, ghosts, TypeOK, Harmless, GentleJobs, Closing, OneStage, Live
<1>4. ASSUME ParseHead(FALSE) PROVE Harmless
  <2>1. status' = status /\ peer' = peer /\ jobs' = jobs
    BY <1>4 DEF ParseHead, TypeOK
  <2> QED
    BY <1>1, <1>2, <1>4, <2>1 DEF ParseHead, ghosts, Harmless, GentleJobs, Closing, OneStage
<1>5. ASSUME UsePeer PROVE Harmless
  BY <1>1, <1>2, <1>5 DEF UsePeer, ghosts, Harmless, GentleJobs, Closing, OneStage
<1>6. ASSUME ParseDone PROVE Harmless
  BY <1>1, <1>2, <1>6 DEF ParseDone, connVars, ghosts, Harmless, GentleJobs, Closing, OneStage
<1>7. ASSUME NEW x \in BOOLEAN, ParseBody(x) PROVE Harmless
  <2>1. peer[self] \in Conn
    BY <1>1, <1>7 DEF ParseBody, TypeOK
  <2>2. GentleJobs
    BY <1>7, <2>1 DEF ParseBody, GentleJobs, Live
  <2> QED
    BY <1>1, <1>2, <1>7, <2>2 DEF ParseBody, ghosts, Harmless, Closing, OneStage
<1> QED
  BY <1>3, <1>4, <1>5, <1>6, <1>7

\* A backend that forwards only adds a job to write.
LEMMA BackendGentle ==
  ASSUME TypeOK, LoopOK, BackendForwards
  PROVE  Harmless
<1>1. self \in Conn /\ peer[self] \in Conn /\ ~Closing /\ ev # {}
      /\ self # Dns /\ self \notin Clients
  BY ProxyAssumption DEF BackendForwards, TypeOK, Conn, LoopOK
<1>2. GentleJobs
  BY <1>1 DEF BackendForwards, GentleJobs, Live
<1> QED
  BY <1>1, <1>2 DEF BackendForwards, ghosts, Harmless, Closing, OneStage

\* Writing is harmless but for the close after the last data.
LEMMA OutGentle ==
  ASSUME TypeOK, LoopOK, References, Alive, HandlesOut, ~Fail(self),
         \A room \in BOOLEAN : ~WriteLast(room)
  PROVE  Harmless
<1>1. CASE \E w \in Conn : Wake(w)
  <2>1. PICK w \in Conn : Wake(w)
    BY <1>1
  <2>2. Live(w) /\ ~Closing /\ ev # {}
    BY <2>1, ProxyAssumption DEF Wake, References, LoopOK, TypeOK
  <2>3. GentleJobs
    BY <2>1, <2>2 DEF Wake, GentleJobs
  <2>4. ~Closing'
    BY <2>1, <2>2 DEF Wake, Closing
  <2> QED
    BY <2>1, <2>2, <2>3, <2>4 DEF Wake, ghosts, Harmless, LoopOK, OneStage
<1>2. CASE OutRefused
  BY <1>2 DEF OutRefused, DoesOut, Harmless, GentleJobs, Closing, OneStage
<1>3. CASE WriteFails \/ (\E k \in 0..(2 * Limit) : WriteSome(k)) \/ \E room \in BOOLEAN : WriteAll(room)
  <2>1. DoesOut
    BY <1>3 DEF WriteFails, WriteSome, WriteAll, AllWritten
  <2>2. UNCHANGED <<peer, self, owner, phase, jobs, batch>>
    BY <1>3 DEF WriteFails, WriteSome, WriteAll, AllWritten, ghosts
  <2>3. status' = [status EXCEPT ![self] = StatusAfterOut(self)]
    BY <1>3 DEF WriteFails, WriteSome, WriteAll
  <2>4. ev' \subseteq {"WAKE"}
    BY <1>3 DEF WriteFails, WriteSome, WriteAll
  <2>5. StatusAfterOut(self) = status[self]
        \/ (Live(self) /\ StatusAfterOut(self) = "WORKING" /\ self \in Backends)
    BY <2>1 DEF StatusAfterOut, Live
  <2>6. self \in Conn /\ ev # {} /\ ~Closing /\ ~Closing'
    BY <2>1, <2>4 DEF DoesOut, Closing
  <2>7. \A c \in Conn :
          \/ status'[c] = status[c]
          \/ Live(c) /\ status'[c] = "WORKING" /\ c \in Backends
    BY <2>3, <2>5, <2>6 DEF TypeOK
  <2> QED
    BY <2>2, <2>4, <2>6, <2>7, ProxyAssumption DEF Harmless, GentleJobs, OneStage, Conn
<1> QED
  BY <1>1, <1>2, <1>3 DEF HandlesOut

\* An address that was found leaves links and jobs alone.
LEMMA DnsGentle ==
  ASSUME TypeOK, LoopOK, References, HandlesDns, \A b \in Backends : ~DnsNotFound(b)
  PROVE  Harmless
<1>1. self = Dns /\ self \notin Clients /\ ev # {} /\ ~Closing
  BY ProxyAssumption DEF HandlesDns, DnsSend, DnsReadDone, DnsNotFound, DnsFound, LoopOK, Closing
<1>2. ASSUME NEW b \in Backends, NEW how \in {"open", "connecting"}, DnsFound(b, how)
      PROVE  Harmless
  <2>1. Live(b) /\ b \in Conn
    BY <1>2 DEF DnsFound, References, Conn
  <2>2. ConnectStatus(how) \in {"WORKING", "CONNECTING"}
    BY DEF ConnectStatus
  <2>3. status' = [status EXCEPT ![b] = ConnectStatus(how)]
    BY <1>2 DEF DnsFound
  <2>4. \A c \in Conn : c # b => status'[c] = status[c]
    BY <2>3 DEF TypeOK
  <2>5. status'[b] = ConnectStatus(how)
    BY <2>1, <2>3 DEF TypeOK
  <2> QED
    BY <1>1, <1>2, <2>1, <2>2, <2>4, <2>5 DEF DnsFound, ghosts, Harmless, GentleJobs, Closing, OneStage
<1>3. ASSUME DnsSend \/ DnsReadDone PROVE Harmless
  BY <1>1, <1>3 DEF DnsSend, DnsReadDone, connVars, ghosts, Harmless, GentleJobs, Closing, OneStage
<1> QED
  BY <1>2, <1>3 DEF HandlesDns

-----------------------------------------------------------------------------
(* A connection is signalled to close (conn_peer.c:14-33).                  *)

\* The running handler ends its own connection in no state but one that goes
\* on; the timer and the DNS connection end others outside the job phase.
Signals(c) ==
  /\ SignalThisClose(c)
  /\ UNCHANGED <<self, phase, owner>>
  /\ phase # "wait"
  /\ batch' = batch \/ (phase = "timer" /\ batch' = [batch EXCEPT ![c] = {}])
  /\ Live(c)
  /\ \/ self = c /\ ~Closing /\ ev # {} /\ ev' = {}
     \/ self \notin Conn /\ phase # "jobs" /\ ev' = ev /\ ~Closing

\* Whoever is signalled has a link that is mutual, or whose other end has
\* lost its own.
LEMMA SignalledLink ==
  ASSUME TypeOK, Links, NEW c \in Conn, Signals(c)
  PROVE  peer[c] = None \/ Mutual(c) \/ (Cut(c) /\ ClosesAfter(c, peer[c]))
<1>1. ~ClosesNow(c)
  BY DEF ClosesNow, Signals, Closing
<1>2. ~ClosesNext(c)
  BY DEF ClosesNext, Signals
<1> QED
  BY <1>1, <1>2 DEF Links, Mutual, Cut, Doomed

\* The two jobs of a signal: PEERCLOSE for the peer, CLOSE for c.
LEMMA SignalAdds ==
  ASSUME TypeOK, NEW c \in Conn, SignalThisClose(c)
  PROVE  \E s \in Seq(JobSet) :
           /\ IF peer[c] = None THEN s = jobs ELSE Added(jobs, {"PEERCLOSE"}, peer[c], s)
           /\ Added(s, {"CLOSE"}, c, jobs')
<1> DEFINE s == AfterPeerClose(jobs, peer[c])
<1>1. jobs \in Seq(JobSet) /\ peer[c] \in Conn \cup {None}
  BY DEF TypeOK, JobSet
<1>2. s \in Seq(JobSet) /\ IF peer[c] = None THEN s = jobs ELSE Added(jobs, {"PEERCLOSE"}, peer[c], s)
  <2>1. CASE peer[c] = None
    BY <1>1, <2>1 DEF AfterPeerClose
  <2>2. CASE peer[c] # None
    <3>1. Added(jobs, {"PEERCLOSE"}, peer[c], AddConn(jobs, {"PEERCLOSE"}, peer[c]))
      BY <1>1, <2>2, AddConnAdds DEF JobEvent
    <3> QED
      BY <2>2, <3>1 DEF AfterPeerClose, Added
  <2> QED
    BY <2>1, <2>2
<1>3. Added(s, {"CLOSE"}, c, AddConn(s, {"CLOSE"}, c))
  BY <1>2, AddConnAdds DEF JobEvent
<1>4. jobs' = AddConn(s, {"CLOSE"}, c)
  BY DEF SignalThisClose
<1> HIDE DEF s
<1> QED
  BY <1>2, <1>3, <1>4

\* What a signal does to the job list.
SignalDoes(c, p) ==
  /\ Kept
  /\ \A x \in Conn \ {c, p} : NoEndIn(jobs, First, x) => NoEndIn(jobs', First', x)
  /\ p # None /\ NoEndIn(jobs, First, p) => ClosesFirstIn(jobs', First', c, p)
  /\ p # None => DueIn(jobs', First', p, "PEERCLOSE")
  /\ OnlyOf(jobs', First', LiveSet')

\* What a signal does to the promises of the list.
LEMMA SignalJobsDo ==
  ASSUME TypeOK, LoopOK, Linked, NEW c \in Conn, Signals(c)
  PROVE  SignalDoes(c, peer[c])
<1> USE ProxyAssumption
<1> DEFINE p == peer[c]
           f == First
<1>1. PICK s \in Seq(JobSet) :
        /\ IF p = None THEN s = jobs ELSE Added(jobs, {"PEERCLOSE"}, p, s)
        /\ Added(s, {"CLOSE"}, c, jobs')
  BY SignalAdds DEF Signals
<1>2. /\ jobs \in Seq(JobSet) /\ p \in Conn \cup {None} /\ p # c
      /\ OnlyOf(jobs, f, LiveSet)
  BY DEF TypeOK, JobSet, Linked, Links, Alive, Conn
<1>3. First' = f /\ f \in {1, 2}
  BY DEF First, Signals
<1>4. p # None /\ f = 2 => jobs # <<>> /\ jobs[1].conn # p
  BY <1>2 DEF First, LoopOK, Signals
<1>5. Kept
  <2>1. \A x \in Conn, e \in Ends : DueIn(jobs, f, x, e) => DueIn(s, f, x, e)
    BY <1>1, <1>2, <1>3, AddedKeepsDue
  <2>2. \A x \in Conn : NextClosesIn(jobs, f, x) => NextClosesIn(s, f, x)
    BY <1>1, <1>2, <1>3, AddedKeepsNext
  <2>3. \A x, y \in Conn : ClosesFirstIn(jobs, f, x, y) => ClosesFirstIn(s, f, x, y)
    BY <1>1, <1>2, <1>3, AddedKeepsClosesFirst
  <2>4. \A x \in Conn, e \in Ends : DueIn(s, f, x, e) => DueIn(jobs', f, x, e)
    BY <1>1, <1>3, AddedKeepsDue
  <2>5. \A x \in Conn : NextClosesIn(s, f, x) => NextClosesIn(jobs', f, x)
    BY <1>1, <1>3, AddedKeepsNext
  <2>6. \A x, y \in Conn : ClosesFirstIn(s, f, x, y) => ClosesFirstIn(jobs', f, x, y)
    BY <1>1, <1>3, AddedKeepsClosesFirst
  <2> QED
    BY <1>3, <2>1, <2>2, <2>3, <2>4, <2>5, <2>6 DEF Kept
<1>6. \A x \in Conn \ {c, p} : NoEndIn(jobs, f, x) => NoEndIn(jobs', f, x)
  <2>1. \A x \in Conn \ {c, p} : NoEndIn(jobs, f, x) => NoEndIn(s, f, x)
    BY <1>1, <1>2, <1>3, AddedKeepsNoEnd
  <2>2. \A x \in Conn \ {c, p} : NoEndIn(s, f, x) => NoEndIn(jobs', f, x)
    BY <1>1, <1>3, AddedKeepsNoEnd
  <2> QED
    BY <2>1, <2>2
<1>7. p # None /\ NoEndIn(jobs, f, p) => ClosesFirstIn(jobs', f, c, p)
  BY <1>1, <1>2, <1>3, SignalClosesFirst
<1>8. p # None => DueIn(jobs', f, p, "PEERCLOSE")
  <2> SUFFICES ASSUME p # None PROVE DueIn(jobs', f, p, "PEERCLOSE")
    OBVIOUS
  <2>1. Added(jobs, {"PEERCLOSE"}, p, s)
    BY <1>1
  <2>2. DueIn(s, f, p, "PEERCLOSE")
    BY <1>2, <1>3, <1>4, <2>1, AddedIsDue
  <2> QED
    BY <1>1, <1>3, <2>2, AddedKeepsDue
<1>9. OnlyOf(jobs', f, LiveSet')
  <2>1. LiveSet \subseteq LiveSet' /\ c \in LiveSet' /\ (p # None => p \in LiveSet')
    BY <1>2 DEF LiveSet, Live, Signals, SignalThisClose
  <2>2. OnlyOf(s, f, LiveSet')
    <3>1. CASE p = None
      BY <1>1, <1>2, <2>1, <3>1 DEF OnlyOf
    <3>2. CASE p # None
      BY <1>1, <1>2, <2>1, <3>2 DEF Added, OnlyOf, ToRun
    <3> QED
      BY <3>1, <3>2
  <2> QED
    BY <1>1, <2>1, <2>2 DEF Added, OnlyOf, ToRun
<1> QED
  BY <1>3, <1>5, <1>6, <1>7, <1>8, <1>9 DEF SignalDoes

\* A signal cuts one half of a link and dooms the holder of the other.
LEMMA SignalLinked ==
  ASSUME TypeOK, LoopOK, Linked, NEW c \in Conn, Signals(c)
  PROVE  Linked'
<1> USE ProxyAssumption
<1> DEFINE p == peer[c]
<1>0. None \notin Conn
  BY DEF Conn
<1>1. Alive /\ Links /\ Told
  BY DEF Linked
<1>2. p = None \/ Mutual(c) \/ (Cut(c) /\ ClosesAfter(c, p))
  BY <1>1, SignalledLink
<1>3. SignalDoes(c, p)
  BY SignalJobsDo
<1>4. p \in Conn \cup {None} /\ p # c
  BY <1>1 DEF TypeOK, Links, Conn
<1>5. /\ \A x \in Conn : status'[x] = IF x = p THEN "PEERCLOSED" ELSE IF x = c THEN "CLOSED" ELSE status[x]
      /\ \A x \in Conn : peer'[x] = IF x = p THEN None ELSE peer[x]
  BY DEF Signals, SignalThisClose
<1>6. self' = self /\ phase' = phase /\ owner' = owner /\ ~Closing /\ ~Closing'
      /\ (self = c \/ self \notin Conn)
  BY DEF Signals, Closing
<1>7. Alive'
  <2>1. self \in Conn => ev' = {}
    BY DEF Signals
  <2>2. \A x \in Conn : peer'[x] # None => Live(x)'
    BY <1>1, <1>5 DEF Alive, Live
  <2> QED
    BY <1>3, <1>6, <2>1, <2>2 DEF Alive, SignalDoes
<1>8. \A x \in Conn : Mutual(x)' => Mutual(x) /\ x \notin {c, p} /\ peer'[x] = peer[x]
  <2> SUFFICES ASSUME NEW x \in Conn, Mutual(x)'
               PROVE  Mutual(x) /\ x \notin {c, p} /\ peer'[x] = peer[x]
    OBVIOUS
  <2>1. peer'[x] = peer[x] /\ x # p /\ peer[x] \in Conn
    BY <1>5 DEF Mutual, TypeOK
  <2>2. peer[x] # p /\ peer[peer[x]] = x
    BY <1>0, <1>5, <2>1 DEF Mutual
  <2> QED
    BY <2>1, <2>2 DEF Mutual
<1>9. \A x \in Conn \ {c, p} : NoEnd(x) => NoEnd(x)'
  BY <1>3, <1>6 DEF NoEnd, SignalDoes
<1>10. ASSUME NEW x \in Conn, Cut(x)' PROVE Doomed(x)'
  <2> DEFINE y == peer[x]
  <2>1. x # p /\ peer'[x] = y /\ y \in Conn /\ peer'[y] # x
    BY <1>5, <1>10 DEF Cut, TypeOK
  <2>2. CASE x = c
    <3>1. CASE Mutual(c)
      <4>1. p \in Conn /\ Mutual(p)
        BY <1>0, <1>4, <3>1 DEF Mutual
      <4>2. NoEndIn(jobs, First, p)
        BY <1>1, <4>1 DEF Links, NoEnd
      <4>3. ClosesFirstIn(jobs', First', c, p)
        BY <1>0, <1>3, <4>1, <4>2 DEF SignalDoes
      <4>4. peer'[p] = None /\ Live(p)' /\ status'[p] # "WORKING"
        BY <1>5, <2>1, <2>2, <4>1 DEF Live
      <4>5. ClosesAfter(c, p)'
        BY <1>6, <2>1, <2>2, <4>3, <4>4 DEF ClosesAfter
      <4> QED
        BY <2>1, <2>2, <4>5 DEF Doomed
    <3>2. CASE Cut(c) /\ ClosesAfter(c, p)
      <4>1. ClosesFirstIn(jobs', First', c, p)
        BY <1>3, <2>1, <2>2, <3>2 DEF ClosesAfter, SignalDoes, Kept
      <4>2. peer'[p] = None /\ Live(p)' /\ status'[p] # "WORKING"
        BY <1>5, <2>1, <2>2 DEF Live
      <4>3. ClosesAfter(c, p)'
        BY <1>6, <2>1, <2>2, <4>1, <4>2 DEF ClosesAfter
      <4> QED
        BY <2>1, <2>2, <4>3 DEF Doomed
    <3> QED
      BY <1>0, <1>2, <2>1, <2>2, <3>1, <3>2
  <2>3. CASE x # c
    <3>1. Cut(x)
      <4> SUFFICES ASSUME peer[y] = x PROVE FALSE
        BY <1>0, <2>1 DEF Cut
      <4>1. y = p
        BY <1>5, <2>1
      <4>2. ~Mutual(c) /\ p # None
        BY <1>0, <2>1, <2>3, <4>1 DEF Mutual
      <4>3. peer[p] = None
        BY <1>2, <4>2 DEF ClosesAfter
      <4> QED
        BY <1>0, <2>1, <4>1, <4>3
    <3>2. Doomed(x) /\ self # x
      BY <1>1, <1>6, <2>3, <3>1 DEF Links
    <3>3. CASE ClosesNext(x)
      <4>1. ClosesNext(x)'
        BY <1>3, <1>6, <3>2, <3>3 DEF ClosesNext, SignalDoes, Kept
      <4> QED
        BY <4>1 DEF Doomed
    <3>4. CASE ClosesAfter(x, y)
      <4>1. ClosesFirstIn(jobs', First', x, y)
        BY <1>3, <2>1, <3>4 DEF ClosesAfter, SignalDoes, Kept
      <4>2. peer'[y] = None /\ Live(y)' /\ (y \in Clients => status'[y] # "WORKING")
        BY <1>5, <2>1, <3>4 DEF Live, ClosesAfter
      <4>3. ClosesAfter(x, y)'
        BY <1>6, <2>1, <4>1, <4>2 DEF ClosesAfter
      <4> QED
        BY <2>1, <4>3 DEF Doomed
    <3> QED
      BY <3>2, <3>3, <3>4 DEF Doomed, ClosesNow
  <2> QED
    BY <2>2, <2>3
<1>11. Links'
  <2>1. \A x \in Conn : peer'[x] # None => (x \in Clients <=> peer'[x] \in Backends)
    BY <1>1, <1>5 DEF Links
  <2>2. \A x \in Conn : Mutual(x)' => NoEnd(x)'
    BY <1>1, <1>8, <1>9 DEF Links
  <2>3. \A x \in Clients : status'[x] = "WORKING" => NoEnd(x)'
    BY <1>1, <1>5, <1>9 DEF Links, Conn
  <2>4. \A b \in Backends : Mutual(b)' => owner'[b] = peer'[b]
    BY <1>1, <1>6, <1>8 DEF Links, Conn
  <2> QED
    BY <1>10, <2>1, <2>2, <2>3, <2>4 DEF Links
<1>12. Told'
  <2> SUFFICES ASSUME NEW x \in Conn, status'[x] = "PEERCLOSED"
               PROVE  \/ DueIn(jobs', First', x, "PEERCLOSE")
                      \/ DueIn(jobs', First', x, "CLOSE")
    BY DEF Told
  <2>1. CASE x = p
    BY <1>3, <2>1, ProxyAssumption DEF SignalDoes, Conn
  <2>2. CASE x # p
    <3>1. status[x] = "PEERCLOSED"
      BY <1>5, <2>2
    <3> QED
      BY <1>1, <1>3, <1>6, <3>1 DEF Told, SignalDoes, Kept, Ends
  <2> QED
    BY <2>1, <2>2
<1> QED
  BY <1>7, <1>11, <1>12 DEF Linked

-----------------------------------------------------------------------------
(* A connection is freed (conn_peer.c:50-59).                               *)

\* The one that is freed is linked with nobody, and whoever still points to it
\* closes next.
LEMMA FreeLinked ==
  ASSUME TypeOK, LoopOK, Linked, HandleThisClose
  PROVE  Linked'
<1> USE ProxyAssumption
<1> DEFINE f == First
<1>0. None \notin Conn /\ Dns \notin Conn
  BY DEF Conn
<1>1. Alive /\ Links /\ Told
  BY DEF Linked
<1>2. /\ self \in Conn /\ Closing /\ phase = "jobs" /\ self' = self /\ phase' = phase
      /\ ev' = {} /\ ~Closing'
  BY DEF HandleThisClose, Closing, LoopOK
<1>3. First' = f
  BY <1>2 DEF First
<1>4. /\ \A x \in Conn : status'[x] = IF x = self THEN "FREE" ELSE status[x]
      /\ \A x \in Conn : peer'[x] = IF x = self THEN None ELSE peer[x]
      /\ \A b \in Backends : owner'[b] = IF self \in {b, owner[b]} THEN None ELSE owner[b]
  BY DEF HandleThisClose, TypeOK
<1>5. StillRuns(jobs, f, self, jobs')
  <2>1. Deleted(jobs, self, jobs')
    BY DelConnDeletes DEF HandleThisClose, TypeOK, JobSet
  <2> QED
    <3>1. jobs \in Seq(JobSet) /\ f \in {1, 2}
      BY FirstIs DEF TypeOK, JobSet
    <3> QED
      BY <2>1, <3>1, DeletedRuns
<1>6. /\ \A x \in Conn \ {self}, e \in Ends : DueIn(jobs, f, x, e) => DueIn(jobs', f, x, e)
      /\ \A x \in Conn : NoEndIn(jobs, f, x) => NoEndIn(jobs', f, x)
      /\ \A x \in Conn \ {self} : NextClosesIn(jobs, f, x) => NextClosesIn(jobs', f, x)
      /\ \A x \in Conn \ {self}, y \in Conn : ClosesFirstIn(jobs, f, x, y) => ClosesFirstIn(jobs', f, x, y)
  BY <1>5, DeletedKeepsDue, DeletedKeepsNoEnd, DeletedKeepsNext, DeletedKeepsClosesFirst
<1>7. OnlyOf(jobs', f, LiveSet')
  <2>1. LiveSet' = LiveSet \ {self}
    BY <1>4 DEF LiveSet, Live
  <2>2. OnlyOf(jobs', f, LiveSet \ {self})
    BY <1>1, <1>5 DEF Alive, StillRuns, OnlyOf
  <2> QED
    BY <2>1, <2>2
<1>8. Alive'
  <2>1. \A x \in Conn : peer'[x] # None => Live(x)'
    BY <1>1, <1>4 DEF Alive, Live
  <2> QED
    BY <1>2, <1>3, <1>7, <2>1 DEF Alive
<1>9. \A x \in Conn : Mutual(x)' =>
        Mutual(x) /\ x # self /\ peer[x] # self /\ peer'[x] = peer[x]
  <2> SUFFICES ASSUME NEW x \in Conn, Mutual(x)'
               PROVE  Mutual(x) /\ x # self /\ peer[x] # self /\ peer'[x] = peer[x]
    OBVIOUS
  <2>1. peer'[x] = peer[x] /\ x # self /\ peer[x] \in Conn
    BY <1>0, <1>4 DEF Mutual, TypeOK
  <2>2. peer[x] # self /\ peer[peer[x]] = x
    BY <1>0, <1>4, <2>1 DEF Mutual
  <2> QED
    BY <1>0, <2>1, <2>2 DEF Mutual
<1>10. \A x \in Conn : NoEnd(x) => NoEnd(x)'
  BY <1>2, <1>3, <1>6 DEF NoEnd
<1>11. ASSUME NEW x \in Conn, Cut(x)' PROVE Doomed(x)'
  <2> DEFINE y == peer[x]
  <2>1. x # self /\ peer'[x] = peer[x] /\ y \in Conn /\ peer'[y] # x
    BY <1>4, <1>11 DEF Cut, TypeOK
  <2>2. Cut(x)
    <3> SUFFICES ASSUME peer[y] = x PROVE FALSE
      BY <1>0, <2>1 DEF Cut
    <3>1. y = self
      BY <1>4, <2>1
    <3>2. Mutual(self)
      BY <1>0, <2>1, <3>1 DEF Mutual
    <3> QED
      BY <1>1, <1>2, <3>2 DEF Links, NoEnd
  <2>3. Doomed(x)
    BY <1>1, <2>2 DEF Links
  <2>4. ASSUME NextClosesIn(jobs, f, x) PROVE Doomed(x)'
    <3>1. ClosesNext(x)'
      BY <1>2, <1>3, <1>6, <2>1, <2>4 DEF ClosesNext
    <3> QED
      BY <3>1 DEF Doomed
  <2>5. CASE ClosesAfter(x, y) /\ y # self
    <3>1. /\ ClosesFirstIn(jobs', First', x, y)
          /\ status'[y] # "FREE" /\ peer'[y] = None
          /\ y \in Clients => status'[y] # "WORKING"
      BY <1>3, <1>4, <1>6, <2>1, <2>5 DEF ClosesAfter, Live
    <3>2. ClosesAfter(x, y)'
      BY <1>2, <2>1, <3>1 DEF ClosesAfter, Live
    <3> QED
      BY <2>1, <3>2 DEF Doomed
  <2> QED
    BY <1>2, <2>1, <2>3, <2>4, <2>5 DEF Doomed, ClosesNow, ClosesNext, ClosesAfter
<1>12. Links'
  <2>1. \A x \in Conn : peer'[x] # None => (x \in Clients <=> peer'[x] \in Backends)
    BY <1>1, <1>4 DEF Links
  <2>2. \A x \in Conn : Mutual(x)' => NoEnd(x)'
    BY <1>1, <1>9, <1>10 DEF Links
  <2>3. \A x \in Clients : status'[x] = "WORKING" => NoEnd(x)'
    BY <1>1, <1>4, <1>10 DEF Links, Conn
  <2>4. \A b \in Backends : Mutual(b)' => owner'[b] = peer'[b]
    BY <1>1, <1>4, <1>9 DEF Links, Conn
  <2> QED
    BY <1>11, <2>1, <2>2, <2>3, <2>4 DEF Links
<1>13. Told'
  BY <1>1, <1>3, <1>4, <1>6 DEF Told, Ends
<1> QED
  BY <1>8, <1>12, <1>13 DEF Linked

-----------------------------------------------------------------------------
(* The loop takes a job, and leaves it (server.c).                          *)

\* A close that is next runs now.
LEMMA TakeLinked ==
  ASSUME TypeOK, LoopOK, Linked, RunJob
  PROVE  Linked'
<1> USE ProxyAssumption
<1>0. None \notin Conn \cup {Dns} /\ Dns \notin Conn
  BY DEF Conn
<1>1. Alive /\ Links /\ Told
  BY DEF Linked
<1>2. /\ jobs \in Seq(JobSet) /\ jobs # <<>> /\ ~jobs[1].deld
      /\ self = None /\ ev = {} /\ phase = "jobs" /\ First = 1
      /\ self' = jobs[1].conn /\ ev' = jobs[1].events
      /\ UNCHANGED <<jobs, phase, status, peer, owner>>
  BY DEF RunJob, TypeOK, JobSet, LoopOK, First, connVars
<1>3. self' \in Conn \cup {Dns} /\ First' = 2
  <2>1. jobs[1] \in JobSet
    BY <1>2
  <2> QED
    BY <1>0, <1>2, <2>1 DEF JobSet, Job, First
<1>4. Alive'
  BY <1>1, <1>2, <1>3, TakenOnlyOf DEF Alive, LiveSet, Live
<1>5. \A x \in Conn : NoEnd(x) => NoEnd(x)'
  <2> SUFFICES ASSUME NEW x \in Conn, NoEnd(x) PROVE NoEnd(x)'
    OBVIOUS
  <2>1. NoEndIn(jobs, 1, x)
    BY <1>2 DEF NoEnd
  <2>2. NoEndIn(jobs, 2, x)
    BY <1>2, <2>1, TakenNoEnd
  <2>3. jobs[1].conn = x => jobs[1].events \cap Ends = {}
    BY <1>2, <2>1, TakenEnds
  <2> QED
    BY <1>2, <1>3, <2>2, <2>3 DEF NoEnd, Closing, Ends
<1>6. ASSUME NEW x \in Conn, Cut(x), Doomed(x) PROVE Doomed(x)'
  <2> DEFINE y == peer[x]
  <2>1. y \in Conn /\ y # x
    BY <1>1, <1>6 DEF Cut, TypeOK, Links, Conn
  <2>2. CASE ClosesNext(x)
    <3>1. NextClosesIn(jobs, 1, x)
      BY <1>2, <2>2 DEF ClosesNext
    <3>2. IF jobs[1].conn = x THEN "CLOSE" \in jobs[1].events ELSE NextClosesIn(jobs, 2, x)
      BY <1>2, <3>1, TakenNext
    <3> QED
      BY <1>2, <1>3, <3>2 DEF Doomed, ClosesNow, ClosesNext
  <2>3. CASE ClosesAfter(x, y)
    <3>1. ClosesFirstIn(jobs, 1, x, y)
      BY <1>2, <2>3 DEF ClosesAfter
    <3>2. \/ jobs[1].conn = x /\ "CLOSE" \in jobs[1].events
          \/ /\ ClosesFirstIn(jobs, 2, x, y)
             /\ jobs[1].conn = y /\ jobs[1].events \cap Ends # {} => NextClosesIn(jobs, 2, x)
      BY <1>2, <2>1, <3>1, TakenClosesFirst
    <3>3. ASSUME ClosesFirstIn(jobs, 2, x, y),
                 jobs[1].conn = y /\ jobs[1].events \cap Ends # {} => NextClosesIn(jobs, 2, x)
          PROVE  ClosesAfter(x, peer[x])'
      BY <1>2, <1>3, <2>1, <2>3, <3>3 DEF ClosesAfter, Live, Closing, Ends
    <3> QED
      BY <1>2, <3>2, <3>3 DEF Doomed, ClosesNow
  <2> QED
    BY <1>2, <1>6, <2>2, <2>3 DEF Doomed, ClosesNow
<1>7. Links'
  <2>1. \A x \in Conn : (Mutual(x)' <=> Mutual(x)) /\ (Cut(x)' <=> Cut(x))
    BY <1>2 DEF Mutual, Cut
  <2> QED
    BY <1>1, <1>2, <1>5, <1>6, <2>1 DEF Links, Conn
<1>8. Told'
  <2>1. \A x \in Conn, e \in Ends : DueIn(jobs, 1, x, e) =>
          (jobs[1].conn = x /\ e \in jobs[1].events) \/ DueIn(jobs, 2, x, e)
    BY <1>2, TakenDue
  <2> QED
    BY <1>0, <1>1, <1>2, <1>3, <2>1 DEF Told, Closing, Ends
<1> QED
  BY <1>4, <1>7, <1>8 DEF Linked

\* Nobody runs, and the loop goes on: what was promised is still ahead.
Leaves ==
  /\ UNCHANGED <<status, peer, owner, phase, batch>>
  /\ self' = None /\ ev = {} /\ ev' = {}
  /\ IF phase = "jobs" THEN Left(jobs, First, jobs') ELSE jobs' = jobs

\* A handler that returns has treated all its events.
LEMMA LeavesLinked ==
  ASSUME TypeOK, Linked, Leaves
  PROVE  Linked'
<1> USE ProxyAssumption
<1>0. None \notin Conn
  BY DEF Conn
<1>1. Alive /\ Links /\ Told
  BY DEF Linked
<1>2. First' = 1 /\ ~Closing /\ ~Closing' /\ LiveSet' = LiveSet
  BY DEF First, Leaves, Closing, LiveSet, Live
<1>3. /\ \A x \in Conn, e \in Ends : DueIn(jobs, First, x, e) => DueIn(jobs', 1, x, e)
      /\ \A x \in Conn : NoEndIn(jobs, First, x) => NoEndIn(jobs', 1, x)
      /\ \A x \in Conn : NextClosesIn(jobs, First, x) => NextClosesIn(jobs', 1, x)
      /\ \A x, y \in Conn : ClosesFirstIn(jobs, First, x, y) => ClosesFirstIn(jobs', 1, x, y)
      /\ OnlyOf(jobs', 1, LiveSet)
  <2>1. CASE phase = "jobs"
    <3>1. Left(jobs, First, jobs')
      BY <2>1 DEF Leaves
    <3>2. OnlyOf(jobs, First, LiveSet)
      BY <1>1 DEF Alive
    <3>3. OnlyOf(jobs', 1, LiveSet)
      BY <3>1, <3>2, LeftOnlyOf
    <3> QED
      BY <3>1, <3>3, LeftDue, LeftNoEnd, LeftNext, LeftClosesFirst
  <2>2. CASE phase # "jobs"
    <3>1. jobs' = jobs /\ First = 1
      BY <2>2 DEF Leaves, First
    <3> QED
      BY <1>1, <3>1 DEF Alive
  <2> QED
    BY <2>1, <2>2
<1>4. Alive'
  BY <1>0, <1>1, <1>2, <1>3 DEF Alive, Leaves, Live
<1>5. \A x \in Conn : NoEnd(x) => NoEnd(x)'
  BY <1>2, <1>3 DEF NoEnd
<1>6. ASSUME NEW x \in Conn, Cut(x), Doomed(x) PROVE Doomed(x)'
  <2>1. peer[x] \in Conn
    BY <1>6 DEF Cut, TypeOK
  <2>2. CASE ClosesNext(x)
    <3>1. ClosesNext(x)'
      BY <1>0, <1>2, <1>3, <2>2 DEF ClosesNext, Leaves
    <3> QED
      BY <3>1 DEF Doomed
  <2>3. CASE ClosesAfter(x, peer[x])
    <3>1. ClosesAfter(x, peer[x])'
      BY <1>2, <1>3, <2>1, <2>3 DEF ClosesAfter, Leaves, Live
    <3> QED
      BY <3>1 DEF Doomed
  <2> QED
    BY <1>6, <2>2, <2>3 DEF Doomed, ClosesNow, Leaves
<1>7. Links'
  <2>1. \A x \in Conn : (Mutual(x)' <=> Mutual(x)) /\ (Cut(x)' <=> Cut(x))
    BY DEF Mutual, Cut, Leaves
  <2>2. UNCHANGED <<status, peer, owner>>
    BY DEF Leaves
  <2> QED
    BY <1>1, <1>5, <1>6, <2>1, <2>2 DEF Links, Conn
<1>8. Told'
  BY <1>1, <1>2, <1>3 DEF Told, Leaves, Ends
<1> QED
  BY <1>4, <1>7, <1>8 DEF Linked

\* All jobs are done: no link is cut any more.
LEMMA EndLinked ==
  ASSUME TypeOK, Linked, EndJobs
  PROVE  Linked'
<1>1. Alive /\ Links /\ Told
  BY DEF Linked
<1>2. /\ jobs = <<>> /\ jobs' = <<>> /\ self = None /\ self' = None
      /\ UNCHANGED <<status, peer, owner, ev>> /\ First' = 1
  BY DEF EndJobs, connVars, ghosts, First
<1>3. \A c, p \in Conn : ~NextClosesIn(jobs, First, c) /\ ~ClosesFirstIn(jobs, First, c, p)
  BY <1>2 DEF NextClosesIn, ClosesFirstIn
<1>4. \A c \in Conn : ~Cut(c)
  <2> SUFFICES ASSUME NEW c \in Conn, Cut(c) PROVE FALSE
    OBVIOUS
  <2>1. peer[c] \in Conn /\ Doomed(c)
    BY <1>1 DEF Links, Cut, TypeOK
  <2> QED
    BY <1>2, <1>3, <2>1, ProxyAssumption DEF Doomed, ClosesNow, ClosesNext, ClosesAfter, Conn
<1>5. \A c \in Conn : (Cut(c)' <=> Cut(c)) /\ (Mutual(c)' <=> Mutual(c))
  BY <1>2 DEF Cut, Mutual
<1>6. \A c \in Conn : NoEnd(c)'
  BY <1>2, ProxyAssumption DEF NoEnd, NoEndIn, Conn
<1>7. Alive'
  BY <1>1, <1>2, ProxyAssumption DEF Alive, OnlyOf, Live, Conn
<1>8. Links'
  BY <1>1, <1>2, <1>4, <1>5, <1>6 DEF Links, Conn
<1>9. Told'
  BY <1>1, <1>2, ProxyAssumption DEF Told, DueIn, Conn
<1> QED
  BY <1>7, <1>8, <1>9 DEF Linked

\* A handler starts with events from epoll, which end nothing.
LEMMA DispatchLinked ==
  ASSUME TypeOK, LoopOK, References, Linked, NEW d \in Conn \cup {Dns}, Dispatch(d)
  PROVE  Linked'
<1> USE ProxyAssumption
<1>1. Alive /\ Links /\ Told
  BY DEF Linked
<1>2. /\ UNCHANGED <<status, peer, owner, phase, jobs>>
      /\ phase = "events" /\ self = None /\ self' = d /\ ev' = batch[d]
      /\ First = 1 /\ First' = 1
  BY DEF Dispatch, connVars, ghosts, First
<1>3. ~Closing'
  <2>1. batch[d] \subseteq FdEvent
    BY <1>2 DEF LoopOK
  <2> QED
    BY <1>2, <2>1 DEF Closing, FdEvent
<1>4. None \notin Conn
  BY DEF Conn
<1>5. Alive'
  <2>1. d \in Conn => Live(d)
    BY DEF Dispatch, References
  <2> QED
    BY <1>1, <1>2, <2>1 DEF Alive, LiveSet, Live
<1>6. \A x \in Conn : NoEnd(x) => NoEnd(x)'
  BY <1>2, <1>3 DEF NoEnd
<1>7. ASSUME NEW x \in Conn, Doomed(x) PROVE Doomed(x)'
  <2>1. ClosesAfter(x, peer[x])
    BY <1>2, <1>4, <1>7 DEF Doomed, ClosesNow, ClosesNext
  <2>2. ClosesAfter(x, peer[x])'
    BY <1>2, <1>3, <2>1 DEF ClosesAfter, Live
  <2> QED
    BY <2>2 DEF Doomed
<1>8. \A x \in Conn : (Cut(x)' <=> Cut(x)) /\ (Mutual(x)' <=> Mutual(x))
  BY <1>2 DEF Cut, Mutual
<1>9. Links'
  BY <1>1, <1>2, <1>6, <1>7, <1>8 DEF Links, Conn
<1>10. Told'
  BY <1>1, <1>2, <1>4 DEF Told
<1> QED
  BY <1>5, <1>9, <1>10 DEF Linked

-----------------------------------------------------------------------------
(* A request drops its backend, or gets a new one (forward.c).              *)

\* A working client has no cut link.
LEMMA WorkingLink ==
  ASSUME Linked, self \in Clients, status[self] = "WORKING", ev # {}
  PROVE  NoEnd(self) /\ (peer[self] = None \/ Mutual(self))
<1>1. NoEnd(self)
  BY DEF Linked, Links
<1>2. ~ClosesNow(self) /\ ~ClosesNext(self)
  BY <1>1 DEF ClosesNow, ClosesNext, NoEnd, Closing
<1>3. ~ClosesAfter(self, peer[self])
  BY <1>1 DEF ClosesAfter, ClosesFirstIn, NoEnd, NoEndIn, Ends
<1> QED
  BY <1>1, <1>2, <1>3 DEF Linked, Links, Doomed, Mutual, Cut, Conn

\* The host of a request is another one: http_handle_parseandforwarddata
\* clears both links before it signals the old backend (forward.c:839-862).
LEMMA PeerDropped ==
  ASSUME TypeOK, LoopOK, Linked, ParseHead(TRUE)
  PROVE  Linked'
<1> USE ProxyAssumption
<1> DEFINE p == peer[self]
           f == First
<1>0. None \notin Conn
  BY DEF Conn
<1>1. Alive /\ Links /\ Told
  BY DEF Linked
<1>2. /\ self \in Clients /\ self \in Conn /\ p # None /\ p \in Conn /\ p # self
      /\ status[self] = "WORKING" /\ ~Closing /\ ev # {}
      /\ ~Closing' /\ ev' # {}
      /\ UNCHANGED <<self, phase, owner>>
      /\ jobs' = AddConn(jobs, {"PEERCLOSE"}, p)
  BY <1>1 DEF ParseHead, Parses, TypeOK, Conn, LoopOK, Links, Closing, ghosts, AfterPeerClose
<1>3. /\ \A x \in Conn : status'[x] = IF x = p THEN "PEERCLOSED" ELSE status[x]
      /\ \A x \in Conn : peer'[x] = IF x \in {p, self} THEN None ELSE peer[x]
  BY DEF ParseHead
<1>4. NoEnd(self) /\ Mutual(self)
  BY <1>1, <1>2, WorkingLink DEF Linked
<1>5. Added(jobs, {"PEERCLOSE"}, p, jobs') /\ jobs \in Seq(JobSet)
  BY <1>2, AddConnAdds DEF TypeOK, JobSet, JobEvent
<1>6. First' = f /\ f \in {1, 2} /\ (f = 2 => jobs # <<>> /\ jobs[1].conn # p)
  BY <1>2 DEF First, LoopOK
<1>7. Kept
  BY <1>5, <1>6, AddKept
<1>8. Alive'
  <2>1. OnlyOf(jobs', f, LiveSet')
    <3>1. LiveSet \subseteq LiveSet' /\ p \in LiveSet'
      BY <1>2, <1>3 DEF LiveSet, Live
    <3>2. OnlyOf(jobs, f, LiveSet)
      BY <1>1 DEF Alive
    <3> QED
      BY <1>5, <3>1, <3>2 DEF Added, OnlyOf, ToRun
  <2>2. \A x \in Conn : Live(x) => Live(x)'
    BY <1>3 DEF Live
  <2> QED
    BY <1>1, <1>2, <1>3, <1>6, <2>1, <2>2 DEF Alive
<1>9. \A x \in Conn \ {p} : NoEnd(x) => NoEnd(x)'
  <2>1. \A x \in Conn \ {p} : NoEndIn(jobs, f, x) => NoEndIn(jobs', f, x)
    BY <1>5, <1>6, AddedKeepsNoEnd
  <2> QED
    BY <1>2, <1>6, <2>1 DEF NoEnd
<1>10. \A x \in Conn : Mutual(x)' => Mutual(x) /\ x \notin {p, self} /\ peer'[x] = peer[x]
  <2> SUFFICES ASSUME NEW x \in Conn, Mutual(x)'
               PROVE  Mutual(x) /\ x \notin {p, self} /\ peer'[x] = peer[x]
    OBVIOUS
  <2>1. peer'[x] = peer[x] /\ x \notin {p, self} /\ peer[x] \in Conn
    BY <1>0, <1>3 DEF Mutual, TypeOK
  <2> QED
    BY <1>0, <1>3, <2>1 DEF Mutual
<1>11. ASSUME NEW x \in Conn, Cut(x)' PROVE Doomed(x)'
  <2> DEFINE y == peer[x]
  <2>1. x \notin {p, self} /\ peer'[x] = y /\ y \in Conn /\ peer'[y] # x
    BY <1>3, <1>11 DEF Cut, TypeOK
  <2>2. Cut(x)
    BY <1>0, <1>3, <1>4, <2>1 DEF Cut, Mutual
  <2>3. Doomed(x) /\ ~ClosesNow(x)
    BY <1>1, <1>2, <2>1, <2>2 DEF Links, ClosesNow
  <2>4. CASE ClosesNext(x)
    <3>1. ClosesNext(x)'
      BY <1>2, <1>7, <2>1, <2>4 DEF ClosesNext, Kept
    <3> QED
      BY <3>1 DEF Doomed
  <2>5. CASE ClosesAfter(x, y)
    <3>1. ClosesFirstIn(jobs', First', x, y)
      BY <1>7, <2>1, <2>5 DEF ClosesAfter, Kept
    <3>2. peer'[y] = None /\ status'[y] # "FREE" /\ (y \in Clients => status'[y] # "WORKING")
      BY <1>3, <2>1, <2>5 DEF Live, ClosesAfter
    <3>3. ClosesAfter(x, y)'
      BY <1>2, <2>1, <3>1, <3>2 DEF ClosesAfter, Live
    <3> QED
      BY <2>1, <3>3 DEF Doomed
  <2> QED
    BY <2>3, <2>4, <2>5 DEF Doomed
<1>12. Links'
  <2>1. \A x \in Conn : peer'[x] # None => (x \in Clients <=> peer'[x] \in Backends)
    BY <1>1, <1>3 DEF Links
  <2>2. \A x \in Conn : Mutual(x)' => NoEnd(x)'
    BY <1>1, <1>9, <1>10 DEF Links
  <2>3. \A x \in Clients : status'[x] = "WORKING" => NoEnd(x)'
    BY <1>1, <1>3, <1>9 DEF Links, Conn
  <2>4. \A b \in Backends : Mutual(b)' => owner'[b] = peer'[b]
    BY <1>1, <1>2, <1>10 DEF Links, Conn
  <2> QED
    BY <1>11, <2>1, <2>2, <2>3, <2>4 DEF Links
<1>13. Told'
  <2>1. DueIn(jobs', f, p, "PEERCLOSE")
    BY <1>5, <1>6, AddedIsDue
  <2> QED
    BY <1>1, <1>2, <1>3, <1>6, <1>7, <2>1 DEF Told, Kept, Ends
<1> QED
  BY <1>8, <1>12, <1>13 DEF Linked

\* The running client, which has no peer, gets the fresh backend b.
Creates(b) ==
  /\ self \in Clients /\ status[self] = "WORKING" /\ peer[self] = None /\ ~Live(b)
  /\ ~Closing /\ ev # {} /\ ~Closing' /\ ev' # {}
  /\ UNCHANGED <<self, phase>>
  /\ status'[b] \in {"INIT", "CONNECTING", "WORKING"}
  /\ \A x \in Conn \ {b} : status'[x] = status[x]
  /\ peer' = [peer EXCEPT ![b] = self, ![self] = b]
  /\ owner' = [owner EXCEPT ![b] = self]
  /\ jobs' = jobs \/ jobs' = AddConn(jobs, {"OUT"}, Dns)

NewPeer(b) == CreatePeerByName(b) \/ \E how \in {"open", "connecting"} : CreatePeer(b, how)

\* peer_create, with an address or with a query.
LEMMA NewPeerCreates ==
  ASSUME TypeOK, LoopOK, NEW b \in Backends, NewPeer(b)
  PROVE  Creates(b)
<1> USE ProxyAssumption
<1>1. ASSUME CreatePeerByName(b) PROVE Creates(b)
  BY <1>1 DEF CreatePeerByName, Connects, LoopOK, TypeOK, Conn, Closing, Creates
<1>2. ASSUME NEW how \in {"open", "connecting"}, CreatePeer(b, how) PROVE Creates(b)
  BY <1>2 DEF CreatePeer, Connects, ConnectStatus, LoopOK, TypeOK, Conn, Closing, Creates
<1> QED
  BY <1>1, <1>2 DEF NewPeer

\* Nobody's job, link or handler refers to an address that is free.
LEMMA FreeIsUnused ==
  ASSUME TypeOK, Linked, NEW b \in Conn, ~Live(b)
  PROVE  /\ peer[b] = None
         /\ NoEndIn(jobs, First, b)
         /\ \A x \in Conn : ~ClosesAfter(x, b)
         /\ self = b => ev = {}
<1>1. OnlyOf(jobs, First, LiveSet)
  BY DEF Linked, Alive
<1>2. NoEndIn(jobs, First, b)
  BY <1>1 DEF OnlyOf, NoEndIn, LiveSet
<1> QED
  BY <1>2 DEF Linked, Alive, ClosesAfter

\* The new link is mutual, and nothing refers to the new backend yet.
LEMMA CreatesLinked ==
  ASSUME TypeOK, LoopOK, Linked, NEW b \in Backends, Creates(b)
  PROVE  Linked'
<1> USE ProxyAssumption
<1> DEFINE f == First
<1>0. None \notin Conn /\ Dns \notin Conn
  BY DEF Conn
<1>1. Alive /\ Links /\ Told
  BY DEF Linked
<1>2. self \in Conn /\ b \in Conn /\ self # b /\ self \notin Backends
      /\ self' = self /\ phase' = phase /\ First' = f /\ f \in {1, 2}
  BY DEF Creates, Conn, First
<1>3. /\ peer[b] = None /\ NoEndIn(jobs, f, b)
      /\ \A x \in Conn : ~ClosesAfter(x, b)
  BY <1>2, FreeIsUnused DEF Creates
<1>4. \A x \in Conn : peer'[x] = IF x = b THEN self ELSE IF x = self THEN b ELSE peer[x]
  BY <1>2 DEF Creates, TypeOK
<1>5. /\ \A x \in Conn : Live(x) => Live(x)'
      /\ \A x \in Conn : x # b => status'[x] = status[x]
      /\ Live(b)' /\ status'[b] # "PEERCLOSED"
  BY DEF Creates, Live
<1>6. /\ Kept
      /\ \A x \in Conn : NoEndIn(jobs, f, x) => NoEndIn(jobs', f, x)
      /\ OnlyOf(jobs', f, LiveSet')
  <2>1. jobs \in Seq(JobSet) /\ LiveSet \subseteq LiveSet' /\ OnlyOf(jobs, f, LiveSet)
    BY <1>1, <1>5 DEF TypeOK, JobSet, LiveSet, Alive
  <2>2. CASE jobs' = jobs
    BY <1>2, <2>1, <2>2 DEF Kept, OnlyOf
  <2>3. CASE jobs' = AddConn(jobs, {"OUT"}, Dns)
    <3>1. Added(jobs, {"OUT"}, Dns, jobs')
      BY <2>1, <2>3, AddConnAdds DEF JobEvent
    <3>2. Kept
      BY <1>2, <2>1, <3>1, AddKept
    <3>3. \A x \in Conn : NoEndIn(jobs, f, x) => NoEndIn(jobs', f, x)
      BY <1>0, <1>2, <2>1, <3>1, AddedKeepsNoEnd
    <3>4. OnlyOf(jobs', f, LiveSet')
      BY <1>0, <2>1, <3>1 DEF Added, OnlyOf, ToRun
    <3> QED
      BY <3>2, <3>3, <3>4
  <2> QED
    BY <2>2, <2>3 DEF Creates
<1>7. NoEnd(self) /\ NoEnd(b)
  <2>1. NoEnd(self)
    BY WorkingLink DEF Creates
  <2> QED
    BY <1>2, <1>3, <2>1 DEF NoEnd
<1>8. Alive'
  <2>1. Live(self)
    BY <1>1, <1>2 DEF Alive, Creates
  <2> QED
    BY <1>1, <1>2, <1>4, <1>5, <1>6, <2>1 DEF Alive, Live
<1>9. \A x \in Conn : NoEnd(x) => NoEnd(x)'
  BY <1>2, <1>6 DEF NoEnd, Creates
<1>10. \A x \in Conn : Mutual(x)' => x \in {b, self} \/ (Mutual(x) /\ peer'[x] = peer[x])
  <2> SUFFICES ASSUME NEW x \in Conn, Mutual(x)', x \notin {b, self}
               PROVE  Mutual(x) /\ peer'[x] = peer[x]
    OBVIOUS
  <2>1. peer'[x] = peer[x] /\ peer[x] \in Conn
    BY <1>0, <1>4 DEF Mutual, TypeOK
  <2>2. peer[x] \notin {b, self}
    BY <1>4, <2>1 DEF Mutual
  <2> QED
    BY <1>0, <1>4, <2>1, <2>2 DEF Mutual
<1>11. ASSUME NEW x \in Conn, Cut(x)' PROVE Doomed(x)'
  <2> DEFINE y == peer[x]
  <2>1. x \notin {b, self} /\ peer'[x] = y /\ y \in Conn
    BY <1>2, <1>4, <1>11 DEF Cut, TypeOK
  <2>2. Cut(x)
    BY <1>0, <1>3, <1>4, <1>11, <2>1 DEF Cut, Creates
  <2>3. Doomed(x) /\ ~ClosesNow(x)
    BY <1>1, <2>1, <2>2 DEF Links, ClosesNow, Creates, Closing
  <2>4. CASE ClosesNext(x)
    <3>1. ClosesNext(x)'
      BY <1>2, <1>6, <2>1, <2>4 DEF ClosesNext, Kept
    <3> QED
      BY <3>1 DEF Doomed
  <2>5. CASE ClosesAfter(x, y)
    <3>0. y # b /\ y # self
      BY <1>3, <2>1, <2>5 DEF ClosesAfter, Creates
    <3>1. ClosesFirstIn(jobs', First', x, y)
      BY <1>6, <2>1, <2>5 DEF ClosesAfter, Kept
    <3>2. peer'[y] = None /\ status'[y] = status[y] /\ status[y] # "FREE"
          /\ (y \in Clients => status[y] # "WORKING")
      BY <1>4, <1>5, <2>1, <2>5, <3>0 DEF Live, ClosesAfter
    <3>3. ClosesAfter(x, y)'
      BY <1>2, <2>1, <3>0, <3>1, <3>2 DEF ClosesAfter, Live
    <3> QED
      BY <2>1, <3>3 DEF Doomed
  <2> QED
    BY <2>3, <2>4, <2>5 DEF Doomed
<1>12. Links'
  <2>1. \A x \in Conn : peer'[x] # None => (x \in Clients <=> peer'[x] \in Backends)
    <3>1. b \notin Clients /\ self \in Clients
      BY DEF Creates
    <3> QED
      BY <1>1, <1>2, <1>4, <3>1 DEF Links
  <2>2. \A x \in Conn : Mutual(x)' => NoEnd(x)'
    BY <1>1, <1>2, <1>7, <1>9, <1>10 DEF Links
  <2>3. \A x \in Clients : status'[x] = "WORKING" => NoEnd(x)'
    BY <1>1, <1>5, <1>9 DEF Links, Conn
  <2>4. \A d \in Backends : owner'[d] = IF d = b THEN self ELSE owner[d]
    BY DEF Creates, TypeOK
  <2>5. \A d \in Backends : Mutual(d)' => owner'[d] = peer'[d]
    BY <1>1, <1>2, <1>4, <1>10, <2>4 DEF Links, Conn
  <2> QED
    BY <1>11, <2>1, <2>2, <2>3, <2>5 DEF Links
<1>13. Told'
  <2>1. self \in Conn => ~Closing
    BY DEF Creates
  <2> QED
    BY <1>1, <1>2, <1>5, <1>6, <2>1 DEF Told, Kept, Ends
<1> QED
  BY <1>8, <1>12, <1>13 DEF Linked

\* A query that is refused leaves a client that points to a backend that does
\* not point back: both are closed in this iteration.
LEMMA QueryFailsLinked ==
  ASSUME TypeOK, LoopOK, Linked, NEW b \in Backends, QueryFails(b)
  PROVE  Linked'
<1> USE ProxyAssumption
<1> DEFINE f == First
           s == AddConn(jobs, {"PEERCLOSE"}, b)
<1>0. None \notin Conn
  BY DEF Conn
<1>1. Alive /\ Links /\ Told
  BY DEF Linked
<1>2. /\ self \in Clients /\ self \in Conn /\ b \in Conn /\ self # b
      /\ status[self] = "WORKING" /\ peer[self] = None /\ ~Live(b) /\ ~Closing /\ ev # {}
      /\ self' = self /\ phase' = phase /\ ev' = {} /\ ~Closing'
      /\ First' = f /\ f \in {1, 2}
      /\ (f = 2 => jobs # <<>> /\ jobs[1].conn # b)
  BY DEF QueryFails, Connects, LoopOK, Conn, Closing, First
<1>3. /\ peer[b] = None /\ NoEndIn(jobs, f, b)
      /\ \A x \in Conn : ~ClosesAfter(x, b)
  BY <1>2, FreeIsUnused
<1>4. /\ \A x \in Conn : peer'[x] = IF x = self THEN b ELSE peer[x]
      /\ \A x \in Conn : status'[x] = IF x = self THEN "CLOSED" ELSE IF x = b THEN "PEERCLOSED" ELSE status[x]
      /\ \A d \in Backends : owner'[d] = IF d = b THEN self ELSE owner[d]
  BY <1>2 DEF QueryFails, TypeOK
<1>5. jobs \in Seq(JobSet)
  BY DEF TypeOK, JobSet
<1>6. Added(jobs, {"PEERCLOSE"}, b, s)
  BY <1>2, <1>5, AddConnAdds DEF JobEvent
<1>7. s \in Seq(JobSet)
  BY <1>6 DEF Added
<1>8. Added(s, {"CLOSE"}, self, jobs')
  <2>1. jobs' = AddConn(s, {"CLOSE"}, self)
    BY DEF QueryFails
  <2> HIDE DEF s
  <2> QED
    BY <1>2, <1>7, <2>1, AddConnAdds DEF JobEvent
<1> HIDE DEF s
<1>9. Kept
  <2>1. \A x \in Conn, e \in Ends : DueIn(jobs, f, x, e) => DueIn(s, f, x, e)
    BY <1>2, <1>5, <1>6, AddedKeepsDue
  <2>2. \A x \in Conn : NextClosesIn(jobs, f, x) => NextClosesIn(s, f, x)
    BY <1>2, <1>5, <1>6, AddedKeepsNext
  <2>3. \A x, y \in Conn : ClosesFirstIn(jobs, f, x, y) => ClosesFirstIn(s, f, x, y)
    BY <1>2, <1>5, <1>6, AddedKeepsClosesFirst
  <2>4. \A x \in Conn, e \in Ends : DueIn(s, f, x, e) => DueIn(jobs', f, x, e)
    BY <1>2, <1>7, <1>8, AddedKeepsDue
  <2>5. \A x \in Conn : NextClosesIn(s, f, x) => NextClosesIn(jobs', f, x)
    BY <1>2, <1>7, <1>8, AddedKeepsNext
  <2>6. \A x, y \in Conn : ClosesFirstIn(s, f, x, y) => ClosesFirstIn(jobs', f, x, y)
    BY <1>2, <1>7, <1>8, AddedKeepsClosesFirst
  <2> QED
    BY <1>2, <2>1, <2>2, <2>3, <2>4, <2>5, <2>6 DEF Kept
<1>10. \A x \in Conn \ {self, b} : NoEndIn(jobs, f, x) => NoEndIn(jobs', f, x)
  <2>1. \A x \in Conn \ {self, b} : NoEndIn(jobs, f, x) => NoEndIn(s, f, x)
    BY <1>2, <1>5, <1>6, AddedKeepsNoEnd
  <2>2. \A x \in Conn \ {self, b} : NoEndIn(s, f, x) => NoEndIn(jobs', f, x)
    BY <1>2, <1>7, <1>8, AddedKeepsNoEnd
  <2> QED
    BY <2>1, <2>2
<1>11. ClosesFirstIn(jobs', f, self, b)
  <2>1. f \in {1, 2} /\ NoEndIn(jobs, f, b) /\ self # b
    BY <1>2, <1>3
  <2> HIDE DEF f
  <2> QED
    BY <1>2, <1>5, <1>6, <1>7, <1>8, <2>1, SignalClosesFirst
<1>12. DueIn(jobs', f, b, "PEERCLOSE")
  <2>1. DueIn(s, f, b, "PEERCLOSE")
    BY <1>2, <1>5, <1>6, AddedIsDue
  <2> QED
    BY <1>2, <1>7, <1>8, <2>1, AddedKeepsDue
<1>13. Alive'
  <2>1. /\ LiveSet \subseteq LiveSet' /\ self \in LiveSet' /\ b \in LiveSet'
        /\ OnlyOf(jobs, f, LiveSet)
    BY <1>1, <1>2, <1>4 DEF LiveSet, Live, Alive
  <2>2. OnlyOf(s, f, LiveSet')
    BY <1>5, <1>6, <2>1 DEF Added, OnlyOf, ToRun
  <2>3. OnlyOf(jobs', f, LiveSet')
    BY <1>7, <1>8, <2>1, <2>2 DEF Added, OnlyOf, ToRun
  <2> QED
    BY <1>1, <1>2, <1>4, <2>3 DEF Alive, Live
<1>14. \A x \in Conn \ {self, b} : NoEnd(x) => NoEnd(x)'
  BY <1>2, <1>10 DEF NoEnd
<1>15. \A x \in Conn : Mutual(x)' => x \notin {self, b} /\ Mutual(x) /\ peer'[x] = peer[x]
  <2> SUFFICES ASSUME NEW x \in Conn, Mutual(x)'
               PROVE  x \notin {self, b} /\ Mutual(x) /\ peer'[x] = peer[x]
    OBVIOUS
  <2>1. x \notin {self, b}
    BY <1>0, <1>2, <1>3, <1>4 DEF Mutual
  <2>2. peer'[x] = peer[x] /\ peer[x] \in Conn
    BY <1>0, <1>4, <2>1 DEF Mutual, TypeOK
  <2> QED
    BY <1>0, <1>4, <2>1, <2>2 DEF Mutual
<1>16. ASSUME NEW x \in Conn, Cut(x)' PROVE Doomed(x)'
  <2> DEFINE y == peer[x]
  <2>1. CASE x = self
    <3>1. peer'[x] = b /\ peer'[b] = None /\ status'[b] # "FREE" /\ b \notin Clients
      BY <1>2, <1>3, <1>4, <2>1
    <3>2. ClosesAfter(x, b)'
      BY <1>2, <1>11, <2>1, <3>1 DEF ClosesAfter, Live
    <3> QED
      BY <3>1, <3>2 DEF Doomed
  <2>2. CASE x # self
    <3>1. x # b /\ peer'[x] = y /\ y \in Conn /\ Cut(x)
      <4>1. peer'[x] = y /\ y # None /\ peer'[y] # x
        BY <1>4, <1>16, <2>2 DEF Cut
      <4>2. y \in Conn /\ x # b
        BY <1>3, <4>1 DEF TypeOK
      <4>3. peer[y] # x
        BY <1>0, <1>2, <1>4, <4>1, <4>2
      <4> QED
        BY <4>1, <4>2, <4>3 DEF Cut
    <3>2. Doomed(x) /\ ~ClosesNow(x)
      BY <1>1, <2>2, <3>1 DEF Links, ClosesNow
    <3>3. CASE ClosesNext(x)
      <4>1. ClosesNext(x)'
        BY <1>2, <1>9, <2>2, <3>3 DEF ClosesNext, Kept
      <4> QED
        BY <4>1 DEF Doomed
    <3>4. CASE ClosesAfter(x, y)
      <4>0. y # b /\ y # self
        BY <1>2, <1>3, <3>1, <3>4 DEF ClosesAfter
      <4>1. ClosesFirstIn(jobs', First', x, y)
        BY <1>9, <3>1, <3>4 DEF ClosesAfter, Kept
      <4>2. peer'[y] = None /\ status'[y] = status[y] /\ status[y] # "FREE"
            /\ (y \in Clients => status[y] # "WORKING")
        BY <1>4, <3>1, <3>4, <4>0 DEF Live, ClosesAfter
      <4>3. ClosesAfter(x, y)'
        BY <1>2, <3>1, <4>0, <4>1, <4>2 DEF ClosesAfter, Live
      <4> QED
        BY <3>1, <4>3 DEF Doomed
    <3> QED
      BY <3>2, <3>3, <3>4 DEF Doomed
  <2> QED
    BY <2>1, <2>2
<1>17. Links'
  <2>1. \A x \in Conn : peer'[x] # None => (x \in Clients <=> peer'[x] \in Backends)
    BY <1>1, <1>2, <1>4 DEF Links
  <2>2. \A x \in Conn : Mutual(x)' => NoEnd(x)'
    BY <1>1, <1>14, <1>15 DEF Links
  <2>3. \A x \in Clients : status'[x] = "WORKING" => NoEnd(x)'
    BY <1>1, <1>2, <1>4, <1>14 DEF Links, Conn
  <2>4. \A d \in Backends : Mutual(d)' => owner'[d] = peer'[d]
    BY <1>1, <1>4, <1>15 DEF Links, Conn
  <2> QED
    BY <1>16, <2>1, <2>2, <2>3, <2>4 DEF Links
<1>18. Told'
  BY <1>1, <1>2, <1>4, <1>9, <1>12 DEF Told, Kept, Ends
<1> QED
  BY <1>13, <1>17, <1>18 DEF Linked

-----------------------------------------------------------------------------
(* Every step is of one of these kinds.                                     *)

\* The error exit of a handler, and the end of a client's last write.
LEMMA FailSignals ==
  ASSUME TypeOK, LoopOK, Alive, self \in Conn, ~Closing, ev # {},
         SignalThisClose(self), ev' = {}, UNCHANGED <<phase, batch, self, owner>>
  PROVE  Signals(self)
<1>1. self # None
  BY ProxyAssumption DEF Conn
<1> QED
  BY <1>1 DEF Signals, LoopOK, Alive

\* Every step of a handler is of one of these kinds ...
LEMMA HandlerKinds ==
  ASSUME TypeOK, LoopOK, References, Alive, Handler
  PROVE  \/ HandlePeerClose \/ HandleThisClose \/ Harmless \/ ParseHead(TRUE)
         \/ \E c \in Conn : Signals(c)
         \/ \E b \in Backends : NewPeer(b) \/ QueryFails(b)
<1> USE ProxyAssumption
<1>0. ASSUME self \in Conn, ~Closing, ev # {}, Fail(self)
      PROVE  \E c \in Conn : Signals(c)
  BY <1>0, FailSignals DEF Fail
<1>1. ASSUME HandleErr PROVE \E c \in Conn : Signals(c)
  BY <1>0, <1>1 DEF HandleErr
<1>2. ASSUME HandlesIn PROVE Harmless \/ \E c \in Conn : Signals(c)
  <2>1. self \in Conn /\ ~Closing /\ ev # {}
    BY <1>2 DEF HandlesIn, ReadSome, ReadFull, ReadFails, DoesIn
  <2> QED
    BY <1>0, <1>2, <2>1, InGentle
<1>3. ASSUME ParseFails \/ ConnectFails PROVE \E c \in Conn : Signals(c)
  <2>1. self \in Conn /\ ~Closing /\ ev # {} /\ Fail(self)
    BY <1>3 DEF ParseFails, ConnectFails, Parses, Connects, LoopOK, Conn
  <2> QED
    BY <1>0, <2>1
<1>4. ASSUME BackendForwardFails PROVE \E c \in Conn : Signals(c)
  <2>1. self \in Conn /\ ~Closing /\ ev # {} /\ Fail(self)
    BY <1>4 DEF BackendForwardFails, LoopOK, Conn
  <2> QED
    BY <1>0, <2>1
<1>5. ASSUME HandlesRequest
      PROVE  \/ Harmless \/ ParseHead(TRUE) \/ \E c \in Conn : Signals(c)
             \/ \E b \in Backends : NewPeer(b) \/ QueryFails(b)
  <2>1. ASSUME NEW x \in BOOLEAN, ParseHead(x) PROVE Harmless \/ ParseHead(TRUE)
    BY <2>1, RequestGentle
  <2> QED
    BY <1>3, <1>5, <2>1, RequestGentle DEF HandlesRequest, NewPeer
<1>6. ASSUME HandlesOut PROVE Harmless \/ \E c \in Conn : Signals(c)
  <2>1. self \in Conn /\ ~Closing /\ ev # {}
    <3>1. CASE DoesOut
      BY <3>1 DEF DoesOut, Closing
    <3>2. ASSUME NEW w \in Conn, Wake(w) PROVE self \in Conn /\ ~Closing /\ ev # {}
      BY <3>2 DEF Wake, LoopOK, TypeOK
    <3> QED
      BY <1>6, <3>1, <3>2
      DEF HandlesOut, OutRefused, WriteFails, WriteSome, WriteLast, WriteAll, AllWritten
  <2>2. ASSUME NEW room \in BOOLEAN, WriteLast(room) PROVE \E c \in Conn : Signals(c)
    <3>1. SignalThisClose(self) /\ ev' = {} /\ UNCHANGED <<phase, batch, self, owner>>
      BY <2>2 DEF WriteLast, AllWritten, ghosts
    <3> QED
      BY <2>1, <3>1, FailSignals
  <2> QED
    BY <1>0, <1>6, <2>1, <2>2, OutGentle
<1>7. ASSUME HandlesDns PROVE Harmless \/ \E c \in Conn : Signals(c)
  <2>1. ASSUME NEW b \in Backends, DnsNotFound(b) PROVE Signals(b) /\ b \in Conn
    <3>1. self = Dns /\ phase = "events" /\ Dns \notin Conn /\ b \in Conn /\ ~Closing
      BY <2>1 DEF DnsNotFound, LoopOK, Conn, Closing
    <3>2. Live(b)
      BY <2>1 DEF DnsNotFound, References
    <3>3. SignalThisClose(b) /\ UNCHANGED <<self, phase, owner, batch, ev>>
      BY <2>1 DEF DnsNotFound, ghosts
    <3> QED
      BY <3>1, <3>2, <3>3 DEF Signals
  <2> QED
    BY <1>7, <2>1, DnsGentle
<1> QED
  BY <1>1, <1>2, <1>4, <1>5, <1>6, <1>7, BackendGentle DEF Handler

\* The loop frees a job that was marked, or the one whose handler returns.
LEMMA ReturnLeaves ==
  ASSUME TypeOK, LoopOK, SkipJob \/ Return
  PROVE  Leaves
<1>1. jobs \in Seq(JobSet)
  BY DEF TypeOK, JobSet
<1>2. ASSUME SkipJob PROVE Leaves
  <2>1. First = 1 /\ phase = "jobs" /\ jobs # <<>> /\ jobs[1].deld /\ jobs' = Tail(jobs)
    BY <1>1, <1>2 DEF SkipJob, First
  <2>2. Left(jobs, First, jobs')
    BY <1>1, <2>1, TailLeaves
  <2> QED
    BY <1>2, <2>2 DEF SkipJob, Leaves, LoopOK, connVars, ghosts
<1>3. ASSUME Return PROVE Leaves
  <2>1. phase = "jobs" => Left(jobs, First, jobs')
    <3> SUFFICES ASSUME phase = "jobs" PROVE Left(jobs, First, jobs')
      OBVIOUS
    <3>1. First = 2 /\ jobs # <<>> /\ jobs' = Tail(jobs)
      BY <1>3 DEF Return, First, LoopOK
    <3> QED
      BY <1>1, <3>1, TailLeaves
  <2> QED
    BY <1>3, <2>1 DEF Return, Leaves, connVars
<1> QED
  BY <1>2, <1>3

\* ... and every step of the loop of one of these.
LEMMA LoopKinds ==
  ASSUME TypeOK, LoopOK, References, Alive, MainLoop
  PROVE  \/ StartJobs \/ RunJob \/ EndJobs \/ Leaves
         \/ \E r \in BOOLEAN : EvWait(r)
         \/ \E d \in Conn \cup {Dns} : Dispatch(d)
         \/ \E c \in Conn : Signals(c)
<1> USE ProxyAssumption
<1>1. ASSUME NEW c \in Conn, TimeoutOne(c) PROVE Signals(c)
  <2>1. self = None /\ ev = {} /\ phase = "timer" /\ None \notin Conn
    BY <1>1 DEF TimeoutOne, LoopOK, Conn
  <2>2. Live(c)
    BY <1>1 DEF TimeoutOne, References
  <2>3. SignalThisClose(c) /\ UNCHANGED <<self, phase, owner, ev>> /\ batch' = [batch EXCEPT ![c] = {}]
    BY <1>1 DEF TimeoutOne, ghosts
  <2> QED
    BY <2>1, <2>2, <2>3 DEF Signals, Closing
<1> QED
  BY <1>1, ReturnLeaves DEF MainLoop

\* The invariant about links is inductive.
LEMMA LinkedStep ==
  ASSUME TypeOK, LoopOK, References, Linked, [Next]_vars
  PROVE  Linked'
<1>0. Alive
  BY DEF Linked
<1>1. ASSUME Handler PROVE Linked'
  BY <1>0, <1>1, HandlerKinds, PeerCloseGentle, GentleLinked, HarmlessGentle, FreeLinked,
     PeerDropped, SignalLinked, NewPeerCreates, CreatesLinked, QueryFailsLinked
<1>2. ASSUME MainLoop PROVE Linked'
  BY <1>0, <1>2, LoopKinds, LoopGentle, GentleLinked, TakeLinked, EndLinked, LeavesLinked,
     DispatchLinked, SignalLinked
<1>3. ASSUME UNCHANGED vars PROVE Gentle
  BY <1>3 DEF vars, connVars, loopVars, ghosts, Gentle, GentleJobs, Live, Closing
<1> QED
  BY <1>1, <1>2, <1>3, NetworkGentle, LoopGentle, GentleLinked DEF Next

-----------------------------------------------------------------------------
(* The phases and the events of handlers.                                   *)

LEMMA GentleJobsLoop ==
  ASSUME TypeOK, LoopOK, GentleJobs
  PROVE  DnsWrites(jobs') /\ (jobs # <<>> => jobs' # <<>> /\ jobs'[1].conn = jobs[1].conn)
<1>1. jobs \in Seq(JobSet) /\ DnsWrites(jobs)
  BY DEF TypeOK, JobSet, LoopOK
<1>2. CASE jobs' = jobs
  BY <1>1, <1>2
<1>3. CASE jobs' # jobs
  <2>1. PICK x \in Conn, e \in {"IN", "OUT"} : jobs' = AddConn(jobs, {e}, x)
    BY <1>3 DEF GentleJobs
  <2>2. Added(jobs, {e}, x, jobs') /\ x # Dns
    BY <1>1, <2>1, AddConnAdds, ProxyAssumption DEF JobEvent, Conn
  <2> QED
    BY <1>1, <2>2, AddedKeepsDnsWrites, AddedKeepsHead
<1> QED
  BY <1>2, <1>3

LEMMA HarmlessLoop ==
  ASSUME TypeOK, LoopOK, Harmless
  PROVE  LoopOK'
<1>1. DnsWrites(jobs') /\ (jobs # <<>> => jobs' # <<>> /\ jobs'[1].conn = jobs[1].conn)
  BY GentleJobsLoop DEF Harmless
<1> QED
  BY <1>1 DEF Harmless, LoopOK

LEMMA SignalsLoop ==
  ASSUME TypeOK, LoopOK, NEW c \in Conn, Signals(c)
  PROVE  LoopOK'
<1> USE ProxyAssumption
<1>0. None \notin Conn /\ Dns \notin Conn
  BY DEF Conn
<1>1. PICK s \in Seq(JobSet) :
        /\ IF peer[c] = None THEN s = jobs ELSE Added(jobs, {"PEERCLOSE"}, peer[c], s)
        /\ Added(s, {"CLOSE"}, c, jobs')
  BY SignalAdds DEF Signals
<1>2. jobs \in Seq(JobSet) /\ DnsWrites(jobs) /\ peer[c] \in Conn \cup {None}
  BY DEF TypeOK, JobSet, LoopOK
<1>3. DnsWrites(s) /\ (jobs # <<>> => s # <<>> /\ s[1].conn = jobs[1].conn)
  BY <1>0, <1>1, <1>2, AddedKeepsDnsWrites, AddedKeepsHead
<1>4. DnsWrites(jobs') /\ (jobs # <<>> => jobs' # <<>> /\ jobs'[1].conn = jobs[1].conn)
  BY <1>0, <1>1, <1>3, AddedKeepsDnsWrites, AddedKeepsHead
<1>5. self' = self /\ phase' = phase /\ phase # "wait"
      /\ (ev' = {} \/ (ev' = ev /\ self \notin Conn)) /\ ~Closing'
  BY DEF Signals, Closing
<1>6. /\ phase = "jobs" => batch' = NoEvents
      /\ phase = "events" => \A d \in Conn \cup {Dns} : batch'[d] \subseteq FdEvent
      /\ batch'[Dns] \subseteq {"IN"}
  BY <1>0 DEF Signals, LoopOK, TypeOK
<1>7. self \in Clients => ev' = {}
  BY <1>5 DEF Conn
<1> QED
  BY <1>0, <1>4, <1>5, <1>6, <1>7 DEF LoopOK, OneStage

LEMMA CloseLoop ==
  ASSUME TypeOK, LoopOK, HandlePeerClose \/ HandleThisClose
  PROVE  LoopOK'
<1> USE ProxyAssumption
<1>0. None \notin Conn /\ Dns \notin Conn
  BY DEF Conn
<1>1. ASSUME HandlePeerClose PROVE LoopOK'
  <2>1. self \in Conn /\ Closing
    BY <1>1 DEF HandlePeerClose, Closing
  <2>2. ev \cap {"PARSE", "CONNECT", "WAKE"} = {} /\ phase = "jobs"
    BY <2>1 DEF LoopOK
  <2>3. ev' \subseteq ev \cup {"OUT", "CLOSE"}
    BY <1>1 DEF HandlePeerClose
  <2> QED
    BY <1>0, <1>1, <2>1, <2>2, <2>3 DEF HandlePeerClose, LoopOK, OneStage
<1>2. ASSUME HandleThisClose PROVE LoopOK'
  <2>1. Deleted(jobs, self, jobs')
    BY <1>2, DelConnDeletes DEF HandleThisClose, TypeOK, JobSet
  <2>2. DnsWrites(jobs')
    BY <2>1, DeletedKeepsDnsWrites DEF LoopOK, TypeOK, JobSet
  <2>3. jobs # <<>> => jobs' # <<>> /\ jobs'[1].conn = jobs[1].conn
    BY <2>1 DEF Deleted, TypeOK, JobSet
  <2> QED
    BY <1>0, <1>2, <2>2, <2>3 DEF HandleThisClose, LoopOK, OneStage, Closing
<1> QED
  BY <1>1, <1>2

\* The list after a job was added for x.
LEMMA AddLoop ==
  ASSUME TypeOK, LoopOK, NEW x \in Conn \cup {Dns}, NEW e \in JobEvent, x = Dns => e = "OUT",
         NEW q \in Seq(JobSet), DnsWrites(q)
  PROVE  LET r == AddConn(q, {e}, x) IN
         /\ r \in Seq(JobSet) /\ DnsWrites(r)
         /\ q # <<>> => r # <<>> /\ r[1].conn = q[1].conn
<1> DEFINE r == AddConn(q, {e}, x)
<1>1. Added(q, {e}, x, r)
  BY AddConnAdds
<1>2. r \in Seq(JobSet)
  BY <1>1 DEF Added
<1> HIDE DEF r
<1>3. DnsWrites(r)
  BY <1>1, AddedKeepsDnsWrites
<1>4. q # <<>> => r # <<>> /\ r[1].conn = q[1].conn
  BY <1>1, AddedKeepsHead
<1> QED
  BY <1>2, <1>3, <1>4 DEF r

\* The running client treats its request and stays a working client.
LEMMA RequestLoop ==
  ASSUME TypeOK, LoopOK, self \in Clients, ev \cap {"PARSE", "CONNECT"} # {},
         UNCHANGED <<phase, batch, self>>,
         status'[self] = "WORKING" \/ ev' = {},
         ev' \cap Ends = {} \/ ev' \cap Ends = ev \cap Ends,
         OneStage',
         DnsWrites(jobs'), jobs # <<>> => jobs' # <<>> /\ jobs'[1].conn = jobs[1].conn
  PROVE  LoopOK'
<1>1. ~Closing /\ ~Closing'
  BY DEF LoopOK, Closing, Ends
<1>2. self # None /\ self # Dns /\ phase \in {"events", "jobs"}
  BY ProxyAssumption DEF LoopOK
<1> QED
  BY <1>1, <1>2 DEF LoopOK

LEMMA PeerLoop ==
  ASSUME TypeOK, LoopOK, Links, NEW b \in Backends,
         ParseHead(TRUE) \/ NewPeer(b) \/ QueryFails(b)
  PROVE  LoopOK'
<1> USE ProxyAssumption
<1>0. self \in Clients /\ self \in Conn /\ ev \cap {"PARSE", "CONNECT"} # {}
      /\ status[self] = "WORKING" /\ b # self /\ b \in Conn
  BY DEF ParseHead, NewPeer, CreatePeerByName, QueryFails, CreatePeer, Parses, Connects, LoopOK, Conn
<1>1. jobs \in Seq(JobSet) /\ DnsWrites(jobs)
  BY DEF TypeOK, JobSet, LoopOK
<1>2. ASSUME ParseHead(TRUE) PROVE LoopOK'
  <2> DEFINE p == peer[self]
  <2>1. p \in Conn /\ p # self /\ jobs' = AddConn(jobs, {"PEERCLOSE"}, p) /\ p # Dns
    BY <1>0, <1>2 DEF ParseHead, AfterPeerClose, TypeOK, Links, Conn
  <2>2. DnsWrites(jobs') /\ (jobs # <<>> => jobs' # <<>> /\ jobs'[1].conn = jobs[1].conn)
    BY <1>1, <2>1, AddLoop DEF JobEvent
  <2>3. status'[self] = "WORKING"
    BY <1>0, <1>2, <2>1 DEF ParseHead
  <2>4. OneStage' /\ ev' \cap Ends = ev \cap Ends
    BY <1>2 DEF ParseHead, Parses, LoopOK, OneStage, Ends
  <2> QED
    BY <1>0, <1>2, <2>2, <2>3, <2>4, RequestLoop DEF ParseHead
<1>3. ASSUME CreatePeerByName(b) PROVE LoopOK'
  <2>1. DnsWrites(jobs') /\ (jobs # <<>> => jobs' # <<>> /\ jobs'[1].conn = jobs[1].conn)
    BY <1>1, <1>3, AddLoop DEF CreatePeerByName, JobEvent
  <2>2. status'[self] = "WORKING"
    BY <1>0, <1>3 DEF CreatePeerByName, TypeOK
  <2>3. OneStage' /\ ev' \cap Ends = ev \cap Ends
    BY <1>3 DEF CreatePeerByName, Connects, LoopOK, OneStage, Ends
  <2> QED
    BY <1>0, <1>3, <2>1, <2>2, <2>3, RequestLoop DEF CreatePeerByName
<1>4. ASSUME NEW how \in {"open", "connecting"}, CreatePeer(b, how) PROVE LoopOK'
  <2>1. jobs' = jobs
    BY <1>4 DEF CreatePeer
  <2>2. status'[self] = "WORKING"
    BY <1>0, <1>4 DEF CreatePeer, TypeOK
  <2>3. OneStage' /\ ev' \cap Ends = ev \cap Ends
    BY <1>4 DEF CreatePeer, Connects, LoopOK, OneStage, Ends
  <2> QED
    BY <1>0, <1>1, <1>4, <2>1, <2>2, <2>3, RequestLoop DEF CreatePeer
<1>5. ASSUME QueryFails(b) PROVE LoopOK'
  <2> DEFINE s == AddConn(jobs, {"PEERCLOSE"}, b)
  <2>1. b # Dns /\ self # Dns
    BY <1>0 DEF Conn
  <2>2. /\ s \in Seq(JobSet) /\ DnsWrites(s)
        /\ jobs # <<>> => s # <<>> /\ s[1].conn = jobs[1].conn
    BY <1>0, <1>1, <2>1, AddLoop DEF JobEvent
  <2>3. jobs' = AddConn(s, {"CLOSE"}, self)
    BY <1>5 DEF QueryFails
  <2> HIDE DEF s
  <2>4. /\ DnsWrites(jobs')
        /\ s # <<>> => jobs' # <<>> /\ jobs'[1].conn = s[1].conn
    BY <1>0, <2>1, <2>2, <2>3, AddLoop DEF JobEvent
  <2>5. OneStage' /\ ev' = {}
    BY <1>5 DEF QueryFails, OneStage
  <2> QED
    BY <1>0, <1>5, <2>2, <2>4, <2>5, RequestLoop DEF QueryFails
<1> QED
  BY <1>2, <1>3, <1>4, <1>5 DEF NewPeer

LEMMA OuterLoop ==
  ASSUME TypeOK, LoopOK, Network \/ Timer \/ StartJobs \/ EndJobs \/ \E r \in BOOLEAN : EvWait(r)
  PROVE  LoopOK'
<1> USE ProxyAssumption
<1>0. None \notin Conn /\ Dns \notin Conn /\ None # Dns
  BY DEF Conn
<1>1. ASSUME NEW c \in Clients, Accept(c) PROVE LoopOK'
  BY <1>0, <1>1 DEF Accept, Quiet, loopVars, LoopOK, OneStage, Closing, Conn
<1>2. ASSUME UNCHANGED <<connVars, loopVars, ghosts>> PROVE LoopOK'
  BY <1>2 DEF connVars, loopVars, LoopOK, OneStage, Closing
<1>3. ASSUME NEW S \in SUBSET Conn, TimerFires(S) PROVE LoopOK'
  BY <1>0, <1>3 DEF TimerFires, Quiet, connVars, LoopOK, OneStage, Closing
<1>4. ASSUME StartJobs PROVE LoopOK'
  BY <1>0, <1>4 DEF StartJobs, connVars, LoopOK, OneStage, Closing
<1>5. ASSUME EndJobs PROVE LoopOK'
  BY <1>0, <1>5 DEF EndJobs, connVars, LoopOK, OneStage, Closing
<1>6. ASSUME NEW r \in BOOLEAN, EvWait(r) PROVE LoopOK'
  <2>1. \A c \in Conn : Reported[c] \subseteq FdEvent
    BY DEF Reported, Readiness, TypeOK, FdEvent
  <2>2. \A d \in Conn \cup {Dns} : batch'[d] \subseteq FdEvent
    BY <1>6, <2>1 DEF EvWait, FdEvent
  <2>3. batch'[Dns] \subseteq {"IN"}
    BY <1>6 DEF EvWait
  <2> QED
    BY <1>0, <1>6, <2>2, <2>3 DEF EvWait, connVars, LoopOK, OneStage, Closing
<1>7. CASE Network
  BY <1>1, <1>2, <1>7 DEF Network, Arrive, RemoteEof, RemoteReset, Drain, Connected
<1> QED
  BY <1>3, <1>4, <1>5, <1>6, <1>7 DEF Timer

LEMMA CallLoop ==
  ASSUME TypeOK, LoopOK, RunJob \/ Leaves \/ \E d \in Conn \cup {Dns} : Dispatch(d)
  PROVE  LoopOK'
<1> USE ProxyAssumption
<1>0. None \notin Conn /\ Dns \notin Conn /\ None # Dns
  BY DEF Conn
<1>1. ASSUME Leaves PROVE LoopOK'
  <2>1. DnsWrites(jobs')
    BY <1>1, LeftDnsWrites DEF Leaves, LoopOK
  <2> QED
    BY <1>0, <1>1, <2>1 DEF Leaves, LoopOK, OneStage, Closing
<1>2. ASSUME RunJob PROVE LoopOK'
  <2>1. jobs[1] \in JobSet /\ self' = jobs[1].conn /\ ev' = jobs[1].events /\ jobs # <<>>
    BY <1>2 DEF RunJob, TypeOK, JobSet
  <2>0. DnsWrites(jobs) /\ 1 \in 1..Len(jobs)
    BY <2>1 DEF LoopOK, TypeOK
  <2>2. self' \in Conn \cup {Dns} /\ ev' \subseteq JobEvent /\ (self' = Dns => ev' \subseteq {"OUT"})
    BY <2>0, <2>1 DEF JobSet, Job, DnsWrites
  <2>3. ev' \cap {"PARSE", "CONNECT", "WAKE"} = {} /\ OneStage'
    BY <2>2 DEF JobEvent, OneStage
  <2>4. UNCHANGED <<phase, batch, jobs>> /\ phase = "jobs"
    BY <1>2 DEF RunJob
  <2> QED
    BY <1>0, <2>1, <2>2, <2>3, <2>4 DEF LoopOK
<1>3. ASSUME NEW d \in Conn \cup {Dns}, Dispatch(d) PROVE LoopOK'
  <2>1. self' = d /\ ev' = batch[d] /\ phase = "events" /\ phase' = phase
        /\ jobs' = jobs /\ batch' = [batch EXCEPT ![d] = {}]
    BY <1>3 DEF Dispatch
  <2>2. ev' \subseteq FdEvent /\ (d = Dns => ev' \subseteq {"IN"})
    BY <2>1 DEF LoopOK
  <2>3. ev' \cap {"PARSE", "CONNECT", "WAKE"} = {} /\ OneStage' /\ ~Closing'
    BY <2>2 DEF FdEvent, OneStage, Closing
  <2>4. \A x \in Conn \cup {Dns} : batch'[x] \subseteq batch[x]
    BY <2>1 DEF TypeOK
  <2> QED
    BY <1>0, <2>1, <2>2, <2>3, <2>4 DEF LoopOK
<1> QED
  BY <1>1, <1>2, <1>3

\* The invariant about phases and events is inductive.
LEMMA LoopStep ==
  ASSUME TypeOK, LoopOK, References, Linked, [Next]_vars
  PROVE  LoopOK'
<1>0. Alive /\ Links
  BY DEF Linked
<1>1. ASSUME Handler PROVE LoopOK'
  <2>1. ASSUME ParseHead(TRUE) PROVE LoopOK'
    <3>1. peer[self] \in Backends
      BY <1>0, <2>1, ProxyAssumption DEF ParseHead, Parses, Links, TypeOK, Conn
    <3> QED
      BY <1>0, <2>1, <3>1, PeerLoop
  <2> QED
    BY <1>0, <1>1, <2>1, HandlerKinds, HarmlessLoop, CloseLoop, SignalsLoop, PeerLoop
<1>2. ASSUME MainLoop PROVE LoopOK'
  BY <1>0, <1>2, LoopKinds, OuterLoop, CallLoop, SignalsLoop
<1>3. ASSUME UNCHANGED vars PROVE LoopOK'
  BY <1>3 DEF vars, connVars, loopVars, LoopOK, OneStage, Closing
<1> QED
  BY <1>1, <1>2, <1>3, OuterLoop DEF Next

-----------------------------------------------------------------------------
(* References lead to connections that exist.                               *)

\* A step that frees nothing, and touches or refers to nothing that is free.
Careful ==
  /\ \A c \in Conn : Live(c) => Live(c)'
  /\ \A c \in Conn : Live(c)' \/ UNCHANGED <<lsn[c], sock[c], rbuf[c], wbuf[c]>>
  /\ \A c \in Conn : waitOn'[c] \in {None, waitOn[c]} \/ (Live(c) /\ Live(waitOn'[c]) /\ waitOn'[c] \in Conn)
  /\ \A b \in Backends : dns'[b] = "none" \/ dns[b] # "none" \/ Live(b)'
  /\ \A c \in Conn : batch'[c] = {} \/ batch[c] # {} \/ Live(c)

\* A step that frees nobody and refers to living connections only is fine.
LEMMA CarefulKeeps ==
  ASSUME TypeOK, References, Careful
  PROVE  References'
<1>1. \A c \in Conn : batch'[c] # {} => Live(c)'
  BY DEF References, Careful
<1>2. ASSUME NEW c \in Conn, waitOn'[c] # None PROVE Live(c)' /\ Live(waitOn[c])'
  <2>1. waitOn'[c] \in Conn /\ Live(c) /\ Live(waitOn'[c])
    BY <1>2 DEF TypeOK, References, Careful
  <2> QED
    BY <2>1 DEF Careful, Live
<1>3. \A b \in Backends : dns'[b] # "none" => Live(b)'
  BY DEF References, Careful, Conn
<1>4. \A c \in Conn : ~Live(c)' =>
        lsn'[c] = {} /\ sock'[c] = "idle" /\ rbuf'[c] = 0 /\ wbuf'[c] = 0
  BY DEF References, Careful
<1> QED
  BY <1>1, <1>2, <1>3, <1>4 DEF References

\* Signalling a close frees nobody.
LEMMA SignalLives ==
  ASSUME NEW c \in Conn, SignalThisClose(c)
  PROVE  \A x \in Conn : Live(x) => Live(x)'
  BY DEF SignalThisClose, Live

LEMMA SelfLives ==
  ASSUME Alive, ev # {}, self \in Conn
  PROVE  Live(self)
  BY DEF Alive

LEMMA FailCareful ==
  ASSUME self \in Conn, Fail(self), UNCHANGED <<lsn, rbuf, wbuf, waitOn, reqstat, netVars>>
  PROVE  Careful
  BY SignalLives DEF Fail, Careful, netVars

LEMMA OuterCareful ==
  ASSUME TypeOK, LoopOK, References, Alive, Network \/ Timer \/ MainLoop
  PROVE  Careful
<1> USE ProxyAssumption
<1>1. ASSUME NEW c \in Clients, Accept(c) PROVE Careful
  BY <1>1 DEF Accept, loopVars, TypeOK, Careful, Live, Conn
<1>2. ASSUME NEW c \in Conn, Arrive(c) \/ RemoteEof(c) \/ RemoteReset(c) \/ Drain(c) \/ (c \in Backends /\ Connected(c))
      PROVE  Careful
  <2>1. UNCHANGED <<connVars, loopVars>>
    BY <1>2 DEF Arrive, RemoteEof, RemoteReset, Drain, Connected
  <2>2. sock' = sock \/ sock[c] # "idle"
    BY <1>2 DEF Arrive, RemoteEof, RemoteReset, Drain, Connected
  <2>3. sock'[c] = sock[c] \/ Live(c)
    BY <2>2 DEF References
  <2>4. \A x \in Conn \ {c} : sock'[x] = sock[x]
    BY <1>2 DEF Arrive, RemoteEof, RemoteReset, Drain, Connected, TypeOK
  <2> QED
    BY <2>1, <2>3, <2>4 DEF connVars, loopVars, Careful, Live
<1>3. ASSUME NEW S \in SUBSET Conn, TimerFires(S) PROVE Careful
  BY <1>3 DEF TimerFires, connVars, netVars, Careful, Live
<1>4. ASSUME NEW c \in Conn, TimeoutOne(c) PROVE Careful
  <2>1. \A x \in Conn : Live(x) => Live(x)'
    BY <1>4, SignalLives DEF TimeoutOne
  <2>2. \A x \in Conn : batch'[x] \in {{}, batch[x]}
    BY <1>4 DEF TimeoutOne, TypeOK
  <2> QED
    BY <1>4, <2>1, <2>2 DEF TimeoutOne, netVars, Careful
<1>5. ASSUME NEW r \in BOOLEAN, EvWait(r) PROVE Careful
  <2>1. \A c \in Conn : Reported[c] = {} \/ Live(c)
    <3> SUFFICES ASSUME NEW c \in Conn, ~Live(c) PROVE Reported[c] = {}
      OBVIOUS
    <3>1. lsn[c] = {} /\ sock[c] = "idle"
      BY DEF References
    <3> QED
      BY <3>1 DEF Reported, Readiness
  <2>2. \A c \in Conn : batch'[c] = Reported[c]
    BY <1>5 DEF EvWait, Conn
  <2> QED
    BY <1>5, <2>1, <2>2 DEF EvWait, connVars, Careful, Live
<1>6. ASSUME NEW d \in Conn \cup {Dns}, Dispatch(d) PROVE Careful
  <2>1. \A x \in Conn : batch'[x] \in {{}, batch[x]}
    BY <1>6 DEF Dispatch, TypeOK
  <2> QED
    BY <1>6, <2>1 DEF Dispatch, connVars, netVars, Careful, Live
<1>7. ASSUME StartJobs \/ RunJob \/ SkipJob \/ Return \/ EndJobs PROVE Careful
  BY <1>7 DEF StartJobs, RunJob, SkipJob, Return, EndJobs, connVars, netVars, Careful, Live
<1> QED
  BY <1>1, <1>2, <1>3, <1>4, <1>5, <1>6, <1>7 DEF Network, Timer, MainLoop, Conn

LEMMA InCareful ==
  ASSUME TypeOK, LoopOK, References, Linked, HandlesIn
  PROVE  Careful
<1> USE ProxyAssumption
<1>1. self \in Conn /\ ev # {} /\ ~Closing /\ Live(self)
  BY SelfLives DEF HandlesIn, ReadSome, ReadFull, ReadFails, DoesIn, Linked
<1>2. ASSUME ReadSome PROVE Careful
  <2>1. \A c \in Conn \ {self} : rbuf'[c] = rbuf[c] /\ lsn'[c] = lsn[c]
    BY <1>2 DEF ReadSome, ModFd, TypeOK
  <2> QED
    BY <1>1, <1>2, <2>1 DEF ReadSome, Careful, Live
<1>3. ASSUME ReadFull PROVE Careful
  <2>1. \A c \in Conn \ {self} : waitOn'[c] = waitOn[c] /\ lsn'[c] = lsn[c]
    BY <1>3 DEF ReadFull, ModFd, TypeOK
  <2>2. waitOn'[self] = waitOn[self] \/ (waitOn'[self] = peer[self] /\ peer[self] \in Conn)
    BY <1>1, <1>3 DEF ReadFull, TypeOK
  <2>3. peer[self] \in Conn => Live(peer[self])
    <3> SUFFICES ASSUME peer[self] \in Conn PROVE Live(peer[self])
      OBVIOUS
    <3>1. CASE Mutual(self)
      BY <1>1, <3>1 DEF Mutual, Linked, Alive, Conn
    <3>2. CASE ~Mutual(self)
      <4>1. Doomed(self)
        BY <1>1, <3>2 DEF Mutual, Cut, Linked, Links, Conn
      <4> QED
        BY <1>1, <4>1 DEF Doomed, ClosesNow, ClosesNext, ClosesAfter, Closing
    <3> QED
      BY <3>1, <3>2
  <2>4. UNCHANGED <<status, sock, rbuf, wbuf, dns, batch>>
    BY <1>3 DEF ReadFull
  <2> QED
    BY <1>1, <2>1, <2>2, <2>3, <2>4 DEF Careful, Live
<1>4. ASSUME ReadFails PROVE Careful
  <2>1. CASE Fail(self)
    BY <1>1, <1>4, <2>1, FailCareful DEF ReadFails
  <2>2. CASE ~Fail(self)
    BY <1>4, <2>2 DEF ReadFails, netVars, Careful, Live
  <2> QED
    BY <2>1, <2>2
<1> QED
  BY <1>2, <1>3, <1>4 DEF HandlesIn

LEMMA RequestCareful ==
  ASSUME TypeOK, LoopOK, References, Linked, HandlesRequest
  PROVE  Careful
<1> USE ProxyAssumption
<1>1. self \in Clients /\ self \in Conn /\ Live(self) /\ status[self] = "WORKING" /\ ev # {}
  <2>1. self \in Clients /\ ev \cap {"PARSE", "CONNECT"} # {}
    BY DEF HandlesRequest, ParseFails, ParseDenied, ParseDone, UsePeer, ConnectFails, ParseHead,
           ParseBody, CreatePeerByName, QueryFails, CreatePeer, Parses, Connects
  <2> QED
    BY <2>1 DEF LoopOK, Conn, Live
<1>2. ASSUME ParseFails \/ ConnectFails PROVE Careful
  BY <1>1, <1>2, FailCareful DEF ParseFails, ConnectFails
<1>3. ASSUME ParseDenied PROVE Careful
  BY <1>1, <1>3 DEF ParseDenied, netVars, TypeOK, Careful, Live
<1>4. ASSUME ParseDone \/ UsePeer PROVE Careful
  BY <1>4 DEF ParseDone, UsePeer, connVars, netVars, Careful, Live
<1>5. ASSUME NEW x \in BOOLEAN, ParseHead(x) PROVE Careful
  BY <1>5 DEF ParseHead, netVars, Careful, Live
<1>6. ASSUME NEW x \in BOOLEAN, ParseBody(x) PROVE Careful
  <2>1. peer[self] \in Conn /\ Live(peer[self])
    <3>1. peer[self] \in Conn /\ Mutual(self)
      BY <1>1, <1>6, WorkingLink DEF ParseBody, TypeOK
    <3> QED
      BY <1>1, <3>1 DEF Mutual, Linked, Alive, Conn
  <2>2. \A c \in Conn \ {self, peer[self]} : rbuf'[c] = rbuf[c] /\ wbuf'[c] = wbuf[c]
    BY <1>6 DEF ParseBody, TypeOK
  <2> QED
    BY <1>1, <1>6, <2>1, <2>2 DEF ParseBody, netVars, Careful, Live
<1>7. ASSUME NEW b \in Backends, CreatePeerByName(b) \/ QueryFails(b) PROVE Careful
  <2>1. b \in Conn /\ \A c \in Conn : Live(c) => Live(c)'
    BY <1>1, <1>7 DEF CreatePeerByName, QueryFails, TypeOK, Live, Conn
  <2>2. dns' = dns \/ (Live(b)' /\ dns' = [dns EXCEPT ![b] = "queued"])
    BY <1>7, <2>1 DEF CreatePeerByName, QueryFails, TypeOK, Live
  <2>3. UNCHANGED <<lsn, sock, rbuf, wbuf, waitOn, batch>>
    BY <1>7 DEF CreatePeerByName, QueryFails, netVars
  <2> QED
    BY <2>1, <2>2, <2>3 DEF Careful, TypeOK
<1>8. ASSUME NEW b \in Backends, NEW how \in {"open", "connecting"}, CreatePeer(b, how)
      PROVE  Careful
  <2>1. b \in Conn /\ Live(b)' /\ \A c \in Conn : Live(c) => Live(c)'
    BY <1>8 DEF CreatePeer, ConnectStatus, TypeOK, Live, Conn
  <2>2. \A c \in Conn \ {b} : lsn'[c] = lsn[c] /\ sock'[c] = sock[c]
    BY <1>8 DEF CreatePeer, TypeOK
  <2> QED
    BY <1>8, <2>1, <2>2 DEF CreatePeer, Careful
<1> QED
  BY <1>2, <1>3, <1>4, <1>5, <1>6, <1>7, <1>8 DEF HandlesRequest

LEMMA OutCareful ==
  ASSUME TypeOK, LoopOK, References, Linked, HandlesOut
  PROVE  Careful
<1> USE ProxyAssumption
<1>0. Alive
  BY DEF Linked
<1>1. DoesOut => self \in Conn /\ Live(self)
  BY <1>0, SelfLives DEF DoesOut
<1>2. ASSUME OutRefused PROVE Careful
  <2>1. CASE Fail(self)
    BY <1>1, <1>2, <2>1, FailCareful DEF OutRefused
  <2>2. CASE ~Fail(self)
    BY <1>2, <2>2 DEF OutRefused, netVars, Careful, Live
  <2> QED
    BY <2>1, <2>2
<1>3. ASSUME DoesOut, status' = [status EXCEPT ![self] = StatusAfterOut(self)]
      PROVE  \A c \in Conn : Live(c) => Live(c)'
  BY <1>1, <1>3 DEF TypeOK, Live, StatusAfterOut
<1>4. ASSUME WriteFails PROVE Careful
  <2>1. \A c \in Conn \ {self} : lsn'[c] = lsn[c]
    BY <1>4 DEF WriteFails, TypeOK
  <2> QED
    BY <1>1, <1>3, <1>4, <2>1 DEF WriteFails, netVars, Careful
<1>5. ASSUME NEW k \in 0..(2 * Limit), WriteSome(k) PROVE Careful
  <2>1. \A c \in Conn \ {self} : lsn'[c] = lsn[c] /\ wbuf'[c] = wbuf[c]
    BY <1>5 DEF WriteSome, ModFd, TypeOK
  <2> QED
    BY <1>1, <1>3, <1>5, <2>1 DEF WriteSome, Careful
<1>6. ASSUME NEW room \in BOOLEAN, AllWritten(room), \A c \in Conn : Live(c) => Live(c)'
      PROVE  Careful
  <2>1. \A c \in Conn \ {self} : lsn'[c] = lsn[c] /\ wbuf'[c] = wbuf[c]
    BY <1>6 DEF AllWritten, ModFd, TypeOK
  <2> QED
    BY <1>1, <1>6, <2>1 DEF AllWritten, Careful
<1>7. ASSUME NEW room \in BOOLEAN, WriteLast(room) PROVE Careful
  <2>1. self \in Conn
    BY <1>1, <1>7 DEF WriteLast, AllWritten
  <2> QED
    BY <1>6, <1>7, <2>1, SignalLives DEF WriteLast
<1>8. ASSUME NEW room \in BOOLEAN, WriteAll(room) PROVE Careful
  BY <1>3, <1>6, <1>8 DEF WriteAll, AllWritten
<1>9. ASSUME NEW w \in Conn, Wake(w) PROVE Careful
  <2>1. Live(w)
    BY <1>9, ProxyAssumption DEF Wake, References, LoopOK
  <2>2. \A c \in Conn \ {w} : lsn'[c] = lsn[c]
    BY <1>9 DEF Wake, ModFd, TypeOK
  <2>3. \A c \in Conn : waitOn'[c] \in {None, waitOn[c]}
    BY <1>9 DEF Wake, TypeOK
  <2> QED
    BY <1>9, <2>1, <2>2, <2>3 DEF Wake, Careful, Live
<1> QED
  BY <1>2, <1>4, <1>5, <1>7, <1>8, <1>9 DEF HandlesOut

LEMMA OtherCareful ==
  ASSUME TypeOK, LoopOK, References, Linked,
         HandlePeerClose \/ HandleErr \/ BackendForwards \/ BackendForwardFails \/ HandlesDns
  PROVE  Careful
<1> USE ProxyAssumption
<1>1. ASSUME HandlePeerClose PROVE Careful
  <2>1. \A c \in Conn : Live(c) => Live(c)'
    BY <1>1 DEF HandlePeerClose, TypeOK, Live
  <2> QED
    BY <1>1, <2>1 DEF HandlePeerClose, netVars, Careful
<1>2. ASSUME HandleErr \/ BackendForwardFails PROVE Careful
  BY <1>2, FailCareful DEF HandleErr, BackendForwardFails, Conn
<1>3. ASSUME BackendForwards PROVE Careful
  <2>1. /\ self \in Conn /\ Live(self) /\ peer[self] \in Conn /\ Live(peer[self])
    BY <1>3, SelfLives DEF BackendForwards, TypeOK, Conn, Live, Linked
  <2>2. \A c \in Conn \ {self, peer[self]} : rbuf'[c] = rbuf[c] /\ wbuf'[c] = wbuf[c]
    BY <1>3 DEF BackendForwards, TypeOK
  <2> QED
    BY <1>3, <2>1, <2>2 DEF BackendForwards, netVars, Careful, Live
<1>4. ASSUME DnsSend \/ DnsReadDone PROVE Careful
  BY <1>4 DEF DnsSend, DnsReadDone, connVars, netVars, TypeOK, Careful, Live
<1>5. ASSUME NEW b \in Backends, DnsNotFound(b) PROVE Careful
  <2>1. \A c \in Conn : Live(c) => Live(c)'
    BY <1>5, SignalLives DEF DnsNotFound, Conn
  <2>2. \A d \in Backends : dns'[d] \in {"none", dns[d]}
    BY <1>5 DEF DnsNotFound, TypeOK
  <2> QED
    BY <1>5, <2>1, <2>2 DEF DnsNotFound, netVars, Careful
<1>6. ASSUME NEW b \in Backends, NEW how \in {"open", "connecting"}, DnsFound(b, how)
      PROVE  Careful
  <2>1. b \in Conn /\ Live(b)' /\ \A c \in Conn : Live(c) => Live(c)'
    BY <1>6 DEF DnsFound, ConnectStatus, TypeOK, Live, Conn
  <2>2. \A c \in Conn \ {b} : lsn'[c] = lsn[c] /\ sock'[c] = sock[c]
    BY <1>6 DEF DnsFound, TypeOK
  <2>3. \A d \in Backends : dns'[d] \in {"none", dns[d]}
    BY <1>6 DEF DnsFound, TypeOK
  <2> QED
    BY <1>6, <2>1, <2>2, <2>3 DEF DnsFound, Careful
<1> QED
  BY <1>1, <1>2, <1>3, <1>4, <1>5, <1>6 DEF HandlesDns

\* Freeing a connection drops every reference to it (connection.c).
LEMMA FreeReferences ==
  ASSUME TypeOK, LoopOK, References, HandleThisClose
  PROVE  References'
<1>1. self \in Conn /\ batch' = NoEvents
  BY DEF HandleThisClose, LoopOK, Closing
<1>2. \A c \in Conn : status'[c] = IF c = self THEN "FREE" ELSE status[c]
  BY DEF HandleThisClose, TypeOK
<1>3. \A c \in Conn : batch'[c] = {}
  BY <1>1 DEF NoEvents
<1>4. ASSUME NEW c \in Conn, waitOn'[c] # None PROVE Live(c)' /\ Live(waitOn[c])'
  <2>1. c # self /\ waitOn'[c] = waitOn[c] /\ waitOn[c] # self /\ waitOn[c] # None
    BY <1>4 DEF HandleThisClose
  <2>2. waitOn[c] \in Conn /\ Live(c) /\ Live(waitOn[c])
    BY <2>1 DEF TypeOK, References
  <2> QED
    BY <1>2, <2>1, <2>2 DEF Live
<1>5. \A b \in Backends : dns'[b] # "none" => Live(b)'
  BY <1>2 DEF HandleThisClose, References, Live, Conn
<1>6. \A c \in Conn : ~Live(c)' =>
        lsn'[c] = {} /\ sock'[c] = "idle" /\ rbuf'[c] = 0 /\ wbuf'[c] = 0
  <2>1. /\ lsn'[self] = {} /\ sock'[self] = "idle" /\ rbuf'[self] = 0 /\ wbuf'[self] = 0
        /\ \A c \in Conn \ {self} : /\ lsn'[c] = lsn[c] /\ sock'[c] = sock[c]
                                    /\ rbuf'[c] = rbuf[c] /\ wbuf'[c] = wbuf[c]
    BY <1>1 DEF HandleThisClose, TypeOK
  <2> QED
    BY <1>2, <2>1 DEF References, Live
<1> QED
  BY <1>3, <1>4, <1>5, <1>6 DEF References

\* The invariant about references is inductive.
LEMMA ReferencesStep ==
  ASSUME TypeOK, LoopOK, References, Linked, [Next]_vars
  PROVE  References'
<1>1. ASSUME UNCHANGED vars PROVE Careful
  BY <1>1 DEF vars, connVars, loopVars, netVars, Careful, Live
<1>2. CASE HandleThisClose
  BY <1>2, FreeReferences
<1>3. CASE ~HandleThisClose
  <2>1. Careful
    BY <1>1, <1>3, OuterCareful, InCareful, RequestCareful, OutCareful, OtherCareful
    DEF Next, Handler, Linked
  <2> QED
    BY <2>1, CarefulKeeps
<1> QED
  BY <1>2, <1>3
-----------------------------------------------------------------------------
(* The bounds of the buffers.                                               *)

\* Links are only cut, buffers only shrink, and no client becomes working.
Loosens ==
  /\ \A x \in Conn : peer'[x] \in {peer[x], None}
  /\ \A x \in Conn : rbuf'[x] \in Nat /\ rbuf'[x] <= rbuf[x]
  /\ \A x \in Conn : wbuf'[x] \in Nat /\ wbuf'[x] <= wbuf[x]
  /\ \A x \in Clients : status'[x] = "WORKING" => status[x] = "WORKING"

\* Such a step keeps all bounds.
LEMMA LoosensBuffers ==
  ASSUME TypeOK, Buffers, Loosens
  PROVE  Buffers'
<1>0. Limit \in Nat /\ None \notin Conn
  BY ProxyAssumption DEF Conn
<1>1. \A x \in Conn : Extra(x) \in {0, 1} /\ Extra(x)' \in {0, 1} /\ Extra(x) <= Extra(x)'
  BY DEF Extra, Loosens
<1>2. \A x \in Conn : rbuf'[x] <= 2 * Limit /\ wbuf'[x] <= 2 * Limit + Extra(x)'
  <2> SUFFICES ASSUME NEW x \in Conn
               PROVE  rbuf'[x] <= 2 * Limit /\ wbuf'[x] <= 2 * Limit + Extra(x)'
    OBVIOUS
  <2>1. rbuf[x] \in Nat /\ wbuf[x] \in Nat
    BY DEF TypeOK
  <2>2. rbuf[x] <= 2 * Limit /\ wbuf[x] <= 2 * Limit + Extra(x)
    BY DEF Buffers
  <2>3. rbuf'[x] \in Nat /\ rbuf'[x] <= rbuf[x] /\ wbuf'[x] \in Nat /\ wbuf'[x] <= wbuf[x]
    BY DEF Loosens
  <2> QED
    BY <1>0, <1>1, <2>1, <2>2, <2>3
<1>3. ASSUME NEW x \in Conn, Mutual(x)'
      PROVE  \E y \in Conn : peer'[x] = y /\ rbuf'[x] + wbuf'[y] <= 2 * Limit + Extra(y)'
  <2>1. PICK y \in Conn : y = peer[x] /\ peer'[x] = y /\ peer'[y] = x
    BY <1>0, <1>3 DEF Mutual, Loosens, TypeOK
  <2>2. Mutual(x)
    BY <1>0, <2>1 DEF Mutual, Loosens
  <2>3. rbuf[x] + wbuf[y] <= 2 * Limit + Extra(y)
    BY <2>1, <2>2 DEF Buffers
  <2>4. rbuf[x] \in Nat /\ wbuf[y] \in Nat
    BY DEF TypeOK
  <2>5. rbuf'[x] \in Nat /\ rbuf'[x] <= rbuf[x] /\ wbuf'[y] \in Nat /\ wbuf'[y] <= wbuf[y]
    BY DEF Loosens
  <2> QED
    BY <1>0, <1>1, <2>1, <2>3, <2>4, <2>5
<1> QED
  <2>1. \A x \in Conn : Mutual(x)' => rbuf'[x] + wbuf'[peer'[x]] <= 2 * Limit + Extra(peer[x])'
    BY <1>3 DEF Extra
  <2> QED
    BY <1>2, <2>1 DEF Buffers

LEMMA SignalLoosens ==
  ASSUME TypeOK, NEW c \in Conn, SignalThisClose(c), UNCHANGED <<rbuf, wbuf>>
  PROVE  Loosens
<1>1. \A x \in Conn : peer'[x] \in {peer[x], None}
  BY DEF SignalThisClose
<1>2. \A x \in Clients : status'[x] = "WORKING" => status[x] = "WORKING"
  BY DEF SignalThisClose, Conn
<1>3. \A x \in Conn : rbuf[x] \in Nat /\ wbuf[x] \in Nat
  BY DEF TypeOK
<1> QED
  BY <1>1, <1>2, <1>3 DEF Loosens

LEMMA FailLoosens ==
  ASSUME TypeOK, self \in Conn, Fail(self), UNCHANGED <<rbuf, wbuf>>
  PROVE  Loosens
  BY SignalLoosens DEF Fail

\* Nobody can be linked to a new client: the address was free.
LEMMA AcceptBuffers ==
  ASSUME TypeOK, References, Linked, Buffers, NEW c \in Clients, Accept(c)
  PROVE  Buffers'
<1>0. Limit \in Nat /\ None \notin Conn /\ c \in Conn
  BY ProxyAssumption DEF Conn
<1>1. UNCHANGED <<peer, rbuf, wbuf>> /\ \A x \in Conn : x # c => status'[x] = status[x]
  BY <1>0 DEF Accept, TypeOK
<1>2. peer[c] = None /\ rbuf[c] = 0 /\ wbuf[c] = 0
  BY <1>0 DEF Accept, References, Linked, Alive
<1>3. \A x \in Conn : x # c => Extra(x)' = Extra(x)
  BY <1>1 DEF Extra
<1>4. Extra(c)' \in {0, 1}
  BY DEF Extra
<1>5. ASSUME NEW x \in Conn PROVE rbuf'[x] <= 2 * Limit /\ wbuf'[x] <= 2 * Limit + Extra(x)'
  <2>1. CASE x = c
    BY <1>0, <1>1, <1>2, <1>4, <2>1
  <2>2. CASE x # c
    BY <1>1, <1>3, <2>2 DEF Buffers
  <2> QED
    BY <2>1, <2>2
<1>6. ASSUME NEW x \in Conn, Mutual(x)'
      PROVE  \E y \in Conn : peer'[x] = y /\ rbuf'[x] + wbuf'[y] <= 2 * Limit + Extra(y)'
  <2>1. PICK y \in Conn : y = peer[x] /\ peer[y] = x
    BY <1>0, <1>1, <1>6 DEF Mutual, TypeOK
  <2>2. y # c /\ Mutual(x)
    BY <1>0, <1>2, <2>1 DEF Mutual
  <2> QED
    BY <1>1, <1>3, <2>1, <2>2 DEF Buffers
<1> QED
  <2>1. \A x \in Conn : Mutual(x)' => rbuf'[x] + wbuf'[peer'[x]] <= 2 * Limit + Extra(peer[x])'
    BY <1>6 DEF Extra
  <2> QED
    BY <1>5, <2>1 DEF Buffers

\* conn_handle_in reads no more than the two limits leave, together.
LEMMA ReadBuffers ==
  ASSUME TypeOK, Linked, Buffers, ReadSome
  PROVE  Buffers'
<1> DEFINE c == self
<1>0. Limit \in Nat /\ None \notin Conn /\ c \in Conn
  BY ProxyAssumption DEF Conn, ReadSome, DoesIn
<1>1. UNCHANGED <<self, status, peer, wbuf>>
  BY DEF ReadSome
<1>2. PICK n \in Int : /\ n = Least(sysin[self], Space(self)) /\ n > 0
                      /\ rbuf' = [rbuf EXCEPT ![self] = @ + n]
  <2>1. sysin[self] \in Int
    BY <1>0, ProxyAssumption DEF TypeOK
  <2>2. Space(self) \in Int
    BY <1>0 DEF TypeOK, Space
  <2> QED
    BY <2>1, <2>2 DEF ReadSome, Least
<1>3. /\ rbuf'[c] = rbuf[c] + n
      /\ \A x \in Conn : x # c => rbuf'[x] = rbuf[x]
  BY <1>0, <1>2 DEF TypeOK
<1>4. n <= Space(c)
  <2>1. sysin[c] \in Int /\ Space(c) \in Int
    BY <1>0, ProxyAssumption DEF TypeOK, Space
  <2> QED
    BY <1>2, <2>1 DEF Least
<1>5. rbuf'[c] <= 2 * Limit
  <2>1. CASE peer[c] = None
    BY <1>0, <1>3, <1>4, <2>1 DEF Space, TypeOK
  <2>2. CASE peer[c] # None
    BY <1>0, <1>3, <1>4, <2>2 DEF Space, TypeOK
  <2> QED
    BY <2>1, <2>2
<1>6. peer[c] # None => rbuf'[c] + wbuf[peer[c]] <= 2 * Limit
  BY <1>0, <1>3, <1>4 DEF Space, TypeOK
<1>7. \A x \in Conn : Extra(x)' = Extra(x) /\ Extra(x) \in {0, 1}
  BY <1>1 DEF Extra
<1>8. \A x \in Conn : rbuf'[x] <= 2 * Limit /\ wbuf'[x] <= 2 * Limit + Extra(x)'
  BY <1>1, <1>3, <1>5, <1>7 DEF Buffers
<1>9. ASSUME NEW x \in Conn, Mutual(x)'
      PROVE  \E y \in Conn : peer'[x] = y /\ rbuf'[x] + wbuf'[y] <= 2 * Limit + Extra(y)'
  <2>1. PICK y \in Conn : y = peer[x] /\ peer[y] = x
    BY <1>0, <1>1, <1>9 DEF Mutual, TypeOK
  <2>2. CASE x = c
    <3>1. rbuf'[x] + wbuf[y] <= 2 * Limit
      BY <1>0, <1>6, <2>1, <2>2
    <3>2. rbuf'[x] \in Int /\ wbuf[y] \in Int
      BY <1>3, <2>2 DEF TypeOK
    <3>3. peer'[x] = y /\ wbuf'[y] = wbuf[y] /\ Extra(y)' \in {0, 1}
      BY <1>1, <1>7, <2>1
    <3>4. rbuf'[x] + wbuf'[y] <= 2 * Limit + Extra(y)'
      BY <1>0, <3>1, <3>2, <3>3
    <3> QED
      BY <3>3, <3>4
  <2>3. CASE x # c
    BY <1>0, <1>1, <1>3, <1>7, <2>1, <2>3 DEF Buffers, Mutual
  <2> QED
    BY <2>2, <2>3
<1> QED
  <2>1. \A x \in Conn : Mutual(x)' => rbuf'[x] + wbuf'[peer'[x]] <= 2 * Limit + Extra(peer[x])'
    BY <1>9 DEF Extra
  <2> QED
    BY <1>8, <2>1 DEF Buffers
\* The error page is on top of the two limits.
LEMMA DeniedBuffers ==
  ASSUME TypeOK, LoopOK, Buffers, ParseDenied
  PROVE  Buffers'
<1>0. Limit \in Nat /\ None \notin Conn /\ self \in Conn /\ self \in Clients
  BY ProxyAssumption DEF Conn, ParseDenied, Parses
<1>1. /\ UNCHANGED <<self, rbuf, peer>>
      /\ wbuf'[self] = wbuf[self] + 1
      /\ \A x \in Conn : x # self => wbuf'[x] = wbuf[x] /\ status'[x] = status[x]
      /\ status[self] = "WORKING" /\ status'[self] = "CLOSING_WRITE"
  BY <1>0 DEF ParseDenied, Parses, LoopOK, TypeOK
<1>2. Extra(self) = 0 /\ Extra(self)' = 1 /\ \A x \in Conn : x # self => Extra(x)' = Extra(x)
  BY <1>0, <1>1 DEF Extra
<1>3. \A x \in Conn : Extra(x) \in {0, 1} /\ rbuf[x] \in Nat /\ wbuf[x] \in Nat
  BY DEF TypeOK, Extra
<1>4. \A x \in Conn : wbuf'[x] - Extra(x)' = wbuf[x] - Extra(x) /\ wbuf'[x] \in Nat /\ Extra(x)' \in {0, 1}
  BY <1>0, <1>1, <1>2, <1>3
<1>5. \A x \in Conn : rbuf'[x] <= 2 * Limit /\ wbuf'[x] <= 2 * Limit + Extra(x)'
  BY <1>0, <1>1, <1>3, <1>4 DEF Buffers
<1>6. ASSUME NEW x \in Conn, Mutual(x)'
      PROVE  \E y \in Conn : peer'[x] = y /\ rbuf'[x] + wbuf'[y] <= 2 * Limit + Extra(y)'
  <2>1. PICK y \in Conn : y = peer[x] /\ peer[y] = x
    BY <1>0, <1>1, <1>6 DEF Mutual, TypeOK
  <2>2. rbuf[x] + wbuf[y] <= 2 * Limit + Extra(y)
    BY <1>0, <2>1 DEF Buffers, Mutual
  <2> QED
    BY <1>0, <1>1, <1>3, <1>4, <2>1, <2>2
<1> QED
  <2>1. \A x \in Conn : Mutual(x)' => rbuf'[x] + wbuf'[peer'[x]] <= 2 * Limit + Extra(peer[x])'
    BY <1>6 DEF Extra
  <2> QED
    BY <1>5, <2>1 DEF Buffers

\* http_handle_forwarddata and backend_handle_read take nothing but what the
\* reader counted for both buffers.
LEMMA ForwardBuffers ==
  ASSUME TypeOK, Linked, Buffers, self \in Conn, Mutual(self), NEW n \in Nat, n <= rbuf[self],
         rbuf' = [rbuf EXCEPT ![self] = rbuf[self] - n],
         wbuf' = [wbuf EXCEPT ![peer[self]] = wbuf[peer[self]] + n],
         UNCHANGED <<self, peer, status>>
  PROVE  Buffers'
<1>0. Limit \in Nat /\ None \notin Conn
  BY ProxyAssumption DEF Conn
<1>1. PICK p \in Conn : p = peer[self] /\ peer[p] = self /\ p # self
  BY <1>0, ProxyAssumption DEF Mutual, TypeOK, Linked, Links, Conn
<1>2. /\ rbuf'[self] = rbuf[self] - n /\ wbuf'[p] = wbuf[p] + n
      /\ \A x \in Conn : x # self => rbuf'[x] = rbuf[x]
      /\ \A x \in Conn : x # p => wbuf'[x] = wbuf[x]
  BY <1>1 DEF TypeOK
<1>3. \A x \in Conn : /\ Extra(x)' = Extra(x) /\ Extra(x) \in {0, 1}
                      /\ rbuf[x] \in Nat /\ wbuf[x] \in Nat
  BY DEF TypeOK, Extra
<1>4. rbuf[self] + wbuf[p] <= 2 * Limit + Extra(p)
  BY <1>1 DEF Buffers
<1>5. ASSUME NEW x \in Conn PROVE rbuf'[x] <= 2 * Limit /\ wbuf'[x] <= 2 * Limit + Extra(x)'
  <2>1. rbuf[x] <= 2 * Limit /\ wbuf[x] <= 2 * Limit + Extra(x)
    BY DEF Buffers
  <2>2. rbuf'[x] <= rbuf[x]
    BY <1>2, <1>3
  <2>3. wbuf'[p] <= 2 * Limit + Extra(p)
    BY <1>0, <1>2, <1>3, <1>4
  <2>4. rbuf'[x] \in Int /\ wbuf'[x] \in Int
    BY <1>2, <1>3
  <2> QED
    BY <1>0, <1>2, <1>3, <2>1, <2>2, <2>3, <2>4
<1>6. ASSUME NEW x \in Conn, Mutual(x)'
      PROVE  \E y \in Conn : peer'[x] = y /\ rbuf'[x] + wbuf'[y] <= 2 * Limit + Extra(y)'
  <2>1. PICK y \in Conn : y = peer[x] /\ peer[y] = x
    BY <1>0, <1>6 DEF Mutual, TypeOK
  <2>2. CASE x = self
    <3>1. y = p
      BY <1>1, <2>1, <2>2
    <3>2. rbuf'[self] + wbuf'[p] = rbuf[self] + wbuf[p]
      BY <1>1, <1>2, <1>3
    <3> QED
      BY <1>3, <1>4, <2>1, <2>2, <3>1, <3>2
  <2>3. CASE x # self
    <3>1. y # p
      BY <1>1, <2>1, <2>3
    <3>2. rbuf[x] + wbuf[y] <= 2 * Limit + Extra(y)
      BY <1>0, <2>1 DEF Buffers, Mutual
    <3> QED
      BY <1>2, <1>3, <2>1, <2>3, <3>1, <3>2
  <2> QED
    BY <2>2, <2>3
<1> QED
  <2>1. \A x \in Conn : Mutual(x)' => rbuf'[x] + wbuf'[peer'[x]] <= 2 * Limit + Extra(peer[x])'
    BY <1>6 DEF Extra
  <2> QED
    BY <1>5, <2>1 DEF Buffers

\* A part of a request: its client is linked, or it had no peer to send it to.
LEMMA BodyBuffers ==
  ASSUME TypeOK, LoopOK, Linked, Buffers, NEW last \in BOOLEAN, ParseBody(last)
  PROVE  Buffers'
<1>1. self \in Conn /\ Mutual(self)
  BY WorkingLink DEF ParseBody, Parses, LoopOK, Conn
<1>2. rbuf[self] \in Nat /\ 1 <= rbuf[self]
  BY <1>1 DEF ParseBody, TypeOK
<1>3. /\ rbuf' = [rbuf EXCEPT ![self] = rbuf[self] - 1]
      /\ wbuf' = [wbuf EXCEPT ![peer[self]] = wbuf[peer[self]] + 1]
      /\ UNCHANGED <<self, peer, status>>
  BY DEF ParseBody
<1> QED
  BY <1>1, <1>2, <1>3, ForwardBuffers

\* A backend that forwards is linked with its client: the close of a client
\* that is working has not been signalled.
LEMMA BackendBuffers ==
  ASSUME TypeOK, LoopOK, Linked, Buffers, BackendForwards
  PROVE  Buffers'
<1>0. None \notin Conn
  BY ProxyAssumption DEF Conn
<1>1. /\ self \in Conn /\ self \in Backends /\ ~Closing /\ ev # {}
      /\ peer[self] # None /\ status[peer[self]] = "WORKING"
  BY DEF BackendForwards, LoopOK, Conn
<1>2. Mutual(self)
  <2>1. peer[self] \in Clients
    BY <1>1, ProxyAssumption DEF Linked, Links, TypeOK, Conn
  <2>2. ~Doomed(self)
    BY <1>1, <2>1 DEF Doomed, ClosesNow, ClosesNext, ClosesAfter, Closing
  <2> QED
    BY <1>1, <2>2 DEF Linked, Links, Mutual, Cut
<1>3. PICK n \in Nat : n = rbuf[self] /\ rbuf[self] - n = 0 /\ n <= rbuf[self]
  <2>1. rbuf[self] \in Nat
    BY <1>1 DEF TypeOK
  <2>2. rbuf[self] - rbuf[self] = 0 /\ rbuf[self] <= rbuf[self]
    BY <2>1
  <2> QED
    BY <2>1, <2>2
<1>4. /\ rbuf' = [rbuf EXCEPT ![self] = 0]
      /\ wbuf' = [wbuf EXCEPT ![peer[self]] = wbuf[peer[self]] + n]
      /\ UNCHANGED <<self, peer, status>>
  BY <1>3 DEF BackendForwards
<1>5. rbuf' = [rbuf EXCEPT ![self] = rbuf[self] - n]
  BY <1>3, <1>4
<1> QED
  BY <1>1, <1>2, <1>3, <1>4, <1>5, ForwardBuffers

\* A new backend has empty buffers, and its client is working.
LEMMA CreatesBuffers ==
  ASSUME TypeOK, References, Linked, Buffers, NEW b \in Backends, Creates(b),
         UNCHANGED <<rbuf, wbuf>>
  PROVE  Buffers'
<1>0. Limit \in Nat /\ None \notin Conn /\ b \in Conn /\ self \in Conn /\ b # self
      /\ self \in Clients /\ b \notin Clients
  BY ProxyAssumption DEF Conn, Creates
<1>1. \A x \in Conn : peer'[x] = IF x = b THEN self ELSE IF x = self THEN b ELSE peer[x]
  BY <1>0 DEF Creates, TypeOK
<1>2. status[self] = "WORKING" /\ \A x \in Conn : x # b => status'[x] = status[x]
  BY DEF Creates
<1>3. \A x \in Conn : Extra(x)' = Extra(x) /\ Extra(x) \in {0, 1}
  BY <1>0, <1>2 DEF Extra
<1>4. Extra(self) = 0 /\ rbuf[b] = 0 /\ wbuf[b] = 0
  BY <1>0, <1>2 DEF Extra, References, Creates
<1>5. \A x \in Conn : rbuf'[x] <= 2 * Limit /\ wbuf'[x] <= 2 * Limit + Extra(x)'
  BY <1>3 DEF Buffers
<1>6. ASSUME NEW x \in Conn, Mutual(x)'
      PROVE  \E y \in Conn : peer'[x] = y /\ rbuf'[x] + wbuf'[y] <= 2 * Limit + Extra(y)'
  <2>1. CASE x \in {b, self}
    <3>1. /\ rbuf[self] <= 2 * Limit /\ wbuf[self] <= 2 * Limit
          /\ rbuf[self] \in Nat /\ wbuf[self] \in Nat
      BY <1>0, <1>4 DEF Buffers, TypeOK
    <3>2. CASE x = b
      BY <1>0, <1>1, <1>3, <1>4, <3>1, <3>2
    <3>3. CASE x = self
      BY <1>0, <1>1, <1>3, <1>4, <3>1, <3>3
    <3> QED
      BY <2>1, <3>2, <3>3
  <2>2. CASE x \notin {b, self}
    <3>1. PICK y \in Conn : y = peer[x] /\ peer'[x] = y /\ peer'[y] = x
      BY <1>0, <1>1, <1>6, <2>2 DEF Mutual, TypeOK
    <3>2. y \notin {b, self} /\ peer[y] = x
      BY <1>0, <1>1, <2>2, <3>1
    <3> QED
      BY <1>0, <1>3, <3>1, <3>2 DEF Buffers, Mutual
  <2> QED
    BY <2>1, <2>2
<1> QED
  <2>1. \A x \in Conn : Mutual(x)' => rbuf'[x] + wbuf'[peer'[x]] <= 2 * Limit + Extra(peer[x])'
    BY <1>6 DEF Extra
  <2> QED
    BY <1>5, <2>1 DEF Buffers

\* The link to the backend whose query failed leads one way only.
LEMMA QueryFailsBuffers ==
  ASSUME TypeOK, Linked, Buffers, NEW b \in Backends, QueryFails(b)
  PROVE  Buffers'
<1>0. Limit \in Nat /\ None \notin Conn /\ b \in Conn /\ self \in Conn /\ b # self /\ peer[b] = None
      /\ peer[self] = None /\ b \notin Clients
  BY ProxyAssumption DEF Conn, QueryFails, Connects, Linked, Alive
<1>1. /\ UNCHANGED <<rbuf, wbuf>> /\ peer'[self] = b
      /\ \A x \in Conn : x # self => peer'[x] = peer[x]
  BY <1>0 DEF QueryFails, TypeOK
<1>2. \A x \in Conn : Extra(x) \in {0, 1} /\ Extra(x)' \in {0, 1} /\ Extra(x) <= Extra(x)'
  <2>1. \A x \in Conn : x \notin {b, self} => status'[x] = status[x]
    BY DEF QueryFails, TypeOK
  <2>2. status'[self] = "CLOSED"
    BY <1>0 DEF QueryFails, TypeOK
  <2> QED
    BY <1>0, <2>1, <2>2 DEF Extra
<1>3. \A x \in Conn : rbuf[x] \in Nat /\ wbuf[x] \in Nat
  BY DEF TypeOK
<1>4. \A x \in Conn : rbuf'[x] <= 2 * Limit /\ wbuf'[x] <= 2 * Limit + Extra(x)'
  BY <1>0, <1>1, <1>2, <1>3 DEF Buffers
<1>5. ASSUME NEW x \in Conn, Mutual(x)'
      PROVE  \E y \in Conn : peer'[x] = y /\ rbuf'[x] + wbuf'[y] <= 2 * Limit + Extra(y)'
  <2>1. x # self
    BY <1>0, <1>1, <1>5 DEF Mutual
  <2>2. PICK y \in Conn : y = peer[x] /\ peer'[x] = y /\ peer'[y] = x
    BY <1>1, <1>5, <2>1 DEF Mutual, TypeOK
  <2>3. y # self
    BY <1>0, <1>1, <2>2
  <2>4. rbuf[x] + wbuf[y] <= 2 * Limit + Extra(y)
    BY <1>0, <1>1, <2>2, <2>3 DEF Buffers, Mutual
  <2> QED
    BY <1>0, <1>1, <1>2, <1>3, <2>2, <2>4
<1> QED
  <2>1. \A x \in Conn : Mutual(x)' => rbuf'[x] + wbuf'[peer'[x]] <= 2 * Limit + Extra(peer[x])'
    BY <1>5 DEF Extra
  <2> QED
    BY <1>4, <2>1 DEF Buffers
LEMMA OutLoosens ==
  ASSUME TypeOK, HandlesOut
  PROVE  Loosens
<1> USE ProxyAssumption
<1>0. \A x \in Conn : rbuf[x] \in Nat /\ wbuf[x] \in Nat
  BY DEF TypeOK
<1>1. ASSUME OutRefused PROVE Loosens
  <2>1. CASE self \in Clients
    BY <1>0, <1>1, <2>1 DEF OutRefused, Loosens, TypeOK
  <2>2. CASE self \notin Clients
    BY <1>1, <2>2, FailLoosens DEF OutRefused, DoesOut
  <2> QED
    BY <2>1, <2>2
<1>2. \A x \in Clients : [status EXCEPT ![self] = StatusAfterOut(self)][x] = status[x]
  BY DEF StatusAfterOut, TypeOK, Conn
<1>3. ASSUME WriteFails PROVE Loosens
  BY <1>0, <1>2, <1>3 DEF WriteFails, Loosens, TypeOK
<1>4. ASSUME NEW k \in 0..(2 * Limit), WriteSome(k) PROVE Loosens
  <2>1. \A x \in Conn : wbuf'[x] \in Nat /\ wbuf'[x] <= wbuf[x]
    <3>1. self \in Conn /\ k < wbuf[self] /\ wbuf' = [wbuf EXCEPT ![self] = @ - k] /\ k \in Nat
      BY <1>4 DEF WriteSome, DoesOut
    <3>2. wbuf'[self] = wbuf[self] - k /\ \A x \in Conn : x # self => wbuf'[x] = wbuf[x]
      BY <3>1 DEF TypeOK
    <3> QED
      BY <1>0, <3>1, <3>2
  <2> QED
    BY <1>0, <1>2, <1>4, <2>1 DEF WriteSome, Loosens, TypeOK
<1>5. ASSUME NEW room \in BOOLEAN, WriteLast(room) \/ WriteAll(room) PROVE Loosens
  <2>1. self \in Conn /\ AllWritten(room)
    BY <1>5 DEF WriteLast, WriteAll, AllWritten, DoesOut
  <2>2. \A x \in Conn : wbuf'[x] \in Nat /\ wbuf'[x] <= wbuf[x]
    <3>1. wbuf'[self] = 0 /\ \A x \in Conn : x # self => wbuf'[x] = wbuf[x]
      BY <2>1 DEF AllWritten, TypeOK
    <3> QED
      BY <1>0, <3>1
  <2>3. rbuf' = rbuf
    BY <2>1 DEF AllWritten
  <2>4. CASE WriteLast(room)
    <3>1. SignalThisClose(self)
      BY <2>4 DEF WriteLast
    <3>2. /\ \A x \in Conn : peer'[x] \in {peer[x], None}
          /\ \A x \in Clients : status'[x] = "WORKING" => status[x] = "WORKING"
      BY <3>1 DEF SignalThisClose, Conn
    <3> QED
      BY <1>0, <2>2, <2>3, <3>2 DEF Loosens
  <2>5. CASE WriteAll(room)
    BY <1>0, <1>2, <2>2, <2>3, <2>5 DEF WriteAll, Loosens, TypeOK
  <2> QED
    BY <1>5, <2>4, <2>5
<1>6. ASSUME NEW w \in Conn, Wake(w) PROVE Loosens
  BY <1>0, <1>6 DEF Wake, Loosens, TypeOK
<1> QED
  BY <1>1, <1>3, <1>4, <1>5, <1>6 DEF HandlesOut

LEMMA CloseLoosens ==
  ASSUME TypeOK, HandlePeerClose \/ HandleThisClose \/ HandleErr
  PROVE  Loosens
<1>0. \A x \in Conn : rbuf[x] \in Nat /\ wbuf[x] \in Nat
  BY DEF TypeOK
<1>1. CASE HandlePeerClose
  <2>1. UNCHANGED <<peer, rbuf, wbuf>>
    BY <1>1 DEF HandlePeerClose
  <2>2. \A x \in Clients : status'[x] = "WORKING" => status[x] = "WORKING"
    BY <1>1 DEF HandlePeerClose, TypeOK, Conn
  <2> QED
    BY <1>0, <2>1, <2>2 DEF Loosens
<1>2. CASE HandleThisClose
  <2>1. self \in Conn
    BY <1>2 DEF HandleThisClose
  <2>2. /\ peer'[self] = None /\ rbuf'[self] = 0 /\ wbuf'[self] = 0 /\ status'[self] = "FREE"
        /\ \A x \in Conn \ {self} : /\ peer'[x] = peer[x] /\ rbuf'[x] = rbuf[x]
                                     /\ wbuf'[x] = wbuf[x] /\ status'[x] = status[x]
    BY <1>2, <2>1 DEF HandleThisClose, TypeOK
  <2> QED
    BY <1>0, <2>1, <2>2 DEF Loosens, Conn
<1>3. CASE HandleErr
  BY <1>3, FailLoosens DEF HandleErr
<1> QED
  BY <1>1, <1>2, <1>3

LEMMA NetworkBuffers ==
  ASSUME TypeOK, References, Linked, Buffers, Network \/ Timer \/ MainLoop
  PROVE  Buffers'
<1>0. \A x \in Conn : rbuf[x] \in Nat /\ wbuf[x] \in Nat
  BY DEF TypeOK
<1>1. ASSUME UNCHANGED connVars PROVE Loosens
  BY <1>0, <1>1 DEF connVars, Loosens
<1>2. ASSUME NEW c \in Conn, TimeoutOne(c) PROVE Loosens
  BY <1>2, SignalLoosens DEF TimeoutOne
<1>3. Loosens \/ \E c \in Clients : Accept(c)
  <2>1. CASE Network
    BY <1>1, <2>1 DEF Network, Arrive, RemoteEof, RemoteReset, Drain, Connected
  <2>2. CASE Timer
    BY <1>1, <2>2 DEF Timer, TimerFires
  <2>3. CASE MainLoop
    BY <1>1, <1>2, <2>3 DEF MainLoop, EvWait, Dispatch, StartJobs, RunJob, SkipJob, Return, EndJobs
  <2> QED
    BY <2>1, <2>2, <2>3
<1> QED
  BY <1>3, AcceptBuffers, LoosensBuffers

LEMMA DnsLoosens ==
  ASSUME TypeOK, HandlesDns
  PROVE  Loosens
<1>0. \A x \in Conn : rbuf[x] \in Nat /\ wbuf[x] \in Nat
  BY DEF TypeOK
<1>1. ASSUME NEW b \in Backends, DnsNotFound(b) PROVE Loosens
  BY <1>1, SignalLoosens DEF DnsNotFound, Conn
<1>2. ASSUME NEW b \in Backends, NEW how \in {"open", "connecting"}, DnsFound(b, how)
      PROVE  Loosens
  <2>1. \A x \in Clients : status'[x] = status[x]
    BY <1>2, ProxyAssumption DEF DnsFound, TypeOK, Conn
  <2> QED
    BY <1>0, <1>2, <2>1 DEF DnsFound, Loosens
<1>3. ASSUME DnsSend \/ DnsReadDone PROVE Loosens
  BY <1>0, <1>3 DEF DnsSend, DnsReadDone, connVars, Loosens
<1> QED
  BY <1>1, <1>2, <1>3 DEF HandlesDns

LEMMA InBuffers ==
  ASSUME TypeOK, Linked, Buffers, HandlesIn
  PROVE  Buffers'
<1>0. \A x \in Conn : rbuf[x] \in Nat /\ wbuf[x] \in Nat
  BY DEF TypeOK
<1>1. CASE ReadFull
  BY <1>0, <1>1, LoosensBuffers DEF ReadFull, Loosens
<1>2. CASE ReadFails
  <2>1. CASE self \in Clients /\ status[self] = "CLOSING_WRITE"
    BY <1>0, <1>2, <2>1, LoosensBuffers DEF ReadFails, Loosens
  <2>2. CASE ~(self \in Clients /\ status[self] = "CLOSING_WRITE")
    BY <1>2, <2>2, FailLoosens, LoosensBuffers DEF ReadFails, DoesIn
  <2> QED
    BY <2>1, <2>2
<1> QED
  BY <1>1, <1>2, ReadBuffers DEF HandlesIn

LEMMA RequestBuffers ==
  ASSUME TypeOK, LoopOK, References, Linked, Buffers, HandlesRequest
  PROVE  Buffers'
<1>0. \A x \in Conn : rbuf[x] \in Nat /\ wbuf[x] \in Nat
  BY DEF TypeOK
<1>1. ASSUME ParseFails \/ ConnectFails PROVE Loosens
  <2>1. self \in Conn /\ Fail(self) /\ UNCHANGED <<rbuf, wbuf>>
    BY <1>1 DEF ParseFails, ConnectFails, Parses, Connects, Conn
  <2> QED
    BY <2>1, FailLoosens
<1>2. ASSUME ParseDone \/ UsePeer PROVE Loosens
  BY <1>0, <1>2 DEF ParseDone, UsePeer, connVars, Loosens
<1>3. ASSUME NEW x \in BOOLEAN, ParseHead(x) PROVE Loosens
  <2>1. \A c \in Conn : peer'[c] \in {peer[c], None}
    BY <1>3 DEF ParseHead
  <2>2. \A c \in Clients : status'[c] = "WORKING" => status[c] = "WORKING"
    BY <1>3 DEF ParseHead, Conn
  <2> QED
    BY <1>0, <1>3, <2>1, <2>2 DEF ParseHead, Loosens
<1>4. ASSUME NEW b \in Backends, NewPeer(b) PROVE Buffers'
  <2>1. UNCHANGED <<rbuf, wbuf>>
    BY <1>4 DEF NewPeer, CreatePeerByName, CreatePeer
  <2> QED
    BY <1>4, <2>1, NewPeerCreates, CreatesBuffers
<1> QED
  BY <1>1, <1>2, <1>3, <1>4, LoosensBuffers, DeniedBuffers, BodyBuffers, QueryFailsBuffers
  DEF HandlesRequest, NewPeer

\* The bounds are inductive.
LEMMA BuffersStep ==
  ASSUME TypeOK, LoopOK, References, Linked, Buffers, [Next]_vars
  PROVE  Buffers'
<1>1. CASE Handler
  <2>1. CASE BackendForwardFails
    <3>1. self \in Conn /\ Fail(self) /\ UNCHANGED <<rbuf, wbuf>>
      BY <2>1 DEF BackendForwardFails, Conn
    <3> QED
      BY <3>1, FailLoosens, LoosensBuffers
  <2> QED
    BY <1>1, <2>1, CloseLoosens, InBuffers, RequestBuffers, BackendBuffers, OutLoosens,
       DnsLoosens, LoosensBuffers DEF Handler
<1>2. CASE UNCHANGED vars
  BY <1>2 DEF vars, connVars, Buffers, Mutual, Extra
<1> QED
  BY <1>1, <1>2, NetworkBuffers DEF Next

-----------------------------------------------------------------------------
(* The invariant.                                                           *)

\* All of it holds in the beginning,
LEMMA IInvInit == Init => IInv
<1> SUFFICES ASSUME Init PROVE IInv
  OBVIOUS
<1>0. Limit \in Nat /\ self = None /\ ev = {} /\ jobs = <<>> /\ phase = "wait" /\ Len(jobs) = 0
  BY ProxyAssumption DEF Init
<1>1. TypeOK
  BY TypeInit
<1>2. LoopOK
  BY <1>0, ProxyAssumption DEF Init, LoopOK, OneStage, Closing, DnsWrites, NoEvents
<1>3. References
  BY ProxyAssumption DEF Init, References, NoEvents, Live, Conn
<1>4. Linked
  <2>1. \A c \in Conn : peer[c] = None /\ status[c] = "FREE"
    BY DEF Init
  <2>2. Alive
    BY <1>0, <2>1, ProxyAssumption DEF Alive, OnlyOf, ToRun, Conn
  <2>3. Links
    BY <2>1 DEF Links, Mutual, Cut, Conn
  <2>4. Told
    BY <2>1 DEF Told
  <2> QED
    BY <2>2, <2>3, <2>4 DEF Linked
<1>5. Buffers
  <2>1. \A c \in Conn : peer[c] = None /\ rbuf[c] = 0 /\ wbuf[c] = 0 /\ Extra(c) \in {0, 1}
    BY DEF Init, Extra
  <2> QED
    BY <1>0, <2>1 DEF Buffers, Mutual
<1> QED
  BY <1>1, <1>2, <1>3, <1>4, <1>5 DEF IInv

\* is kept by every step
LEMMA IInvStep == IInv /\ [Next]_vars => IInv'
  BY TypeStep, LoopStep, ReferencesStep, LinkedStep, BuffersStep DEF IInv

\* and so holds at any time.
LEMMA IInvAlways == Spec => []IInv
  BY IInvInit, IInvStep, PTL DEF Spec
-----------------------------------------------------------------------------
(* What follows from the invariant.                                         *)

\* The positions from First on are those of the jobs still to run.
LEMMA ToRunIsStillToRun ==
  ASSUME TypeOK, NEW i
  PROVE  ToRun(jobs, First, i) <=> i \in DOMAIN jobs /\ StillToRun(i)
<1>1. Len(jobs) \in Nat /\ DOMAIN jobs = 1..Len(jobs)
  BY DEF TypeOK
<1> QED
  BY <1>1 DEF ToRun, StillToRun, First

LEMMA DueInIsDue ==
  ASSUME TypeOK, NEW c \in Conn, NEW e \in Ends, DueIn(jobs, First, c, e)
  PROVE  Due(c, e)
  BY ToRunIsStillToRun DEF DueIn, Due

\* However its close is under way, a doomed connection gets its CLOSE event.
LEMMA DoomedIsDue ==
  ASSUME TypeOK, NEW c \in Conn, Doomed(c)
  PROVE  Due(c, "CLOSE")
<1>1. CASE ClosesNow(c)
  BY <1>1 DEF ClosesNow, Due
<1>2. CASE ClosesNext(c) \/ ClosesAfter(c, peer[c])
  <2>1. DueIn(jobs, First, c, "CLOSE")
    BY <1>2 DEF ClosesNext, ClosesAfter, NextClosesIn, ClosesFirstIn, DueIn
  <2> QED
    BY <2>1, DueInIsDue DEF Ends
<1> QED
  BY <1>1, <1>2 DEF Doomed

\* A link that leads one way only is never used again.
LEMMA LinkIsMutual ==
  ASSUME IInv, NEW c \in Conn, peer[c] # None
  PROVE  Mutual(c) \/ Due(c, "CLOSE")
  BY DoomedIsDue DEF IInv, Linked, Links, Mutual, Cut

\* Every field of every connection, job and event keeps its type: events
\* reach a handler only as handle_job and handle_events pass them on.
THEOREM TypeAlways == Spec => []TypeOK
<1>1. IInv => TypeOK
  BY DEF IInv
<1> QED
  BY <1>1, IInvAlways, PTL

\* Links are mutual, except from a connection whose CLOSE event is due:
\* conn_signal_thisclose clears the peer's link only, forward.c clears both.
THEOREM LinksAgree == Spec => []PeersAgree
<1>1. IInv => PeersAgree
  BY LinkIsMutual DEF PeersAgree, Mutual
<1> QED
  BY <1>1, IInvAlways, PTL

\* The loop, epoll, the wait queues and the handlers follow no pointer to a
\* connection that connection_del has freed; conn->peer may be such a pointer
\* only while the CLOSE event of its holder is due, which does not read it.
THEOREM NothingDangles == Spec => []NoDanglingUse
<1>1. ASSUME IInv PROVE NoDanglingUse
  <2>1. TypeOK /\ References /\ Alive
    BY <1>1 DEF IInv, Linked
  <2>2. \A i \in DOMAIN jobs : StillToRun(i) /\ jobs[i].conn \in Conn => Live(jobs[i].conn)
    <3> SUFFICES ASSUME NEW i \in DOMAIN jobs, StillToRun(i), jobs[i].conn \in Conn
                 PROVE  Live(jobs[i].conn)
      OBVIOUS
    <3>1. ToRun(jobs, First, i)
      BY <2>1, ToRunIsStillToRun
    <3> QED
      BY <2>1, <3>1 DEF Alive, OnlyOf, ToRun, LiveSet
  <2>3. \A c \in Conn : peer[c] # None => Live(peer[c]) \/ Due(c, "CLOSE")
    <3> SUFFICES ASSUME NEW c \in Conn, peer[c] # None, ~Due(c, "CLOSE")
                 PROVE  Live(peer[c])
      OBVIOUS
    <3>1. Mutual(c) /\ peer[c] \in Conn /\ None \notin Conn
      BY <1>1, <2>1, LinkIsMutual, ProxyAssumption DEF TypeOK, Conn
    <3> QED
      BY <2>1, <3>1 DEF Mutual, Alive
  <2> QED
    BY <2>1, <2>2, <2>3 DEF NoDanglingUse, References, Alive
<1> QED
  BY <1>1, IInvAlways, PTL

\* Data stays with the user it belongs to: a backend and a client that are
\* linked were linked when peer_create made the backend, also when addresses
\* are reused and DNS answers come late.
THEOREM DataStaysApart == Spec => []NoCrossTalk
<1>1. ASSUME IInv PROVE NoCrossTalk
  <2>1. \A c \in Conn : peer[c] # None => Mutual(c) \/ Due(c, "CLOSE")
    BY <1>1, LinkIsMutual
  <2>2. Links /\ TypeOK
    BY <1>1 DEF IInv, Linked
  <2>3. \A b \in Backends : peer[b] # None => owner[b] = peer[b] \/ Due(b, "CLOSE")
    BY <2>1, <2>2 DEF Links, Conn
  <2>4. \A c \in Clients : peer[c] # None => owner[peer[c]] = c \/ Due(c, "CLOSE")
    <3> SUFFICES ASSUME NEW c \in Clients, peer[c] # None, ~Due(c, "CLOSE")
                 PROVE  owner[peer[c]] = c
      OBVIOUS
    <3>1. Mutual(c) /\ peer[c] \in Backends /\ c # None
      BY <2>1, <2>2, ProxyAssumption DEF Links, Conn
    <3>2. Mutual(peer[c])
      BY <3>1 DEF Mutual
    <3> QED
      BY <2>2, <3>1, <3>2 DEF Links, Mutual
  <2> QED
    BY <2>3, <2>4 DEF NoCrossTalk
<1> QED
  BY <1>1, IInvAlways, PTL

\* A connection whose peer has gone is told: conn_signal_peerclose leaves it
\* a PEERCLOSE event, which no other job of the list can take away.
THEOREM PeerIsTold == Spec => []PeerCloseIsDue
<1>1. ASSUME IInv PROVE PeerCloseIsDue
  <2>1. TypeOK /\ Told
    BY <1>1 DEF IInv, Linked
  <2> SUFFICES ASSUME NEW c \in Conn, status[c] = "PEERCLOSED"
               PROVE  Due(c, "PEERCLOSE") \/ Due(c, "CLOSE")
    BY DEF PeerCloseIsDue
  <2>2. CASE self = c /\ Closing
    BY <2>2 DEF Closing, Due
  <2>3. CASE DueIn(jobs, First, c, "PEERCLOSE") \/ DueIn(jobs, First, c, "CLOSE")
    BY <2>1, <2>3, DueInIsDue DEF Ends
  <2> QED
    BY <2>1, <2>2, <2>3 DEF Told
<1> QED
  BY <1>1, IInvAlways, PTL

\* Whatever the two sides send, what chunk_io_read may take keeps readbuf within two
\* limits and writebuf within two limits and an error page.
THEOREM BuffersAreBounded == Spec => []BoundedBuffers
<1>1. ASSUME IInv PROVE BoundedBuffers
  <2> SUFFICES ASSUME NEW c \in Conn
               PROVE  rbuf[c] <= 2 * Limit /\ wbuf[c] <= 2 * Limit + 1
    BY DEF BoundedBuffers
  <2>1. rbuf[c] <= 2 * Limit /\ wbuf[c] <= 2 * Limit + Extra(c)
    BY <1>1 DEF IInv, Buffers
  <2>2. wbuf[c] \in Nat /\ Limit \in Nat /\ Extra(c) \in {0, 1}
    BY <1>1, ProxyAssumption DEF IInv, TypeOK, Extra
  <2> QED
    BY <2>1, <2>2
<1> QED
  BY <1>1, IInvAlways, PTL

-----------------------------------------------------------------------------
(* Who is about to read: the tokens that lead to an IN event.               *)

\* The jobs to run that will hand c an IN event.
ReadsAt(q, f, c) == {i \in 1..Len(q) : ToRun(q, f, i) /\ q[i].conn = c /\ "IN" \in q[i].events}

\* A job without IN leads nobody to read,
LEMMA AddedReads ==
  ASSUME NEW q \in Seq(JobSet), NEW evs, "IN" \notin evs, NEW x, NEW r, Added(q, evs, x, r),
         NEW f \in {1, 2}, NEW c
  PROVE  ReadsAt(r, f, c) = ReadsAt(q, f, c)
<1>1. ASSUME NEW i \in 1..Len(r), i # Len(r)
      PROVE  i \in 1..Len(q) /\ r[i] = q[i]
  BY <1>1 DEF Added
<1>2. CASE Len(r) = Len(q)
  <2>1. q[Len(q)].conn = x /\ r[Len(r)].conn = x /\ ~r[Len(r)].deld
    BY <1>2 DEF Added
  <2>2. CASE q[Len(q)].deld
    <3>1. r[Len(r)].events = evs
      BY <2>2 DEF Added
    <3> QED
      BY <1>1, <1>2, <2>1, <2>2, <3>1 DEF ReadsAt, ToRun
  <2>3. CASE ~q[Len(q)].deld
    <3>1. r[Len(r)].events = q[Len(q)].events \cup evs
      BY <1>2, <2>3 DEF Added
    <3>2. "IN" \in r[Len(r)].events <=> "IN" \in q[Len(q)].events
      BY <3>1
    <3> QED
      BY <1>1, <1>2, <2>1, <2>3, <3>2 DEF ReadsAt, ToRun
  <2> QED
    BY <2>2, <2>3
<1>3. CASE Len(r) # Len(q)
  <2>1. Len(r) = Len(q) + 1 /\ r[Len(r)].events = evs /\ Len(q) \in Nat
    BY <1>3 DEF Added
  <2>2. \A i \in 1..Len(q) : i \in 1..Len(r) /\ r[i] = q[i]
    BY <1>1, <2>1
  <2> QED
    BY <1>1, <2>1, <2>2 DEF ReadsAt, ToRun
<1> QED
  BY <1>2, <1>3

\* a job to read no other connection,
LEMMA AddedReadsOther ==
  ASSUME NEW q \in Seq(JobSet), NEW evs, NEW x, NEW r, Added(q, evs, x, r),
         NEW f \in {1, 2}, NEW c, c # x
  PROVE  ReadsAt(r, f, c) = ReadsAt(q, f, c)
<1>1. r[Len(r)].conn = x
  BY DEF Added
<1>2. ASSUME NEW i \in 1..Len(r), i # Len(r)
      PROVE  i \in 1..Len(q) /\ r[i] = q[i]
  BY <1>2 DEF Added
<1>3. ASSUME NEW i \in 1..Len(q), q[i].conn = c
      PROVE  i \in 1..Len(r) /\ i # Len(r)
  BY <1>3 DEF Added
<1> QED
  BY <1>1, <1>2, <1>3 DEF ReadsAt, ToRun

\* and its own connection once.
LEMMA AddedToRead ==
  ASSUME NEW q \in Seq(JobSet), NEW evs, "IN" \in evs, NEW x, NEW r, Added(q, evs, x, r),
         NEW f \in {1, 2}, f = 2 => q # <<>> /\ q[1].conn # x, ReadsAt(q, f, x) = {}
  PROVE  ReadsAt(r, f, x) = {Len(r)}
<1>1. f = 2 => Len(q) > 0
  BY DEF Added
<1>2. ToRun(r, f, Len(r)) /\ r[Len(r)].conn = x /\ "IN" \in r[Len(r)].events /\ Len(r) \in 1..Len(r)
  BY <1>1 DEF Added, ToRun
<1>3. ASSUME NEW i \in 1..Len(r), i # Len(r)
      PROVE  i \in 1..Len(q) /\ r[i] = q[i]
  BY <1>3 DEF Added
<1> QED
  BY <1>2, <1>3 DEF ReadsAt, ToRun

\* The jobs of a signal lead nobody to read.
LEMMA SignalledReads ==
  ASSUME TypeOK, NEW c \in Conn, SignalThisClose(c), First' = First, NEW x
  PROVE  ReadsAt(jobs', First', x) = ReadsAt(jobs, First, x)
<1> DEFINE C == {"CLOSE"}
           P == {"PEERCLOSE"}
           f == First
<1>1. "IN" \notin C /\ "IN" \notin P
  OBVIOUS
<1>2. f \in {1, 2} /\ jobs \in Seq(JobSet)
  BY FirstIs DEF TypeOK, JobSet
<1>3. PICK s \in Seq(JobSet) :
        /\ IF peer[c] = None THEN s = jobs ELSE Added(jobs, P, peer[c], s)
        /\ Added(s, C, c, jobs')
  BY SignalAdds
<1> HIDE DEF C, P, f
<1>4. ReadsAt(jobs', f, x) = ReadsAt(s, f, x)
  BY <1>1, <1>2, <1>3, AddedReads
<1>5. CASE peer[c] = None
  BY <1>3, <1>4, <1>5 DEF f
<1>6. CASE peer[c] # None
  <2>1. ReadsAt(s, f, x) = ReadsAt(jobs, f, x)
    BY <1>1, <1>2, <1>3, <1>6, AddedReads
  <2> QED
    BY <1>4, <2>1 DEF f
<1> QED
  BY <1>5, <1>6

\* job_delconn touches no other connection's jobs.
LEMMA DeletedReads ==
  ASSUME NEW q, NEW c, NEW r, NEW f, StillRuns(q, f, c, r), NEW d
  PROVE  ReadsAt(r, f, d) = IF d = c THEN {} ELSE ReadsAt(q, f, d)
  BY DEF StillRuns, ReadsAt, ToRun

\* The loop goes on to the next job.
LEMMA LeftReads ==
  ASSUME NEW q, NEW f, NEW r, Left(q, f, r), NEW c
  PROVE  /\ ReadsAt(r, 1, c) = {} <=> ReadsAt(q, f, c) = {}
         /\ (\A i, j \in ReadsAt(q, f, c) : i = j) => \A i, j \in ReadsAt(r, 1, c) : i = j
<1>1. \A i \in 1..Len(r) : i \in ReadsAt(r, 1, c) <=> i + 1 \in ReadsAt(q, f, c)
  <2>1. \A i \in 1..Len(r) : i + 1 \in 1..Len(q)
    BY DEF Left
  <2> QED
    BY <2>1 DEF Left, ReadsAt
<1>2. \A n \in ReadsAt(q, f, c) : \E i \in 1..Len(r) : n = i + 1
  BY DEF Left, ReadsAt
<1>3. ReadsAt(r, 1, c) \subseteq 1..Len(r)
  BY DEF ReadsAt
<1> QED
  BY <1>1, <1>2, <1>3 DEF Left

\* The job that is taken may be one to read.
LEMMA TakenReads ==
  ASSUME NEW q \in Seq(JobSet), q # <<>>, ~q[1].deld, NEW c
  PROVE  ReadsAt(q, 1, c) = ReadsAt(q, 2, c)
           \cup {i \in {1} : q[1].conn = c /\ "IN" \in q[1].events}
<1>1. Len(q) \in Nat /\ Len(q) > 0
  OBVIOUS
<1> QED
  BY <1>1 DEF ReadsAt, ToRun

-----------------------------------------------------------------------------
(* The invariant about input.                                               *)

\* What leads connection c to read: it waits for room at its peer, epoll has
\* reported it, its handler is about to, or a job tells it to.
Waits(c) == waitOn[c] # None
Polled(c) == "IN" \in batch[c]
Reads(c) == self = c /\ "IN" \in ev
Woken(c) == ReadsAt(jobs, First, c) # {}
WokenOnce(c) == \A i, j \in ReadsAt(jobs, First, c) : i = j

\* Nothing leads c to read but its socket.
Silent(c) == ~Waits(c) /\ ~Polled(c) /\ ~Reads(c) /\ ~Woken(c)

\* The error of c is on epoll's list, reported, or being treated.
Errs(c) == "ERR" \in batch[c] \/ (self = c /\ "ERR" \in ev)

\* What epoll reported fits the socket, and a socket that is not connected
\* has no data; a reset is reported; only working connections wake others.
Sockets ==
  /\ phase = "timer" => \A c \in Conn : batch[c] \subseteq {"TIMEOUT"} /\ ~Woken(c)
  /\ self \in Conn => batch[self] = {}
  /\ \A c \in Conn : sock[c] \in {"idle", "connecting"} => sysin[c] = 0
  /\ \A b \in Backends : dns[b] # "none" => sock[b] = "idle"
  /\ \A c \in Conn : Errs(c) => sock[c] = "reset"
  /\ \A c \in Conn : status[c] \in {"WORKING", "CONNECTING"} /\ sock[c] = "reset" => armed[c] \/ Errs(c)
  /\ "WAKE" \in ev => ev = {"WAKE"} /\ self \in Conn /\ status[self] = "WORKING"

-----------------------------------------------------------------------------
(* Sockets.                                                                 *)

\* A handler's step that connects and frees nothing.
LEMMA SocketFrame ==
  ASSUME TypeOK, LoopOK, Sockets, self # None,
         UNCHANGED <<self, phase, sock, batch>>,
         \A c \in Conn : sysin'[c] = sysin[c] \/ (sysin[c] # 0 /\ self = c /\ sysin'[c] \in Nat),
         \A b \in Backends : dns'[b] # "none" => dns[b] # "none",
         "ERR" \in ev' => "ERR" \in ev,
         \A c \in Conn : status'[c] \in {"WORKING", "CONNECTING"} =>
           /\ status[c] \in {"WORKING", "CONNECTING"}
           /\ armed[c] => armed'[c]
           /\ self = c /\ "ERR" \in ev => "ERR" \in ev',
         "WAKE" \in ev' => ev' = {"WAKE"} /\ self \in Conn /\ status'[self] = "WORKING"
  PROVE  Sockets'
<1>1. phase # "timer" /\ phase' # "timer"
  BY DEF LoopOK
<1>2. \A c \in Conn : Errs(c)' => Errs(c)
  BY DEF Errs
<1>3. \A c \in Conn : status'[c] \in {"WORKING", "CONNECTING"} => (Errs(c) => Errs(c)')
  BY DEF Errs
<1> QED
  BY <1>1, <1>2, <1>3 DEF Sockets

\* A connection is signalled to close.
LEMMA SocketSignals ==
  ASSUME TypeOK, LoopOK, Sockets, NEW c \in Conn, Signals(c),
         UNCHANGED <<sock, sysin>>, \A x \in Conn : x # c => armed'[x] = armed[x],
         \A b \in Backends : dns'[b] # "none" => dns[b] # "none"
  PROVE  Sockets'
<1>1. \A x \in Conn : status'[x] \in {"WORKING", "CONNECTING"} =>
        status[x] \in {"WORKING", "CONNECTING"} /\ x # c
  BY DEF Signals, SignalThisClose, TypeOK
<1>2. "WAKE" \notin ev'
  BY DEF Signals, Sockets
<1>3. self' = self /\ phase' = phase /\ ("ERR" \in ev' => "ERR" \in ev)
  BY DEF Signals
<1>4. \A x \in Conn : batch'[x] \subseteq batch[x] /\ (x # c => batch'[x] = batch[x])
  BY DEF Signals, TypeOK
<1>5. \A x \in Conn : x # c /\ self = x => ev' = ev
  BY DEF Signals
<1>6. /\ \A x \in Conn : Errs(x)' => Errs(x)
      /\ \A x \in Conn : x # c /\ Errs(x) => Errs(x)'
  BY <1>3, <1>4, <1>5 DEF Errs
<1>7. phase = "timer" => \A x \in Conn : Woken(x)' <=> Woken(x)
  <2>1. First' = First
    BY <1>3 DEF First
  <2> QED
    BY <2>1, SignalledReads DEF Woken, Signals
<1>8. self \in Conn => batch'[self] = {}
  BY <1>4 DEF Sockets
<1> QED
  BY <1>1, <1>2, <1>3, <1>4, <1>6, <1>7, <1>8 DEF Sockets

\* The error exit of a handler.
LEMMA SocketFails ==
  ASSUME TypeOK, LoopOK, Sockets, self \in Conn, Fail(self), UNCHANGED netVars
  PROVE  Sockets'
<1>1. \A x \in Conn : status'[x] \in {"WORKING", "CONNECTING"} =>
        status[x] \in {"WORKING", "CONNECTING"} /\ x # self
  BY DEF Fail, SignalThisClose, TypeOK
<1>2. self # None
  BY ProxyAssumption DEF Conn
<1>3. ev' = {} /\ UNCHANGED <<self, phase, sock, batch, sysin, armed, dns>>
  BY DEF Fail, netVars
<1> QED
  BY <1>1, <1>2, <1>3, SocketFrame

LEMMA SocketIn ==
  ASSUME TypeOK, LoopOK, Sockets, HandlesIn
  PROVE  Sockets'
<1>1. self \in Conn /\ self # None /\ "IN" \in ev /\ "WAKE" \notin ev
  BY ProxyAssumption DEF HandlesIn, ReadSome, ReadFull, ReadFails, DoesIn, Conn, Sockets
<1>2. CASE ReadSome
  <2> DEFINE n == Least(sysin[self], Space(self))
  <2>1. sysin' = [sysin EXCEPT ![self] = @ - n] /\ n > 0
        /\ armed' = [armed EXCEPT ![self] = @ \/ Readiness(lsn[self] \cup {"IN"}, sysin[self] - n, sock[self], canwrite[self]) # {}]
        /\ ev' = (ev \ {"IN"}) \cup {"PARSE"}
        /\ UNCHANGED <<status, self, phase, sock, batch, dns>>
    BY <1>2 DEF ReadSome, ModFd
  <2>2. sysin' \in [Conn -> 0..SysCap] /\ sysin \in [Conn -> 0..SysCap]
    BY <1>1, <1>2, InType DEF TypeOK, HandlesIn
  <2>3. n <= sysin[self] /\ n \in Int
    BY <1>1, <2>2, ProxyAssumption DEF Least, Space, TypeOK
  <2> HIDE DEF n
  <2>4. sysin[self] # 0
    BY <1>1, <2>1, <2>2, <2>3, ProxyAssumption
  <2>5. \A c \in Conn : sysin'[c] = sysin[c] \/ (sysin[c] # 0 /\ self = c /\ sysin'[c] \in Nat)
    BY <2>1, <2>2, <2>4, ProxyAssumption
  <2>6. \A c \in Conn : armed[c] => armed'[c]
    BY <2>1 DEF TypeOK
  <2>7. "ERR" \in ev' <=> "ERR" \in ev
    BY <2>1
  <2>8. "WAKE" \notin ev'
    BY <1>1, <2>1
  <2> QED
    BY <1>1, <2>1, <2>5, <2>6, <2>7, <2>8, SocketFrame
<1>3. CASE ReadFull
  <2>1. ev' = (ev \ {"IN"}) \cup {e \in {"PARSE"} : self \in Backends}
        /\ UNCHANGED <<status, self, phase, sock, batch, dns, sysin>>
    BY <1>3 DEF ReadFull
  <2>2. \A c \in Conn : armed[c] => armed'[c]
    BY <1>3 DEF ReadFull, ModFd, TypeOK
  <2>3. "ERR" \in ev' <=> "ERR" \in ev
    BY <2>1
  <2>4. "WAKE" \notin ev'
    BY <1>1, <2>1
  <2> QED
    BY <1>1, <2>1, <2>2, <2>3, <2>4, SocketFrame
<1>4. CASE ReadFails
  <2>1. CASE self \in Clients /\ status[self] = "CLOSING_WRITE"
    <3>1. ev' = (ev \ {"IN"}) \cup {"OUT"} /\ UNCHANGED <<status, self, phase, sock, batch, dns, sysin, armed>>
      BY <1>4, <2>1 DEF ReadFails, netVars
    <3>2. ("ERR" \in ev' <=> "ERR" \in ev) /\ "WAKE" \notin ev'
      BY <1>1, <3>1
    <3> QED
      BY <1>1, <3>1, <3>2, SocketFrame
  <2>2. CASE ~(self \in Clients /\ status[self] = "CLOSING_WRITE")
    BY <1>1, <1>4, <2>2, SocketFails DEF ReadFails
  <2> QED
    BY <2>1, <2>2
<1> QED
  BY <1>2, <1>3, <1>4 DEF HandlesIn

\* A fresh backend gets its socket.
LEMMA SocketFresh ==
  ASSUME TypeOK, LoopOK, References, Sockets, NEW b \in Backends, NewPeer(b)
  PROVE  Sockets'
<1> USE ProxyAssumption
<1>1. /\ self \in Conn /\ b \in Conn /\ b # self /\ ~Live(b) /\ "CONNECT" \in ev /\ "WAKE" \notin ev
      /\ phase # "timer" /\ self \in Clients
  BY DEF NewPeer, CreatePeerByName, CreatePeer, Connects, Conn, Sockets, LoopOK
<1>2. sock[b] = "idle" /\ sysin[b] = 0 /\ batch[b] = {} /\ dns[b] = "none"
  BY <1>1 DEF References, Sockets
<1>3. /\ ev' = (ev \ {"CONNECT"}) \cup {"PARSE"}
      /\ UNCHANGED <<self, phase, batch, sysin, armed>>
      /\ \A x \in Conn : x # b => status'[x] = status[x] /\ sock'[x] = sock[x]
  BY DEF NewPeer, CreatePeerByName, CreatePeer, netVars, TypeOK
<1>4. /\ sock'[b] \in {"idle", "open", "connecting"}
      /\ \A x \in Backends : x # b => dns'[x] = dns[x]
      /\ dns'[b] # "none" => sock'[b] = "idle"
  BY <1>1, <1>2 DEF NewPeer, CreatePeerByName, CreatePeer, netVars, TypeOK
<1>5. ("ERR" \in ev' <=> "ERR" \in ev) /\ "WAKE" \notin ev'
  BY <1>1, <1>3
<1>6. \A x \in Conn : Errs(x)' <=> Errs(x)
  BY <1>3, <1>5 DEF Errs
<1>7. ~Errs(b)
  BY <1>1, <1>2 DEF Errs
<1>8. \A x \in Conn : Errs(x)' => sock'[x] = "reset"
  BY <1>3, <1>6, <1>7 DEF Sockets
<1>9. \A x \in Conn : status'[x] \in {"WORKING", "CONNECTING"} /\ sock'[x] = "reset" => armed'[x] \/ Errs(x)'
  BY <1>3, <1>4, <1>6 DEF Sockets
<1>10. \A x \in Conn : sock'[x] \in {"idle", "connecting"} => sysin'[x] = 0
  BY <1>2, <1>3 DEF Sockets
<1>11. \A x \in Backends : dns'[x] # "none" => sock'[x] = "idle"
  BY <1>3, <1>4 DEF Sockets, Conn
<1> QED
  BY <1>1, <1>3, <1>5, <1>8, <1>9, <1>10, <1>11 DEF Sockets

LEMMA SocketRequest ==
  ASSUME TypeOK, LoopOK, References, Sockets, HandlesRequest
  PROVE  Sockets'
<1> USE ProxyAssumption
<1>1. /\ self \in Conn /\ self # None /\ self \in Clients
      /\ ev \cap {"PARSE", "CONNECT"} # {} /\ "WAKE" \notin ev
  BY DEF HandlesRequest, ParseFails, ParseDenied, ParseHead, UsePeer, ParseDone, ParseBody,
         Parses, ConnectFails, CreatePeerByName, CreatePeer, QueryFails, Connects, Conn, Sockets
<1>2. CASE ParseFails \/ ConnectFails
  BY <1>1, <1>2, SocketFails DEF ParseFails, ConnectFails
<1>3. ASSUME NEW b \in Backends, NewPeer(b) PROVE Sockets'
  BY <1>3, SocketFresh
<1>4. ASSUME UNCHANGED <<self, phase, sock, batch, sysin, dns, armed>>,
             ev' \subseteq (ev \ {"PARSE", "CONNECT"}) \cup {"PARSE", "CONNECT", "OUT"} \/ ev' = {},
             \A c \in Conn : status'[c] \in {"WORKING", "CONNECTING"} =>
               status[c] \in {"WORKING", "CONNECTING"} /\ (self = c /\ "ERR" \in ev => "ERR" \in ev')
      PROVE  Sockets'
  <2>1. "WAKE" \notin ev' /\ ("ERR" \in ev' => "ERR" \in ev)
    BY <1>1, <1>4
  <2> QED
    BY <1>1, <1>4, <2>1, SocketFrame
<1>5. CASE ParseDenied
  <2>1. \A c \in Conn : status'[c] \in {"WORKING", "CONNECTING"} => status[c] \in {"WORKING", "CONNECTING"}
    BY <1>5 DEF ParseDenied, TypeOK
  <2>2. ev' = (ev \ {"PARSE"}) \cup {"OUT"} /\ UNCHANGED <<self, phase, sock, batch, sysin, dns, armed>>
    BY <1>5 DEF ParseDenied, netVars
  <2> QED
    BY <1>4, <2>1, <2>2
<1>6. ASSUME NEW x \in BOOLEAN, ParseHead(x) PROVE Sockets'
  <2>1. \A c \in Conn : status'[c] \in {"WORKING", "CONNECTING"} => status[c] \in {"WORKING", "CONNECTING"}
    BY <1>6 DEF ParseHead
  <2>2. ev' = (ev \ {"PARSE"}) \cup {"CONNECT"} /\ UNCHANGED <<self, phase, sock, batch, sysin, dns, armed>>
    BY <1>6 DEF ParseHead, netVars
  <2> QED
    BY <1>4, <2>1, <2>2
<1>7. CASE UsePeer
  BY <1>4, <1>7 DEF UsePeer, netVars
<1>8. CASE ParseDone
  BY <1>4, <1>8 DEF ParseDone, netVars, connVars
<1>9. ASSUME NEW x \in BOOLEAN, ParseBody(x) PROVE Sockets'
  BY <1>4, <1>9 DEF ParseBody, netVars
<1>10. ASSUME NEW b \in Backends, QueryFails(b) PROVE Sockets'
  <2>1. \A c \in Conn : status'[c] \in {"WORKING", "CONNECTING"} => status[c] \in {"WORKING", "CONNECTING"} /\ c # self
    BY <1>1, <1>10 DEF QueryFails, TypeOK
  <2> QED
    BY <1>4, <1>10, <2>1 DEF QueryFails, netVars
<1> QED
  BY <1>2, <1>3, <1>5, <1>6, <1>7, <1>8, <1>9, <1>10 DEF HandlesRequest, NewPeer

LEMMA SocketOut ==
  ASSUME TypeOK, LoopOK, References, Alive, Sockets, HandlesOut
  PROVE  Sockets'
<1> USE ProxyAssumption
<1>0. \A c \in Conn : c # None /\ c # Dns
  BY DEF Conn
<1>1. ASSUME NEW w \in Conn, Wake(w) PROVE Sockets'
  <2>1. ev = {"WAKE"} /\ self \in Conn /\ status[self] = "WORKING"
    BY <1>1 DEF Wake, Sockets
  <2>2. /\ UNCHANGED <<status, self, phase, sock, batch, sysin, dns>>
        /\ ev' = ev \/ ev' = {}
        /\ \A c \in Conn : armed[c] => armed'[c]
    BY <1>1 DEF Wake, ModFd, TypeOK
  <2>3. "ERR" \notin ev /\ "ERR" \notin ev'
    BY <2>1, <2>2
  <2> QED
    BY <1>0, <2>1, <2>2, <2>3, SocketFrame
<1>2. CASE OutRefused
  <2>1. self \in Conn /\ ev = {"OUT"}
    BY <1>2 DEF OutRefused, DoesOut
  <2>2. CASE self \in Clients
    <3>1. ev' = {} /\ UNCHANGED <<status, self, phase, sock, batch, sysin, dns, armed>>
      BY <1>2, <2>2 DEF OutRefused, netVars
    <3> QED
      BY <1>0, <2>1, <3>1, SocketFrame
  <2>3. CASE self \notin Clients
    BY <1>2, <2>1, <2>3, SocketFails DEF OutRefused
  <2> QED
    BY <2>2, <2>3
<1>3. ASSUME DoesOut, UNCHANGED <<self, phase, sock, batch, sysin, dns>>,
             \A c \in Conn : armed[c] => armed'[c],
             status' = [status EXCEPT ![self] = StatusAfterOut(self)],
             ev' = {} \/ (ev' = {"WAKE"} /\ status'[self] = "WORKING")
      PROVE  Sockets'
  <2>1. self \in Conn /\ ev = {"OUT"} /\ "ERR" \notin ev /\ "ERR" \notin ev'
    BY <1>3 DEF DoesOut
  <2>2. \A c \in Conn : status'[c] \in {"WORKING", "CONNECTING"} => status[c] \in {"WORKING", "CONNECTING"}
    BY <1>3, <2>1 DEF StatusAfterOut, TypeOK
  <2> QED
    BY <1>0, <1>3, <2>1, <2>2, SocketFrame
<1>4. CASE WriteFails
  BY <1>3, <1>4 DEF WriteFails, netVars
<1>5. ASSUME NEW k \in 0..(2 * Limit), WriteSome(k) PROVE Sockets'
  <2>1. \A c \in Conn : armed[c] => armed'[c]
    BY <1>5 DEF WriteSome, ModFd, TypeOK
  <2> QED
    BY <1>3, <1>5, <2>1 DEF WriteSome
<1>6. ASSUME NEW room \in BOOLEAN, AllWritten(room)
      PROVE  /\ DoesOut /\ self \in Conn /\ UNCHANGED <<self, phase, sock, batch, sysin, dns>>
             /\ \A c \in Conn : armed[c] => armed'[c]
             /\ \A c \in Conn : c # self => armed'[c] = armed[c]
  <2>1. DoesOut /\ self \in Conn /\ UNCHANGED <<self, phase, sock, batch, sysin, dns>>
    BY <1>6 DEF AllWritten, DoesOut
  <2>2. armed' = armed \/ \E S : armed' = [armed EXCEPT ![self] = @ \/ S # {}]
    BY <1>6 DEF AllWritten, ModFd
  <2>3. \A c \in Conn : (armed[c] => armed'[c]) /\ (c # self => armed'[c] = armed[c])
    BY <2>1, <2>2 DEF TypeOK
  <2> QED
    BY <2>1, <2>3
<1>7. ASSUME NEW room \in BOOLEAN, WriteAll(room) PROVE Sockets'
  <2>1. /\ DoesOut /\ self \in Conn /\ UNCHANGED <<self, phase, sock, batch, sysin, dns>>
        /\ \A c \in Conn : armed[c] => armed'[c]
    BY <1>6, <1>7 DEF WriteAll
  <2>2. status'[self] = "WORKING"
    BY <1>7, <2>1 DEF WriteAll, AllWritten, Writable, StatusAfterOut, TypeOK, Conn
  <2> QED
    BY <1>3, <1>7, <2>1, <2>2 DEF WriteAll
<1>8. ASSUME NEW room \in BOOLEAN, WriteLast(room) PROVE Sockets'
  <2>1. /\ DoesOut /\ self \in Conn /\ UNCHANGED <<self, phase, sock, batch, sysin, dns>>
        /\ \A c \in Conn : c # self => armed'[c] = armed[c]
    BY <1>6, <1>8 DEF WriteLast
  <2>2. SignalThisClose(self) /\ ev' = {} /\ UNCHANGED owner
    BY <1>8 DEF WriteLast, AllWritten, ghosts
  <2>3. ~Closing /\ ev # {}
    BY <2>1 DEF DoesOut, Closing
  <2>4. Signals(self)
    BY <2>1, <2>2, <2>3, FailSignals
  <2> QED
    BY <2>1, <2>4, SocketSignals
<1> QED
  BY <1>1, <1>2, <1>4, <1>5, <1>7, <1>8 DEF HandlesOut

\* The DNS answer connects a backend whose socket is fresh.
LEMMA SocketFound ==
  ASSUME TypeOK, LoopOK, Sockets, NEW b \in Backends, NEW how \in {"open", "connecting"}, DnsFound(b, how)
  PROVE  Sockets'
<1> USE ProxyAssumption
<1>1. /\ self = Dns /\ dns[b] # "none" /\ b \in Conn /\ phase # "timer" /\ self \notin Conn
      /\ \A x \in Conn : self # x
  BY DEF DnsFound, LoopOK, Conn
<1>2. sock[b] = "idle" /\ sysin[b] = 0
  BY <1>1 DEF Sockets
<1>3. /\ UNCHANGED <<self, phase, batch, sysin, armed, ev>>
      /\ \A x \in Conn : x # b => status'[x] = status[x] /\ sock'[x] = sock[x]
      /\ sock'[b] = how /\ dns'[b] = "none"
      /\ \A x \in Backends : x # b => dns'[x] = dns[x]
  BY <1>1 DEF DnsFound, TypeOK
<1>4. \A x \in Conn : Errs(x)' <=> Errs(x)
  BY <1>3 DEF Errs
<1>5. ~Errs(b)
  BY <1>1, <1>2 DEF Sockets
<1>6. \A x \in Conn : Errs(x)' => sock'[x] = "reset"
  BY <1>3, <1>4, <1>5 DEF Sockets
<1>7. \A x \in Conn : status'[x] \in {"WORKING", "CONNECTING"} /\ sock'[x] = "reset" => armed'[x] \/ Errs(x)'
  BY <1>3, <1>4 DEF Sockets
<1>8. \A x \in Conn : sock'[x] \in {"idle", "connecting"} => sysin'[x] = 0
  BY <1>2, <1>3 DEF Sockets
<1>9. \A x \in Backends : dns'[x] # "none" => sock'[x] = "idle"
  BY <1>3 DEF Sockets, Conn
<1> QED
  BY <1>1, <1>3, <1>6, <1>7, <1>8, <1>9 DEF Sockets

LEMMA SocketDns ==
  ASSUME TypeOK, LoopOK, References, Sockets, HandlesDns
  PROVE  Sockets'
<1> USE ProxyAssumption
<1>1. self = Dns /\ self # None /\ "WAKE" \notin ev /\ \A c \in Conn : c # self
  BY DEF HandlesDns, DnsSend, DnsReadDone, DnsNotFound, DnsFound, Sockets, Conn
<1>2. ASSUME DnsSend \/ DnsReadDone PROVE Sockets'
  <2>1. UNCHANGED <<status, self, phase, sock, batch, sysin, armed>> /\ ev' \subseteq ev
        /\ \A b \in Backends : dns'[b] # "none" => dns[b] # "none"
    BY <1>2 DEF DnsSend, DnsReadDone, connVars, netVars, TypeOK
  <2>2. "WAKE" \notin ev' /\ ("ERR" \in ev' => "ERR" \in ev)
    BY <1>1, <2>1
  <2> QED
    BY <1>1, <2>1, <2>2, SocketFrame
<1>3. ASSUME NEW b \in Backends, DnsNotFound(b) PROVE Sockets'
  <2>1. /\ self' = self /\ phase' = phase /\ UNCHANGED <<sock, batch, sysin, armed, ev>>
        /\ \A x \in Backends : dns'[x] # "none" => dns[x] # "none"
    BY <1>3 DEF DnsNotFound, netVars, TypeOK
  <2>2. \A c \in Conn : status'[c] \in {"WORKING", "CONNECTING"} => status[c] \in {"WORKING", "CONNECTING"}
    BY <1>3 DEF DnsNotFound, SignalThisClose
  <2> QED
    BY <1>1, <2>1, <2>2, SocketFrame
<1> QED
  BY <1>2, <1>3, SocketFound DEF HandlesDns

LEMMA SocketClose ==
  ASSUME TypeOK, LoopOK, Sockets, HandlePeerClose \/ HandleThisClose
  PROVE  Sockets'
<1> USE ProxyAssumption
<1>1. self \in Conn /\ self # None /\ "WAKE" \notin ev /\ phase # "timer"
  BY DEF HandlePeerClose, HandleThisClose, Sockets, Conn, LoopOK
<1>2. CASE HandlePeerClose
  <2>1. UNCHANGED <<self, phase, sock, batch, sysin, armed, dns>>
        /\ ev' \subseteq (ev \ {"PEERCLOSE"}) \cup {"OUT", "CLOSE"}
        /\ ev \ {"PEERCLOSE"} \subseteq ev'
    BY <1>2 DEF HandlePeerClose, netVars
  <2>2. \A c \in Conn : status'[c] \in {"WORKING", "CONNECTING"} => status[c] \in {"WORKING", "CONNECTING"}
    BY <1>2 DEF HandlePeerClose, TypeOK
  <2>3. ("ERR" \in ev' <=> "ERR" \in ev) /\ "WAKE" \notin ev'
    BY <1>1, <2>1
  <2> QED
    BY <1>1, <2>1, <2>2, <2>3, SocketFrame
<1>3. CASE HandleThisClose
  <2>1. /\ UNCHANGED <<self, phase, batch>> /\ ev' = {}
        /\ status'[self] = "FREE" /\ sock'[self] = "idle" /\ sysin'[self] = 0
        /\ \A x \in Conn : x # self =>
             status'[x] = status[x] /\ sock'[x] = sock[x] /\ sysin'[x] = sysin[x] /\ armed'[x] = armed[x]
        /\ \A b \in Backends : dns'[b] = IF b = self THEN "none" ELSE dns[b]
    BY <1>1, <1>3 DEF HandleThisClose, TypeOK
  <2>2. batch[self] = {}
    BY <1>1 DEF Sockets
  <2>3. \A x \in Conn : x # self => (Errs(x)' <=> Errs(x))
    BY <2>1 DEF Errs
  <2>4. ~Errs(self)'
    BY <2>1, <2>2 DEF Errs
  <2>5. \A x \in Conn : Errs(x)' => sock'[x] = "reset"
    BY <2>1, <2>3, <2>4 DEF Sockets
  <2>6. \A x \in Conn : status'[x] \in {"WORKING", "CONNECTING"} /\ sock'[x] = "reset" => armed'[x] \/ Errs(x)'
    BY <2>1, <2>3 DEF Sockets
  <2>7. \A x \in Conn : sock'[x] \in {"idle", "connecting"} => sysin'[x] = 0
    BY <2>1 DEF Sockets
  <2>8. \A x \in Backends : dns'[x] # "none" => sock'[x] = "idle"
    BY <2>1 DEF Sockets, Conn
  <2> QED
    BY <1>1, <2>1, <2>2, <2>5, <2>6, <2>7, <2>8 DEF Sockets
<1> QED
  BY <1>2, <1>3

LEMMA SocketBackend ==
  ASSUME TypeOK, LoopOK, Sockets, BackendForwards \/ BackendForwardFails
  PROVE  Sockets'
<1>1. self \in Conn /\ self # None /\ "WAKE" \notin ev
  BY ProxyAssumption DEF BackendForwards, BackendForwardFails, Sockets, Conn
<1>2. CASE BackendForwards
  <2>1. UNCHANGED <<status, self, phase, sock, batch, sysin, armed, dns>> /\ ev' = ev \ {"PARSE"}
    BY <1>2 DEF BackendForwards, netVars
  <2>2. "WAKE" \notin ev' /\ ("ERR" \in ev' <=> "ERR" \in ev)
    BY <1>1, <2>1
  <2> QED
    BY <1>1, <2>1, <2>2, SocketFrame
<1>3. CASE BackendForwardFails
  BY <1>1, <1>3, SocketFails DEF BackendForwardFails
<1> QED
  BY <1>2, <1>3

\* The network moves: data goes to open sockets only, a reset is armed.
LEMMA SocketNetwork ==
  ASSUME TypeOK, LoopOK, References, Sockets, Network
  PROVE  Sockets'
<1> USE ProxyAssumption
<1>0. /\ \A c \in Conn : Errs(c)' <=> Errs(c)
      /\ \A c \in Conn : Woken(c)' <=> Woken(c)
      /\ self' = self /\ phase' = phase /\ batch' = batch /\ ev' = ev /\ dns' = dns /\ self \notin Conn /\ ev = {}
  <2>1. UNCHANGED <<loopVars, dns>> /\ self = None
    BY DEF Network, Accept, Arrive, RemoteEof, RemoteReset, Drain, Connected, Move, Quiet, connVars
  <2> QED
    BY <2>1 DEF loopVars, Errs, Woken, First, LoopOK, Conn
<1>1. ASSUME NEW c \in Conn, \A x \in Conn : x # c => sock'[x] = sock[x] /\ sysin'[x] = sysin[x] /\ armed'[x] = armed[x],
             \A x \in Conn : x # c => status'[x] = status[x],
             sock'[c] \in {"idle", "connecting"} => sysin'[c] = 0,
             sock'[c] # "reset" => sock[c] # "reset",
             sock[c] = "reset" => sock'[c] = "reset",
             sock'[c] = "reset" => armed'[c] \/ (sock[c] = "reset" /\ armed'[c] = armed[c] /\ status'[c] = status[c]),
             c \in Backends /\ dns[c] # "none" => sock'[c] = sock[c]
      PROVE  Sockets'
  <2>1. \A x \in Conn : Errs(x)' => sock'[x] = "reset"
    BY <1>0, <1>1 DEF Sockets
  <2>2. \A x \in Conn : status'[x] \in {"WORKING", "CONNECTING"} /\ sock'[x] = "reset" => armed'[x] \/ Errs(x)'
    BY <1>0, <1>1 DEF Sockets
  <2>3. \A x \in Conn : sock'[x] \in {"idle", "connecting"} => sysin'[x] = 0
    BY <1>1 DEF Sockets
  <2>4. \A x \in Backends : dns'[x] # "none" => sock'[x] = "idle"
    BY <1>0, <1>1 DEF Sockets, Conn
  <2> QED
    BY <1>0, <2>1, <2>2, <2>3, <2>4 DEF Sockets
<1>2. ASSUME NEW c \in Clients, Accept(c) PROVE Sockets'
  <2>1. c \in Conn /\ c \notin Backends /\ sock[c] = "idle" /\ sock'[c] = "open" /\ sysin' = sysin /\ armed' = armed
    BY <1>2 DEF Accept, References, TypeOK, Conn
  <2>2. \A x \in Conn : x # c => sock'[x] = sock[x] /\ status'[x] = status[x]
    BY <1>2 DEF Accept, TypeOK
  <2>3. \A x \in Conn : Errs(x)' => sock'[x] = "reset"
    BY <1>0, <2>1, <2>2 DEF Sockets
  <2>4. \A x \in Conn : status'[x] \in {"WORKING", "CONNECTING"} /\ sock'[x] = "reset" => armed'[x] \/ Errs(x)'
    BY <1>0, <2>1, <2>2 DEF Sockets
  <2>5. \A x \in Conn : sock'[x] \in {"idle", "connecting"} => sysin'[x] = 0
    BY <2>1, <2>2 DEF Sockets
  <2>6. \A x \in Backends : dns'[x] # "none" => sock'[x] = "idle"
    BY <1>0, <2>1, <2>2 DEF Sockets, Conn
  <2> QED
    BY <1>0, <2>3, <2>4, <2>5, <2>6 DEF Sockets
<1>3. ASSUME NEW c \in Conn, Arrive(c) PROVE Sockets'
  <2>1. sock[c] = "open" /\ UNCHANGED <<sock, status>> /\ \A x \in Conn : x # c => sysin'[x] = sysin[x] /\ armed'[x] = armed[x]
    BY <1>3 DEF Arrive, connVars, TypeOK
  <2> QED
    BY <1>1, <2>1
<1>4. ASSUME NEW c \in Conn, RemoteEof(c) PROVE Sockets'
  <2>1. /\ sock[c] = "open" /\ sock'[c] = "eof" /\ UNCHANGED <<sysin, status>>
        /\ \A x \in Conn : x # c => sock'[x] = sock[x] /\ armed'[x] = armed[x]
    BY <1>4 DEF RemoteEof, connVars, TypeOK
  <2>2. c \in Backends => dns[c] = "none"
    BY <2>1 DEF Sockets
  <2> QED
    BY <1>1, <2>1, <2>2
<1>5. ASSUME NEW c \in Conn, RemoteReset(c) PROVE Sockets'
  <2>1. /\ sock[c] \in {"connecting", "open", "eof"} /\ sock'[c] = "reset" /\ armed'[c] /\ UNCHANGED <<sysin, status>>
        /\ \A x \in Conn : x # c => sock'[x] = sock[x] /\ armed'[x] = armed[x]
    BY <1>5 DEF RemoteReset, connVars, TypeOK
  <2>2. c \in Backends => dns[c] = "none"
    BY <2>1 DEF Sockets
  <2> QED
    BY <1>1, <2>1, <2>2
<1>6. ASSUME NEW c \in Conn, Drain(c) PROVE Sockets'
  <2>1. sock[c] \in {"open", "eof"} /\ UNCHANGED <<sock, sysin, status>> /\ \A x \in Conn : x # c => armed'[x] = armed[x]
    BY <1>6 DEF Drain, connVars, TypeOK
  <2> QED
    BY <1>1, <2>1
<1>7. ASSUME NEW b \in Backends, Connected(b) PROVE Sockets'
  <2>1. /\ b \in Conn /\ sock[b] = "connecting" /\ sock'[b] = "open" /\ UNCHANGED <<sysin, status>>
        /\ \A x \in Conn : x # b => sock'[x] = sock[x] /\ armed'[x] = armed[x]
    BY <1>7 DEF Connected, connVars, TypeOK, Conn
  <2>2. dns[b] = "none"
    BY <2>1 DEF Sockets
  <2> QED
    BY <1>1, <2>1, <2>2
<1> QED
  BY <1>2, <1>3, <1>4, <1>5, <1>6, <1>7 DEF Network

\* epoll_wait reports what is armed, and an error of a reset socket always.
LEMMA SocketWait ==
  ASSUME TypeOK, LoopOK, Sockets, NEW r \in BOOLEAN, EvWait(r)
  PROVE  Sockets'
<1> USE ProxyAssumption
<1>1. /\ phase' = "events" /\ self' = None /\ ev' = {} /\ self = None /\ None \notin Conn
      /\ UNCHANGED <<status, dns, sock, sysin>>
      /\ \A c \in Conn : batch'[c] = Reported[c] /\ c # Dns /\ batch[c] = {}
  BY DEF EvWait, connVars, LoopOK, NoEvents, Conn
<1>2. \A c \in Conn : "ERR" \in Reported[c] <=> armed[c] /\ sock[c] = "reset"
  BY DEF Reported, Readiness, TypeOK
<1>3. \A c \in Conn : (Errs(c)' <=> armed[c] /\ sock[c] = "reset") /\ ~Errs(c)
  BY <1>1, <1>2 DEF Errs
<1>4. \A c \in Conn : Errs(c)' => sock'[c] = "reset"
  BY <1>1, <1>3
<1>5. \A c \in Conn : status'[c] \in {"WORKING", "CONNECTING"} /\ sock'[c] = "reset" => Errs(c)'
  BY <1>1, <1>3 DEF Sockets
<1> QED
  BY <1>1, <1>4, <1>5 DEF Sockets

\* Phases and calls do not touch the sockets.
LEMMA SocketLoop ==
  ASSUME TypeOK, LoopOK, References, Alive, Sockets, MainLoop \/ Timer
  PROVE  Sockets'
<1> USE ProxyAssumption
<1>0. None \notin Conn /\ Dns \notin Conn
  BY DEF Conn
<1>1. ASSUME UNCHANGED <<status, dns, sock, sysin, armed>>,
             \A c \in Conn : Errs(c)' <=> Errs(c),
             phase' = "timer" => \A c \in Conn : batch'[c] \subseteq {"TIMEOUT"} /\ ~Woken(c)',
             self' \in Conn => batch'[self'] = {},
             "WAKE" \notin ev'
      PROVE  Sockets'
  BY <1>1 DEF Sockets
<1>2. ASSUME NEW S \in SUBSET Conn, TimerFires(S) PROVE Sockets'
  <2>1. phase = "wait" /\ self = None /\ self' = None /\ ev = {} /\ ev' = {} /\ jobs = <<>> /\ jobs' = <<>> /\ batch = NoEvents
    BY <1>2 DEF TimerFires, Quiet, LoopOK
  <2>2. \A c \in Conn : batch'[c] \subseteq {"TIMEOUT"} /\ batch[c] = {}
    BY <1>2, <2>1 DEF TimerFires, NoEvents
  <2>3. \A c \in Conn : ~Woken(c)'
    <3>1. Len(jobs') = 0
      BY <2>1
    <3> QED
      BY <3>1 DEF Woken, ReadsAt
  <2>4. \A c \in Conn : Errs(c)' <=> Errs(c)
    <3>1. \A c \in Conn : "ERR" \notin batch'[c]
      BY <2>2
    <3> QED
      BY <2>1, <2>2, <3>1 DEF Errs
  <2> QED
    BY <1>0, <1>1, <1>2, <2>1, <2>2, <2>3, <2>4 DEF TimerFires, connVars, netVars
<1>3. ASSUME NEW c \in Conn, TimeoutOne(c) PROVE Sockets'
  <2>1. Signals(c)
    <3>1. self = None /\ ev = {}
      BY <1>3 DEF TimeoutOne, LoopOK
    <3>2. Live(c) /\ UNCHANGED <<self, phase, owner, ev>>
      BY <1>3 DEF TimeoutOne, References, ghosts
    <3> QED
      BY <1>0, <1>3, <3>1, <3>2 DEF TimeoutOne, Signals, Closing
  <2> QED
    BY <1>3, <2>1, SocketSignals DEF TimeoutOne, netVars
<1>4. ASSUME NEW d \in Conn \cup {Dns}, Dispatch(d) PROVE Sockets'
  <2>1. self = None /\ self' = d /\ ev = {} /\ ev' = batch[d] /\ batch' = [batch EXCEPT ![d] = {}] /\ phase' = "events"
    BY <1>4 DEF Dispatch, LoopOK
  <2>2. \A c \in Conn : Errs(c)' <=> Errs(c)
    BY <1>0, <2>1 DEF Errs, TypeOK
  <2>3. "WAKE" \notin ev'
    <3>1. ev' \subseteq FdEvent \cup {"TIMEOUT"}
      BY <2>1 DEF TypeOK
    <3> QED
      BY <3>1 DEF FdEvent
  <2>4. self' \in Conn => batch'[self'] = {}
    BY <2>1 DEF TypeOK
  <2> QED
    BY <1>1, <1>4, <2>1, <2>2, <2>3, <2>4 DEF Dispatch, connVars, netVars
<1>5. ASSUME StartJobs \/ EndJobs PROVE Sockets'
  <2>1. self = None /\ self' = None /\ ev = {} /\ ev' = {} /\ phase' # "timer" /\ batch' = batch
        /\ UNCHANGED <<status, dns, sock, sysin, armed>>
    BY <1>5 DEF StartJobs, EndJobs, LoopOK, connVars, netVars
  <2>2. \A c \in Conn : Errs(c)' <=> Errs(c)
    BY <2>1 DEF Errs
  <2> QED
    BY <1>0, <1>1, <2>1, <2>2
<1>6. ASSUME RunJob PROVE Sockets'
  <2>1. /\ self = None /\ ev = {} /\ phase = "jobs" /\ phase' = "jobs" /\ batch' = batch /\ batch = NoEvents
        /\ UNCHANGED <<status, dns, sock, sysin, armed>>
    BY <1>6 DEF RunJob, LoopOK, connVars, netVars
  <2>2. ev' \subseteq JobEvent
    <3>1. jobs[1] \in JobSet /\ ev' = jobs[1].events
      BY <1>6 DEF RunJob, TypeOK, JobSet
    <3> QED
      BY <3>1 DEF JobSet, Job
  <2>3. "WAKE" \notin ev' /\ "ERR" \notin ev'
    BY <2>2 DEF JobEvent
  <2>4. \A c \in Conn : Errs(c)' <=> Errs(c)
    BY <2>1, <2>3 DEF Errs
  <2>5. self' \in Conn => batch'[self'] = {}
    BY <2>1 DEF NoEvents
  <2> QED
    BY <1>1, <2>1, <2>3, <2>4, <2>5
<1>7. ASSUME SkipJob \/ Return PROVE Sockets'
  <2>1. /\ ev = {} /\ ev' = {} /\ self' = None /\ batch' = batch /\ phase' = phase /\ phase # "timer"
        /\ UNCHANGED <<status, dns, sock, sysin, armed>>
    BY <1>7 DEF SkipJob, Return, LoopOK, connVars, netVars
  <2>2. \A c \in Conn : Errs(c)' <=> Errs(c)
    BY <2>1 DEF Errs
  <2> QED
    BY <1>0, <1>1, <2>1, <2>2
<1> QED
  BY <1>2, <1>3, <1>4, <1>5, <1>6, <1>7, SocketWait DEF MainLoop, Timer

\* The invariant about sockets is inductive.
LEMMA SocketsStep ==
  ASSUME TypeOK, LoopOK, References, Alive, Sockets, [Next]_vars
  PROVE  Sockets'
<1>1. ASSUME HandleErr PROVE Sockets'
  BY <1>1, SocketFails DEF HandleErr
<1>2. ASSUME UNCHANGED vars PROVE Sockets'
  BY <1>2 DEF vars, connVars, loopVars, netVars, Sockets, Errs, Woken, First
<1> QED
  BY <1>1, <1>2, SocketIn, SocketRequest, SocketOut, SocketDns, SocketClose, SocketBackend,
     SocketNetwork, SocketLoop DEF Next, Handler

-----------------------------------------------------------------------------
(* Turns: at most one thing leads a working connection to read, and it has  *)
(* something to read then.                                                  *)

\* The one thing.
OneTurn(c) ==
  /\ Waits(c) => ~Polled(c) /\ ~Reads(c) /\ ~Woken(c)
  /\ Polled(c) => ~Reads(c) /\ ~Woken(c)
  /\ Reads(c) => ~Woken(c)
  /\ WokenOnce(c)

\* Full with the head of one request.
Full(c) == peer[c] = None /\ rbuf[c] >= Limit

\* The running client treats a request.
Parsing(c) == self = c /\ c \in Clients /\ ev \cap {"PARSE", "CONNECT"} # {}

\* A backend that is not connected yet.
Fresh(c) == status[c] = "CONNECTING" \/ (c \in Backends /\ dns[c] # "none")

\* What a working connection can rely on.
OnTurn(c) ==
  /\ OneTurn(c)
  /\ ~Silent(c) => sysin[c] > 0 \/ sock[c] \in {"eof", "reset"}
  /\ Waits(c) <=> "IN" \notin lsn[c]
  /\ Waits(c) => sysin[c] > 0
  /\ sysin[c] > 0 => armed[c] \/ ~Silent(c) \/ Full(c)
  /\ Parsing(c) => Silent(c) /\ (sysin[c] > 0 => armed[c])

TurnOK(c) ==
  /\ waitOn[c] # c
  /\ status[c] \in {"WORKING", "CONNECTING"} /\ c \in Backends => dns[c] = "none"
  /\ Fresh(c) => Silent(c) /\ "IN" \notin lsn[c]
  /\ status[c] = "WORKING" => OnTurn(c)

Turns == \A c \in Conn : TurnOK(c)

\* The statuses in which input does not count any more.
Gone == {"FREE", "PEERCLOSED", "CLOSING_WRITE", "CLOSED"}

\* A step that leaves the input of c alone.
Calm(c) ==
  /\ UNCHANGED <<waitOn[c], sysin[c]>>
  /\ UNCHANGED <<Polled(c), Reads(c), Woken(c)>> /\ (WokenOnce(c) => WokenOnce(c)')
  /\ "IN" \in lsn'[c] <=> "IN" \in lsn[c]
  /\ armed[c] => armed'[c]
  /\ sock[c] \in {"eof", "reset"} => sock'[c] \in {"eof", "reset"}
  /\ Full(c) => Full(c)' \/ Parsing(c)
  /\ Parsing(c)' => Parsing(c)
  /\ status'[c] = status[c] \/ status'[c] \in Gone
  /\ c \in Backends /\ dns'[c] # "none" => dns[c] # "none"

\* A step after which the input of c does not count.
Fades(c) ==
  /\ status'[c] \in Gone
  /\ waitOn'[c] \in {None, waitOn[c]}
  /\ c \in Backends /\ dns'[c] # "none" => dns[c] # "none" /\ (Silent(c) => Silent(c)')
  /\ "IN" \in lsn'[c] => "IN" \in lsn[c]

LEMMA CalmTurn ==
  ASSUME NEW c \in Conn, TurnOK(c), Calm(c)
  PROVE  TurnOK(c)'
<1>1. Silent(c)' <=> Silent(c)
  BY DEF Calm, Silent, Waits
<1>2. Waits(c)' <=> Waits(c)
  BY DEF Calm, Waits
<1>3. OneTurn(c) => OneTurn(c)'
  BY <1>2 DEF Calm, OneTurn
<1>4. OnTurn(c) => OnTurn(c)'
  <2> SUFFICES ASSUME OnTurn(c) PROVE OnTurn(c)'
    OBVIOUS
  <2>1. ~Silent(c)' => sysin'[c] > 0 \/ sock'[c] \in {"eof", "reset"}
    BY <1>1 DEF Calm, OnTurn
  <2>2. (Waits(c)' <=> "IN" \notin lsn'[c]) /\ (Waits(c)' => sysin'[c] > 0)
    BY <1>2 DEF Calm, OnTurn
  <2>3. sysin'[c] > 0 => armed'[c] \/ ~Silent(c)' \/ Full(c)'
    BY <1>1 DEF Calm, OnTurn
  <2>4. Parsing(c)' => Silent(c)' /\ (sysin'[c] > 0 => armed'[c])
    BY <1>1 DEF Calm, OnTurn
  <2> QED
    BY <1>3, <2>1, <2>2, <2>3, <2>4 DEF OnTurn
<1>5. Fresh(c)' => Fresh(c)
  BY DEF Calm, Fresh, Gone
<1>6. status'[c] \in {"WORKING", "CONNECTING"} => status[c] = status'[c]
  BY DEF Calm, Gone
<1> QED
  BY <1>1, <1>4, <1>5, <1>6 DEF TurnOK, Calm

LEMMA FadeTurn ==
  ASSUME NEW c \in Conn, TurnOK(c), Fades(c)
  PROVE  TurnOK(c)'
<1>1. status'[c] \notin {"WORKING", "CONNECTING"}
  BY DEF Fades, Gone
<1>2. Fresh(c)' => Fresh(c) /\ Silent(c)'
  BY <1>1 DEF Fades, Fresh, TurnOK
<1>3. waitOn'[c] # c
  BY ProxyAssumption DEF Fades, TurnOK, Conn
<1> QED
  BY <1>1, <1>2, <1>3 DEF TurnOK, Fades

\* A handler's step that adds no job to read.
Usual ==
  /\ UNCHANGED <<self, phase, batch>>
  /\ \A c \in Conn : ReadsAt(jobs', First', c) = ReadsAt(jobs, First, c)

LEMMA UsualCalm ==
  ASSUME Usual, NEW c \in Conn,
         UNCHANGED <<waitOn[c], sysin[c], sock[c]>>,
         "IN" \in lsn'[c] <=> "IN" \in lsn[c],
         armed[c] => armed'[c],
         Full(c) => Full(c)' \/ Parsing(c),
         status'[c] = status[c] \/ status'[c] \in Gone,
         c \in Backends /\ dns'[c] # "none" => dns[c] # "none",
         self = c => /\ "IN" \in ev' <=> "IN" \in ev
                     /\ ev' \cap {"PARSE", "CONNECT"} # {} => ev \cap {"PARSE", "CONNECT"} # {}
  PROVE  Calm(c)
<1>1. UNCHANGED <<Polled(c), Reads(c), Woken(c)>> /\ (WokenOnce(c) => WokenOnce(c)')
  <2>1. Polled(c)' = Polled(c)
    BY DEF Usual, Polled
  <2>2. Reads(c)' = Reads(c)
    BY DEF Usual, Reads
  <2>3. ReadsAt(jobs', First', c) = ReadsAt(jobs, First, c)
    BY DEF Usual
  <2>4. Woken(c)' = Woken(c)
    BY <2>3 DEF Woken
  <2>5. WokenOnce(c) => WokenOnce(c)'
    BY <2>3 DEF WokenOnce
  <2> QED
    BY <2>1, <2>2, <2>4, <2>5
<1>2. Parsing(c)' => Parsing(c)
  BY DEF Usual, Parsing
<1> QED
  BY <1>1, <1>2 DEF Calm

LEMMA UsualFades ==
  ASSUME Usual, NEW c \in Conn, status'[c] \in Gone,
         waitOn'[c] = waitOn[c],
         "IN" \in lsn'[c] => "IN" \in lsn[c],
         c \in Backends /\ dns'[c] # "none" => dns[c] # "none",
         self = c => ("IN" \in ev' => "IN" \in ev)
  PROVE  Fades(c)
<1>1. Reads(c)' => Reads(c)
  BY DEF Usual, Reads
<1>2. (Polled(c)' => Polled(c)) /\ (Woken(c)' => Woken(c))
  BY DEF Usual, Polled, Woken
<1>3. Silent(c) => Silent(c)'
  BY <1>1, <1>2 DEF Silent, Waits
<1> QED
  BY <1>3 DEF Fades

\* Steps without a job, and with one that is not to read.
LEMMA SameJobsUsual ==
  ASSUME UNCHANGED <<self, phase, batch, jobs>>
  PROVE  Usual
  BY DEF Usual, First

LEMMA JobUsual ==
  ASSUME TypeOK, UNCHANGED <<self, phase, batch>>, NEW x \in Conn \cup {Dns},
         NEW E \in SUBSET JobEvent, "IN" \notin E, jobs' = AddConn(jobs, E, x)
  PROVE  Usual
<1>1. jobs \in Seq(JobSet) /\ First' = First /\ First \in {1, 2}
  BY FirstIs DEF TypeOK, JobSet, First
<1>2. Added(jobs, E, x, jobs')
  BY <1>1, AddConnAdds
<1> QED
  BY <1>1, <1>2, AddedReads DEF Usual

LEMMA SignalUsual ==
  ASSUME TypeOK, UNCHANGED <<self, phase, batch>>, NEW c \in Conn, SignalThisClose(c)
  PROVE  Usual
<1>1. First' = First
  BY DEF First
<1> QED
  BY <1>1, SignalledReads DEF Usual

\* A request that fails at its query has told the new backend and itself.
LEMMA QueryFailsUsual ==
  ASSUME TypeOK, NEW b \in Backends, QueryFails(b)
  PROVE  Usual
<1> DEFINE C == {"CLOSE"}
           P == {"PEERCLOSE"}
           f == First
           s == AddConn(jobs, P, b)
<1>1. "IN" \notin C /\ "IN" \notin P /\ C \in SUBSET JobEvent /\ P \in SUBSET JobEvent
  BY DEF JobEvent
<1>2. f \in {1, 2} /\ jobs \in Seq(JobSet) /\ b \in Conn \cup {Dns} /\ self \in Conn \cup {Dns}
  BY FirstIs, ProxyAssumption DEF TypeOK, JobSet, QueryFails, Connects, Conn
<1>3. jobs' = AddConn(s, C, self) /\ UNCHANGED <<self, phase, batch>> /\ First' = f
  BY DEF QueryFails, First
<1> HIDE DEF C, P, f
<1>4. Added(jobs, P, b, s)
  BY <1>1, <1>2, AddConnAdds
<1>5. s \in Seq(JobSet)
  BY <1>4 DEF Added
<1> HIDE DEF s
<1>6. Added(s, C, self, jobs')
  BY <1>1, <1>2, <1>3, <1>5, AddConnAdds
<1>7. \A c \in Conn : ReadsAt(s, f, c) = ReadsAt(jobs, f, c)
  BY <1>1, <1>2, <1>4, AddedReads
<1>8. \A c \in Conn : ReadsAt(jobs', f, c) = ReadsAt(s, f, c)
  BY <1>1, <1>2, <1>5, <1>6, AddedReads
<1> QED
  BY <1>3, <1>7, <1>8 DEF f, Usual

\* A connection is signalled to close: it and its peer are gone.
LEMMA TurnSignals ==
  ASSUME TypeOK, LoopOK, Turns, NEW c \in Conn, Signals(c),
         UNCHANGED <<waitOn, sysin, sock, rbuf>>,
         \A x \in Conn : x # c => lsn'[x] = lsn[x] /\ armed'[x] = armed[x],
         "IN" \in lsn'[c] => "IN" \in lsn[c],
         \A b \in Backends : dns'[b] # "none" => dns[b] # "none"
  PROVE  Turns'
<1> SUFFICES ASSUME NEW x \in Conn PROVE TurnOK(x)'
  BY DEF Turns
<1>0. TurnOK(x)
  BY DEF Turns
<1>1. /\ status' = [y \in Conn |-> IF y = peer[c] THEN "PEERCLOSED" ELSE IF y = c THEN "CLOSED" ELSE status[y]]
      /\ peer' = [y \in Conn |-> IF y = peer[c] THEN None ELSE peer[y]]
      /\ self' = self /\ phase' = phase /\ (self \in Conn => self = c) /\ (ev' = {} \/ ev' = ev)
      /\ (x = c \/ batch'[x] = batch[x]) /\ batch'[x] \subseteq batch[x]
  BY DEF Signals, SignalThisClose, TypeOK
<1>2. ReadsAt(jobs', First', x) = ReadsAt(jobs, First, x)
  <2>1. First' = First
    BY <1>1 DEF First
  <2> QED
    BY <2>1, SignalledReads DEF Signals
<1>3. (Woken(x)' <=> Woken(x)) /\ (WokenOnce(x) => WokenOnce(x)')
  BY <1>2 DEF Woken, WokenOnce
<1>4. (Polled(x)' => Polled(x)) /\ (x # c => (Polled(x)' <=> Polled(x)))
  BY <1>1 DEF Polled
<1>5. (Reads(x)' => Reads(x)) /\ (x # c => ~Reads(x) /\ ~Reads(x)' /\ ~Parsing(x)')
  BY <1>1 DEF Reads, Parsing
<1>6. Waits(x)' <=> Waits(x)
  BY DEF Waits
<1>7. CASE x = c \/ x = peer[c]
  <2>1. status'[x] \in Gone
    BY <1>1, <1>7 DEF Gone
  <2>2. Silent(x) => Silent(x)'
    BY <1>3, <1>4, <1>5, <1>6 DEF Silent
  <2>3. Fades(x)
    BY <2>1, <2>2 DEF Fades
  <2> QED
    BY <1>0, <2>3, FadeTurn
<1>8. CASE x # c /\ x # peer[c]
  <2>1. status'[x] = status[x] /\ peer'[x] = peer[x]
    BY <1>1, <1>8
  <2>2. Calm(x)
    BY <1>3, <1>4, <1>5, <1>8, <2>1 DEF Calm, Full, Polled, Reads, Woken
  <2> QED
    BY <1>0, <2>2, CalmTurn
<1> QED
  BY <1>7, <1>8

\* The error exit of a handler.
LEMMA TurnFails ==
  ASSUME TypeOK, LoopOK, Alive, Turns, self \in Conn, ~Closing, ev # {}, Fail(self),
         UNCHANGED <<lsn, rbuf, wbuf, waitOn, reqstat, netVars>>
  PROVE  Turns'
<1>1. Signals(self)
  BY FailSignals DEF Fail
<1> QED
  BY <1>1, TurnSignals DEF Fail, netVars

\* After a read nothing leads the connection on but its socket, which
\* ev_modfd has armed if there is more (conn_io.c).
LEMMA TurnRead ==
  ASSUME TypeOK, LoopOK, Sockets, Turns, ReadSome
  PROVE  Turns'
<1> USE ProxyAssumption
<1>a. PICK c \in Conn : c = self
  BY DEF ReadSome, ReadFull, DoesIn
<1>1. c = self /\ status[c] = "WORKING" /\ TurnOK(c) /\ OnTurn(c) /\ Reads(c)
  BY <1>a DEF ReadSome, DoesIn, Turns, TurnOK, Reads
<1>2. /\ UNCHANGED <<status, peer, waitOn, dns, jobs, phase, batch, self, sock>>
      /\ ev' = (ev \ {"IN"}) \cup {"PARSE"}
      /\ lsn' = [lsn EXCEPT ![c] = lsn[c] \cup {"IN"}]
  BY <1>a DEF ReadSome, ModFd
<1>3. Usual
  BY <1>2, SameJobsUsual
<1>4. ASSUME NEW x \in Conn, x # c PROVE TurnOK(x)'
  <2>1. sysin'[x] = sysin[x] /\ rbuf'[x] = rbuf[x] /\ lsn'[x] = lsn[x] /\ armed'[x] = armed[x]
    BY <1>a, <1>4 DEF ReadSome, ModFd, TypeOK
  <2>2. Calm(x)
    BY <1>a, <1>2, <1>3, <1>4, <2>1, UsualCalm DEF Full
  <2> QED
    BY <2>2, CalmTurn DEF Turns
<1>5. Silent(c)'
  <2>1. ~Waits(c) /\ ~Polled(c) /\ ~Woken(c)
    BY <1>1 DEF OnTurn, OneTurn
  <2>2. ~Waits(c)' /\ ~Polled(c)' /\ ~Woken(c)'
    BY <1>1, <1>2, <1>3, <2>1 DEF Usual, Waits, Polled, Woken
  <2>3. ~Reads(c)'
    BY <1>2 DEF Reads
  <2> QED
    BY <2>2, <2>3 DEF Silent
<1>6. WokenOnce(c)'
  BY <1>1, <1>3 DEF Usual, WokenOnce, OnTurn, OneTurn
<1>7. "IN" \in lsn'[c]
  BY <1>1, <1>2 DEF TypeOK
<1>8. sysin'[c] > 0 => armed'[c]
  <2> DEFINE n == Least(sysin[c], Space(c))
  <2>1. /\ sysin'[c] = sysin[c] - n
        /\ armed'[c] = (armed[c] \/ Readiness(lsn[c] \cup {"IN"}, sysin[c] - n, sock[c], canwrite[c]) # {})
    BY <1>1 DEF ReadSome, ModFd, TypeOK
  <2> HIDE DEF n
  <2>2. sysin[c] - n > 0 => "IN" \in Readiness(lsn[c] \cup {"IN"}, sysin[c] - n, sock[c], canwrite[c])
    BY DEF Readiness
  <2> QED
    BY <2>1, <2>2
<1>9. OneTurn(c)'
  BY <1>5, <1>6 DEF OneTurn, Silent
<1>10. OnTurn(c)'
  BY <1>5, <1>7, <1>8, <1>9 DEF OnTurn, Silent
<1>11. ~Fresh(c) /\ ~Fresh(c)'
  BY <1>1, <1>2 DEF TurnOK, Fresh, Silent
<1>12. TurnOK(c)'
  <2>1. waitOn'[c] # self
    BY <1>1, <1>2 DEF TurnOK
  <2> QED
    BY <1>a, <1>2, <1>10, <1>11, <2>1 DEF TurnOK, Fresh
<1> QED
  BY <1>4, <1>12 DEF Turns

\* A connection that finds no room waits for its peer, or is full with the
\* head of one request.
LEMMA TurnFull ==
  ASSUME TypeOK, LoopOK, Links, Sockets, Turns, ReadFull
  PROVE  Turns'
<1> USE ProxyAssumption
<1>0. None \notin Conn /\ Limit \in Nat /\ Limit > 0
  BY DEF Conn
<1>a. PICK c \in Conn : c = self
  BY DEF ReadSome, ReadFull, DoesIn
<1>1. c = self /\ status[c] = "WORKING" /\ TurnOK(c) /\ OnTurn(c) /\ Reads(c)
      /\ sysin[c] > 0 /\ Space(c) <= 0
  BY <1>a DEF ReadFull, DoesIn, Turns, TurnOK, Reads
<1>2. /\ UNCHANGED <<status, peer, rbuf, dns, jobs, phase, batch, self, sock, sysin>>
      /\ ev' = (ev \ {"IN"}) \cup {e \in {"PARSE"} : self \in Backends}
  BY DEF ReadFull
<1>3. Usual
  BY <1>2, SameJobsUsual
<1>4. ASSUME NEW x \in Conn, x # c PROVE TurnOK(x)'
  <2>1. waitOn'[x] = waitOn[x] /\ lsn'[x] = lsn[x] /\ armed'[x] = armed[x]
    BY <1>a, <1>4 DEF ReadFull, ModFd, TypeOK
  <2>2. Calm(x)
    BY <1>a, <1>2, <1>3, <1>4, <2>1, UsualCalm DEF Full
  <2> QED
    BY <2>2, CalmTurn DEF Turns
<1>5. ~Waits(c) /\ ~Polled(c) /\ ~Woken(c)
  BY <1>1 DEF OnTurn, OneTurn
<1>6. ~Polled(c)' /\ ~Woken(c)' /\ ~Reads(c)'
  BY <1>1, <1>2, <1>3, <1>5 DEF Usual, Polled, Woken, Reads
<1>7. WokenOnce(c)'
  BY <1>1, <1>3 DEF Usual, WokenOnce, OnTurn, OneTurn
<1>8. ~Parsing(c)'
  <2>1. self \in Clients => ev' = ev \ {"IN"}
    BY <1>2
  <2>2. ev \cap {"PARSE", "CONNECT"} = {}
    BY <1>1 DEF LoopOK, OneStage, Reads
  <2> QED
    BY <1>2, <2>1, <2>2 DEF Parsing
<1>9. OneTurn(c)'
  BY <1>6, <1>7 DEF OneTurn
<1>f. ~Fresh(c)' /\ (c \in Backends => dns'[c] = "none")
  BY <1>1, <1>2 DEF TurnOK, Fresh, Silent
<1>10. ASSUME peer[c] = None PROVE TurnOK(c)'
  <2>1. waitOn' = waitOn /\ lsn' = lsn
    BY <1>a, <1>10 DEF ReadFull
  <2>2. ~Waits(c)' /\ "IN" \in lsn'[c]
    BY <1>1, <1>5, <2>1 DEF OnTurn, Waits
  <2>3. Full(c)'
    <3>1. rbuf[c] \in Nat /\ Space(c) = (Limit - rbuf[c]) + 0
      BY <1>1, <1>10 DEF Space, TypeOK
    <3> QED
      BY <1>0, <1>1, <1>2, <1>10, <3>1 DEF Full
  <2>4. Silent(c)'
    BY <1>6, <2>2 DEF Silent
  <2>5. OnTurn(c)'
    BY <1>8, <1>9, <2>2, <2>3, <2>4 DEF OnTurn
  <2>6. waitOn'[c] # c
    BY <1>1, <2>1 DEF TurnOK
  <2> QED
    BY <1>f, <2>5, <2>6 DEF TurnOK
<1>11. ASSUME peer[c] # None PROVE TurnOK(c)'
  <2>1. waitOn'[c] = peer[c] /\ peer[c] # self /\ Waits(c)'
    <3>1. peer[c] # self
      BY <1>1, <1>11 DEF Links, Conn
    <3>2. waitOn' = [waitOn EXCEPT ![c] = IF @ = None THEN peer[c] ELSE @]
      BY <1>a, <1>11 DEF ReadFull
    <3> QED
      BY <1>1, <1>5, <1>11, <3>1, <3>2 DEF TypeOK, Waits
  <2>2. "IN" \notin lsn'[c]
    BY <1>1, <1>11 DEF ReadFull, ModFd, TypeOK
  <2>3. sysin'[c] > 0
    BY <1>1, <1>2
  <2>4. ~Silent(c)'
    BY <2>1 DEF Silent
  <2>5. OnTurn(c)'
    BY <1>8, <1>9, <2>1, <2>2, <2>3, <2>4 DEF OnTurn
  <2>6. waitOn'[c] # c
    BY <1>a, <2>1
  <2> QED
    BY <1>f, <2>5, <2>6 DEF TurnOK
<1> QED
  BY <1>4, <1>10, <1>11 DEF Turns

LEMMA TurnReadFails ==
  ASSUME TypeOK, LoopOK, Alive, Turns, ReadFails
  PROVE  Turns'
<1> USE ProxyAssumption
<1>1. self \in Conn /\ ~Closing /\ ev # {}
  BY DEF ReadFails, DoesIn
<1>2. CASE self \in Clients /\ status[self] = "CLOSING_WRITE"
  <2>1. /\ UNCHANGED <<status, peer, jobs, dns, phase, batch, self, lsn, rbuf, waitOn, sock, sysin, armed>>
        /\ ev' = (ev \ {"IN"}) \cup {"OUT"}
    BY <1>2 DEF ReadFails, netVars
  <2>2. Usual
    BY <2>1, SameJobsUsual
  <2>3. ASSUME NEW c \in Conn, c # self PROVE TurnOK(c)'
    <3>1. Calm(c)
      BY <2>1, <2>2, <2>3, UsualCalm DEF Full
    <3> QED
      BY <3>1, CalmTurn DEF Turns
  <2>4. Fades(self)
    BY <1>1, <1>2, <2>1, <2>2, UsualFades DEF Gone
  <2> QED
    BY <1>1, <2>3, <2>4, FadeTurn DEF Turns
<1>3. CASE ~(self \in Clients /\ status[self] = "CLOSING_WRITE")
  BY <1>1, <1>3, TurnFails DEF ReadFails
<1> QED
  BY <1>2, <1>3

\* Nothing leads an address that is free to read.
LEMMA FreeIsSilent ==
  ASSUME TypeOK, References, Alive, NEW b \in Conn, ~Live(b)
  PROVE  Silent(b) /\ WokenOnce(b) /\ lsn[b] = {} /\ sock[b] = "idle"
<1>1. waitOn[b] = None /\ batch[b] = {} /\ lsn[b] = {} /\ sock[b] = "idle"
  BY DEF References
<1>2. ~Reads(b)
  BY DEF Alive, Reads
<1>3. ReadsAt(jobs, First, b) = {}
  BY DEF Alive, OnlyOf, ReadsAt, ToRun, LiveSet
<1> QED
  BY <1>1, <1>2, <1>3 DEF Silent, Waits, Polled, Woken, WokenOnce

\* A step of the running client's request; only its own readbuf is used.
LEMMA TurnParses ==
  ASSUME TypeOK, Turns, Usual, self \in Clients, ev \cap {"PARSE", "CONNECT"} # {},
         UNCHANGED <<waitOn, sysin, sock, lsn, armed, dns>>,
         \A x \in Conn : x # self => rbuf'[x] = rbuf[x] /\ (peer[x] = None => peer'[x] = None),
         \A x \in Conn : status'[x] = status[x] \/ status'[x] \in Gone,
         "IN" \in ev' <=> "IN" \in ev
  PROVE  Turns'
<1> SUFFICES ASSUME NEW x \in Conn PROVE TurnOK(x)'
  BY DEF Turns
<1>1. Full(x) => Full(x)' \/ Parsing(x)
  BY DEF Full, Parsing
<1>2. Calm(x)
  BY <1>1, UsualCalm
<1> QED
  BY <1>2, CalmTurn DEF Turns

\* A request that ends its client.
LEMMA TurnEnds ==
  ASSUME TypeOK, Turns, Usual, self \in Clients, ev' \subseteq (ev \ {"PARSE"}) \cup {"OUT"},
         UNCHANGED <<waitOn, sysin, sock, lsn, rbuf, armed, dns>>,
         \A x \in Conn : x # self => peer'[x] = peer[x],
         \A x \in Conn : status'[x] = status[x] \/ status'[x] \in Gone,
         status'[self] \in Gone
  PROVE  Turns'
<1> SUFFICES ASSUME NEW x \in Conn PROVE TurnOK(x)'
  BY DEF Turns
<1>1. CASE x # self
  <2>1. Calm(x)
    BY <1>1, UsualCalm DEF Full
  <2> QED
    BY <2>1, CalmTurn DEF Turns
<1>2. CASE x = self
  <2>1. "IN" \in ev' => "IN" \in ev
    OBVIOUS
  <2>2. Fades(x)
    BY <1>2, <2>1, UsualFades
  <2> QED
    BY <2>2, FadeTurn DEF Turns
<1> QED
  BY <1>1, <1>2

\* A new backend tells the DNS connection at most, to write.
LEMMA NewPeerUsual ==
  ASSUME TypeOK, NEW b \in Backends, NewPeer(b)
  PROVE  Usual
<1>1. ASSUME CreatePeerByName(b) PROVE Usual
  <2>1. {"OUT"} \in SUBSET JobEvent /\ "IN" \notin {"OUT"} /\ Dns \in Conn \cup {Dns}
    BY DEF JobEvent
  <2>2. jobs' = AddConn(jobs, {"OUT"}, Dns) /\ UNCHANGED <<self, phase, batch>>
    BY <1>1 DEF CreatePeerByName
  <2> QED
    BY <2>1, <2>2, JobUsual
<1>2. ASSUME NEW how \in {"open", "connecting"}, CreatePeer(b, how) PROVE Usual
  BY <1>2, SameJobsUsual DEF CreatePeer
<1> QED
  BY <1>1, <1>2 DEF NewPeer

\* A fresh backend has nothing to read, and its client reads on.
LEMMA TurnFresh ==
  ASSUME TypeOK, LoopOK, References, Alive, Sockets, Turns, NEW b \in Backends, NewPeer(b)
  PROVE  Turns'
<1> USE ProxyAssumption
<1>1. self \in Clients /\ self \in Conn /\ b \in Conn /\ b # self /\ b \notin Clients /\ ~Live(b)
      /\ ev \cap {"PARSE", "CONNECT"} # {} /\ peer[self] = None
  BY DEF NewPeer, CreatePeerByName, CreatePeer, Connects, Conn
<1>2. Usual
  BY NewPeerUsual
<1>3. /\ UNCHANGED <<self, phase, batch, rbuf, waitOn, sysin, armed>>
      /\ ev' = (ev \ {"CONNECT"}) \cup {"PARSE"}
      /\ \A x \in Conn : x # b => status'[x] = status[x] /\ sock'[x] = sock[x] /\ lsn'[x] = lsn[x]
      /\ \A x \in Backends : x # b => dns'[x] = dns[x]
      /\ \A x \in Conn : x # b /\ x # self => peer'[x] = peer[x]
  BY DEF NewPeer, CreatePeerByName, CreatePeer, netVars, TypeOK
<1>4. ASSUME NEW x \in Conn, x # b PROVE TurnOK(x)'
  <2>1. Full(x) => Full(x)' \/ Parsing(x)
    BY <1>1, <1>3, <1>4 DEF Full, Parsing
  <2>2. x = self => ("IN" \in ev' <=> "IN" \in ev)
    BY <1>3
  <2>3. Calm(x)
    BY <1>1, <1>2, <1>3, <1>4, <2>1, <2>2, UsualCalm
  <2> QED
    BY <2>3, CalmTurn DEF Turns
<1>5. Silent(b) /\ WokenOnce(b) /\ lsn[b] = {} /\ sock[b] = "idle" /\ sysin[b] = 0 /\ dns[b] = "none"
  BY <1>1, FreeIsSilent DEF Sockets, References
<1>6. Silent(b)' /\ WokenOnce(b)' /\ ~Parsing(b)' /\ sysin'[b] = 0
  BY <1>1, <1>2, <1>3, <1>5 DEF Usual, Silent, Waits, Polled, Reads, Woken, WokenOnce, Parsing
<1>7. \/ status'[b] = "INIT" /\ lsn'[b] = {}
      \/ status'[b] = "WORKING" /\ lsn'[b] = {"IN"} /\ dns'[b] = "none"
      \/ status'[b] = "CONNECTING" /\ lsn'[b] = {"OUT"} /\ dns'[b] = "none"
  BY <1>1, <1>5 DEF NewPeer, CreatePeerByName, CreatePeer, ConnectStatus, ConnectLsn, TypeOK
<1>8. status'[b] = "WORKING" => OnTurn(b)'
  <2>1. OneTurn(b)'
    BY <1>6 DEF OneTurn, Silent
  <2> QED
    BY <1>6, <1>7, <2>1 DEF OnTurn, Silent
<1>9. TurnOK(b)'
  <2>1. waitOn'[b] # b
    BY <1>1, <1>3 DEF Turns, TurnOK
  <2> QED
    BY <1>6, <1>7, <1>8, <2>1 DEF TurnOK, Fresh
<1> QED
  BY <1>4, <1>9 DEF Turns

LEMMA TurnRequest ==
  ASSUME TypeOK, LoopOK, References, Alive, Links, Sockets, Turns, HandlesRequest
  PROVE  Turns'
<1> USE ProxyAssumption
<1>1. /\ self \in Conn /\ self \in Clients /\ ev \cap {"PARSE", "CONNECT"} # {} /\ ev # {} /\ ~Closing
  BY DEF HandlesRequest, ParseFails, ParseDenied, ParseHead, UsePeer, ParseDone, ParseBody,
         Parses, ConnectFails, CreatePeerByName, CreatePeer, QueryFails, Connects, Conn, LoopOK
<1>2. CASE ParseFails \/ ConnectFails
  BY <1>1, <1>2, TurnFails DEF ParseFails, ConnectFails
<1>3. ASSUME NEW b \in Backends, NewPeer(b) PROVE Turns'
  BY <1>3, TurnFresh
<1>4. CASE ParseDenied
  <2>1. Usual
    BY <1>4, SameJobsUsual DEF ParseDenied
  <2>2. \A x \in Conn : status'[x] = status[x] \/ status'[x] \in Gone
    BY <1>4 DEF ParseDenied, TypeOK, Gone
  <2>3. status'[self] \in Gone
    BY <1>1, <1>4 DEF ParseDenied, TypeOK, Gone
  <2> QED
    BY <1>1, <1>4, <2>1, <2>2, <2>3, TurnEnds DEF ParseDenied, netVars
<1>5. ASSUME ParseHead(FALSE) PROVE Turns'
  <2>1. status' = status /\ peer' = peer /\ jobs' = jobs /\ ev' = (ev \ {"PARSE"}) \cup {"CONNECT"}
        /\ UNCHANGED <<lsn, rbuf, wbuf, waitOn, dns, phase, batch, self, sock, sysin, armed>>
    BY <1>5 DEF ParseHead, TypeOK, netVars
  <2>2. Usual
    BY <2>1, SameJobsUsual
  <2>3. "IN" \in ev' <=> "IN" \in ev
    BY <2>1
  <2> QED
    BY <1>1, <2>1, <2>2, <2>3, TurnParses
<1>6. ASSUME ParseHead(TRUE) PROVE Turns'
  <2>1. /\ peer[self] \in Conn /\ jobs' = AddConn(jobs, {"PEERCLOSE"}, peer[self])
        /\ UNCHANGED <<lsn, rbuf, wbuf, waitOn, dns, phase, batch, self, sock, sysin, armed>>
        /\ ev' = (ev \ {"PARSE"}) \cup {"CONNECT"}
    BY <1>1, <1>6 DEF ParseHead, AfterPeerClose, TypeOK, netVars
  <2>2. {"PEERCLOSE"} \in SUBSET JobEvent /\ "IN" \notin {"PEERCLOSE"}
    BY DEF JobEvent
  <2>3. Usual
    BY <2>1, <2>2, JobUsual
  <2>4. \A x \in Conn : status'[x] = status[x] \/ status'[x] \in Gone
    BY <1>6 DEF ParseHead, Gone
  <2>5. \A x \in Conn : peer[x] = None => peer'[x] = None
    BY <1>6 DEF ParseHead
  <2>6. "IN" \in ev' <=> "IN" \in ev
    BY <2>1
  <2> QED
    BY <1>1, <2>1, <2>3, <2>4, <2>5, <2>6, TurnParses
<1>7. CASE UsePeer
  <2>1. Usual
    BY <1>7, SameJobsUsual DEF UsePeer
  <2>2. "IN" \in ev' <=> "IN" \in ev
    BY <1>7 DEF UsePeer
  <2> QED
    BY <1>1, <1>7, <2>1, <2>2, TurnParses DEF UsePeer, netVars
<1>8. CASE ParseDone
  <2>1. Usual
    BY <1>8, SameJobsUsual DEF ParseDone
  <2>2. "IN" \in ev' <=> "IN" \in ev
    BY <1>8 DEF ParseDone
  <2> QED
    BY <1>1, <1>8, <2>1, <2>2, TurnParses DEF ParseDone, netVars, connVars
<1>9. ASSUME NEW x \in BOOLEAN, ParseBody(x) PROVE Turns'
  <2>1. Usual
    <3>1. peer[self] \in Conn /\ UNCHANGED <<self, phase, batch>>
      BY <1>1, <1>9 DEF ParseBody, TypeOK
    <3>2. {"OUT"} \in SUBSET JobEvent /\ "IN" \notin {"OUT"}
      BY DEF JobEvent
    <3>3. jobs' = AddConn(jobs, {"OUT"}, peer[self]) \/ jobs' = jobs
      BY <1>9 DEF ParseBody
    <3> QED
      BY <3>1, <3>2, <3>3, JobUsual, SameJobsUsual
  <2>2. \A y \in Conn : y # self => rbuf'[y] = rbuf[y]
    BY <1>9 DEF ParseBody, TypeOK
  <2> QED
    BY <1>1, <1>9, <2>1, <2>2, TurnParses DEF ParseBody, netVars
<1>10. ASSUME NEW b \in Backends, QueryFails(b) PROVE Turns'
  <2>1. Usual
    BY <1>10, QueryFailsUsual
  <2>2. \A x \in Conn : status'[x] = status[x] \/ status'[x] \in Gone
    BY <1>10 DEF QueryFails, TypeOK, Gone
  <2>3. status'[self] \in Gone
    BY <1>1, <1>10 DEF QueryFails, TypeOK, Gone
  <2>4. \A x \in Conn : x # self => peer'[x] = peer[x]
    BY <1>10 DEF QueryFails, TypeOK
  <2> QED
    BY <1>1, <1>10, <2>1, <2>2, <2>3, <2>4, TurnEnds DEF QueryFails, netVars
<1>11. ASSUME NEW x \in BOOLEAN, ParseHead(x) PROVE Turns'
  BY <1>5, <1>6, <1>11
<1> QED
  BY <1>2, <1>3, <1>4, <1>7, <1>8, <1>9, <1>10, <1>11 DEF HandlesRequest, NewPeer

\* A backend forwards what it has read, or closes.
LEMMA TurnBackend ==
  ASSUME TypeOK, LoopOK, Alive, Turns, BackendForwards \/ BackendForwardFails
  PROVE  Turns'
<1> USE ProxyAssumption
<1>1. self \in Conn /\ self \notin Clients /\ "PARSE" \in ev /\ ev # {} /\ ~Closing
  BY DEF BackendForwards, BackendForwardFails, LoopOK, Conn
<1>2. CASE BackendForwards
  <2>1. /\ peer[self] \in Conn /\ peer[self] # None
        /\ UNCHANGED <<status, peer, lsn, waitOn, dns, phase, batch, self, sock, sysin, armed>>
        /\ ev' = ev \ {"PARSE"}
        /\ jobs' = jobs \/ jobs' = AddConn(jobs, {"OUT"}, peer[self])
    BY <1>1, <1>2 DEF BackendForwards, TypeOK, netVars
  <2>2. Usual
    <3>1. {"OUT"} \in SUBSET JobEvent /\ "IN" \notin {"OUT"}
      BY DEF JobEvent
    <3> QED
      BY <2>1, <3>1, JobUsual, SameJobsUsual
  <2>3. \A x \in Conn : Full(x) => Full(x)'
    BY <1>2, <2>1 DEF BackendForwards, TypeOK, Full
  <2>4. ("IN" \in ev' <=> "IN" \in ev)
    BY <2>1
  <2>5. ev' \cap {"PARSE", "CONNECT"} # {} => ev \cap {"PARSE", "CONNECT"} # {}
    BY <2>1
  <2>6. ASSUME NEW x \in Conn PROVE TurnOK(x)'
    <3>1. Calm(x)
      BY <2>1, <2>2, <2>3, <2>4, <2>5, UsualCalm
    <3> QED
      BY <3>1, CalmTurn DEF Turns
  <2> QED
    BY <2>6 DEF Turns
<1>3. CASE BackendForwardFails
  BY <1>1, <1>3, TurnFails DEF BackendForwardFails
<1> QED
  BY <1>2, <1>3

\* What a step of conn_handle_out leaves alone.
Writes ==
  /\ DoesOut /\ Usual
  /\ UNCHANGED <<peer, rbuf, waitOn, dns, sysin, sock>>
  /\ \A c \in Conn : c # self => UNCHANGED <<status[c], lsn[c], armed[c]>>
  /\ "IN" \notin ev' /\ ev' \cap {"PARSE", "CONNECT"} = {}

\* A backend that finds itself connected starts to read (conn_backend.c); it
\* was silent, and its socket is armed if something is there already.
LEMMA TurnWrites ==
  ASSUME TypeOK, Sockets, Turns, Writes,
         armed[self] => armed'[self],
         IF status[self] = "CONNECTING" /\ self \in Backends
         THEN /\ status'[self] = "WORKING" /\ "IN" \in lsn'[self]
              /\ sysin[self] > 0 => armed'[self]
         ELSE status'[self] = status[self] /\ ("IN" \in lsn'[self] <=> "IN" \in lsn[self])
  PROVE  Turns'
<1> USE ProxyAssumption
<1>a. PICK c \in Conn : c = self
  BY DEF Writes, DoesOut
<1>1. ASSUME NEW x \in Conn, x # c PROVE TurnOK(x)'
  <2>1. UNCHANGED <<status[x], lsn[x], armed[x], peer, rbuf, waitOn, dns, sysin, sock>>
    BY <1>a, <1>1 DEF Writes
  <2>2. Calm(x)
    BY <1>a, <1>1, <2>1, UsualCalm DEF Writes, Full
  <2> QED
    BY <2>2, CalmTurn DEF Turns
<1>2. ev = {"OUT"} /\ "IN" \notin ev /\ ~Reads(c) /\ ~Reads(c)' /\ ~Parsing(c)'
  BY <1>a DEF Writes, DoesOut, Reads, Parsing
<1>3. CASE ~(status[c] = "CONNECTING" /\ c \in Backends)
  <2>1. status'[c] = status[c] /\ ("IN" \in lsn'[c] <=> "IN" \in lsn[c])
    BY <1>a, <1>3
  <2>2. Calm(c)
    BY <1>a, <1>2, <2>1, UsualCalm DEF Writes, Full
  <2>3. TurnOK(c)'
    BY <2>2, CalmTurn DEF Turns
  <2> QED
    BY <1>1, <2>3 DEF Turns
<1>4. CASE status[c] = "CONNECTING" /\ c \in Backends
  <2>1. Silent(c) /\ dns[c] = "none" /\ waitOn[c] # c
    BY <1>4 DEF Turns, TurnOK, Fresh
  <2>2. WokenOnce(c)' /\ Silent(c)'
    BY <1>2, <2>1 DEF Silent, Waits, Polled, Woken, WokenOnce, Writes, Usual
  <2>3. status'[c] = "WORKING" /\ "IN" \in lsn'[c] /\ (sysin'[c] > 0 => armed'[c])
    BY <1>a, <1>4 DEF Writes
  <2>4. OneTurn(c)'
    BY <2>2 DEF OneTurn, Silent
  <2>5. OnTurn(c)'
    BY <1>2, <2>2, <2>3, <2>4 DEF OnTurn, Silent
  <2>6. dns'[c] = "none" /\ waitOn'[c] # c
    BY <2>1 DEF Writes
  <2>7. TurnOK(c)'
    BY <2>3, <2>5, <2>6 DEF TurnOK, Fresh
  <2> QED
    BY <1>1, <2>7 DEF Turns
<1> QED
  BY <1>3, <1>4

\* waitconn_wake: what was waiting gets one job to read.
LEMMA TurnWakes ==
  ASSUME TypeOK, LoopOK, Sockets, Turns, NEW w \in Conn, Wake(w)
  PROVE  Turns'
<1> USE ProxyAssumption
<1> DEFINE E == {"IN"}
           f == First
<1>0. E \in SUBSET JobEvent /\ "IN" \in E
  BY DEF JobEvent
<1>1. /\ ev = {"WAKE"} /\ self \in Conn /\ waitOn[w] = self /\ w # self /\ Waits(w) /\ None \notin Conn
      /\ jobs' = AddConn(jobs, E, w)
      /\ ev' \subseteq {"WAKE"}
      /\ UNCHANGED <<status, peer, rbuf, wbuf, dns, phase, batch, self, sock, sysin>>
  BY DEF Wake, Sockets, Turns, TurnOK, Waits, Conn
<1>2. /\ lsn'[w] = {"IN"} /\ waitOn'[w] = None
      /\ \A x \in Conn : x # w => lsn'[x] = lsn[x] /\ waitOn'[x] = waitOn[x] /\ armed'[x] = armed[x]
  BY DEF Wake, ModFd, TypeOK
<1>3. f \in {1, 2} /\ First' = f /\ jobs \in Seq(JobSet) /\ w \in Conn \cup {Dns}
      /\ (f = 2 => jobs # <<>> /\ jobs[1].conn # w)
  BY <1>1, FirstIs DEF First, TypeOK, JobSet, LoopOK
<1> HIDE DEF E, f
<1>4. Added(jobs, E, w, jobs')
  BY <1>0, <1>1, <1>3, AddConnAdds
<1>5. ~Reads(w) /\ \A x \in Conn : ~Reads(x)' /\ ~Reads(x) /\ ~Parsing(x)' /\ (Polled(x)' <=> Polled(x))
  BY <1>1 DEF Reads, Parsing, Polled
<1>6. ASSUME NEW x \in Conn, x # w PROVE TurnOK(x)'
  <2>1. ReadsAt(jobs', f, x) = ReadsAt(jobs, f, x)
    BY <1>3, <1>4, <1>6, AddedReadsOther
  <2>2. (Woken(x)' <=> Woken(x)) /\ (WokenOnce(x) => WokenOnce(x)')
    BY <1>3, <2>1 DEF Woken, WokenOnce, f
  <2>3. Calm(x)
    BY <1>1, <1>2, <1>5, <1>6, <2>2 DEF Calm, Full, Polled, Reads, Woken
  <2> QED
    BY <2>3, CalmTurn DEF Turns
<1>7. ~Fresh(w) /\ TurnOK(w)
  BY <1>1 DEF Turns, TurnOK, Silent
<1>8. ~Fresh(w)' /\ waitOn'[w] # w
  BY <1>1, <1>2, <1>7 DEF Fresh
<1>9. ASSUME status[w] = "WORKING" PROVE OnTurn(w)'
  <2>1. ~Polled(w) /\ ~Woken(w) /\ sysin[w] > 0
    BY <1>1, <1>7, <1>9 DEF TurnOK, OnTurn, OneTurn
  <2>2. ReadsAt(jobs, f, w) = {}
    BY <2>1 DEF Woken, f
  <2>3. ReadsAt(jobs', f, w) = {Len(jobs')}
    BY <1>0, <1>3, <1>4, <2>2, AddedToRead
  <2>4. WokenOnce(w)' /\ Woken(w)'
    BY <1>3, <2>3 DEF WokenOnce, Woken
  <2>5. ~Waits(w)' /\ ~Polled(w)' /\ ~Reads(w)' /\ ~Parsing(w)'
    BY <1>2, <1>5, <2>1 DEF Waits
  <2>6. OneTurn(w)' /\ ~Silent(w)'
    BY <2>4, <2>5 DEF OneTurn, Silent
  <2>7. sysin'[w] > 0 /\ "IN" \in lsn'[w]
    BY <1>1, <1>2, <2>1
  <2> QED
    BY <2>5, <2>6, <2>7 DEF OnTurn
<1>10. TurnOK(w)'
  BY <1>1, <1>7, <1>8, <1>9 DEF TurnOK, Fresh
<1> QED
  BY <1>6, <1>10 DEF Turns

\* conn_handle_out and waitconn_wake.
LEMMA TurnOut ==
  ASSUME TypeOK, LoopOK, Alive, Sockets, Turns, HandlesOut
  PROVE  Turns'
<1> USE ProxyAssumption
<1>1. ASSUME DoesOut
      PROVE  /\ self \in Conn /\ ~Closing /\ ev # {} /\ ev = {"OUT"}
             /\ self \in Clients \/ self \in Backends
  BY <1>1 DEF DoesOut, Closing, Conn
<1>2. CASE OutRefused
  <2>0. DoesOut
    BY <1>2 DEF OutRefused
  <2>1. CASE self \in Clients
    <3>1. /\ UNCHANGED <<status, peer, jobs, dns, phase, batch, self, lsn, rbuf, waitOn, sock, sysin, armed>>
          /\ ev' = {}
      BY <1>2, <2>1 DEF OutRefused, netVars
    <3>2. Usual
      BY <3>1, SameJobsUsual
    <3>3. Writes
      BY <2>0, <3>1, <3>2 DEF Writes
    <3> QED
      BY <2>1, <3>1, <3>3, TurnWrites
  <2>2. CASE self \notin Clients
    BY <1>1, <1>2, <2>0, <2>2, TurnFails DEF OutRefused
  <2> QED
    BY <2>1, <2>2
<1>3. CASE WriteFails
  <2>0. DoesOut
    BY <1>3 DEF WriteFails
  <2>1. /\ UNCHANGED <<peer, jobs, dns, phase, batch, self, rbuf, waitOn, sock, sysin, armed>>
        /\ ev' = {} /\ sock[self] = "reset"
        /\ status' = [status EXCEPT ![self] = StatusAfterOut(self)]
        /\ lsn' = [lsn EXCEPT ![self] = LsnBeforeWrite(self)]
    BY <1>3 DEF WriteFails, netVars
  <2>2. Writes
    BY <2>0, <2>1, SameJobsUsual DEF Writes, TypeOK
  <2>3. status'[self] = StatusAfterOut(self) /\ lsn'[self] = LsnBeforeWrite(self)
    BY <1>1, <2>0, <2>1 DEF TypeOK
  <2>4. status[self] = "CONNECTING" => armed'[self]
    BY <1>1, <2>0, <2>1 DEF Sockets, Errs
  <2> QED
    BY <1>1, <2>0, <2>1, <2>2, <2>3, <2>4, TurnWrites DEF StatusAfterOut, LsnBeforeWrite
<1>4. ASSUME DoesOut, Writes, armed[self] => armed'[self],
             status' = [status EXCEPT ![self] = StatusAfterOut(self)],
             "IN" \in lsn'[self] <=> "IN" \in LsnBeforeWrite(self),
             status[self] = "CONNECTING" /\ self \in Backends => (sysin[self] > 0 => armed'[self])
      PROVE  Turns'
  <2>1. status'[self] = StatusAfterOut(self)
    BY <1>1, <1>4 DEF TypeOK
  <2> QED
    BY <1>4, <2>1, TurnWrites DEF StatusAfterOut, LsnBeforeWrite
<1>5. ASSUME NEW k \in 0..(2 * Limit), WriteSome(k) PROVE Turns'
  <2>0. DoesOut
    BY <1>5 DEF WriteSome
  <2> DEFINE E == LsnBeforeWrite(self) \cup {"OUT"}
             R == Readiness(E, sysin[self], sock[self], FALSE)
  <2>1. /\ UNCHANGED <<peer, jobs, dns, phase, batch, self, rbuf, waitOn, sock, sysin>>
        /\ ev' = {}
        /\ status' = [status EXCEPT ![self] = StatusAfterOut(self)]
        /\ lsn' = [lsn EXCEPT ![self] = E] /\ armed' = [armed EXCEPT ![self] = @ \/ R # {}]
    BY <1>5 DEF WriteSome, ModFd
  <2>2. "IN" \in E /\ sysin[self] > 0 => "IN" \in R
    BY DEF Readiness
  <2>3. "IN" \in E <=> "IN" \in LsnBeforeWrite(self)
    OBVIOUS
  <2> HIDE DEF E, R
  <2>4. lsn'[self] = E /\ armed'[self] = (armed[self] \/ R # {})
    BY <1>1, <2>0, <2>1 DEF TypeOK
  <2>5. Writes
    BY <2>0, <2>1, SameJobsUsual DEF Writes, TypeOK
  <2>6. status[self] = "CONNECTING" /\ self \in Backends => "IN" \in LsnBeforeWrite(self)
    BY DEF LsnBeforeWrite
  <2> QED
    BY <1>4, <2>0, <2>1, <2>2, <2>3, <2>4, <2>5, <2>6
<1>6. ASSUME NEW room \in BOOLEAN, AllWritten(room)
      PROVE  /\ DoesOut /\ self \in Conn
             /\ UNCHANGED <<rbuf, waitOn, dns, phase, batch, self, sock, sysin>>
             /\ \A x \in Conn : x # self => lsn'[x] = lsn[x] /\ armed'[x] = armed[x]
             /\ "IN" \in lsn'[self] <=> "IN" \in LsnBeforeWrite(self)
             /\ armed[self] => armed'[self]
             /\ status[self] = "CONNECTING" /\ self \in Backends => (sysin[self] > 0 => armed'[self])
  <2>0. DoesOut /\ self \in Conn /\ UNCHANGED <<rbuf, waitOn, dns, phase, batch, self, sock, sysin>>
    BY <1>6 DEF AllWritten, DoesOut
  <2> DEFINE E == LsnBeforeWrite(self) \ {"OUT"}
             R == Readiness(E, sysin[self], sock[self], room)
             B == {"OUT"} \subseteq LsnBeforeWrite(self) \/ status[self] = "CONNECTING"
  <2>2. "IN" \in E /\ sysin[self] > 0 => "IN" \in R
    BY DEF Readiness
  <2>3. "IN" \in E <=> "IN" \in LsnBeforeWrite(self)
    OBVIOUS
  <2>4. status[self] = "CONNECTING" /\ self \in Backends => "IN" \in LsnBeforeWrite(self) /\ B
    BY DEF LsnBeforeWrite
  <2>5. CASE B
    <3>1. lsn' = [lsn EXCEPT ![self] = E] /\ armed' = [armed EXCEPT ![self] = @ \/ R # {}]
      BY <1>6, <2>5 DEF AllWritten, ModFd
    <3> HIDE DEF E, R, B
    <3>2. /\ lsn'[self] = E /\ armed'[self] = (armed[self] \/ R # {})
          /\ \A x \in Conn : x # self => lsn'[x] = lsn[x] /\ armed'[x] = armed[x]
      BY <2>0, <3>1 DEF TypeOK
    <3> QED
      BY <2>0, <2>2, <2>3, <2>4, <3>2
  <2>6. CASE ~B
    <3>1. lsn' = lsn /\ armed' = armed
      BY <1>6, <2>6 DEF AllWritten
    <3>2. lsn[self] = LsnBeforeWrite(self)
      BY <2>6 DEF LsnBeforeWrite
    <3> HIDE DEF B
    <3> QED
      BY <2>0, <2>4, <2>6, <3>1, <3>2
  <2> QED
    BY <2>5, <2>6
<1>7. ASSUME NEW room \in BOOLEAN, WriteAll(room) PROVE Turns'
  <2>1. AllWritten(room)
    BY <1>7 DEF WriteAll
  <2>2. /\ UNCHANGED <<peer, jobs>> /\ ev' \in {{"WAKE"}, {}}
        /\ status' = [status EXCEPT ![self] = StatusAfterOut(self)]
    BY <1>7 DEF WriteAll
  <2>3. "IN" \notin ev' /\ ev' \cap {"PARSE", "CONNECT"} = {}
    BY <2>2
  <2>4. Usual
    BY <1>6, <2>1, <2>2, SameJobsUsual
  <2>5. \A x \in Conn : x # self => status'[x] = status[x]
    BY <2>2 DEF TypeOK
  <2>6. Writes
    BY <1>6, <2>1, <2>2, <2>3, <2>4, <2>5 DEF Writes
  <2> QED
    BY <1>4, <1>6, <2>1, <2>2, <2>6
<1>8. ASSUME NEW room \in BOOLEAN, WriteLast(room) PROVE Turns'
  <2>1. AllWritten(room) /\ SignalThisClose(self) /\ ev' = {} /\ UNCHANGED owner
        /\ status[self] \in {"PEERCLOSED", "CLOSING_WRITE"}
    BY <1>8 DEF WriteLast, AllWritten, ghosts
  <2>2. DoesOut /\ self \in Conn
    BY <1>6, <2>1
  <2>3. LsnBeforeWrite(self) = lsn[self]
    BY <2>1 DEF LsnBeforeWrite
  <2>4. Signals(self)
    BY <1>1, <1>6, <2>1, <2>2, FailSignals
  <2>5. \A b \in Backends : dns'[b] # "none" => dns[b] # "none"
    BY <1>6, <2>1
  <2> QED
    BY <1>6, <2>1, <2>2, <2>3, <2>4, <2>5, TurnSignals
<1> QED
  BY <1>2, <1>3, <1>5, <1>7, <1>8, TurnWakes DEF HandlesOut

\* The DNS connection's handler.
LEMMA TurnDns ==
  ASSUME TypeOK, LoopOK, References, Sockets, Turns, HandlesDns
  PROVE  Turns'
<1> USE ProxyAssumption
<1>1. self = Dns /\ self \notin Conn /\ ev # {} /\ ~Closing /\ \A c \in Conn : c # self
  BY DEF HandlesDns, DnsSend, DnsReadDone, DnsNotFound, DnsFound, Conn, LoopOK, Closing
<1>2. ASSUME DnsSend \/ DnsReadDone PROVE Turns'
  <2>1. UNCHANGED <<status, peer, lsn, rbuf, waitOn, jobs, phase, batch, self, sock, sysin, armed>>
        /\ \A b \in Backends : dns'[b] # "none" => dns[b] # "none"
    BY <1>2 DEF DnsSend, DnsReadDone, connVars, netVars, TypeOK
  <2>2. Usual
    BY <2>1, SameJobsUsual
  <2>3. ASSUME NEW c \in Conn PROVE TurnOK(c)'
    <3>1. Calm(c)
      BY <1>1, <2>1, <2>2, UsualCalm DEF Full
    <3> QED
      BY <3>1, CalmTurn DEF Turns
  <2> QED
    BY <2>3 DEF Turns
<1>3. ASSUME NEW b \in Backends, DnsNotFound(b) PROVE Turns'
  <2>1. /\ b \in Conn /\ Live(b) /\ phase = "events"
        /\ UNCHANGED <<lsn, rbuf, waitOn, phase, batch, self, ev, sock, sysin, armed, owner>>
        /\ SignalThisClose(b)
        /\ \A x \in Backends : dns'[x] # "none" => dns[x] # "none"
    BY <1>1, <1>3 DEF DnsNotFound, Conn, References, netVars, ghosts, TypeOK, LoopOK
  <2>2. Signals(b)
    BY <1>1, <2>1 DEF Signals
  <2> QED
    BY <2>1, <2>2, TurnSignals
<1>4. ASSUME NEW b \in Backends, NEW how \in {"open", "connecting"}, DnsFound(b, how) PROVE Turns'
  <2>1. /\ b \in Conn /\ b \notin Clients /\ dns[b] # "none"
        /\ UNCHANGED <<peer, rbuf, waitOn, jobs, phase, batch, self, ev, sysin, armed>>
        /\ dns'[b] = "none" /\ status'[b] = ConnectStatus(how) /\ lsn'[b] = ConnectLsn(how)
        /\ \A x \in Conn : x # b => status'[x] = status[x] /\ sock'[x] = sock[x] /\ lsn'[x] = lsn[x]
        /\ \A x \in Backends : x # b => dns'[x] = dns[x]
    BY <1>4 DEF DnsFound, Conn, TypeOK
  <2>2. Usual
    BY <2>1, SameJobsUsual
  <2>3. ASSUME NEW c \in Conn, c # b PROVE TurnOK(c)'
    <3>1. Calm(c)
      BY <1>1, <2>1, <2>2, <2>3, UsualCalm DEF Full
    <3> QED
      BY <3>1, CalmTurn DEF Turns
  <2>4. Silent(b) /\ sock[b] = "idle" /\ sysin[b] = 0 /\ waitOn[b] # b
    BY <2>1 DEF Turns, TurnOK, Fresh, Sockets
  <2>5. Silent(b)' /\ WokenOnce(b)' /\ sysin'[b] = 0 /\ waitOn'[b] # b
    BY <2>1, <2>2, <2>4 DEF Usual, Silent, Waits, Polled, Reads, Woken, WokenOnce
  <2>6. \/ status'[b] = "WORKING" /\ lsn'[b] = {"IN"}
        \/ status'[b] = "CONNECTING" /\ lsn'[b] = {"OUT"}
    BY <2>1 DEF ConnectStatus, ConnectLsn
  <2>7. OneTurn(b)' /\ ~Parsing(b)'
    BY <2>1, <2>5 DEF OneTurn, Silent, Parsing
  <2>8. status'[b] = "WORKING" => OnTurn(b)'
    BY <2>5, <2>6, <2>7 DEF OnTurn, Silent
  <2>9. TurnOK(b)'
    BY <2>1, <2>5, <2>6, <2>8 DEF TurnOK, Fresh
  <2> QED
    BY <2>3, <2>9 DEF Turns
<1> QED
  BY <1>2, <1>3, <1>4 DEF HandlesDns

\* Who c waits for has data to write, or is about to wake it, or c is full.
Promised(c) ==
  wbuf[waitOn[c]] > 0 \/ (self = waitOn[c] /\ "WAKE" \in ev) \/ rbuf[c] >= 2 * Limit

\* A working connection that is led to read is linked, and one that waits does
\* so for its peer; a cut link is closed before the loop waits again.
WaitOK(c) ==
  status[c] = "WORKING" =>
    /\ ~Silent(c) /\ peer[c] # None => Mutual(c)
    /\ Cut(c) => phase \in {"events", "jobs"}
    /\ Waits(c) => peer[c] = waitOn[c] /\ Promised(c)

Waiting == \A c \in Conn : WaitOK(c)

\* A connection that is freed leaves no working connection waiting for it.
LEMMA TurnClose ==
  ASSUME TypeOK, LoopOK, Links, Turns, Waiting, HandlePeerClose \/ HandleThisClose
  PROVE  Turns'
<1> USE ProxyAssumption
<1>a. PICK c \in Conn : c = self
  BY DEF HandlePeerClose, HandleThisClose
<1>1. Closing
  BY DEF HandlePeerClose, HandleThisClose, Closing
<1>2. CASE HandlePeerClose
  <2>1. /\ UNCHANGED <<peer, lsn, rbuf, waitOn, dns, jobs, phase, batch, self, sock, sysin, armed>>
        /\ ev' \in {(ev \ {"PEERCLOSE"}) \cup {"OUT"}, (ev \ {"PEERCLOSE"}) \cup {"CLOSE"}}
    BY <1>2 DEF HandlePeerClose, netVars
  <2>2. \A x \in Conn : status'[x] = status[x] \/ status'[x] \in Gone
    BY <1>2 DEF HandlePeerClose, TypeOK, Gone
  <2>3. ("IN" \in ev' <=> "IN" \in ev)
        /\ (ev' \cap {"PARSE", "CONNECT"} # {} => ev \cap {"PARSE", "CONNECT"} # {})
    BY <2>1
  <2>4. ASSUME NEW x \in Conn PROVE TurnOK(x)'
    <3>1. Calm(x)
      BY <2>1, <2>2, <2>3, SameJobsUsual, UsualCalm DEF Full
    <3> QED
      BY <3>1, CalmTurn DEF Turns
  <2> QED
    BY <2>4 DEF Turns
<1>3. CASE HandleThisClose
  <2>1. /\ UNCHANGED <<phase, batch, self>> /\ ev' = {} /\ jobs' = DelConn(jobs, c)
        /\ \A x \in Conn : x # c =>
             UNCHANGED <<status[x], peer[x], lsn[x], rbuf[x], sock[x], sysin[x], armed[x]>>
        /\ status'[c] = "FREE"
        /\ \A x \in Conn : waitOn'[x] = IF x = c \/ waitOn[x] = c THEN None ELSE waitOn[x]
        /\ \A b \in Backends : dns'[b] = IF b = c THEN "none" ELSE dns[b]
    BY <1>a, <1>3 DEF HandleThisClose, TypeOK
  <2>2. TurnOK(c)'
    <3>1. waitOn'[c] # c
      BY <2>1 DEF Conn
    <3> QED
      BY <2>1, <3>1 DEF TurnOK, Fresh
  <2>3. ASSUME NEW x \in Conn, x # c, waitOn[x] = c PROVE TurnOK(x)'
    <3>1. ~Fresh(x) /\ x # None
      BY <2>3 DEF Turns, TurnOK, Silent, Waits, Conn
    <3>2. status[x] # "WORKING"
      <4>1. SUFFICES ASSUME status[x] = "WORKING" PROVE FALSE
        OBVIOUS
      <4>2. peer[x] = c /\ Mutual(x)
        BY <2>3, <4>1 DEF Waiting, WaitOK, Waits, Silent, Conn
      <4>3. Mutual(c)
        BY <2>3, <3>1, <4>2 DEF Mutual
      <4> QED
        BY <1>a, <1>1, <4>3 DEF Links, NoEnd
    <3>3. ~Fresh(x)' /\ status'[x] # "WORKING" /\ waitOn'[x] # x
      BY <2>1, <2>3, <3>1, <3>2 DEF Fresh
    <3> QED
      BY <2>1, <2>3, <3>3 DEF TurnOK, Turns, Fresh
  <2>4. ASSUME NEW x \in Conn, x # c, waitOn[x] # c PROVE TurnOK(x)'
    <3>1. jobs \in Seq(JobSet) /\ First' = First /\ First \in {1, 2}
      BY <2>1, FirstIs DEF First, TypeOK, JobSet
    <3>2. StillRuns(jobs, First, c, jobs')
      BY <2>1, <3>1, DelConnDeletes, DeletedRuns
    <3>3. ReadsAt(jobs', First', x) = ReadsAt(jobs, First, x)
      BY <2>4, <3>1, <3>2, DeletedReads
    <3>4. (Woken(x)' <=> Woken(x)) /\ (WokenOnce(x) => WokenOnce(x)')
      BY <3>3 DEF Woken, WokenOnce
    <3>5. ~Reads(x) /\ ~Reads(x)' /\ ~Parsing(x)' /\ (Polled(x)' <=> Polled(x))
      BY <1>a, <2>1, <2>4 DEF Reads, Parsing, Polled
    <3>6. Calm(x)
      BY <2>1, <2>4, <3>4, <3>5 DEF Calm, Full, Polled, Reads, Woken
    <3> QED
      BY <3>6, CalmTurn DEF Turns
  <2> QED
    BY <2>2, <2>3, <2>4 DEF Turns
<1> QED
  BY <1>2, <1>3

\* A step of the loop that changes no connection.
LEMMA LoopTurn ==
  ASSUME NEW c \in Conn, TurnOK(c), UNCHANGED <<connVars, sock, sysin, armed>>,
         ~Parsing(c)', Silent(c)' <=> Silent(c), OneTurn(c) => OneTurn(c)'
  PROVE  TurnOK(c)'
<1>1. UNCHANGED <<status, peer, lsn, rbuf, waitOn, dns>>
  BY DEF connVars
<1>2. (Waits(c)' <=> Waits(c)) /\ (Full(c)' <=> Full(c)) /\ (Fresh(c)' <=> Fresh(c))
  BY <1>1 DEF Waits, Full, Fresh
<1>3. OnTurn(c) => OnTurn(c)'
  BY <1>1, <1>2 DEF OnTurn
<1> QED
  BY <1>1, <1>2, <1>3 DEF TurnOK

\* A client is accepted, with a socket that has no data yet.
LEMMA TurnAccepts ==
  ASSUME TypeOK, LoopOK, References, Alive, Sockets, Turns, NEW c \in Clients, Accept(c)
  PROVE  Turns'
<1> USE ProxyAssumption
<1>1. /\ c \in Conn /\ c \notin Backends /\ ~Live(c)
      /\ UNCHANGED <<peer, rbuf, waitOn, dns, jobs, phase, batch, self, ev, sysin, armed>>
      /\ status'[c] = "WORKING" /\ lsn'[c] = {"IN"}
      /\ \A x \in Conn : x # c => UNCHANGED <<status[x], lsn[x], sock[x]>>
  BY DEF Accept, TypeOK, Conn, loopVars
<1>2. Usual
  BY <1>1, SameJobsUsual
<1>3. ASSUME NEW x \in Conn, x # c PROVE TurnOK(x)'
  <2>1. Calm(x)
    BY <1>1, <1>2, <1>3, UsualCalm DEF Full
  <2> QED
    BY <2>1, CalmTurn DEF Turns
<1>4. Silent(c) /\ WokenOnce(c) /\ sysin[c] = 0 /\ waitOn[c] # c /\ ev = {}
  BY <1>1, FreeIsSilent DEF Sockets, Turns, TurnOK, Accept, Quiet, LoopOK
<1>5. Silent(c)' /\ WokenOnce(c)' /\ sysin'[c] = 0 /\ waitOn'[c] # c /\ ~Parsing(c)'
  BY <1>1, <1>2, <1>4 DEF Usual, Silent, Waits, Polled, Reads, Woken, WokenOnce, Parsing
<1>6. OnTurn(c)'
  BY <1>1, <1>5 DEF OnTurn, OneTurn, Silent
<1>7. TurnOK(c)'
  BY <1>1, <1>5, <1>6 DEF TurnOK, Fresh
<1> QED
  BY <1>3, <1>7 DEF Turns

\* Data arrives: the socket is armed, or its connection waits.
LEMMA TurnArrives ==
  ASSUME TypeOK, LoopOK, Turns, NEW c \in Conn, Arrive(c)
  PROVE  Turns'
<1> USE ProxyAssumption
<1>1. /\ UNCHANGED <<status, peer, lsn, rbuf, waitOn, dns, jobs, phase, batch, self, ev, sock>>
      /\ self = None /\ ev = {}
      /\ \A x \in Conn : x # c => UNCHANGED <<sysin[x], armed[x]>>
      /\ sysin'[c] = sysin[c] + 1 /\ armed'[c] = (armed[c] \/ "IN" \in lsn[c]) /\ sysin[c] \in Nat
  BY DEF Arrive, Move, connVars, loopVars, TypeOK, LoopOK
<1>2. Usual
  BY <1>1, SameJobsUsual
<1>3. ASSUME NEW x \in Conn, x # c PROVE TurnOK(x)'
  <2>1. Calm(x)
    BY <1>1, <1>2, <1>3, UsualCalm DEF Full
  <2> QED
    BY <2>1, CalmTurn DEF Turns
<1>4. /\ Silent(c)' <=> Silent(c)
      /\ Waits(c)' <=> Waits(c)
      /\ OneTurn(c) => OneTurn(c)'
      /\ ~Parsing(c)' /\ (Fresh(c)' <=> Fresh(c))
  <2>1. (Polled(c)' <=> Polled(c)) /\ (Reads(c)' <=> Reads(c)) /\ (Waits(c)' <=> Waits(c))
    BY <1>1 DEF Polled, Reads, Waits
  <2>2. (Woken(c)' <=> Woken(c)) /\ (WokenOnce(c)' <=> WokenOnce(c))
    BY <1>2 DEF Usual, Woken, WokenOnce
  <2>3. ~Parsing(c)' /\ (Fresh(c)' <=> Fresh(c))
    BY <1>1 DEF Parsing, Fresh
  <2> QED
    BY <2>1, <2>2, <2>3 DEF Silent, OneTurn
<1>5. OnTurn(c) => OnTurn(c)'
  <2> SUFFICES ASSUME OnTurn(c) PROVE OnTurn(c)'
    OBVIOUS
  <2>0. sysin'[c] > 0
    BY <1>1
  <2>1. sysin'[c] > 0 /\ (armed'[c] \/ Waits(c))
    BY <1>1, <2>0, Zenon DEF OnTurn
  <2>2. Waits(c) => ~Silent(c)
    BY DEF Silent
  <2> QED
    BY <1>1, <1>4, <2>1, <2>2 DEF OnTurn
<1>6. TurnOK(c)'
  BY <1>1, <1>4, <1>5 DEF TurnOK, Turns
<1> QED
  BY <1>3, <1>6 DEF Turns

LEMMA TurnNetwork ==
  ASSUME TypeOK, LoopOK, References, Alive, Sockets, Turns, Network
  PROVE  Turns'
<1>1. ASSUME NEW c \in Conn, RemoteEof(c) \/ RemoteReset(c) \/ Drain(c) \/ (c \in Backends /\ Connected(c))
      PROVE  Turns'
  <2>1. /\ UNCHANGED <<status, peer, lsn, rbuf, waitOn, dns, jobs, phase, batch, self, ev, sysin>>
        /\ self = None
        /\ \A x \in Conn : armed[x] => armed'[x]
        /\ \A x \in Conn : sock[x] \in {"eof", "reset"} => sock'[x] \in {"eof", "reset"}
    BY <1>1 DEF RemoteEof, RemoteReset, Drain, Connected, Move, connVars, loopVars, TypeOK
  <2>2. Usual
    BY <2>1, SameJobsUsual
  <2>3. ASSUME NEW x \in Conn PROVE TurnOK(x)'
    <3>1. (Polled(x)' <=> Polled(x)) /\ (Reads(x)' <=> Reads(x)) /\ (Parsing(x)' <=> Parsing(x)) /\ (Full(x)' <=> Full(x))
      BY <2>1 DEF Polled, Reads, Parsing, Full
    <3>2. (Woken(x)' <=> Woken(x)) /\ (WokenOnce(x)' <=> WokenOnce(x))
      BY <2>2 DEF Usual, Woken, WokenOnce
    <3>3. "IN" \in lsn'[x] <=> "IN" \in lsn[x]
      BY <2>1
    <3>4. x \in Backends /\ dns'[x] # "none" => dns[x] # "none"
      BY <2>1
    <3>5. Calm(x)
      BY <2>1, <3>1, <3>2, <3>3, <3>4 DEF Calm, Polled, Reads, Woken
    <3> QED
      BY <3>5, CalmTurn DEF Turns
  <2> QED
    BY <2>3 DEF Turns
<1> QED
  BY <1>1, TurnAccepts, TurnArrives DEF Network, Conn

\* epoll_wait: what was armed and watched is reported.
LEMMA TurnWait ==
  ASSUME TypeOK, LoopOK, Sockets, Turns, NEW r \in BOOLEAN, EvWait(r)
  PROVE  Turns'
<1> USE ProxyAssumption
<1>1. /\ phase \in {"wait", "timer"} /\ phase' = "events" /\ self = None /\ self' = None /\ ev = {} /\ ev' = {}
      /\ None \notin Conn
      /\ UNCHANGED <<status, peer, lsn, rbuf, waitOn, dns, jobs, sock, sysin>>
      /\ \A c \in Conn : batch'[c] = Reported[c] /\ batch[c] = {}
  BY DEF EvWait, connVars, LoopOK, NoEvents, Conn
<1>2. First = 1 /\ First' = 1
  BY <1>1 DEF First
<1> SUFFICES ASSUME NEW c \in Conn PROVE TurnOK(c)'
  BY DEF Turns
<1>3. ReadsAt(jobs, First, c) = {}
  <2>1. CASE phase = "timer"
    BY <2>1 DEF Sockets, Woken
  <2>2. CASE phase = "wait"
    <3>1. Len(jobs) = 0
      BY <2>2 DEF LoopOK
    <3> QED
      BY <3>1 DEF ReadsAt
  <2> QED
    BY <1>1, <2>1, <2>2
<1>4. ~Woken(c) /\ ~Woken(c)' /\ WokenOnce(c)'
  BY <1>1, <1>2, <1>3 DEF Woken, WokenOnce
<1>5. ~Reads(c) /\ ~Reads(c)' /\ ~Parsing(c)' /\ ~Polled(c)
  BY <1>1 DEF Reads, Parsing, Polled
<1>6. Polled(c)' <=> armed[c] /\ "IN" \in lsn[c] /\ (sysin[c] > 0 \/ sock[c] \in {"eof", "reset"})
  <2> DEFINE R == Readiness(lsn[c], sysin[c], sock[c], canwrite[c])
  <2>1. "IN" \in R <=> "IN" \in lsn[c] /\ (sysin[c] > 0 \/ sock[c] \in {"eof", "reset"})
    BY DEF Readiness
  <2> HIDE DEF R
  <2>2. batch'[c] = IF armed[c] THEN R ELSE {}
    BY <1>1 DEF Reported, R
  <2> QED
    BY <2>1, <2>2 DEF Polled
<1>7. (Waits(c)' <=> Waits(c)) /\ (Fresh(c)' <=> Fresh(c)) /\ (Full(c)' <=> Full(c))
  BY <1>1 DEF Waits, Fresh, Full
<1>8. Silent(c) <=> ~Waits(c)
  BY <1>4, <1>5 DEF Silent
<1>9. Silent(c)' <=> ~Waits(c) /\ ~Polled(c)'
  BY <1>4, <1>5, <1>7 DEF Silent
<1>10. Fresh(c) => Silent(c)'
  BY <1>6, <1>8, <1>9 DEF Turns, TurnOK
<1>11. ASSUME OnTurn(c) PROVE OnTurn(c)'
  <2>1. Waits(c) => ~Polled(c)'
    BY <1>6, <1>11 DEF OnTurn
  <2>2. OneTurn(c)'
    BY <1>4, <1>5, <1>7, <2>1 DEF OneTurn
  <2>3. sysin[c] > 0 => ~Silent(c)' \/ Full(c)'
    BY <1>6, <1>7, <1>8, <1>9, <1>11 DEF OnTurn
  <2>4. ~Silent(c)' => sysin'[c] > 0 \/ sock'[c] \in {"eof", "reset"}
    BY <1>1, <1>6, <1>8, <1>9, <1>11 DEF OnTurn
  <2> QED
    BY <1>1, <1>5, <1>7, <1>11, <2>2, <2>3, <2>4 DEF OnTurn
<1> QED
  BY <1>1, <1>7, <1>10, <1>11 DEF TurnOK, Turns

\* The loop goes on: who is led to read stays so, in another way.
Steady ==
  /\ UNCHANGED <<connVars, sock, sysin, armed>>
  /\ \A c \in Conn : ~Parsing(c)' /\ (Silent(c)' <=> Silent(c)) /\ (OneTurn(c) => OneTurn(c)')

\* A job is taken: who was to be woken by it reads now.
LEMMA TakeSteady ==
  ASSUME TypeOK, LoopOK, RunJob
  PROVE  Steady
<1> USE ProxyAssumption
<1> DEFINE j == jobs[1]
<1>1. /\ jobs \in Seq(JobSet) /\ jobs # <<>> /\ ~j.deld /\ j \in JobSet
      /\ self = None /\ ev = {} /\ phase = "jobs" /\ self' = j.conn /\ ev' = j.events /\ phase' = "jobs" /\ jobs' = jobs
      /\ batch = NoEvents /\ batch' = NoEvents
      /\ UNCHANGED <<connVars, sock, sysin, armed>>
  BY DEF RunJob, TypeOK, JobSet, LoopOK, netVars
<1>2. j.conn # None /\ j.events \in SUBSET JobEvent
  <2>1. j.conn \in Conn \cup {Dns} /\ j.events \in SUBSET JobEvent
    BY <1>1 DEF JobSet, Job
  <2> QED
    BY <2>1 DEF Conn
<1>3. First = 1 /\ First' = 2
  BY <1>1, <1>2 DEF First
<1> SUFFICES ASSUME NEW c \in Conn
             PROVE  ~Parsing(c)' /\ (Silent(c)' <=> Silent(c)) /\ (OneTurn(c) => OneTurn(c)')
  BY <1>1 DEF Steady
<1>4. ReadsAt(jobs, 1, c) = ReadsAt(jobs, 2, c) \cup {i \in {1} : j.conn = c /\ "IN" \in j.events}
  BY <1>1, TakenReads
<1>5. Reads(c)' <=> j.conn = c /\ "IN" \in j.events
  BY <1>1 DEF Reads
<1>6. ~Reads(c) /\ ~Polled(c) /\ ~Polled(c)' /\ ~Parsing(c)' /\ (Waits(c)' <=> Waits(c))
  <2>1. ~Polled(c) /\ ~Polled(c)'
    BY <1>1 DEF Polled, NoEvents
  <2>2. ~Parsing(c)'
    BY <1>1, <1>2 DEF Parsing, JobEvent
  <2>3. Waits(c)' <=> Waits(c)
    BY <1>1 DEF Waits, connVars
  <2> QED
    BY <1>1, <2>1, <2>2, <2>3 DEF Reads
<1>7. /\ Woken(c) <=> ReadsAt(jobs, 1, c) # {}
      /\ Woken(c)' <=> ReadsAt(jobs, 2, c) # {}
      /\ WokenOnce(c) => \A x, y \in ReadsAt(jobs, 1, c) : x = y
      /\ (\A x, y \in ReadsAt(jobs, 2, c) : x = y) => WokenOnce(c)'
  BY <1>1, <1>3 DEF Woken, WokenOnce
<1>8. Woken(c) <=> Woken(c)' \/ Reads(c)'
  BY <1>4, <1>5, <1>7
<1>9. 1 \notin ReadsAt(jobs, 2, c)
  BY DEF ReadsAt, ToRun
<1>10. WokenOnce(c) => WokenOnce(c)' /\ (Reads(c)' => ~Woken(c)')
  BY <1>4, <1>5, <1>7, <1>9
<1>11. Silent(c)' <=> Silent(c)
  BY <1>6, <1>8 DEF Silent
<1>12. OneTurn(c) => OneTurn(c)'
  BY <1>6, <1>8, <1>10 DEF OneTurn
<1> QED
  BY <1>6, <1>11, <1>12

LEMMA LoopSteady ==
  ASSUME TypeOK, LoopOK,
         Timer \/ StartJobs \/ EndJobs \/ RunJob \/ SkipJob \/ Return \/ \E d \in Conn \cup {Dns} : Dispatch(d)
  PROVE  Steady
<1> USE ProxyAssumption
<1>0. None \notin Conn /\ Dns \notin Conn
  BY DEF Conn
<1>1. ASSUME NEW S \in SUBSET Conn, TimerFires(S) PROVE Steady
  <2>1. /\ phase = "wait" /\ self = None /\ self' = None /\ ev = {} /\ ev' = {} /\ jobs' = jobs /\ batch = NoEvents
        /\ phase' = "timer" /\ UNCHANGED <<connVars, sock, sysin, armed>>
    BY <1>1 DEF TimerFires, Quiet, LoopOK, netVars
  <2>2. First' = First
    BY <2>1 DEF First
  <2>3. ASSUME NEW c \in Conn
        PROVE  ~Parsing(c)' /\ (Silent(c)' <=> Silent(c)) /\ (OneTurn(c) => OneTurn(c)')
    <3>1. ~Polled(c) /\ ~Polled(c)'
      BY <1>1, <2>1 DEF TimerFires, NoEvents, Polled
    <3>2. ~Reads(c)' /\ ~Reads(c) /\ ~Parsing(c)'
      BY <2>1 DEF Reads, Parsing
    <3>3. (Woken(c)' <=> Woken(c)) /\ (WokenOnce(c)' <=> WokenOnce(c)) /\ (Waits(c)' <=> Waits(c))
      BY <2>1, <2>2 DEF Woken, WokenOnce, Waits, connVars
    <3>4. (Silent(c)' <=> Silent(c)) /\ (OneTurn(c) => OneTurn(c)')
      BY <3>1, <3>2, <3>3 DEF Silent, OneTurn
    <3> QED
      BY <3>2, <3>4
  <2> QED
    BY <2>1, <2>3 DEF Steady
<1>3. ASSUME NEW d \in Conn \cup {Dns}, Dispatch(d) PROVE Steady
  <2>1. /\ self = None /\ self' = d /\ ev = {} /\ ev' = batch[d] /\ batch' = [batch EXCEPT ![d] = {}]
        /\ phase = "events" /\ phase' = "events" /\ jobs' = jobs /\ UNCHANGED <<connVars, sock, sysin, armed>>
        /\ batch[d] \subseteq FdEvent
    BY <1>3 DEF Dispatch, LoopOK, netVars
  <2>2. First' = First
    BY <2>1 DEF First
  <2>3. ASSUME NEW c \in Conn
        PROVE  ~Parsing(c)' /\ (Silent(c)' <=> Silent(c)) /\ (OneTurn(c) => OneTurn(c)')
    <3>1. IF c = d THEN (Reads(c)' <=> Polled(c)) /\ ~Polled(c)'
                   ELSE ~Reads(c)' /\ (Polled(c)' <=> Polled(c))
      BY <2>1 DEF Reads, Polled, TypeOK
    <3>2. ~Reads(c) /\ ~Parsing(c)'
      BY <1>0, <2>1 DEF Reads, Parsing, FdEvent
    <3>3. (Woken(c)' <=> Woken(c)) /\ (WokenOnce(c)' <=> WokenOnce(c)) /\ (Waits(c)' <=> Waits(c))
      BY <2>1, <2>2 DEF Woken, WokenOnce, Waits, connVars
    <3>4. (Silent(c)' <=> Silent(c)) /\ (OneTurn(c) => OneTurn(c)')
      BY <3>1, <3>2, <3>3 DEF Silent, OneTurn
    <3> QED
      BY <3>2, <3>4
  <2> QED
    BY <2>1, <2>3 DEF Steady
<1>2. ASSUME StartJobs \/ EndJobs \/ SkipJob \/ Return PROVE Steady
  <2>1. /\ ev = {} /\ ev' = {} /\ self' = None /\ batch' = batch /\ UNCHANGED <<connVars, sock, sysin, armed>>
    BY <1>2 DEF StartJobs, EndJobs, SkipJob, Return, LoopOK, netVars
  <2>2. ASSUME NEW c \in Conn
        PROVE  (Woken(c)' <=> Woken(c)) /\ (WokenOnce(c) => WokenOnce(c)')
    <3>1. CASE (StartJobs \/ EndJobs)
      <4>1. jobs' = jobs /\ First = 1 /\ First' = 1
        BY <3>1 DEF StartJobs, EndJobs, First
      <4> QED
        BY <4>1 DEF Woken, WokenOnce
    <3>2. CASE SkipJob \/ Return
      <4>1. Leaves /\ First' = 1
        BY <3>2, ReturnLeaves DEF Leaves, First
      <4>2. CASE phase = "jobs"
        <5>1. Left(jobs, First, jobs')
          BY <4>1, <4>2 DEF Leaves
        <5> QED
          BY <4>1, <5>1, LeftReads DEF Woken, WokenOnce
      <4>3. CASE phase # "jobs"
        <5>1. jobs' = jobs /\ First = 1
          BY <4>1, <4>3 DEF Leaves, First
        <5> QED
          BY <4>1, <5>1 DEF Woken, WokenOnce
      <4> QED
        BY <4>2, <4>3
    <3> QED
      BY <1>2, <3>1, <3>2
  <2>3. ASSUME NEW c \in Conn
        PROVE  ~Parsing(c)' /\ (Silent(c)' <=> Silent(c)) /\ (OneTurn(c) => OneTurn(c)')
    <3>1. ~Reads(c) /\ ~Reads(c)' /\ ~Parsing(c)' /\ (Polled(c)' <=> Polled(c)) /\ (Waits(c)' <=> Waits(c))
      BY <2>1 DEF Reads, Parsing, Polled, Waits, connVars
    <3>2. (Silent(c)' <=> Silent(c)) /\ (OneTurn(c) => OneTurn(c)')
      BY <2>2, <3>1 DEF Silent, OneTurn
    <3> QED
      BY <3>1, <3>2
  <2> QED
    BY <2>1, <2>3 DEF Steady
<1> QED
  BY <1>1, <1>2, <1>3, TakeSteady DEF Timer

LEMMA TurnLoop ==
  ASSUME TypeOK, LoopOK, References, Alive, Sockets, Turns, MainLoop \/ Timer
  PROVE  Turns'
<1>1. ASSUME NEW c \in Conn, TimeoutOne(c) PROVE Turns'
  <2>1. self = None /\ ev = {} /\ Live(c) /\ UNCHANGED <<self, phase, owner, ev>>
    BY <1>1 DEF TimeoutOne, LoopOK, References, ghosts
  <2>2. Signals(c)
    BY <1>1, <2>1, ProxyAssumption DEF TimeoutOne, Signals, Closing, Conn
  <2> QED
    BY <1>1, <2>2, TurnSignals DEF TimeoutOne, netVars
<1>2. ASSUME Steady PROVE Turns'
  BY <1>2, LoopTurn DEF Steady, Turns
<1> QED
  BY <1>1, <1>2, LoopSteady, TurnWait DEF MainLoop

\* The invariant about turns is inductive.
LEMMA TurnsStep ==
  ASSUME TypeOK, LoopOK, References, Linked, Sockets, Turns, Waiting, [Next]_vars
  PROVE  Turns'
<1>0. Alive /\ Links
  BY DEF Linked
<1>1. ASSUME HandleErr PROVE Turns'
  <2>1. self \in Conn /\ ~Closing /\ ev # {}
    BY <1>1 DEF HandleErr
  <2> QED
    BY <1>0, <1>1, <2>1, TurnFails DEF HandleErr
<1>2. ASSUME UNCHANGED vars PROVE Turns'
  <2>1. UNCHANGED <<jobs, phase, batch, self, ev, status, peer, lsn, rbuf, waitOn, dns, sock, sysin, armed>>
    BY <1>2 DEF vars, connVars, loopVars, netVars
  <2>2. ASSUME NEW c \in Conn PROVE TurnOK(c)'
    <3>1. Calm(c)
      BY <2>1, SameJobsUsual, UsualCalm DEF Full
    <3> QED
      BY <3>1, CalmTurn DEF Turns
  <2> QED
    BY <2>2 DEF Turns
<1>3. ASSUME HandlesIn PROVE Turns'
  BY <1>0, <1>3, TurnRead, TurnFull, TurnReadFails DEF HandlesIn
<1> QED
  BY <1>0, <1>1, <1>2, <1>3, TurnRequest, TurnOut, TurnDns, TurnClose, TurnBackend,
     TurnNetwork, TurnLoop DEF Next, Handler

-----------------------------------------------------------------------------
(* Waiting.                                                                 *)

\* What keeps the invariant for one connection.
LEMMA WaitFrame ==
  ASSUME NEW c \in Conn, WaitOK(c),
         status'[c] = "WORKING" => status[c] = "WORKING",
         peer'[c] = peer[c], Mutual(c) => Mutual(c)',
         Silent(c) => Silent(c)',
         phase \in {"events", "jobs"} => phase' \in {"events", "jobs"},
         Waits(c)' => waitOn'[c] = waitOn[c],
         Waits(c) /\ Waits(c)' /\ status[c] = "WORKING" /\ Promised(c) => Promised(c)'
  PROVE  WaitOK(c)'
<1> SUFFICES ASSUME status'[c] = "WORKING"
             PROVE  /\ ~Silent(c)' /\ peer'[c] # None => Mutual(c)'
                    /\ Cut(c)' => phase' \in {"events", "jobs"}
                    /\ Waits(c)' => peer'[c] = waitOn'[c] /\ Promised(c)'
  BY DEF WaitOK
<1>1. ~Silent(c)' /\ peer'[c] # None => Mutual(c)'
  BY DEF WaitOK
<1>2. Cut(c)' => Cut(c)
  BY DEF Cut, Mutual
<1>3. Waits(c)' => Waits(c)
  BY DEF Waits
<1> QED
  BY <1>1, <1>2, <1>3 DEF WaitOK

\* A silent connection waits for nobody.
LEMMA SilentWait ==
  ASSUME NEW c \in Conn, Silent(c)', phase' \in {"events", "jobs"} \/ ~Cut(c)'
  PROVE  WaitOK(c)'
  BY DEF WaitOK, Silent

LEMMA UsualSilent ==
  ASSUME Usual, NEW c \in Conn, waitOn'[c] \in {None, waitOn[c]},
         self = c /\ "IN" \in ev' => "IN" \in ev, Silent(c)
  PROVE  Silent(c)'
  BY DEF Usual, Silent, Waits, Polled, Reads, Woken

\* Data in the buffers is kept, and nobody is being woken.
LEMMA PromiseKept ==
  ASSUME TypeOK, NEW c \in Conn, "WAKE" \notin ev, waitOn'[c] = waitOn[c], Waits(c), Promised(c),
         \A x \in Conn : wbuf[x] > 0 => wbuf'[x] > 0,
         rbuf[c] >= 2 * Limit => rbuf'[c] >= 2 * Limit
  PROVE  Promised(c)'
<1>1. waitOn[c] \in Conn
  BY DEF TypeOK, Waits
<1> QED
  BY <1>1 DEF Promised

\* A handler's step that keeps links and leads nobody on.
LEMMA HandlerWait ==
  ASSUME TypeOK, LoopOK, Waiting, Usual, "WAKE" \notin ev,
         UNCHANGED <<peer, waitOn>>, "IN" \in ev' => "IN" \in ev,
         \A c \in Conn : status'[c] = "WORKING" => status[c] = "WORKING",
         \A c \in Conn : wbuf[c] > 0 => wbuf'[c] > 0,
         \A c \in Conn : Waits(c) /\ status[c] = "WORKING" /\ rbuf[c] >= 2 * Limit => rbuf'[c] >= 2 * Limit
  PROVE  Waiting'
<1> SUFFICES ASSUME NEW c \in Conn PROVE WaitOK(c)'
  BY DEF Waiting
<1>1. Silent(c) => Silent(c)'
  BY UsualSilent
<1>2. Waits(c) /\ status[c] = "WORKING" /\ Promised(c) => Promised(c)'
  BY PromiseKept
<1>3. (Mutual(c) => Mutual(c)') /\ phase' = phase
  BY DEF Mutual, Usual
<1>4. WaitOK(c)
  BY DEF Waiting
<1> QED
  BY <1>1, <1>2, <1>3, <1>4, WaitFrame

\* A signal ends both connections of a link; other links stay mutual.
LEMMA WaitSignals ==
  ASSUME TypeOK, LoopOK, Linked, Waiting, NEW c \in Conn, Signals(c), "WAKE" \notin ev,
         UNCHANGED <<waitOn, rbuf>>,
         \A x \in Conn : x # c => wbuf'[x] = wbuf[x]
  PROVE  Waiting'
<1> USE ProxyAssumption
<1>0. None \notin Conn /\ Links
  BY DEF Conn, Linked
<1> SUFFICES ASSUME NEW x \in Conn PROVE WaitOK(x)'
  BY DEF Waiting
<1>1. /\ status' = [y \in Conn |-> IF y = peer[c] THEN "PEERCLOSED" ELSE IF y = c THEN "CLOSED" ELSE status[y]]
      /\ peer' = [y \in Conn |-> IF y = peer[c] THEN None ELSE peer[y]]
      /\ self' = self /\ phase' = phase /\ (ev' = {} \/ ev' = ev) /\ batch'[x] \subseteq batch[x]
  BY DEF Signals, SignalThisClose, TypeOK
<1>2. CASE x = c \/ x = peer[c]
  <2>1. status'[x] # "WORKING"
    BY <1>1, <1>2
  <2> QED
    BY <2>1 DEF WaitOK
<1>3. CASE x # c /\ x # peer[c]
  <2>1. status'[x] = status[x] /\ peer'[x] = peer[x]
    BY <1>1, <1>3
  <2>2. ASSUME Mutual(x) PROVE Mutual(x)' /\ peer[x] # c
    <3>1. peer[x] \in Conn /\ peer[peer[x]] = x /\ peer[x] # None
      BY <2>2 DEF Mutual, TypeOK
    <3>2. peer[x] # c
      BY <1>3, <3>1
    <3>3. peer[x] # peer[c]
      <4> SUFFICES ASSUME peer[x] = peer[c] PROVE FALSE
        OBVIOUS
      <4>1. ~Mutual(c) /\ peer[c] # None /\ peer[peer[c]] # None
        BY <1>0, <1>3, <3>1 DEF Mutual
      <4>2. Cut(c) /\ ClosesAfter(c, peer[c])
        BY <1>0, <4>1, SignalledLink
      <4> QED
        BY <4>1, <4>2 DEF ClosesAfter
    <3>4. peer'[peer[x]] = x
      BY <1>1, <3>1, <3>3
    <3> QED
      BY <2>1, <3>1, <3>2, <3>4 DEF Mutual
  <2>3. Silent(x) => Silent(x)'
    <3>1. First' = First
      BY <1>1 DEF First
    <3>2. ReadsAt(jobs', First', x) = ReadsAt(jobs, First, x)
      BY <3>1, SignalledReads DEF Signals
    <3>3. (Reads(x)' => Reads(x)) /\ (Polled(x)' => Polled(x)) /\ (Waits(x)' <=> Waits(x))
      BY <1>1 DEF Reads, Polled, Waits
    <3> QED
      BY <3>2, <3>3 DEF Silent, Woken
  <2>4. ASSUME Waits(x), status[x] = "WORKING", Promised(x) PROVE Promised(x)'
    <3>1. peer[x] = waitOn[x] /\ peer[x] # None /\ Mutual(x)
      BY <2>4 DEF Waiting, WaitOK, Silent, Waits
    <3>2. waitOn[x] # c /\ waitOn[x] \in Conn
      BY <2>2, <3>1 DEF TypeOK
    <3>3. wbuf'[waitOn[x]] = wbuf[waitOn[x]]
      BY <3>2
    <3> QED
      BY <2>4, <3>3 DEF Promised
  <2>5. WaitOK(x)
    BY DEF Waiting
  <2> QED
    BY <1>1, <2>1, <2>2, <2>3, <2>4, <2>5, WaitFrame
<1> QED
  BY <1>2, <1>3

LEMMA WaitFails ==
  ASSUME TypeOK, LoopOK, Linked, Sockets, Waiting, self \in Conn, ~Closing, ev # {}, ev # {"WAKE"}, Fail(self),
         UNCHANGED <<lsn, rbuf, wbuf, waitOn, reqstat, netVars>>
  PROVE  Waiting'
<1>1. Alive
  BY DEF Linked
<1>2. Signals(self)
  BY <1>1, FailSignals DEF Fail
<1>3. "WAKE" \notin ev
  BY DEF Sockets
<1> QED
  BY <1>2, <1>3, WaitSignals

\* A connection that finds no room: its peer has something to write, or it is
\* full itself.
LEMMA WaitIn ==
  ASSUME TypeOK, LoopOK, Linked, Sockets, Turns, Waiting, HandlesIn
  PROVE  Waiting'
<1> USE ProxyAssumption
<1>a. PICK c \in Conn : c = self
  BY DEF HandlesIn, ReadSome, ReadFull, ReadFails, DoesIn
<1>1. "IN" \in ev /\ ev # {} /\ ev # {"WAKE"} /\ "WAKE" \notin ev /\ ~Closing /\ Reads(c) /\ ~Silent(c)
  <2>1. DoesIn
    BY DEF HandlesIn, ReadSome, ReadFull, ReadFails
  <2>2. "IN" \in ev /\ ev # {} /\ ev # {"WAKE"} /\ ~Closing
    BY <2>1 DEF DoesIn
  <2> QED
    BY <1>a, <2>2 DEF Sockets, Reads, Silent
<1>2. CASE ReadSome
  <2> DEFINE n == Least(sysin[self], Space(self))
  <2>1. /\ UNCHANGED <<status, peer, wbuf, waitOn, jobs, phase, batch, self>>
        /\ rbuf' = [rbuf EXCEPT ![self] = @ + n] /\ n > 0
        /\ ev' = (ev \ {"IN"}) \cup {"PARSE"}
    BY <1>2 DEF ReadSome
  <2>2. n \in Int
    BY <1>a DEF TypeOK, Least, Space
  <2> HIDE DEF n
  <2>3. \A x \in Conn : rbuf'[x] >= rbuf[x]
    BY <2>1, <2>2 DEF TypeOK
  <2>4. \A x \in Conn : rbuf[x] \in Nat /\ rbuf'[x] \in Int
    BY <2>1, <2>2 DEF TypeOK
  <2>5. \A x \in Conn : rbuf[x] >= 2 * Limit => rbuf'[x] >= 2 * Limit
    BY <2>3, <2>4
  <2> QED
    BY <1>1, <2>1, <2>5, SameJobsUsual, HandlerWait
<1>3. CASE ReadFull
  <2>1. /\ UNCHANGED <<status, peer, rbuf, wbuf, jobs, phase, batch, self>>
        /\ status[c] = "WORKING" /\ Space(c) <= 0
        /\ ev' \subseteq (ev \ {"IN"}) \cup {"PARSE"}
    BY <1>a, <1>3 DEF ReadFull
  <2>2. Usual
    BY <2>1, SameJobsUsual
  <2>3. waitOn[c] = None
    BY <1>1, <2>1 DEF Turns, TurnOK, OnTurn, OneTurn, Waits
  <2>4. waitOn' = [waitOn EXCEPT ![c] = peer[c]]
    <3>1. CASE peer[c] = None
      <4>1. waitOn' = waitOn
        BY <1>a, <1>3, <3>1 DEF ReadFull
      <4> QED
        BY <2>3, <3>1, <4>1 DEF TypeOK
    <3>2. CASE peer[c] # None
      <4>1. waitOn' = [waitOn EXCEPT ![c] = IF @ = None THEN peer[c] ELSE @]
        BY <1>a, <1>3, <3>2 DEF ReadFull
      <4> QED
        BY <2>3, <4>1
    <3> QED
      BY <3>1, <3>2
  <2>5. ASSUME NEW x \in Conn, x # c PROVE WaitOK(x)'
    <3>1. waitOn'[x] = waitOn[x]
      BY <2>4, <2>5 DEF TypeOK
    <3>2. Silent(x) => Silent(x)'
      BY <1>a, <2>2, <2>5, <3>1, UsualSilent
    <3>3. Waits(x) /\ Promised(x) => Promised(x)'
      BY <1>1, <2>1, <3>1, PromiseKept
    <3>4. (Mutual(x) => Mutual(x)') /\ WaitOK(x)
      BY <2>1 DEF Mutual, Waiting
    <3> QED
      BY <2>1, <3>1, <3>2, <3>3, <3>4, WaitFrame
  <2>6. WaitOK(c)'
    <3>1. peer[c] # None => Mutual(c)
      BY <1>1, <2>1 DEF Waiting, WaitOK
    <3>2. peer'[c] # None => Mutual(c)'
      BY <2>1, <3>1 DEF Mutual
    <3>3. Cut(c)' => Cut(c)
      BY <2>1 DEF Cut
    <3>4. waitOn'[c] = peer[c]
      BY <2>4 DEF TypeOK
    <3>5. peer[c] # None => wbuf[peer[c]] > 0 \/ rbuf[c] >= 2 * Limit
      <4> SUFFICES ASSUME peer[c] # None PROVE wbuf[peer[c]] > 0 \/ rbuf[c] >= 2 * Limit
        OBVIOUS
      <4>1. wbuf[peer[c]] \in Nat /\ rbuf[c] \in Nat
        BY DEF TypeOK
      <4>2. (Limit - rbuf[c]) + (Limit - wbuf[peer[c]]) <= 0
        BY <2>1 DEF Space
      <4> QED
        BY <4>1, <4>2
    <3>6. Waits(c)' => Promised(c)'
      <4>1. Waits(c)' => peer[c] # None
        BY <3>4 DEF Waits
      <4>2. wbuf'[waitOn'[c]] = wbuf[peer[c]] /\ rbuf'[c] = rbuf[c]
        BY <2>1, <3>4
      <4> QED
        BY <3>5, <4>1, <4>2 DEF Promised
    <3>7. WaitOK(c)
      BY DEF Waiting
    <3> QED
      BY <2>1, <3>2, <3>3, <3>4, <3>6, <3>7 DEF WaitOK
  <2> QED
    BY <2>5, <2>6 DEF Waiting
<1>4. CASE ReadFails
  <2>1. CASE self \in Clients /\ status[self] = "CLOSING_WRITE"
    <3>1. /\ UNCHANGED <<status, peer, jobs, phase, batch, self, rbuf, wbuf, waitOn>>
          /\ ev' = (ev \ {"IN"}) \cup {"OUT"}
      BY <1>4, <2>1 DEF ReadFails
    <3> QED
      BY <1>1, <3>1, SameJobsUsual, HandlerWait
  <2>2. CASE ~(self \in Clients /\ status[self] = "CLOSING_WRITE")
    BY <1>a, <1>1, <1>4, <2>2, WaitFails DEF ReadFails
  <2> QED
    BY <2>1, <2>2
<1> QED
  BY <1>2, <1>3, <1>4 DEF HandlesIn

\* The client's request goes to a new backend: their link is mutual, and both
\* are silent.
LEMMA WaitFresh ==
  ASSUME TypeOK, LoopOK, References, Linked, Sockets, Turns, Waiting, NEW b \in Backends, NewPeer(b)
  PROVE  Waiting'
<1> USE ProxyAssumption
<1>a. PICK c \in Clients : c = self
  BY DEF NewPeer, CreatePeerByName, CreatePeer, Connects
<1>b. Alive /\ Links
  BY DEF Linked
<1>1. /\ c \in Conn /\ b \in Conn /\ b # c /\ None \notin Conn
      /\ status[c] = "WORKING" /\ peer[c] = None /\ ~Live(b) /\ phase \in {"events", "jobs"}
      /\ peer' = [peer EXCEPT ![b] = c, ![c] = b]
      /\ UNCHANGED <<self, phase>>
      /\ \A x \in Conn \ {b} : status'[x] = status[x]
  <2>1. Creates(b)
    BY NewPeerCreates
  <2> QED
    BY <1>a, <2>1 DEF Creates, Conn, LoopOK
<1>2. /\ UNCHANGED <<rbuf, wbuf, waitOn>> /\ ev' = (ev \ {"CONNECT"}) \cup {"PARSE"} /\ "CONNECT" \in ev
  BY DEF NewPeer, CreatePeerByName, CreatePeer, Connects
<1>3. Usual /\ "WAKE" \notin ev
  BY <1>2, NewPeerUsual DEF Sockets
<1>4. peer[b] = None /\ Silent(b)
  BY <1>1, <1>b, FreeIsUnused, FreeIsSilent
<1>5. Silent(c)
  <2>1. Parsing(c)
    BY <1>a, <1>2 DEF Parsing
  <2> QED
    BY <1>1, <2>1 DEF Turns, TurnOK, OnTurn
<1>6. ASSUME NEW x \in Conn, Silent(x) PROVE Silent(x)'
  BY <1>2, <1>3, <1>6, UsualSilent
<1>7. ASSUME NEW x \in {b, c} PROVE WaitOK(x)'
  <2>1. Silent(x)' /\ x \in Conn
    BY <1>1, <1>4, <1>5, <1>6
  <2> QED
    BY <1>1, <2>1, SilentWait
<1>8. ASSUME NEW x \in Conn, x \notin {b, c} PROVE WaitOK(x)'
  <2>1. peer'[x] = peer[x] /\ status'[x] = status[x]
    BY <1>1, <1>8 DEF TypeOK
  <2>2. Mutual(x) => Mutual(x)'
    <3> SUFFICES ASSUME Mutual(x) PROVE Mutual(x)'
      OBVIOUS
    <3>1. peer[x] \in Conn /\ peer[peer[x]] = x /\ peer[x] # None
      BY DEF Mutual, TypeOK
    <3>2. peer[x] # b /\ peer[x] # c
      BY <1>1, <1>4, <3>1
    <3>3. peer'[peer[x]] = x
      BY <1>1, <3>1, <3>2 DEF TypeOK
    <3> QED
      BY <2>1, <3>1, <3>3 DEF Mutual
  <2>3. Waits(x) /\ Promised(x) => Promised(x)'
    BY <1>2, <1>3, PromiseKept
  <2>4. WaitOK(x)
    BY DEF Waiting
  <2> QED
    BY <1>1, <1>2, <1>6, <2>1, <2>2, <2>3, <2>4, WaitFrame
<1> QED
  BY <1>7, <1>8 DEF Waiting

\* A change of the peer cuts the client's link at both ends.
LEMMA WaitDrops ==
  ASSUME TypeOK, LoopOK, Linked, Sockets, Turns, Waiting, ParseHead(TRUE)
  PROVE  Waiting'
<1> USE ProxyAssumption
<1>a. PICK c \in Clients : c = self
  BY DEF ParseHead, Parses
<1>p. PICK p \in Conn : p = peer[c]
  BY <1>a DEF ParseHead, Parses, TypeOK, Conn
<1>1. /\ c \in Conn /\ p # None /\ None \notin Conn /\ "PARSE" \in ev
      /\ status[c] = "WORKING" /\ phase \in {"events", "jobs"}
      /\ jobs' = AddConn(jobs, {"PEERCLOSE"}, p)
      /\ UNCHANGED <<self, phase, batch, rbuf, wbuf, waitOn>>
      /\ ev' = (ev \ {"PARSE"}) \cup {"CONNECT"}
      /\ \A x \in Conn : status'[x] = IF x = p THEN "PEERCLOSED" ELSE status[x]
      /\ \A x \in Conn : peer'[x] = IF x \in {p, c} THEN None ELSE peer[x]
  BY <1>a, <1>p DEF ParseHead, Parses, AfterPeerClose, TypeOK, Conn, LoopOK
<1>2. Usual /\ "WAKE" \notin ev
  <2>1. {"PEERCLOSE"} \in SUBSET JobEvent /\ "IN" \notin {"PEERCLOSE"}
    BY DEF JobEvent
  <2>2. "WAKE" \notin ev
    BY <1>1 DEF Sockets
  <2> QED
    BY <1>1, <2>1, <2>2, JobUsual
<1>3. peer[p] = c
  <2>1. ev # {}
    BY <1>1
  <2>2. Mutual(c)
    BY <1>a, <1>p, <1>1, <2>1, WorkingLink
  <2> QED
    BY <1>p, <2>2 DEF Mutual
<1>4. ASSUME NEW x \in Conn, Silent(x) PROVE Silent(x)'
  BY <1>1, <1>2, <1>4, UsualSilent
<1>5. WaitOK(c)'
  <2>1. Parsing(c)
    BY <1>a, <1>1 DEF Parsing
  <2>2. Silent(c)
    BY <1>1, <2>1 DEF Turns, TurnOK, OnTurn
  <2> QED
    BY <1>1, <1>4, <2>2, SilentWait
<1>6. WaitOK(p)'
  BY <1>1 DEF WaitOK
<1>7. ASSUME NEW x \in Conn, x \notin {p, c} PROVE WaitOK(x)'
  <2>1. peer'[x] = peer[x] /\ status'[x] = status[x]
    BY <1>1, <1>7
  <2>2. Mutual(x) => Mutual(x)'
    <3> SUFFICES ASSUME Mutual(x) PROVE Mutual(x)'
      OBVIOUS
    <3>1. peer[x] \in Conn /\ peer[peer[x]] = x /\ peer[x] # None
      BY DEF Mutual, TypeOK
    <3>2. peer[x] # p /\ peer[x] # c
      BY <1>3, <1>7, <1>p, <3>1
    <3>3. peer'[peer[x]] = x
      BY <1>1, <3>1, <3>2
    <3> QED
      BY <2>1, <3>1, <3>3 DEF Mutual
  <2>3. Waits(x) /\ Promised(x) => Promised(x)'
    BY <1>1, <1>2, PromiseKept
  <2>4. WaitOK(x)
    BY DEF Waiting
  <2> QED
    BY <1>1, <1>4, <2>1, <2>2, <2>3, <2>4, WaitFrame
<1> QED
  BY <1>5, <1>6, <1>7 DEF Waiting

\* A refused query ends the client and the backend it was for.
LEMMA WaitQuery ==
  ASSUME TypeOK, LoopOK, Linked, Sockets, Waiting, NEW b \in Backends, QueryFails(b)
  PROVE  Waiting'
<1> USE ProxyAssumption
<1>a. PICK c \in Clients : c = self
  BY DEF QueryFails, Connects
<1>1. /\ c \in Conn /\ b \in Conn /\ None \notin Conn /\ peer[c] = None /\ "CONNECT" \in ev
      /\ UNCHANGED <<phase, rbuf, wbuf, waitOn>> /\ ev' = {}
      /\ \A x \in Conn : x \notin {b, c} => status'[x] = status[x]
      /\ status'[b] # "WORKING" /\ status'[c] # "WORKING"
      /\ peer' = [peer EXCEPT ![c] = b]
  BY <1>a DEF QueryFails, Connects, TypeOK, Conn
<1>2. Usual /\ "WAKE" \notin ev
  BY <1>1, QueryFailsUsual DEF Sockets
<1>3. ASSUME NEW x \in Conn, x \notin {b, c} PROVE WaitOK(x)'
  <2>1. peer'[x] = peer[x] /\ status'[x] = status[x]
    BY <1>1, <1>3 DEF TypeOK
  <2>2. Mutual(x) => Mutual(x)'
    <3> SUFFICES ASSUME Mutual(x) PROVE Mutual(x)'
      OBVIOUS
    <3>1. peer[x] \in Conn /\ peer[peer[x]] = x /\ peer[x] # None
      BY DEF Mutual, TypeOK
    <3>2. peer[x] # c
      BY <1>1, <3>1
    <3>3. peer'[peer[x]] = x
      BY <1>1, <3>1, <3>2 DEF TypeOK
    <3> QED
      BY <2>1, <3>1, <3>3 DEF Mutual
  <2>3. Waits(x) /\ Promised(x) => Promised(x)'
    BY <1>1, <1>2, PromiseKept
  <2>4. WaitOK(x) /\ (Silent(x) => Silent(x)')
    BY <1>1, <1>2, UsualSilent DEF Waiting
  <2> QED
    BY <1>1, <2>1, <2>2, <2>3, <2>4, WaitFrame
<1> QED
  BY <1>1, <1>3 DEF Waiting, WaitOK

LEMMA WaitRequest ==
  ASSUME TypeOK, LoopOK, References, Linked, Sockets, Turns, Waiting, HandlesRequest
  PROVE  Waiting'
<1> USE ProxyAssumption
<1>1. /\ self \in Conn /\ self \in Clients /\ ev \cap {"PARSE", "CONNECT"} # {} /\ ev # {} /\ ev # {"WAKE"} /\ ~Closing
      /\ "WAKE" \notin ev /\ status[self] = "WORKING"
  BY DEF HandlesRequest, ParseFails, ParseDenied, ParseHead, UsePeer, ParseDone, ParseBody, Sockets,
         Parses, ConnectFails, CreatePeerByName, CreatePeer, QueryFails, Connects, Conn, LoopOK
<1>2. CASE ParseFails \/ ConnectFails
  BY <1>1, <1>2, WaitFails DEF ParseFails, ConnectFails
<1>3. ASSUME NEW b \in Backends, NewPeer(b) PROVE Waiting'
  BY <1>3, WaitFresh
<1>4. CASE ParseDenied
  <2>1. Usual
    BY <1>4, SameJobsUsual DEF ParseDenied
  <2>2. \A x \in Conn : status'[x] = "WORKING" => status[x] = "WORKING"
    BY <1>4 DEF ParseDenied, TypeOK
  <2>3. \A x \in Conn : wbuf[x] > 0 => wbuf'[x] > 0
    BY <1>4 DEF ParseDenied, TypeOK
  <2> QED
    BY <1>1, <1>4, <2>1, <2>2, <2>3, HandlerWait DEF ParseDenied
<1>5. ASSUME ParseHead(FALSE) PROVE Waiting'
  <2>1. status' = status /\ peer' = peer /\ jobs' = jobs /\ ev' = (ev \ {"PARSE"}) \cup {"CONNECT"}
        /\ UNCHANGED <<rbuf, wbuf, waitOn, phase, batch, self>>
    BY <1>5 DEF ParseHead, TypeOK
  <2> QED
    BY <1>1, <2>1, SameJobsUsual, HandlerWait
<1>6. CASE UsePeer
  BY <1>1, <1>6, SameJobsUsual, HandlerWait DEF UsePeer
<1>7. CASE ParseDone
  BY <1>1, <1>7, SameJobsUsual, HandlerWait DEF ParseDone, connVars
<1>8. ASSUME NEW x \in BOOLEAN, ParseBody(x) PROVE Waiting'
  <2>1. Usual
    <3>1. peer[self] \in Conn /\ UNCHANGED <<self, phase, batch>>
      BY <1>1, <1>8 DEF ParseBody, TypeOK
    <3>2. {"OUT"} \in SUBSET JobEvent /\ "IN" \notin {"OUT"}
      BY DEF JobEvent
    <3>3. jobs' = AddConn(jobs, {"OUT"}, peer[self]) \/ jobs' = jobs
      BY <1>8 DEF ParseBody
    <3> QED
      BY <3>1, <3>2, <3>3, JobUsual, SameJobsUsual
  <2>2. \A y \in Conn : wbuf[y] > 0 => wbuf'[y] > 0
    BY <1>8 DEF ParseBody, TypeOK
  <2>3. \A y \in Conn : Waits(y) /\ status[y] = "WORKING" /\ rbuf[y] >= 2 * Limit => rbuf'[y] >= 2 * Limit
    <3>1. ASSUME NEW y \in Conn, y = self, status[y] = "WORKING" PROVE ~Waits(y)
      <4>1. Parsing(y)
        BY <1>1, <3>1 DEF Parsing
      <4> QED
        BY <3>1, <4>1 DEF Turns, TurnOK, OnTurn, Silent
    <3>2. \A y \in Conn : y # self => rbuf'[y] = rbuf[y]
      BY <1>8 DEF ParseBody, TypeOK
    <3> QED
      BY <3>1, <3>2
  <2> QED
    BY <1>1, <1>8, <2>1, <2>2, <2>3, HandlerWait DEF ParseBody
<1>9. ASSUME NEW x \in BOOLEAN, ParseHead(x) PROVE Waiting'
  BY <1>5, <1>9, WaitDrops
<1> QED
  BY <1>2, <1>3, <1>4, <1>6, <1>7, <1>8, <1>9, WaitQuery DEF HandlesRequest, NewPeer

\* A backend that forwards while it waits gives its peer something to write.
LEMMA WaitBackend ==
  ASSUME TypeOK, LoopOK, Linked, Sockets, Waiting, BackendForwards \/ BackendForwardFails
  PROVE  Waiting'
<1> USE ProxyAssumption
<1>1. self \in Conn /\ "PARSE" \in ev /\ ev # {} /\ ev # {"WAKE"} /\ "WAKE" \notin ev /\ ~Closing
  BY DEF BackendForwards, BackendForwardFails, LoopOK, Conn, Sockets
<1>2. CASE BackendForwards
  <2>a. PICK c \in Conn, p \in Conn : c = self /\ p = peer[c] /\ p # None
    BY <1>1, <1>2 DEF BackendForwards, TypeOK
  <2>1. /\ UNCHANGED <<status, peer, waitOn, phase, batch, self>>
        /\ ev' = ev \ {"PARSE"}
        /\ jobs' = jobs \/ jobs' = AddConn(jobs, {"OUT"}, p)
        /\ rbuf[c] \in Nat /\ wbuf'[p] = wbuf[p] + rbuf[c] /\ wbuf[p] \in Nat
        /\ \A x \in Conn : x # p => wbuf'[x] = wbuf[x]
        /\ \A x \in Conn : x # c => rbuf'[x] = rbuf[x]
    BY <1>2, <2>a DEF BackendForwards, TypeOK
  <2>2. Usual
    <3>1. {"OUT"} \in SUBSET JobEvent /\ "IN" \notin {"OUT"}
      BY DEF JobEvent
    <3> QED
      BY <2>1, <3>1, JobUsual, SameJobsUsual
  <2>3. \A x \in Conn : wbuf[x] > 0 => wbuf'[x] > 0
    BY <2>1
  <2>4. ASSUME NEW x \in Conn PROVE WaitOK(x)'
    <3>1. (Silent(x) => Silent(x)') /\ (Mutual(x) => Mutual(x)') /\ WaitOK(x)
      BY <2>1, <2>2, UsualSilent DEF Mutual, Waiting
    <3>2. x # c /\ Waits(x) /\ Promised(x) => Promised(x)'
      BY <1>1, <2>1, <2>3, PromiseKept
    <3>3. ASSUME x = c, Waits(x), status[x] = "WORKING", Promised(x) PROVE Promised(x)'
      <4>1. waitOn'[x] = p /\ waitOn[x] = p
        BY <2>a, <2>1, <3>1, <3>3 DEF WaitOK
      <4>2. rbuf[c] >= 2 * Limit => rbuf[c] > 0
        BY <2>1
      <4>3. wbuf[p] > 0 \/ rbuf[c] >= 2 * Limit
        BY <1>1, <3>3, <4>1 DEF Promised
      <4>4. wbuf'[p] > 0
        BY <2>1, <4>2, <4>3
      <4> QED
        BY <4>1, <4>4 DEF Promised
    <3> QED
      BY <2>1, <3>1, <3>2, <3>3, WaitFrame
  <2> QED
    BY <2>4 DEF Waiting
<1>3. CASE BackendForwardFails
  BY <1>1, <1>3, WaitFails DEF BackendForwardFails
<1> QED
  BY <1>2, <1>3

\* A backend that finds itself connected was silent.
LEMMA WaitWrites ==
  ASSUME TypeOK, LoopOK, Turns, Waiting, Writes,
         status' = [status EXCEPT ![self] = StatusAfterOut(self)],
         \A x \in Conn : x # self => wbuf'[x] = wbuf[x],
         wbuf'[self] > 0 \/ wbuf' = wbuf \/ ev' = IF \E w \in Conn : waitOn[w] = self THEN {"WAKE"} ELSE {}
  PROVE  Waiting'
<1> USE ProxyAssumption
<1>a. PICK c \in Conn : c = self
  BY DEF Writes, DoesOut
<1>1. /\ ev = {"OUT"} /\ "WAKE" \notin ev /\ "IN" \notin ev' /\ Usual
      /\ UNCHANGED <<peer, rbuf, waitOn, self, phase>>
      /\ c # None
  BY <1>a DEF Writes, DoesOut, Usual, Conn
<1>2. phase' \in {"events", "jobs"}
  BY <1>a, <1>1 DEF LoopOK
<1>3. ASSUME NEW x \in Conn PROVE WaitOK(x)'
  <2>1. (Silent(x) => Silent(x)') /\ (Mutual(x) => Mutual(x)') /\ WaitOK(x)
    BY <1>1, UsualSilent DEF Mutual, Waiting
  <2>2. Waits(x) /\ Promised(x) => Promised(x)'
    <3> SUFFICES ASSUME Waits(x), Promised(x) PROVE Promised(x)'
      OBVIOUS
    <3>1. waitOn[x] \in Conn
      BY DEF Waits, TypeOK
    <3>2. CASE waitOn[x] # self
      BY <1>1, <3>1, <3>2 DEF Promised
    <3>3. CASE waitOn[x] = self
      <4>1. wbuf'[self] > 0 \/ wbuf'[self] = wbuf[self] \/ "WAKE" \in ev'
        BY <3>3
      <4> QED
        BY <1>1, <3>3, <4>1 DEF Promised
    <3> QED
      BY <3>2, <3>3
  <2>3. CASE status'[x] = "WORKING" => status[x] = "WORKING"
    BY <1>1, <1>2, <2>1, <2>2, <2>3, WaitFrame
  <2>4. CASE status'[x] = "WORKING" /\ status[x] # "WORKING"
    <3>1. status[x] = "CONNECTING"
      BY <2>4 DEF StatusAfterOut, TypeOK
    <3>2. Silent(x)
      BY <3>1 DEF Turns, TurnOK, Fresh
    <3> QED
      BY <1>2, <2>1, <3>2, SilentWait
  <2> QED
    BY <2>3, <2>4
<1> QED
  BY <1>3 DEF Waiting

\* Who is woken does not wait any more; the others are still being woken.
LEMMA WaitWakes ==
  ASSUME TypeOK, LoopOK, Sockets, Turns, Waiting, NEW w \in Conn, Wake(w)
  PROVE  Waiting'
<1> USE ProxyAssumption
<1>1. /\ ev = {"WAKE"} /\ waitOn[w] = self /\ self \in Conn /\ None \notin Conn
      /\ UNCHANGED <<status, peer, rbuf, wbuf, phase, self, batch>>
      /\ waitOn' = [waitOn EXCEPT ![w] = None]
      /\ ev' = IF \E x \in Conn \ {w} : waitOn[x] = self THEN ev ELSE {}
      /\ jobs' = AddConn(jobs, {"IN"}, w)
  BY DEF Wake, Sockets, Conn
<1>2. ASSUME NEW x \in Conn PROVE WaitOK(x)'
  <2>1. (Mutual(x) => Mutual(x)') /\ WaitOK(x)
    BY <1>1 DEF Mutual, Waiting
  <2>2. Silent(x) => Silent(x)'
    <3> SUFFICES ASSUME Silent(x) PROVE Silent(x)'
      OBVIOUS
    <3> DEFINE E == {"IN"}
               f == First
    <3>0. E \in SUBSET JobEvent
      BY DEF JobEvent
    <3>1. x # w
      BY <1>1 DEF Silent, Waits
    <3>2. f \in {1, 2} /\ First' = f /\ jobs \in Seq(JobSet) /\ w \in Conn \cup {Dns} /\ jobs' = AddConn(jobs, E, w)
      BY <1>1, FirstIs DEF First, TypeOK, JobSet
    <3> HIDE DEF E, f
    <3>3. Added(jobs, E, w, jobs')
      BY <3>0, <3>2, AddConnAdds
    <3>4. ReadsAt(jobs', f, x) = ReadsAt(jobs, f, x)
      BY <3>1, <3>2, <3>3, AddedReadsOther
    <3>5. ~Woken(x)'
      BY <3>2, <3>4 DEF Silent, Woken, f
    <3>6. ~Waits(x)' /\ ~Polled(x)' /\ ~Reads(x)'
      BY <1>1, <3>1 DEF Silent, Waits, Polled, Reads, TypeOK
    <3> QED
      BY <3>5, <3>6 DEF Silent
  <2>3. Waits(x)' => x # w /\ waitOn'[x] = waitOn[x]
    BY <1>1 DEF Waits, TypeOK
  <2>4. Waits(x)' /\ Promised(x) => Promised(x)'
    BY <1>1, <2>3 DEF Promised
  <2> QED
    BY <1>1, <2>1, <2>2, <2>3, <2>4, WaitFrame
<1> QED
  BY <1>2 DEF Waiting

LEMMA WaitOut ==
  ASSUME TypeOK, LoopOK, Linked, Sockets, Turns, Waiting, HandlesOut
  PROVE  Waiting'
<1> USE ProxyAssumption
<1>1. ASSUME DoesOut
      PROVE  self \in Conn /\ ~Closing /\ ev # {} /\ ev # {"WAKE"} /\ "WAKE" \notin ev /\ "IN" \notin ev
  BY <1>1 DEF DoesOut, Closing
<1>2. CASE OutRefused
  <2>0. DoesOut
    BY <1>2 DEF OutRefused
  <2>1. CASE self \in Clients
    <3>1. UNCHANGED <<status, peer, jobs, phase, batch, self, rbuf, wbuf, waitOn>> /\ ev' = {}
      BY <1>2, <2>1 DEF OutRefused
    <3> QED
      BY <1>1, <2>0, <3>1, SameJobsUsual, HandlerWait
  <2>2. CASE self \notin Clients
    BY <1>1, <1>2, <2>0, <2>2, WaitFails DEF OutRefused
  <2> QED
    BY <2>1, <2>2
<1>3. ASSUME DoesOut, UNCHANGED <<peer, jobs, phase, batch, self, rbuf, waitOn, dns, sysin, sock>>,
             \A c \in Conn : c # self => UNCHANGED <<lsn[c], armed[c]>>,
             status' = [status EXCEPT ![self] = StatusAfterOut(self)],
             "IN" \notin ev' /\ ev' \cap {"PARSE", "CONNECT"} = {}
      PROVE  Writes
  BY <1>3, SameJobsUsual DEF Writes, TypeOK
<1>4. CASE WriteFails
  <2>1. /\ DoesOut /\ UNCHANGED <<peer, jobs, phase, batch, self, rbuf, wbuf, waitOn, dns, sysin, sock>>
        /\ \A c \in Conn : c # self => UNCHANGED <<lsn[c], armed[c]>>
        /\ status' = [status EXCEPT ![self] = StatusAfterOut(self)]
        /\ ev' = {}
    BY <1>4 DEF WriteFails, netVars, TypeOK
  <2>2. Writes
    BY <1>3, <2>1
  <2> QED
    BY <2>1, <2>2, WaitWrites
<1>5. ASSUME NEW k \in 0..(2 * Limit), WriteSome(k) PROVE Waiting'
  <2>1. /\ DoesOut /\ UNCHANGED <<peer, jobs, phase, batch, self, rbuf, waitOn, dns, sysin, sock>>
        /\ \A c \in Conn : c # self => UNCHANGED <<lsn[c], armed[c]>>
        /\ status' = [status EXCEPT ![self] = StatusAfterOut(self)]
        /\ ev' = {}
    BY <1>5 DEF WriteSome, ModFd, TypeOK
  <2>2. Writes
    BY <1>3, <2>1
  <2>3. wbuf'[self] > 0 /\ \A c \in Conn : c # self => wbuf'[c] = wbuf[c]
    BY <1>1, <1>5, <2>1 DEF WriteSome, TypeOK
  <2> QED
    BY <2>1, <2>2, <2>3, WaitWrites
<1>6. ASSUME NEW room \in BOOLEAN, AllWritten(room)
      PROVE  /\ DoesOut /\ UNCHANGED <<phase, batch, self, rbuf, waitOn, dns, sysin, sock>>
             /\ \A c \in Conn : c # self => UNCHANGED <<lsn[c], armed[c], wbuf[c]>>
  BY <1>6 DEF AllWritten, ModFd, TypeOK
<1>7. ASSUME NEW room \in BOOLEAN, WriteAll(room) PROVE Waiting'
  <2>1. /\ AllWritten(room) /\ UNCHANGED <<peer, jobs>>
        /\ status' = [status EXCEPT ![self] = StatusAfterOut(self)]
        /\ ev' = IF \E w \in Conn : waitOn[w] = self THEN {"WAKE"} ELSE {}
    BY <1>7 DEF WriteAll
  <2>2. "IN" \notin ev' /\ ev' \cap {"PARSE", "CONNECT"} = {}
    BY <2>1
  <2>3. Writes
    BY <1>3, <1>6, <2>1, <2>2
  <2>4. \A x \in Conn : x # self => wbuf'[x] = wbuf[x]
    BY <1>6, <2>1
  <2> QED
    BY <2>1, <2>3, <2>4, WaitWrites
<1>8. ASSUME NEW room \in BOOLEAN, WriteLast(room) PROVE Waiting'
  <2>1. AllWritten(room) /\ SignalThisClose(self) /\ ev' = {} /\ UNCHANGED owner
    BY <1>8 DEF WriteLast, AllWritten, ghosts
  <2>2. Signals(self)
    BY <1>1, <1>6, <2>1, FailSignals DEF Linked
  <2> QED
    BY <1>1, <1>6, <2>1, <2>2, WaitSignals
<1> QED
  BY <1>2, <1>4, <1>5, <1>7, <1>8, WaitWakes DEF HandlesOut

LEMMA WaitDns ==
  ASSUME TypeOK, LoopOK, References, Linked, Sockets, Turns, Waiting, HandlesDns
  PROVE  Waiting'
<1> USE ProxyAssumption
<1>1. /\ self = Dns /\ self \notin Conn /\ self # None /\ ev # {} /\ ~Closing /\ "WAKE" \notin ev
      /\ \A c \in Conn : c # self
  BY DEF HandlesDns, DnsSend, DnsReadDone, DnsNotFound, DnsFound, Conn, LoopOK, Closing
<1>2. ASSUME DnsSend \/ DnsReadDone PROVE Waiting'
  <2>1. UNCHANGED <<status, peer, rbuf, wbuf, waitOn, jobs, phase, batch, self>> /\ ev' \subseteq ev
    BY <1>2 DEF DnsSend, DnsReadDone, connVars
  <2> QED
    BY <1>1, <2>1, SameJobsUsual, HandlerWait
<1>3. ASSUME NEW b \in Backends, DnsNotFound(b) PROVE Waiting'
  <2>1. /\ b \in Conn /\ Live(b) /\ phase = "events"
        /\ UNCHANGED <<rbuf, wbuf, waitOn, phase, batch, self, ev, owner>>
        /\ SignalThisClose(b)
    BY <1>1, <1>3 DEF DnsNotFound, Conn, References, ghosts, LoopOK
  <2>2. Signals(b)
    BY <1>1, <2>1 DEF Signals
  <2> QED
    BY <1>1, <2>1, <2>2, WaitSignals
<1>4. ASSUME NEW b \in Backends, NEW how \in {"open", "connecting"}, DnsFound(b, how) PROVE Waiting'
  <2>1. /\ b \in Conn /\ dns[b] # "none" /\ phase \in {"events", "jobs"}
        /\ UNCHANGED <<peer, rbuf, wbuf, waitOn, jobs, phase, batch, self, ev>>
        /\ \A x \in Conn : x # b => status'[x] = status[x]
    BY <1>1, <1>4 DEF DnsFound, Conn, TypeOK, LoopOK
  <2>2. ASSUME NEW x \in Conn PROVE WaitOK(x)'
    <3>1. (Silent(x) => Silent(x)') /\ (Mutual(x) => Mutual(x)') /\ WaitOK(x)
      BY <2>1, SameJobsUsual, UsualSilent DEF Mutual, Waiting
    <3>2. CASE x = b
      <4>1. Silent(x)
        BY <2>1, <3>2 DEF Turns, TurnOK, Fresh
      <4> QED
        BY <2>1, <3>1, <4>1, SilentWait
    <3>3. CASE x # b
      BY <1>1, <2>1, <3>1, <3>3, PromiseKept, WaitFrame
    <3> QED
      BY <3>2, <3>3
  <2> QED
    BY <2>2 DEF Waiting
<1> QED
  BY <1>2, <1>3, <1>4 DEF HandlesDns

\* A connection that is freed was linked with nobody.
LEMMA WaitClose ==
  ASSUME TypeOK, LoopOK, Linked, Sockets, Waiting, HandlePeerClose \/ HandleThisClose
  PROVE  Waiting'
<1> USE ProxyAssumption
<1>a. PICK c \in Conn : c = self
  BY DEF HandlePeerClose, HandleThisClose
<1>1. Closing /\ "WAKE" \notin ev /\ None \notin Conn /\ phase \in {"events", "jobs"}
  BY <1>a DEF HandlePeerClose, HandleThisClose, Closing, Sockets, LoopOK, Conn
<1>2. CASE HandlePeerClose
  <2>1. /\ UNCHANGED <<peer, rbuf, wbuf, waitOn, jobs, phase, batch, self>>
        /\ ev' \in {(ev \ {"PEERCLOSE"}) \cup {"OUT"}, (ev \ {"PEERCLOSE"}) \cup {"CLOSE"}}
        /\ \A x \in Conn : status'[x] = "WORKING" => status[x] = "WORKING"
    BY <1>2 DEF HandlePeerClose, TypeOK
  <2>2. "IN" \in ev' => "IN" \in ev
    BY <2>1
  <2> QED
    BY <1>1, <2>1, <2>2, SameJobsUsual, HandlerWait
<1>3. CASE HandleThisClose
  <2>1. /\ UNCHANGED <<phase, batch, self>> /\ ev' = {} /\ jobs' = DelConn(jobs, c)
        /\ \A x \in Conn : x # c => UNCHANGED <<status[x], peer[x], rbuf[x], wbuf[x]>>
        /\ status'[c] = "FREE"
        /\ \A x \in Conn : waitOn'[x] = IF x = c \/ waitOn[x] = c THEN None ELSE waitOn[x]
    BY <1>a, <1>3 DEF HandleThisClose, TypeOK
  <2>2. ~Mutual(c)
    BY <1>a, <1>1 DEF Linked, Links, NoEnd
  <2>3. ASSUME NEW x \in Conn, x # c PROVE WaitOK(x)'
    <3>1. Mutual(x) => Mutual(x)'
      <4> SUFFICES ASSUME Mutual(x) PROVE Mutual(x)'
        OBVIOUS
      <4>1. peer[x] \in Conn /\ peer[peer[x]] = x /\ peer[x] # None
        BY DEF Mutual, TypeOK
      <4>2. peer[x] # c
        BY <1>1, <2>2, <4>1 DEF Mutual
      <4> QED
        BY <2>1, <2>3, <4>1, <4>2 DEF Mutual
    <3>2. Silent(x) => Silent(x)'
      <4> SUFFICES ASSUME Silent(x) PROVE Silent(x)'
        OBVIOUS
      <4>1. jobs \in Seq(JobSet) /\ First' = First /\ First \in {1, 2}
        BY <2>1, FirstIs DEF First, TypeOK, JobSet
      <4>2. StillRuns(jobs, First, c, jobs')
        BY <2>1, <4>1, DelConnDeletes, DeletedRuns
      <4>3. ReadsAt(jobs', First', x) = ReadsAt(jobs, First, x)
        BY <2>3, <4>1, <4>2, DeletedReads
      <4>4. ~Woken(x)' /\ ~Waits(x)' /\ ~Polled(x)' /\ ~Reads(x)'
        BY <2>1, <4>3 DEF Silent, Woken, Waits, Polled, Reads
      <4> QED
        BY <4>4 DEF Silent
    <3>3. Waits(x)' => waitOn'[x] = waitOn[x] /\ waitOn[x] # c /\ waitOn[x] \in Conn
      BY <2>1, <2>3 DEF Waits, TypeOK
    <3>4. Waits(x)' /\ Promised(x) => Promised(x)'
      BY <1>1, <2>1, <2>3, <3>3 DEF Promised
    <3>5. WaitOK(x)
      BY DEF Waiting
    <3> QED
      BY <2>1, <2>3, <3>1, <3>2, <3>3, <3>4, <3>5, WaitFrame
  <2>4. WaitOK(c)'
    BY <2>1 DEF WaitOK
  <2> QED
    BY <2>3, <2>4 DEF Waiting
<1> QED
  BY <1>2, <1>3

\* The network changes no link; a new client has none.
LEMMA WaitNetwork ==
  ASSUME TypeOK, LoopOK, References, Linked, Waiting, Network
  PROVE  Waiting'
<1>1. /\ UNCHANGED <<peer, rbuf, wbuf, waitOn, jobs, phase, batch, self, ev>> /\ ev = {}
      /\ \A x \in Conn : status'[x] = "WORKING" => status[x] = "WORKING" \/ ~Live(x)
  BY DEF Network, Accept, Arrive, RemoteEof, RemoteReset, Drain, Connected, Move, Quiet,
         connVars, loopVars, LoopOK, TypeOK
<1> SUFFICES ASSUME NEW x \in Conn PROVE WaitOK(x)'
  BY DEF Waiting
<1>2. (Silent(x) => Silent(x)') /\ (Mutual(x) => Mutual(x)') /\ WaitOK(x)
  BY <1>1, SameJobsUsual, UsualSilent DEF Mutual, Waiting
<1>3. CASE ~Live(x)
  <2>1. Silent(x) /\ peer[x] = None
    BY <1>3, FreeIsSilent, FreeIsUnused DEF Linked
  <2>2. Silent(x)' /\ ~Cut(x)'
    BY <1>1, <1>2, <2>1 DEF Cut
  <2> QED
    BY <2>2, SilentWait
<1>4. CASE Live(x)
  BY <1>1, <1>2, <1>4, PromiseKept, WaitFrame
<1> QED
  BY <1>3, <1>4

LEMMA WaitLoop ==
  ASSUME TypeOK, LoopOK, References, Linked, Sockets, Waiting, MainLoop \/ Timer
  PROVE  Waiting'
<1> USE ProxyAssumption
<1>0. None \notin Conn
  BY DEF Conn
<1>1. ASSUME NEW c \in Conn, TimeoutOne(c) PROVE Waiting'
  <2>1. self = None /\ ev = {} /\ Live(c) /\ UNCHANGED <<self, phase, owner, ev>>
    BY <1>1 DEF TimeoutOne, LoopOK, References, ghosts
  <2>2. Signals(c)
    BY <1>0, <1>1, <2>1 DEF TimeoutOne, Signals, Closing
  <2> QED
    BY <1>1, <2>1, <2>2, WaitSignals DEF TimeoutOne
<1>2. ASSUME NEW r \in BOOLEAN, EvWait(r) PROVE Waiting'
  <2>1. /\ phase \in {"wait", "timer"} /\ phase' = "events" /\ self = None /\ ev = {} /\ ev' = ev /\ self' = self
        /\ UNCHANGED <<status, peer, rbuf, wbuf, waitOn>>
    BY <1>2 DEF EvWait, connVars, LoopOK
  <2>2. ASSUME NEW x \in Conn PROVE WaitOK(x)'
    <3>1. WaitOK(x) /\ (Waits(x)' <=> Waits(x)) /\ (Promised(x)' <=> Promised(x)) /\ (Mutual(x)' <=> Mutual(x)) /\ (Cut(x)' <=> Cut(x))
      BY <2>1 DEF Waiting, Waits, Promised, Mutual, Cut
    <3>2. status[x] = "WORKING" => ~Cut(x)
      BY <2>1, <3>1 DEF WaitOK
    <3>3. status[x] = "WORKING" /\ peer[x] # None => Mutual(x)
      BY <3>2 DEF Cut, Mutual
    <3> QED
      BY <2>1, <3>1, <3>3 DEF WaitOK
  <2> QED
    BY <2>2 DEF Waiting
<1>3. ASSUME Steady, ev = {}, UNCHANGED ev \/ "WAKE" \notin ev',
             phase \in {"events", "jobs"} => phase' \in {"events", "jobs"} \/ \A x \in Conn : ~Cut(x)
      PROVE  Waiting'
  <2>1. UNCHANGED <<status, peer, rbuf, wbuf, waitOn>>
    BY <1>3 DEF Steady, connVars
  <2>2. ASSUME NEW x \in Conn PROVE WaitOK(x)'
    <3>1. WaitOK(x) /\ (Waits(x)' <=> Waits(x)) /\ (Mutual(x)' <=> Mutual(x)) /\ (Cut(x)' <=> Cut(x)) /\ (Silent(x)' <=> Silent(x))
      BY <1>3, <2>1 DEF Waiting, Waits, Mutual, Cut, Steady
    <3>2. Promised(x) => Promised(x)'
      BY <1>3, <2>1 DEF Promised
    <3> QED
      BY <1>3, <2>1, <3>1, <3>2 DEF WaitOK
  <2> QED
    BY <2>2 DEF Waiting
<1>4. ASSUME NEW S \in SUBSET Conn, TimerFires(S) PROVE Waiting'
  <2>1. Steady
    BY <1>4, LoopSteady DEF Timer
  <2> QED
    BY <1>3, <1>4, <2>1 DEF TimerFires, Quiet, LoopOK
<1>5. ASSUME NEW d \in Conn \cup {Dns}, Dispatch(d) PROVE Waiting'
  <2>1. Steady
    BY <1>5, LoopSteady
  <2>2. ev = {} /\ ev' \subseteq FdEvent /\ phase' = phase
    BY <1>5 DEF Dispatch, LoopOK
  <2>3. "WAKE" \notin ev'
    BY <2>2 DEF FdEvent
  <2> QED
    BY <1>3, <2>1, <2>2, <2>3
<1>6. ASSUME RunJob PROVE Waiting'
  <2>1. Steady
    BY <1>6, LoopSteady
  <2>2. jobs[1] \in JobSet /\ ev' = jobs[1].events /\ ev = {} /\ phase' = phase
    BY <1>6 DEF RunJob, TypeOK, JobSet, LoopOK
  <2>3. "WAKE" \notin ev'
    BY <2>2 DEF JobSet, Job, JobEvent
  <2> QED
    BY <1>3, <2>1, <2>2, <2>3
<1>7. ASSUME StartJobs \/ SkipJob \/ Return PROVE Waiting'
  <2>1. Steady
    BY <1>7, LoopSteady
  <2>2. ev = {} /\ ev' = ev /\ (phase \in {"events", "jobs"} => phase' \in {"events", "jobs"})
    BY <1>7 DEF StartJobs, SkipJob, Return, LoopOK
  <2> QED
    BY <1>3, <2>1, <2>2
<1>8. ASSUME EndJobs PROVE Waiting'
  <2>1. Steady
    BY <1>8, LoopSteady
  <2>2. ev = {} /\ ev' = ev /\ self = None /\ Len(jobs) = 0
    BY <1>8 DEF EndJobs, LoopOK
  <2>3. \A x \in Conn : ~Cut(x)
    <3>1. ASSUME NEW x \in Conn PROVE ~Doomed(x)
      BY <1>0, <2>2 DEF Doomed, ClosesNow, ClosesNext, ClosesAfter, NextClosesIn, ClosesFirstIn
    <3> QED
      BY <3>1 DEF Linked, Links
  <2> QED
    BY <1>3, <2>1, <2>2, <2>3
<1> QED
  BY <1>1, <1>2, <1>4, <1>5, <1>6, <1>7, <1>8 DEF MainLoop, Timer

\* The invariant about waiting is inductive.
LEMMA WaitingStep ==
  ASSUME TypeOK, LoopOK, References, Linked, Sockets, Turns, Waiting, [Next]_vars
  PROVE  Waiting'
<1>1. ASSUME HandleErr PROVE Waiting'
  <2>1. self \in Conn /\ ~Closing /\ ev # {} /\ ev # {"WAKE"}
    BY <1>1 DEF HandleErr
  <2> QED
    BY <1>1, <2>1, WaitFails DEF HandleErr
<1>2. ASSUME UNCHANGED vars PROVE Waiting'
  <2>1. UNCHANGED <<jobs, phase, batch, self, ev, status, peer, rbuf, wbuf, waitOn>>
    BY <1>2 DEF vars, connVars, loopVars
  <2> QED
    BY <2>1 DEF Waiting, WaitOK, Silent, Waits, Polled, Reads, Woken, First, Mutual, Cut, Promised
<1> QED
  BY <1>1, <1>2, WaitIn, WaitRequest, WaitOut, WaitDns, WaitClose, WaitBackend,
     WaitNetwork, WaitLoop DEF Next, Handler

-----------------------------------------------------------------------------
(* What the invariants about input say of the loop.                         *)

Flow == Sockets /\ Turns /\ Waiting

LEMMA FlowInit ==
  ASSUME Init
  PROVE  Flow
<1> USE ProxyAssumption
<1>1. /\ self = None /\ ev = {} /\ phase = "wait" /\ jobs = <<>> /\ Len(jobs) = 0
      /\ None \notin Conn
  BY DEF Init, Conn
<1>2. \A c \in Conn : /\ status[c] = "FREE" /\ peer[c] = None /\ waitOn[c] = None /\ sysin[c] = 0 /\ sock[c] = "idle"
                      /\ batch[c] = {} /\ lsn[c] = {}
  BY DEF Init, NoEvents, Conn
<1>3. \A b \in Backends : dns[b] = "none"
  BY DEF Init
<1>4. Sockets
  BY <1>1, <1>2, <1>3 DEF Sockets, Errs
<1>5. \A c \in Conn : TurnOK(c)
  BY <1>1, <1>2, <1>3 DEF TurnOK, Fresh
<1>6. \A c \in Conn : WaitOK(c)
  BY <1>2 DEF WaitOK
<1> QED
  BY <1>4, <1>5, <1>6 DEF Flow, Turns, Waiting

LEMMA FlowStep ==
  ASSUME IInv, Flow, [Next]_vars
  PROVE  Flow'
<1>1. TypeOK /\ LoopOK /\ References /\ Linked /\ Alive /\ Sockets /\ Turns /\ Waiting
  BY DEF IInv, Linked, Flow
<1> QED
  BY <1>1, SocketsStep, TurnsStep, WaitingStep DEF Flow

LEMMA FlowAlways == Spec => [](IInv /\ Flow)
<1>1. Init => IInv /\ Flow
  BY IInvInit, FlowInit
<1>2. (IInv /\ Flow) /\ [Next]_vars => (IInv /\ Flow)'
  BY IInvStep, FlowStep
<1> QED
  BY <1>1, <1>2, PTL DEF Spec

\* A working connection is handed an IN event only when there is data or an
\* end to read: chunk_io_read would take FIONREAD = 0 for the end of the
\* stream (conn_io.c) and close a healthy connection.
THEOREM InputMeansData == Spec => []InMeansData
<1>1. IInv /\ Flow => InMeansData
  <2> SUFFICES ASSUME IInv, Flow, self \in Conn, DoesIn, status[self] = "WORKING", sysin[self] = 0
               PROVE  sock[self] \in {"eof", "reset"}
    BY DEF InMeansData
  <2>1. PICK c \in Conn : c = self
    OBVIOUS
  <2>2. Reads(c)
    BY <2>1 DEF Reads, DoesIn
  <2>3. ~Silent(c) /\ OnTurn(c)
    BY <2>1, <2>2 DEF Silent, Flow, Turns, TurnOK
  <2> QED
    BY <2>1, <2>3 DEF OnTurn
<1> QED
  BY <1>1, FlowAlways, PTL

\* waitconn.c: a working connection that stopped to read waits for its peer
\* only, and only while the peer has data to write or is about to wake it, or
\* while its own readbuf is full; so no wake-up is lost.
THEOREM NoWakeIsMissed == Spec => []NoMissedWake
<1>1. IInv /\ Flow => NoMissedWake
  BY DEF Flow, Waiting, WaitOK, Waits, Promised, NoMissedWake
<1> QED
  BY <1>1, FlowAlways, PTL

\* Edge-triggered epoll loses no input: when the loop is about to wait, a
\* working connection with data is on the ready list and watched, or waits
\* for its peer, or is full with the head of one request.
THEOREM NoInputIsStuck == Spec => []NoStuckInput
<1>1. IInv /\ Flow => NoStuckInput
  <2> SUFFICES ASSUME IInv, Flow, NEW c \in Conn, Quiet, jobs = <<>>, status[c] = "WORKING", sysin[c] > 0,
                      waitOn[c] = None, ~(peer[c] = None /\ rbuf[c] >= Limit)
               PROVE  "IN" \in lsn[c] /\ armed[c]
    BY DEF NoStuckInput
  <2>1. /\ OnTurn(c) /\ ~Full(c) /\ ~Waits(c) /\ batch = NoEvents /\ self = None
        /\ None \notin Conn /\ Len(jobs) = 0
    BY ProxyAssumption DEF Flow, Turns, TurnOK, Full, Waits, Quiet, IInv, LoopOK, Conn
  <2>2. Silent(c)
    BY <2>1 DEF Silent, Polled, NoEvents, Reads, Woken, ReadsAt
  <2> QED
    BY <2>1, <2>2 DEF OnTurn
<1> QED
  BY <1>1, FlowAlways, PTL

-----------------------------------------------------------------------------
(* The last data of a client.                                               *)

\* A client that was flushing what its peer left is signalled to close.
CutsOff(c) == status[c] \in {"PEERCLOSED", "CLOSING_WRITE"} /\ status'[c] = "CLOSED"

\* Only a signal makes a connection CLOSED, and only the one it is for.
LEMMA CutOffIsSignalled ==
  ASSUME TypeOK, NEW c \in Conn, CutsOff(c), NEW x \in Conn, SignalThisClose(x)
  PROVE  x = c
  BY DEF TypeOK, SignalThisClose, CutsOff

\* When that happens its data has gone, unless it is cut off by an error, by
\* the timeout or by input that comes before its PEERCLOSE event.
LEMMA CutOffStep ==
  ASSUME TypeOK, LoopOK, Sockets, Next, NEW c \in Clients, CutsOff(c), wbuf'[c] > 0
  PROVE  \/ phase = "timer" \/ sock[c] = "reset"
         \/ status[c] = "PEERCLOSED" /\ "IN" \in ev
<1> USE ProxyAssumption
<1>1. /\ c \in Conn /\ status'[c] # status[c] /\ c \notin Backends
      /\ status[c] \in {"PEERCLOSED", "CLOSING_WRITE"} /\ status'[c] = "CLOSED"
  BY DEF CutsOff, Conn
<1>2. ASSUME self \in Conn, Fail(self) PROVE self = c
  BY <1>1, <1>2, CutOffIsSignalled DEF Fail
<1>3. ASSUME Network \/ Timer \/ MainLoop PROVE phase = "timer"
  <2>1. ASSUME NEW x \in Clients, Accept(x) PROVE FALSE
    BY <1>1, <2>1 DEF Accept, TypeOK
  <2>2. ASSUME NEW x \in Conn, TimeoutOne(x) PROVE phase = "timer"
    BY <2>2 DEF TimeoutOne
  <2> QED
    BY <1>1, <1>3, <2>1, <2>2
    DEF Network, Timer, MainLoop, Arrive, RemoteEof, RemoteReset, Drain, Connected, TimerFires,
        EvWait, Dispatch, StartJobs, RunJob, SkipJob, Return, EndJobs, connVars
<1>4. ASSUME HandlePeerClose \/ HandleThisClose PROVE FALSE
  BY <1>1, <1>4 DEF HandlePeerClose, HandleThisClose, TypeOK
<1>5. ASSUME HandleErr PROVE sock[c] = "reset"
  BY <1>2, <1>5 DEF HandleErr, Sockets, Errs
<1>6. ASSUME HandlesIn PROVE status[c] = "PEERCLOSED" /\ "IN" \in ev
  <2>1. ReadFails
    BY <1>1, <1>6 DEF HandlesIn, ReadSome, ReadFull
  <2>2. ~(self \in Clients /\ status[self] = "CLOSING_WRITE") /\ Fail(self) /\ self \in Conn /\ "IN" \in ev
    BY <1>1, <2>1 DEF ReadFails, DoesIn
  <2> QED
    BY <1>1, <1>2, <2>2
<1>7. ASSUME HandlesRequest PROVE FALSE
  <2>1. ASSUME ParseFails \/ ConnectFails PROVE FALSE
    <3>1. self \in Conn /\ Fail(self) /\ status[self] = "WORKING"
      BY <2>1 DEF ParseFails, ConnectFails, Parses, Connects, LoopOK, Conn
    <3> QED
      BY <1>1, <1>2, <3>1
  <2>2. ASSUME ParseDenied PROVE FALSE
    BY <1>1, <2>2 DEF ParseDenied, TypeOK
  <2>3. ASSUME NEW ch \in BOOLEAN, ParseHead(ch) PROVE FALSE
    BY <1>1, <2>3 DEF ParseHead
  <2>4. ASSUME NEW b \in Backends, CreatePeerByName(b) \/ \E how \in {"open", "connecting"} : CreatePeer(b, how)
        PROVE  FALSE
    BY <1>1, <2>4 DEF CreatePeerByName, CreatePeer, TypeOK
  <2>5. ASSUME NEW b \in Backends, QueryFails(b) PROVE FALSE
    <3>1. self \in Clients /\ status[self] = "WORKING"
      BY <2>5 DEF QueryFails, Connects, LoopOK
    <3> QED
      BY <1>1, <2>5, <3>1 DEF QueryFails, TypeOK
  <2>6. ASSUME ParseDone \/ UsePeer \/ \E last \in BOOLEAN : ParseBody(last) PROVE FALSE
    <3>1. status' = status
      BY <2>6 DEF ParseDone, UsePeer, ParseBody, connVars
    <3> QED
      BY <1>1, <3>1
  <2> QED
    BY <1>7, <2>1, <2>2, <2>3, <2>4, <2>5, <2>6 DEF HandlesRequest
<1>8. ASSUME BackendForwards \/ BackendForwardFails PROVE FALSE
  BY <1>1, <1>2, <1>8 DEF BackendForwards, BackendForwardFails, Conn
<1>9. ASSUME HandlesOut PROVE FALSE
  <2>1. ASSUME OutRefused PROVE FALSE
    BY <1>1, <1>2, <2>1 DEF OutRefused, DoesOut
  <2>2. ASSUME WriteFails \/ \E k \in 0..(2 * Limit) : WriteSome(k) PROVE FALSE
    <3>1. status' = [status EXCEPT ![self] = StatusAfterOut(self)] /\ self \in Conn
      BY <2>2 DEF WriteFails, WriteSome, DoesOut
    <3> QED
      BY <1>1, <3>1 DEF StatusAfterOut, TypeOK
  <2>3. ASSUME NEW room \in BOOLEAN, WriteLast(room) PROVE FALSE
    <3>1. self = c /\ wbuf' = [wbuf EXCEPT ![self] = 0]
      BY <1>1, <2>3, CutOffIsSignalled DEF WriteLast, AllWritten, DoesOut
    <3> QED
      BY <1>1, <3>1 DEF TypeOK
  <2>4. ASSUME NEW room \in BOOLEAN, WriteAll(room) PROVE FALSE
    BY <1>1, <2>4 DEF WriteAll, StatusAfterOut, TypeOK
  <2>5. ASSUME NEW w \in Conn, Wake(w) PROVE FALSE
    BY <1>1, <2>5 DEF Wake
  <2> QED
    BY <1>9, <2>1, <2>2, <2>3, <2>4, <2>5 DEF HandlesOut
<1>10. ASSUME HandlesDns PROVE FALSE
  <2>1. ASSUME NEW b \in Backends, DnsNotFound(b) PROVE FALSE
    BY <1>1, <2>1, CutOffIsSignalled DEF DnsNotFound, Conn
  <2>2. ASSUME NEW b \in Backends, NEW how, DnsFound(b, how) PROVE FALSE
    BY <1>1, <2>2 DEF DnsFound, TypeOK
  <2>3. ASSUME DnsSend \/ DnsReadDone PROVE FALSE
    BY <1>1, <2>3 DEF DnsSend, DnsReadDone, connVars
  <2> QED
    BY <1>10, <2>1, <2>2, <2>3 DEF HandlesDns
<1> QED
  BY <1>3, <1>4, <1>5, <1>6, <1>7, <1>8, <1>9, <1>10 DEF Next, Handler

\* conn_handle_peerclose: a client whose peer has gone is closed with data
\* unsent only by the timeout, by a reset, or by input that it handles before
\* its PEERCLOSE job.
THEOREM FlushesBeforeClose == Spec => FlushBeforeClose
<1>1. IInv /\ Flow /\ [Next]_vars =>
        [\A c \in Clients :
           status[c] \in {"PEERCLOSED", "CLOSING_WRITE"} /\ status'[c] = "CLOSED" /\ wbuf'[c] > 0
             => \/ phase = "timer" \/ sock[c] = "reset"
                \/ status[c] = "PEERCLOSED" /\ "IN" \in ev]_vars
  BY CutOffStep DEF IInv, Flow, CutsOff
<1> QED
  BY <1>1, FlowAlways, PTL DEF Spec, FlushBeforeClose

-----------------------------------------------------------------------------
(* The CLOSE event of the frontend's connections.                           *)

\* The last job, if it is still to run, closes its connection when that is
\* in S.
LastClosesIn(q, f, S) ==
  ToRun(q, f, Len(q)) /\ q[Len(q)].conn \in S => "CLOSE" \in q[Len(q)].events

LEMMA AddedLastCloses ==
  ASSUME NEW q, NEW evs, NEW x, NEW r, Added(q, evs, x, r), NEW f, NEW S,
         x \notin S \/ "CLOSE" \in evs
  PROVE  LastClosesIn(r, f, S)
  BY DEF Added, LastClosesIn

LEMMA DeletedLastCloses ==
  ASSUME NEW q, NEW c, NEW r, NEW f, StillRuns(q, f, c, r), NEW S, LastClosesIn(q, f, S)
  PROVE  LastClosesIn(r, f, S \cup {c})
<1>1. ToRun(r, f, Len(r)) => ToRun(q, f, Len(q)) /\ q[Len(q)].conn # c /\ Len(r) = Len(q)
                             /\ r[Len(r)].conn = q[Len(q)].conn /\ r[Len(r)].events = q[Len(q)].events
  BY DEF StillRuns, ToRun
<1> QED
  BY <1>1 DEF LastClosesIn

LEMMA LeftLastCloses ==
  ASSUME NEW q, NEW f, NEW r, Left(q, f, r), NEW S, LastClosesIn(q, f, S)
  PROVE  LastClosesIn(r, 1, S)
<1>1. ToRun(r, 1, Len(r)) => ToRun(q, f, Len(q)) /\ r[Len(r)] = q[Len(q)]
  BY DEF Left, ToRun
<1> QED
  BY <1>1 DEF LastClosesIn

\* Connections that have no peer.
Single == {c \in Conn : peer[c] = None}

\* The CLOSE event of c is coming.
Shut(c) == (self = c /\ "CLOSE" \in ev) \/ DueIn(jobs, First, c, "CLOSE")

\* A connection that waits for another one is its peer, or waits in vain.
Pending(w) ==
  waitOn[w] # None =>
    peer[w] = waitOn[w] \/ status[waitOn[w]] \notin {"WORKING", "CONNECTING"}

\* job_addconn merges into the last job of the list, also into the one that
\* runs, whose handler will not see it.  A CLOSE is not lost that way, as a
\* connection without a peer never runs in the last job but to be closed.
Shuts ==
  /\ \A b \in Backends : dns[b] = "none"
  /\ \A w \in Conn : Pending(w)
  /\ LastClosesIn(jobs, First, Single)
  /\ phase = "jobs" /\ self \in Single /\ Len(jobs) = 1 => "CLOSE" \in ev \/ ev = {}
  /\ \A c \in Conn : status[c] = "CLOSED" => Shut(c)

\* A job to read or write is of a connection with a peer.
PairedJobs ==
  \/ jobs' = jobs
  \/ \E x \in Conn, e \in {"IN", "OUT"} : jobs' = AddConn(jobs, {e}, x) /\ peer'[x] # None

\* A step that closes nothing and parts nobody.
Mild ==
  /\ self' = self /\ First' = First
  /\ phase' = "jobs" => phase = "jobs" \/ self = None
  /\ PairedJobs
  /\ "CLOSE" \in ev => "CLOSE" \in ev'
  /\ ev = {} => ev' = {}
  /\ \A b \in Backends : dns'[b] = dns[b]
  /\ \A c \in Conn :
       /\ peer'[c] = peer[c] \/ (peer[c] = None /\ peer'[c] # None)
       /\ status'[c] = "CLOSED" => status[c] = "CLOSED"
       /\ status'[c] \in {"WORKING", "CONNECTING"} => status[c] \in {"WORKING", "CONNECTING", "FREE"}
       /\ waitOn'[c] \in {None, waitOn[c], peer'[c]}

LEMMA MildShuts ==
  ASSUME TypeOK, LoopOK, References, Shuts, Mild
  PROVE  Shuts'
<1> USE ProxyAssumption
<1>1. jobs \in Seq(JobSet) /\ First \in {1, 2} /\ None \notin Conn
  BY FirstIs DEF TypeOK, JobSet, Conn
<1>2. \A b \in Backends : dns'[b] = "none"
  BY DEF Mild, Shuts
<1>3. ASSUME NEW w \in Conn PROVE Pending(w)'
  <2> SUFFICES ASSUME waitOn'[w] # None, peer'[w] # waitOn'[w]
               PROVE  status'[waitOn'[w]] \notin {"WORKING", "CONNECTING"}
    BY DEF Pending
  <2>1. PICK x \in Conn : x = waitOn[w] /\ waitOn'[w] = x
    BY DEF Mild, TypeOK
  <2>2. Live(x) /\ (peer[w] = x \/ status[x] \notin {"WORKING", "CONNECTING"})
    BY <1>1, <2>1 DEF References, Shuts, Pending
  <2>3. peer[w] # x
    BY <1>1, <2>1 DEF Mild
  <2> QED
    BY <2>1, <2>2, <2>3 DEF Mild, Live
<1>4. Single' \subseteq Single
  BY DEF Mild, Single
<1>5. ASSUME jobs' # jobs
      PROVE  \E x, e : Added(jobs, {e}, x, jobs') /\ x \notin Single'
  <2>1. PICK x \in Conn, e \in {"IN", "OUT"} : jobs' = AddConn(jobs, {e}, x) /\ peer'[x] # None
    BY <1>5 DEF Mild, PairedJobs
  <2>2. Added(jobs, {e}, x, jobs')
    BY <1>1, <2>1, AddConnAdds DEF JobEvent
  <2> QED
    BY <2>1, <2>2 DEF Single
<1>6. LastClosesIn(jobs', First', Single')
  <2>1. CASE jobs' = jobs
    BY <1>4, <2>1 DEF Shuts, Mild, LastClosesIn
  <2>2. CASE jobs' # jobs
    <3>1. PICK x, e : Added(jobs, {e}, x, jobs') /\ x \notin Single'
      BY <1>5, <2>2
    <3> QED
      BY <3>1, AddedLastCloses
  <2> QED
    BY <2>1, <2>2
<1>7. ASSUME NEW c \in Conn, DueIn(jobs, First, c, "CLOSE")
      PROVE  DueIn(jobs', First', c, "CLOSE")
  <2>1. First' = First
    BY DEF Mild
  <2>2. CASE jobs' = jobs
    BY <1>7, <2>1, <2>2
  <2>3. CASE jobs' # jobs
    <3>1. PICK x, e : Added(jobs, {e}, x, jobs')
      BY <1>5, <2>3
    <3>2. DueIn(jobs', First, c, "CLOSE")
      BY <1>1, <1>7, <3>1, AddedKeepsDue
    <3> QED
      BY <2>1, <3>2
  <2> QED
    BY <2>2, <2>3
<1>8. \A c \in Conn : status'[c] = "CLOSED" => Shut(c)'
  BY <1>7 DEF Shuts, Shut, Mild
<1>9. ASSUME phase' = "jobs", self' \in Single', Len(jobs') = 1
      PROVE  "CLOSE" \in ev' \/ ev' = {}
  <2>1. phase = "jobs" /\ self \in Single /\ self # None
    BY <1>1, <1>4, <1>9 DEF Mild, Single
  <2>2. Len(jobs) > 0
    BY <1>1, <2>1 DEF LoopOK
  <2>3. Len(jobs) = 1
    <3>1. CASE jobs' = jobs
      BY <1>9, <3>1
    <3>2. CASE jobs' # jobs
      <4>1. PICK x, e : Added(jobs, {e}, x, jobs')
        BY <1>5, <3>2
      <4>2. Len(jobs) \in Nat /\ Len(jobs') \in {Len(jobs), Len(jobs) + 1}
        BY <4>1 DEF Added
      <4> QED
        BY <1>9, <2>2, <4>2
    <3> QED
      BY <3>1, <3>2
  <2> QED
    BY <2>1, <2>3 DEF Shuts, Mild
<1> QED
  BY <1>2, <1>3, <1>6, <1>8, <1>9 DEF Shuts

LEMMA NotOne ==
  ASSUME NEW n \in Nat, n > 0, n # 1
  PROVE  n >= 2
  OBVIOUS

\* The running connection is signalled, or the timer signals one.
LEMMA SignalShuts ==
  ASSUME TypeOK, LoopOK, Linked, Shuts, NEW c \in Conn, Signals(c),
         UNCHANGED waitOn, UNCHANGED dns
  PROVE  Shuts'
<1> USE ProxyAssumption
<1> DEFINE p == peer[c]
           f == First
<1>1. PICK s \in Seq(JobSet) :
        /\ IF p = None THEN s = jobs ELSE Added(jobs, {"PEERCLOSE"}, p, s)
        /\ Added(s, {"CLOSE"}, c, jobs')
  BY SignalAdds DEF Signals
<1>2. /\ jobs \in Seq(JobSet) /\ p \in Conn \cup {None} /\ p # c /\ None \notin Conn
  BY DEF TypeOK, JobSet, Linked, Links, Conn
<1>3. First' = f /\ f \in {1, 2}
  BY DEF First, Signals
<1>4. /\ \A x \in Conn : status'[x] = IF x = p THEN "PEERCLOSED" ELSE IF x = c THEN "CLOSED" ELSE status[x]
      /\ \A x \in Conn : peer'[x] = IF x = p THEN None ELSE peer[x]
  BY DEF Signals, SignalThisClose
<1>5. LastClosesIn(jobs', First', Single')
  BY <1>1, AddedLastCloses
<1>6. ASSUME NEW w \in Conn PROVE Pending(w)'
  <2> SUFFICES ASSUME waitOn[w] # None, peer'[w] # waitOn[w]
               PROVE  status'[waitOn[w]] \notin {"WORKING", "CONNECTING"}
    BY DEF Pending
  <2>1. PICK x \in Conn : x = waitOn[w]
    BY DEF TypeOK
  <2>2. CASE status[x] \notin {"WORKING", "CONNECTING"}
    BY <1>4, <2>1, <2>2
  <2>3. CASE peer[w] = x
    <3>1. w = p
      BY <1>4, <2>1, <2>3
    <3>2. ~ClosesAfter(c, p)
      BY <1>2, <2>3, <3>1 DEF ClosesAfter
    <3>3. Mutual(c)
      BY <1>2, <3>1, <3>2, SignalledLink DEF Linked
    <3>4. x = c
      BY <2>3, <3>1, <3>3 DEF Mutual
    <3> QED
      BY <1>2, <1>4, <2>1, <3>4
  <2> QED
    BY <2>1, <2>2, <2>3 DEF Shuts, Pending
<1>7. DueIn(jobs', f, c, "CLOSE")
  <2>1. Len(jobs') >= f
    <3>1. Len(jobs') \in Nat /\ Len(jobs') > 0 /\ Len(s) \in Nat /\ Len(jobs') >= Len(s)
      BY <1>1 DEF Added
    <3>2. CASE f = 1
      BY <3>1, <3>2
    <3>3. CASE f # 1
      <4>1. f = 2 /\ phase = "jobs" /\ self = c /\ ev # {} /\ "CLOSE" \notin ev
            /\ jobs # <<>> /\ jobs[1].conn = c
        BY <3>3 DEF First, Signals, LoopOK, Closing
      <4>2. Len(jobs) \in Nat /\ Len(jobs) > 0
        BY <1>2, <4>1
      <4>3. ASSUME p = None PROVE Len(s) >= 2
        <5>1. self \in Single
          BY <4>1, <4>3 DEF Single
        <5>2. Len(jobs) # 1
          BY <4>1, <5>1 DEF Shuts
        <5>3. s = jobs
          BY <1>1, <4>3
        <5>4. Len(jobs) >= 2
          BY <4>2, <5>2, NotOne
        <5> QED
          BY ONLY <5>3, <5>4
      <4>4. ASSUME p # None PROVE Len(s) >= 2
        <5>1. Added(jobs, {"PEERCLOSE"}, p, s)
          BY <1>1, <4>4
        <5>2. Len(s) # 1
          BY <1>2, <4>1, <4>2, <5>1 DEF Added
        <5>3. Len(s) >= Len(jobs)
          BY <5>1 DEF Added
        <5>4. Len(s) > 0 /\ Len(s) \in Nat
          BY ONLY <3>1, <4>2, <5>3
        <5> QED
          BY <5>2, <5>4, NotOne
      <4>5. Len(s) >= 2
        BY <4>3, <4>4
      <4> QED
        BY <3>1, <4>1, <4>5
    <3> QED
      BY <3>2, <3>3
  <2>2. ToRun(jobs', f, Len(jobs'))
    BY <1>1, <2>1 DEF Added, ToRun
  <2> QED
    BY <1>1, <2>2 DEF Added, DueIn, ToRun
<1>8. ASSUME NEW x \in Conn, status'[x] = "CLOSED" PROVE Shut(x)'
  <2>1. CASE x = c
    BY <1>3, <1>7, <2>1 DEF Shut
  <2>2. CASE x # c
    <3>1. status[x] = "CLOSED"
      BY <1>4, <1>8, <2>2
    <3>2. ~(self = x /\ "CLOSE" \in ev)
      BY <2>2 DEF Signals
    <3>3. DueIn(jobs, First, x, "CLOSE")
      BY <3>1, <3>2 DEF Shuts, Shut
    <3>4. Kept
      BY SignalJobsDo DEF SignalDoes
    <3>5. "CLOSE" \in Ends
      BY DEF Ends
    <3>6. DueIn(jobs', First', x, "CLOSE")
      BY <3>3, <3>4, <3>5 DEF Kept
    <3> QED
      BY <3>6 DEF Shut
  <2> QED
    BY <2>1, <2>2
<1>9. self' \in Conn => ev' = {}
  BY DEF Signals
<1>10. \A b \in Backends : dns'[b] = "none"
  BY DEF Shuts
<1> QED
  BY <1>5, <1>6, <1>8, <1>9, <1>10 DEF Shuts, Single

\* The running connection is freed: its jobs go, and who waited for it is let
\* go.
LEMMA FreeShuts ==
  ASSUME TypeOK, LoopOK, Shuts, HandleThisClose
  PROVE  Shuts'
<1> USE ProxyAssumption
<1>1. /\ self \in Conn /\ self' = self /\ phase' = phase /\ ev' = {} /\ First' = First
      /\ None \notin Conn
  BY DEF HandleThisClose, First, Conn
<1>2. /\ \A x \in Conn : status'[x] = IF x = self THEN "FREE" ELSE status[x]
      /\ \A x \in Conn : peer'[x] = IF x = self THEN None ELSE peer[x]
      /\ \A x \in Conn : waitOn'[x] = IF x = self \/ waitOn[x] = self THEN None ELSE waitOn[x]
      /\ \A b \in Backends : dns'[b] \in {"none", dns[b]}
  BY DEF HandleThisClose, TypeOK
<1>3. StillRuns(jobs, First, self, jobs')
  <2>1. jobs \in Seq(JobSet)
    BY DEF TypeOK, JobSet
  <2>2. Deleted(jobs, self, jobs')
    BY <2>1, DelConnDeletes DEF HandleThisClose
  <2> QED
    BY <2>1, <2>2, FirstIs, DeletedRuns
<1>4. LastClosesIn(jobs', First', Single')
  <2>1. Single' \subseteq Single \cup {self}
    BY <1>2 DEF Single
  <2>2. LastClosesIn(jobs', First, Single \cup {self})
    BY <1>3, DeletedLastCloses DEF Shuts
  <2> QED
    BY <1>1, <2>1, <2>2 DEF LastClosesIn
<1>5. ASSUME NEW w \in Conn PROVE Pending(w)'
  <2> SUFFICES ASSUME waitOn'[w] # None, peer'[w] # waitOn'[w]
               PROVE  status'[waitOn'[w]] \notin {"WORKING", "CONNECTING"}
    BY DEF Pending
  <2>1. PICK x \in Conn : x = waitOn[w] /\ waitOn'[w] = x /\ w # self /\ x # self
    BY <1>2 DEF TypeOK
  <2>2. peer[w] # x
    BY <1>2, <2>1
  <2> QED
    BY <1>1, <1>2, <2>1, <2>2 DEF Shuts, Pending
<1>6. ASSUME NEW x \in Conn, status'[x] = "CLOSED" PROVE Shut(x)'
  <2>1. x # self /\ status[x] = "CLOSED"
    BY <1>2, <1>6
  <2>2. DueIn(jobs, First, x, "CLOSE")
    BY <2>1 DEF Shuts, Shut
  <2>3. DueIn(jobs', First, x, "CLOSE")
    BY <1>3, <2>1, <2>2, DeletedKeepsDue
  <2> QED
    BY <1>1, <2>3 DEF Shut
<1>7. \A b \in Backends : dns'[b] = "none"
  BY <1>2 DEF Shuts
<1> QED
  BY <1>1, <1>4, <1>5, <1>6, <1>7 DEF Shuts

\* The loop takes a job.
LEMMA TakeShuts ==
  ASSUME TypeOK, LoopOK, Shuts, RunJob
  PROVE  Shuts'
<1> USE ProxyAssumption
<1>1. /\ jobs \in Seq(JobSet) /\ jobs # <<>> /\ ~jobs[1].deld
      /\ self = None /\ phase = "jobs" /\ First = 1
      /\ self' = jobs[1].conn /\ ev' = jobs[1].events
      /\ UNCHANGED <<jobs, phase, status, peer, waitOn, dns>>
  BY DEF RunJob, TypeOK, JobSet, LoopOK, First, connVars
<1>2. self' # None /\ First' = 2 /\ Single' = Single
  <2>1. jobs[1] \in JobSet
    BY <1>1
  <2> QED
    BY <1>1, <2>1 DEF JobSet, Job, First, Conn, Single
<1>3. LastClosesIn(jobs', First', Single')
  BY <1>1, <1>2 DEF Shuts, LastClosesIn, ToRun
<1>4. ASSUME self' \in Single', Len(jobs') = 1 PROVE "CLOSE" \in ev'
  BY <1>1, <1>2, <1>4 DEF Shuts, LastClosesIn, ToRun
<1>5. ASSUME NEW x \in Conn, status'[x] = "CLOSED" PROVE Shut(x)'
  <2>1. DueIn(jobs, 1, x, "CLOSE")
    BY <1>1, <1>5 DEF Shuts, Shut, Conn
  <2> QED
    BY <1>1, <1>2, <2>1, TakenDue DEF Shut
<1>6. \A w \in Conn : Pending(w)'
  BY <1>1 DEF Shuts, Pending
<1> QED
  BY <1>1, <1>3, <1>4, <1>5, <1>6 DEF Shuts

\* epoll's event starts a handler.
LEMMA DispatchShuts ==
  ASSUME TypeOK, LoopOK, Shuts, NEW d \in Conn \cup {Dns}, Dispatch(d)
  PROVE  Shuts'
<1> USE ProxyAssumption
<1>1. /\ phase = "events" /\ self = None /\ First = 1 /\ First' = 1
      /\ UNCHANGED <<jobs, phase, status, peer, waitOn, dns>>
      /\ Single' = Single /\ None \notin Conn
  BY DEF Dispatch, First, connVars, Conn, Single
<1>2. ASSUME NEW x \in Conn, status'[x] = "CLOSED" PROVE Shut(x)'
  BY <1>1, <1>2 DEF Shuts, Shut
<1>3. \A w \in Conn : Pending(w)'
  BY <1>1 DEF Shuts, Pending
<1>4. LastClosesIn(jobs', First', Single')
  BY <1>1 DEF Shuts
<1> QED
  BY <1>1, <1>2, <1>3, <1>4 DEF Shuts

\* A handler returns.
LEMMA LeavesShuts ==
  ASSUME TypeOK, LoopOK, Shuts, Leaves, UNCHANGED waitOn, UNCHANGED dns
  PROVE  Shuts'
<1> USE ProxyAssumption
<1>1. /\ UNCHANGED <<status, peer, waitOn, dns, phase>> /\ self' = None /\ ev = {} /\ First' = 1
      /\ Single' = Single /\ None \notin Conn
  BY DEF Leaves, First, Conn, Single
<1>2. /\ LastClosesIn(jobs', 1, Single)
      /\ \A x \in Conn : DueIn(jobs, First, x, "CLOSE") => DueIn(jobs', 1, x, "CLOSE")
  <2>1. CASE phase = "jobs"
    BY <2>1, LeftLastCloses, LeftDue DEF Leaves, Shuts
  <2>2. CASE phase # "jobs"
    BY <2>2 DEF Leaves, First, Shuts
  <2> QED
    BY <2>1, <2>2
<1>3. ASSUME NEW x \in Conn, status'[x] = "CLOSED" PROVE Shut(x)'
  BY <1>1, <1>2, <1>3 DEF Shuts, Shut
<1>4. \A w \in Conn : Pending(w)'
  BY <1>1 DEF Shuts, Pending
<1>5. self' \notin Single'
  BY <1>1 DEF Single
<1> QED
  BY <1>1, <1>2, <1>3, <1>4, <1>5 DEF Shuts

\* The error exit of a handler.
LEMMA FailShuts ==
  ASSUME TypeOK, LoopOK, Linked, Shuts, self \in Conn, ~Closing, ev # {}, Fail(self), UNCHANGED waitOn
  PROVE  Shuts'
<1>1. Signals(self)
  BY FailSignals DEF Fail, Linked
<1>2. UNCHANGED dns
  BY DEF Fail
<1> QED
  BY <1>1, <1>2, SignalShuts

\* The network, the timer's choice and the loop.
LEMMA OuterShuts ==
  ASSUME TypeOK, LoopOK, References, Linked, Shuts, Network \/ Timer \/ MainLoop
  PROVE  Shuts'
<1> USE ProxyAssumption
<1>1. ASSUME NEW c \in Clients, Accept(c) PROVE Mild
  <2>1. /\ UNCHANGED <<self, phase, jobs, ev, dns, peer, waitOn>> /\ First' = First
        /\ \A x \in Conn : status'[x] = IF x = c THEN "WORKING" ELSE status[x]
        /\ status[c] = "FREE"
    BY <1>1 DEF Accept, loopVars, First, TypeOK, Conn, Live
  <2> QED
    BY <2>1 DEF Mild, PairedJobs
<1>2. ASSUME UNCHANGED <<connVars, loopVars, ghosts>> PROVE Mild
  BY <1>2 DEF connVars, loopVars, Mild, PairedJobs, First
<1>3. Network => Mild
  BY <1>1, <1>2 DEF Network, Arrive, RemoteEof, RemoteReset, Drain, Connected
<1>4. ASSUME NEW S, TimerFires(S) PROVE Mild
  BY <1>4 DEF TimerFires, Quiet, connVars, Mild, PairedJobs, First
<1>5. ASSUME StartJobs \/ EndJobs \/ \E r \in BOOLEAN : EvWait(r) PROVE Mild
  BY <1>5 DEF StartJobs, EndJobs, EvWait, connVars, Mild, PairedJobs, First
<1>6. ASSUME NEW c \in Conn, TimeoutOne(c) PROVE Shuts'
  <2>1. self = None /\ ev = {} /\ phase = "timer" /\ None \notin Conn
    BY <1>6 DEF TimeoutOne, LoopOK, Conn
  <2>2. Live(c)
    BY <1>6 DEF TimeoutOne, References
  <2>3. SignalThisClose(c) /\ UNCHANGED <<self, phase, owner, ev, waitOn, dns>> /\ batch' = [batch EXCEPT ![c] = {}]
    BY <1>6 DEF TimeoutOne, ghosts
  <2>4. Signals(c)
    BY <2>1, <2>2, <2>3 DEF Signals, Closing
  <2> QED
    BY <2>3, <2>4, SignalShuts
<1>7. ASSUME SkipJob \/ Return PROVE Shuts'
  <2>1. UNCHANGED waitOn /\ UNCHANGED dns
    BY <1>7 DEF SkipJob, Return, connVars
  <2> QED
    BY <1>7, <2>1, ReturnLeaves, LeavesShuts
<1> QED
  BY <1>3, <1>4, <1>5, <1>6, <1>7, MildShuts, TakeShuts, DispatchShuts DEF Timer, MainLoop

\* FDEVENT_IN.
LEMMA InShuts ==
  ASSUME TypeOK, LoopOK, References, Linked, Shuts, HandlesIn
  PROVE  Shuts'
<1> USE ProxyAssumption
<1>1. self \in Conn /\ ~Closing /\ ev # {} /\ "CLOSE" \notin ev
  BY DEF HandlesIn, ReadSome, ReadFull, ReadFails, DoesIn, Closing
<1>2. ASSUME ReadSome PROVE Mild
  BY <1>1, <1>2 DEF ReadSome, Mild, PairedJobs, First
<1>3. ASSUME ReadFull PROVE Mild
  <2>1. \A x \in Conn : waitOn'[x] \in {waitOn[x], peer[x]}
    BY <1>1, <1>3 DEF ReadFull, TypeOK
  <2> QED
    BY <1>1, <1>3, <2>1 DEF ReadFull, Mild, PairedJobs, First
<1>4. ASSUME ReadFails, ~Fail(self) PROVE Mild
  BY <1>1, <1>4 DEF ReadFails, Mild, PairedJobs, First
<1>5. ASSUME ReadFails, Fail(self) PROVE Shuts'
  BY <1>1, <1>5, FailShuts DEF ReadFails
<1> QED
  BY <1>2, <1>3, <1>4, <1>5, MildShuts DEF HandlesIn

\* A request.
LEMMA RequestShuts ==
  ASSUME TypeOK, LoopOK, References, Linked, Shuts, Frontend, HandlesRequest
  PROVE  Shuts'
<1> USE ProxyAssumption
<1>1. /\ self \in Clients /\ self \in Conn /\ ~Closing /\ ev # {} /\ "CLOSE" \notin ev
      /\ status[self] = "WORKING"
  <2>1. self \in Clients /\ ev \cap {"PARSE", "CONNECT"} # {}
    BY DEF HandlesRequest, ParseFails, ParseDenied, ParseDone, UsePeer, ConnectFails, ParseHead,
           ParseBody, CreatePeerByName, QueryFails, CreatePeer, Parses, Connects
  <2> QED
    BY <2>1 DEF LoopOK, Closing, Conn
<1>2. ASSUME ParseFails \/ ConnectFails PROVE Shuts'
  BY <1>1, <1>2, FailShuts DEF ParseFails, ConnectFails
<1>3. ASSUME ParseDenied PROVE Mild
  <2>1. \A x \in Conn : status'[x] = IF x = self THEN "CLOSING_WRITE" ELSE status[x]
    BY <1>1, <1>3 DEF ParseDenied, TypeOK
  <2> QED
    BY <1>1, <1>3, <2>1 DEF ParseDenied, Mild, PairedJobs, First
<1>4. ASSUME NEW changed \in BOOLEAN, ParseHead(changed) PROVE Mild
  <2>1. /\ \A x \in Conn : status'[x] = status[x] /\ peer'[x] = peer[x]
        /\ jobs' = jobs
    BY <1>4 DEF ParseHead
  <2> QED
    BY <1>1, <1>4, <2>1 DEF ParseHead, Mild, PairedJobs, First
<1>5. ASSUME ParseDone \/ UsePeer PROVE Mild
  BY <1>1, <1>5 DEF ParseDone, UsePeer, connVars, Mild, PairedJobs, First
<1>6. ASSUME NEW last \in BOOLEAN, ParseBody(last) PROVE Mild
  <2>1. PICK p \in Conn : p = peer[self] /\ peer[p] # None
    <3>1. peer[self] # None /\ peer[self] \in Conn
      BY <1>1, <1>6 DEF ParseBody, TypeOK
    <3>2. Mutual(self) /\ None \notin Conn
      BY <1>1, <3>1, WorkingLink DEF Conn
    <3> QED
      BY <1>1, <3>1, <3>2 DEF Mutual
  <2>2. UNCHANGED <<status, peer, waitOn, dns, phase, self, ev>>
    BY <1>6 DEF ParseBody
  <2>3. jobs' = jobs \/ jobs' = AddConn(jobs, {"OUT"}, p)
    BY <1>6, <2>1 DEF ParseBody
  <2>4. PairedJobs
    BY <2>1, <2>2, <2>3 DEF PairedJobs
  <2> QED
    BY <2>2, <2>4 DEF Mild, First
<1>7. ASSUME NEW b \in Backends, NEW how \in {"open", "connecting"}, CreatePeer(b, how) PROVE Mild
  <2>1. /\ peer[self] = None /\ b # self /\ status[b] = "FREE" /\ peer[b] = None /\ self # None
    <3>1. peer[self] = None /\ ~Live(b) /\ b # self /\ b \in Conn
      BY <1>1, <1>7 DEF CreatePeer, Conn
    <3> QED
      BY <1>1, <3>1 DEF Live, Linked, Alive, Conn
  <2>2. /\ \A x \in Conn : peer'[x] = IF x = self THEN b ELSE IF x = b THEN self ELSE peer[x]
        /\ \A x \in Conn : x # b => status'[x] = status[x]
        /\ status'[b] # "CLOSED" /\ b # None
    BY <1>1, <1>7, <2>1 DEF CreatePeer, ConnectStatus, TypeOK, Conn
  <2>3. UNCHANGED <<jobs, phase, self, waitOn, dns>> /\ "CLOSE" \notin ev /\ ev # {}
    BY <1>1, <1>7 DEF CreatePeer
  <2> QED
    BY <2>1, <2>2, <2>3 DEF Mild, PairedJobs, First
<1>8. ASSUME NEW b \in Backends, CreatePeerByName(b) \/ QueryFails(b) PROVE FALSE
  BY <1>8 DEF CreatePeerByName, QueryFails
<1> QED
  BY <1>2, <1>3, <1>4, <1>5, <1>6, <1>7, <1>8, MildShuts DEF HandlesRequest

\* What a backend read goes to its client.
LEMMA BackendShuts ==
  ASSUME TypeOK, LoopOK, References, Linked, Shuts, BackendForwards \/ BackendForwardFails
  PROVE  Shuts'
<1> USE ProxyAssumption
<1>1. self \in Conn /\ ~Closing /\ ev # {} /\ "CLOSE" \notin ev
  <2>1. self \in Conn /\ "PARSE" \in ev
    BY DEF BackendForwards, BackendForwardFails, Conn
  <2> QED
    BY <2>1 DEF LoopOK, Closing
<1>2. ASSUME BackendForwardFails PROVE Shuts'
  BY <1>1, <1>2, FailShuts DEF BackendForwardFails
<1>3. ASSUME BackendForwards PROVE Mild
  <2>1. PICK p \in Conn : p = peer[self] /\ p # None /\ status[p] = "WORKING"
    BY <1>1, <1>3 DEF BackendForwards, TypeOK
  <2>2. peer[p] # None
    <3> SUFFICES ASSUME peer[p] = None PROVE FALSE
      OBVIOUS
    <3>1. Cut(self) /\ p \in Clients
      BY <1>1, <1>3, <2>1 DEF Cut, BackendForwards, Linked, Links, Conn
    <3>2. Doomed(self)
      BY <1>1, <3>1 DEF Linked, Links
    <3> QED
      BY <1>1, <2>1, <3>1, <3>2 DEF Doomed, ClosesNow, ClosesNext, ClosesAfter
  <2>3. UNCHANGED <<status, peer, waitOn, dns, phase, self>> /\ ev # {} /\ "CLOSE" \notin ev
    BY <1>1, <1>3 DEF BackendForwards
  <2>4. jobs' = jobs \/ jobs' = AddConn(jobs, {"OUT"}, p)
    BY <1>3, <2>1 DEF BackendForwards
  <2>5. PairedJobs
    BY <2>2, <2>3, <2>4 DEF PairedJobs
  <2> QED
    BY <2>3, <2>5 DEF Mild, First
<1> QED
  BY <1>2, <1>3, MildShuts

\* FDEVENT_OUT and waitconn_wake.
LEMMA OutShuts ==
  ASSUME TypeOK, LoopOK, References, Linked, Sockets, Shuts, HandlesOut
  PROVE  Shuts'
<1> USE ProxyAssumption
<1>1. self \in Conn /\ ~Closing /\ ev # {} /\ "CLOSE" \notin ev
  <2>1. CASE DoesOut
    BY <2>1 DEF DoesOut, Closing
  <2>2. ASSUME NEW w \in Conn, Wake(w) PROVE self \in Conn /\ ~Closing /\ ev # {} /\ "CLOSE" \notin ev
    BY <2>2 DEF Wake, LoopOK, Sockets, Closing
  <2> QED
    BY <2>1, <2>2 DEF HandlesOut, OutRefused, WriteFails, WriteSome, WriteLast, WriteAll, AllWritten
<1>2. ASSUME OutRefused, Fail(self) PROVE Shuts'
  BY <1>1, <1>2, FailShuts DEF OutRefused
<1>3. ASSUME OutRefused, ~Fail(self) PROVE Mild
  BY <1>1, <1>3 DEF OutRefused, Mild, PairedJobs, First
<1>4. ASSUME UNCHANGED <<peer, waitOn, dns, jobs, phase, self>>,
             status' = [status EXCEPT ![self] = StatusAfterOut(self)]
      PROVE  Mild
  <2>1. \A x \in Conn : \/ status'[x] = status[x]
                        \/ status[x] = "CONNECTING" /\ status'[x] = "WORKING"
    BY <1>1, <1>4 DEF StatusAfterOut, TypeOK
  <2> QED
    BY <1>1, <1>4, <2>1 DEF Mild, PairedJobs, First
<1>5. ASSUME NEW room \in BOOLEAN, WriteLast(room) PROVE Shuts'
  <2>1. SignalThisClose(self) /\ ev' = {} /\ UNCHANGED <<phase, batch, self, owner, waitOn, dns>>
    BY <1>5 DEF WriteLast, AllWritten, ghosts
  <2>2. Signals(self)
    BY <1>1, <2>1, FailSignals DEF Linked
  <2> QED
    BY <1>1, <2>1, <2>2, SignalShuts
<1>6. ASSUME NEW w \in Conn, Wake(w) PROVE Mild
  <2>1. waitOn[w] = self /\ status[self] = "WORKING" /\ self # None
    BY <1>1, <1>6 DEF Wake, Sockets, Conn
  <2>2. peer[w] # None
    BY <2>1 DEF Shuts, Pending
  <2>3. UNCHANGED <<status, peer, dns, phase, self>> /\ jobs' = AddConn(jobs, {"IN"}, w)
        /\ \A x \in Conn : waitOn'[x] \in {None, waitOn[x]}
    BY <1>6 DEF Wake, TypeOK
  <2>4. PairedJobs
    BY <2>2, <2>3 DEF PairedJobs
  <2> QED
    BY <1>1, <2>3, <2>4 DEF Mild, First
<1>7. ASSUME WriteFails \/ \E k \in 0..(2 * Limit) : WriteSome(k) PROVE Mild
  BY <1>4, <1>7 DEF WriteFails, WriteSome
<1>8. ASSUME NEW room \in BOOLEAN, WriteAll(room) PROVE Mild
  BY <1>4, <1>8 DEF WriteAll, AllWritten
<1> QED
  BY <1>2, <1>3, <1>5, <1>6, <1>7, <1>8, MildShuts DEF HandlesOut

\* The frontend asks no name: no answer wakes a backend.
LEMMA DnsShuts ==
  ASSUME TypeOK, LoopOK, References, Linked, Shuts, HandlesDns
  PROVE  Shuts'
<1>1. \A b \in Backends : dns[b] = "none"
  BY DEF Shuts
<1>2. DnsSend \/ DnsReadDone
  BY <1>1 DEF HandlesDns, DnsNotFound, DnsFound
<1>3. self = Dns /\ "CLOSE" \notin ev /\ ev # {} /\ \A b \in Backends : dns'[b] = dns[b]
  BY <1>1, <1>2 DEF DnsSend, DnsReadDone, LoopOK, connVars
<1> QED
  BY <1>2, <1>3, MildShuts DEF DnsSend, DnsReadDone, connVars, Mild, PairedJobs, First

LEMMA ShutsStep ==
  ASSUME IInv, Flow, Shuts, Frontend, [Next]_vars
  PROVE  Shuts'
<1>1. TypeOK /\ LoopOK /\ References /\ Linked /\ Sockets
  BY DEF IInv, Flow
<1>2. ASSUME HandlePeerClose PROVE Mild
  <2>1. \A x \in Conn : status'[x] = status[x] \/ status'[x] = "CLOSING_WRITE"
    BY <1>1, <1>2 DEF HandlePeerClose, TypeOK
  <2>2. UNCHANGED <<peer, waitOn, dns, jobs, phase, self>> /\ ev # {}
        /\ ("CLOSE" \in ev => "CLOSE" \in ev')
    BY <1>2 DEF HandlePeerClose
  <2> QED
    BY <2>1, <2>2 DEF Mild, PairedJobs, First
<1>3. ASSUME HandleErr PROVE Shuts'
  <2>1. self \in Conn /\ ~Closing /\ ev # {} /\ Fail(self) /\ UNCHANGED waitOn
    BY <1>3 DEF HandleErr
  <2> QED
    BY <1>1, <2>1, FailShuts
<1>4. ASSUME UNCHANGED vars PROVE Mild
  BY <1>4 DEF vars, connVars, loopVars, Mild, PairedJobs, First
<1> QED
  BY <1>1, <1>2, <1>3, <1>4, MildShuts, OuterShuts, InShuts, RequestShuts, BackendShuts, OutShuts,
     DnsShuts, FreeShuts DEF Next, Handler

LEMMA ShutsInit == Init => Shuts
  BY ProxyAssumption DEF Init, Shuts, Pending, LastClosesIn, ToRun, Conn

\* In the frontend a connection that was signalled to close gets its CLOSE
\* event: job_addconn never merges it into the job whose handler is running,
\* where it would be lost (as it is in the backend program).
THEOREM FrontendCloseIsDue == Frontend => (Spec => []CloseIsDue)
<1> SUFFICES ASSUME Frontend PROVE Spec => []CloseIsDue
  OBVIOUS
<1>1. IInv /\ Shuts => CloseIsDue
  <2> SUFFICES ASSUME IInv, Shuts, NEW c \in Conn, status[c] = "CLOSED" PROVE Due(c, "CLOSE")
    BY DEF CloseIsDue
  <2>1. Shut(c) /\ TypeOK
    BY DEF Shuts, IInv
  <2> QED
    BY <2>1, DueInIsDue DEF Shut, Due, Ends
<1>2. Init => Shuts
  BY ShutsInit
<1>3. (IInv /\ Flow /\ Shuts) /\ [Next]_vars => Shuts'
  BY ShutsStep
<1> QED
  BY <1>1, <1>2, <1>3, FlowAlways, PTL DEF Spec
=============================================================================
