------------------------------- MODULE Names --------------------------------
(***************************************************************************)
(* How the backend program finds the address of a host: peer_create asks    *)
(* the cache, or sends a query over dns_conn to the DNS program and leaves  *)
(* the new backend connection waiting, indexed by the query's key           *)
(* (dns_parse.c); the answer wakes it.  The DNS program may go away at any  *)
(* time, the timer connects to it again (conn_dns.c, timehandle.c).         *)
(*                                                                          *)
(* A handler runs to its end before anything else: while rbuf has words the *)
(* handler of dns_conn is in its parsing loop.  The loop and its jobs are   *)
(* those of server.c and job.c; clients are only what their handlers do     *)
(* here, and the jobs of other connections are not listed.                  *)
(***************************************************************************)
EXTENDS DnsCache, Jobs

CONSTANTS Conn,        \* addresses of backend connections
          Dns,         \* dns_conn
          NoName,      \* context is NULL
          Answers,     \* addresses the DNS program may give for a name
          KeyMax,      \* the last query key before it wraps to 1
          ConnTimeout, \* connection_timeout, seconds
          MaxFlight,   \* bound: queries and answers under way
          MaxJobs      \* bound: length of the job list

Key == 1..KeyMax

ASSUME NamesAssumption ==
  /\ Dns \notin Conn
  /\ NoName \notin Name
  /\ KeyMax \in Nat \ {0}
  /\ Key \cap Addr = {} /\ Unknown \notin Key
  /\ Answers \in [Name -> SUBSET Addr]
  /\ ConnTimeout \in Nat

VARIABLES
  status, key, host, ip, idle, \* a backend connection: status, rbnode->key (0
                               \* for NULL), context->name, the address it
                               \* connects to, seconds it has waited
  nextKey,                     \* dns_query_key
  link, wbuf, rbuf,            \* dns_conn: status ("null": the pointer is
                               \* NULL), queries to write, words to parse
  tmp,                         \* dns_ctx: the first word of a split answer
  sock, asked, net,            \* the DNS program: its end of the socket, the
                               \* queries it has, words on their way to us
  jobs, phase,                 \* job_head from the current job on; the loop
  fate,                        \* how the process is: a wrong access ends it,
                               \* and half an answer left in dns_ctx makes
                               \* it misread every answer from then on
  want                         \* ghost: the name a connection asked for

connVars == <<status, key, host, ip, idle, nextKey, want>>
linkVars == <<link, wbuf, rbuf, tmp>>
netVars == <<sock, asked, net>>
loopVars == <<jobs, phase, fate>>
vars == <<cacheVars, connVars, linkVars, netVars, loopVars>>

Query == [key : Key, name : Name]
Word == Key \cup Addr \cup {Unknown}          \* half an answer

NamesTypeOK ==
  /\ CacheTypeOK
  /\ status \in [Conn -> {"FREE", "INIT", "CONNECT", "CLOSED"}]
  /\ key \in [Conn -> Key \cup {0}]
  /\ host \in [Conn -> Name \cup {NoName}]
  /\ want \in [Conn -> Name \cup {NoName}]
  /\ ip \in [Conn -> Addr \cup {Unknown}]
  /\ idle \in [Conn -> 0..ConnTimeout]
  /\ nextKey \in Key
  /\ link \in {"null", "WORKING", "CLOSED"}
  /\ wbuf \in Seq(Query)
  /\ rbuf \in Seq(Word) /\ net \in Seq(Word) /\ tmp \in Seq(Word)
  /\ sock \in {"none", "open", "gone"}
  /\ asked \in SUBSET Query
  /\ jobs \in Seq(Job(Conn \cup {Dns}, {"OUT", "CLOSE"}))
  /\ phase \in {"timer", "events", "jobs", "last"}
  /\ fate \in {"running", "null_deref", "use_after_free", "misreads"}

NamesInit ==
  /\ CacheInit
  /\ status = [c \in Conn |-> "FREE"]
  /\ key = [c \in Conn |-> 0]
  /\ host = [c \in Conn |-> NoName]
  /\ want = [c \in Conn |-> NoName]
  /\ ip = [c \in Conn |-> Unknown]
  /\ idle = [c \in Conn |-> 0]
  /\ nextKey = 1                              \* dns_tree_init
  /\ link = "WORKING" /\ sock = "open"        \* main: dns_conn_create
  /\ wbuf = <<>> /\ rbuf = <<>> /\ tmp = <<>>
  /\ asked = {} /\ net = <<>>
  /\ jobs = <<>> /\ phase = "events"
  /\ fate = "running"

\* No handler of dns_conn is in its loop, and the process is alive.
Idle == rbuf = <<>> /\ fate = "running"

\* A handler of a client may run: for an epoll event, or for a job, which
\* may be before, between or after those that are listed; in phase "last" no
\* such job is left.
ClientRuns == Idle /\ phase \in {"events", "jobs"}

\* job_addconn: the last job is of this connection and takes the events, or
\* it is of another one, which may be one that is not listed.
AddJob(evs, c) ==
  \/ jobs' = AddConn(jobs, evs, c)
  \/ jobs' = Append(jobs, NewJob(evs, c))

\* The loop handles an epoll event of dns_conn.
DnsEvent == Idle /\ phase = "events" /\ link # "null"

\* Bounds of the instance: room for one more job, one more query.
RoomForJob == Len(jobs) < MaxJobs
RoomForQuery ==
  Len(wbuf) + Cardinality(asked) + (Len(net) + Len(tmp)) \div 2 < MaxFlight

\* The keys come round after 2^32 queries, which is longer than anything that
\* still carries the next key can last.
NextKeyIsFree ==
  /\ \A c \in Conn : key[c] # nextKey
  /\ \A q \in asked : q.key # nextKey
  /\ \A i \in DOMAIN wbuf : wbuf[i].key # nextKey
  /\ \A i \in DOMAIN net : net[i] # nextKey
  /\ \A i \in DOMAIN tmp : tmp[i] # nextKey

-----------------------------------------------------------------------------
(* Clients                                                                  *)

\* peer_create of a host in the cache (or given as an address): connect() is
\* called at once; when it fails the connection is freed again.
LookupHit(c, n) ==
  /\ ClientRuns
  /\ status[c] = "FREE" /\ Found(n)
  /\ status' = [status EXCEPT ![c] = "CONNECT"]
  /\ ip' = [ip EXCEPT ![c] = Cached(n)]
  /\ idle' = [idle EXCEPT ![c] = 0]
  /\ want' = [want EXCEPT ![c] = n]
  /\ UNCHANGED <<cacheVars, key, host, nextKey, linkVars, netVars, loopVars>>

\* Mutant: 0 is not skipped.
NextKeyZero == (nextKey + 1) % (KeyMax + 1)

\* dns_query_key++, and 0 is skipped.
NextKey == IF nextKey = KeyMax THEN 1 ELSE nextKey + 1

\* peer_create of an unknown host: the connection is made without an address,
\* enters dns_conn_tree under the query's key, and dns_send_query puts the
\* query in dns_conn's write buffer with a job to write it.  dns_conn is not
\* tested: it is NULL from its close to the timer's reconnect.
LookupMiss(c, n) ==
  /\ ClientRuns /\ RoomForJob /\ RoomForQuery /\ NextKeyIsFree
  /\ status[c] = "FREE" /\ ~Found(n)
  /\ status' = [status EXCEPT ![c] = "INIT"]
  /\ key' = [key EXCEPT ![c] = nextKey]
  /\ host' = [host EXCEPT ![c] = n]
  /\ want' = [want EXCEPT ![c] = n]
  /\ ip' = [ip EXCEPT ![c] = Unknown]
  /\ idle' = [idle EXCEPT ![c] = 0]
  /\ \/ /\ link = "null"
        /\ fate' = "null_deref"
        /\ UNCHANGED <<wbuf, jobs, nextKey>>
     \/ /\ link # "null"
        /\ wbuf' = Append(wbuf, [key |-> nextKey, name |-> n])
        /\ AddJob({"OUT"}, Dns)
        /\ nextKey' = NextKey
        /\ UNCHANGED fate
  /\ UNCHANGED <<cacheVars, link, rbuf, tmp, netVars, phase>>

\* dns_delconn: out of dns_conn_tree, and the host name is freed.
DelNode(c) ==
  /\ key' = [key EXCEPT ![c] = 0]
  /\ host' = [host EXCEPT ![c] = NoName]

\* Mutant: connection_del leaves the connection in dns_conn_tree.
FreeConnKeepNode(c) ==
  /\ status' = [status EXCEPT ![c] = "FREE"]
  /\ ip' = [ip EXCEPT ![c] = Unknown]
  /\ want' = [want EXCEPT ![c] = NoName]
  /\ idle' = [idle EXCEPT ![c] = 0]
  /\ UNCHANGED <<key, host>>

\* connection_del of a backend takes it out of dns_conn_tree.
FreeConn(c) ==
  /\ status' = [status EXCEPT ![c] = "FREE"]
  /\ ip' = [ip EXCEPT ![c] = Unknown]
  /\ want' = [want EXCEPT ![c] = NoName]
  /\ idle' = [idle EXCEPT ![c] = 0]
  /\ DelNode(c)

\* The rest of the life of a connection that has its address is not the DNS's
\* concern (ProxyLoop has it); here it ends at once, unless a CLOSE is on its
\* way already.
Served(c) ==
  /\ ClientRuns
  /\ status[c] = "CONNECT" /\ \A i \in DOMAIN jobs : jobs[i].conn # c
  /\ FreeConn(c)
  /\ UNCHANGED <<cacheVars, nextKey, linkVars, netVars, loopVars>>

\* conn_signal_thisclose of a backend that waits: its client is done with it.
Hangup(c) ==
  /\ ClientRuns /\ RoomForJob
  /\ status[c] = "INIT"
  /\ status' = [status EXCEPT ![c] = "CLOSED"]
  /\ AddJob({"CLOSE"}, c)
  /\ UNCHANGED <<cacheVars, key, host, ip, idle, nextKey, want,
                 linkVars, netVars, phase, fate>>

-----------------------------------------------------------------------------
(* The DNS program                                                          *)

\* It answers a query it has read, in any order; Unknown is 0.0.0.0.  The
\* answer is two words, and may arrive in pieces.
Answer(q, a) ==
  /\ Idle /\ sock = "open"
  /\ q \in asked
  /\ a \in Answers[q.name] \cup {Unknown}
  /\ asked' = asked \ {q}
  /\ net' = net \o <<q.key, a>>
  /\ UNCHANGED <<cacheVars, connVars, linkVars, sock, loopVars>>

\* It ends, or is restarted: what it had read is forgotten.
ProgramGone ==
  /\ Idle /\ sock = "open"
  /\ sock' = "gone"
  /\ asked' = {}
  /\ UNCHANGED <<cacheVars, connVars, linkVars, net, loopVars>>

-----------------------------------------------------------------------------
(* dns_conn                                                                 *)

\* conn_signal_close( dns_conn )
SignalDnsClose ==
  /\ link' = "CLOSED"
  /\ AddJob({"CLOSE"}, Dns)

\* FDEVENT_IN: one read() takes some of the words that arrived; the parsing
\* loop follows (ParseWord).
DnsIn(n) ==
  /\ DnsEvent /\ link = "WORKING"
  /\ n \in 1..Len(net)
  /\ rbuf' = SubSeq(net, 1, n)
  /\ net' = SubSeq(net, n + 1, Len(net))
  /\ UNCHANGED <<cacheVars, connVars, link, wbuf, tmp, sock, asked, loopVars>>

\* FDEVENT_ERR or HUP, FDEVENT_IN with nothing left to read, or one that
\* comes after the close was signalled (conn_handle_in wants WORKING).
DnsLost ==
  /\ DnsEvent /\ RoomForJob
  /\ sock = "gone"
  /\ SignalDnsClose
  /\ UNCHANGED <<cacheVars, connVars, wbuf, rbuf, tmp, netVars, phase, fate>>

\* conn_handle_out: some of the queries are written, all of them in the end;
\* to a program that is gone nothing is, and the error changes nothing here.
Written(n) ==
  IF sock = "open"
  THEN /\ n \in 0..Len(wbuf)
       /\ asked' = asked \cup {wbuf[i] : i \in 1..n}
       /\ wbuf' = SubSeq(wbuf, n + 1, Len(wbuf))
  ELSE n = 0 /\ UNCHANGED <<asked, wbuf>>

\* FDEVENT_OUT from epoll after a write that was cut short.
DnsOut(n) ==
  /\ DnsEvent /\ link = "WORKING" /\ wbuf # <<>>
  /\ Written(n)
  /\ UNCHANGED <<cacheVars, connVars, link, rbuf, tmp, sock, net, loopVars>>

\* Mutant: the connection that has waited longest is woken.
AskerAny(k) == {c \in Conn : key[c] # 0 /\ \A d \in Conn : key[d] = 0 \/ key[c] <= key[d]}

\* rbtree_find( &dns_conn_tree, key )
Asker(k) == {c \in Conn : key[c] = k}

\* dns_wakeup_conn: the answer goes to the cache and connect() is called, if
\* it fails (ok) the close is signalled, as for the address 0.
WakeUp(c, a, ok) ==
  /\ \/ a = Unknown /\ UNCHANGED cacheVars
     \/ a # Unknown /\ Insert(host[c], a)
  /\ \/ /\ a # Unknown /\ ok
        /\ status' = [status EXCEPT ![c] = "CONNECT"]
        /\ ip' = [ip EXCEPT ![c] = a]
        /\ UNCHANGED jobs
     \/ /\ a = Unknown \/ ~ok
        /\ status' = [status EXCEPT ![c] = "CLOSED"]
        /\ AddJob({"CLOSE"}, c)
        /\ UNCHANGED ip

\* One turn of the loop of dns_parse_echo.  A word that has no first word
\* before it waits in dns_ctx.tmp; with one it makes an answer of the two,
\* for the connection that asked if it is still there (dns_handle_pkt).
\* (When both words are in one buffer the code takes them without tmp.)
ParseWord(ok) ==
  /\ fate = "running" /\ rbuf # <<>>
  /\ rbuf' = Tail(rbuf)
  /\ \/ /\ tmp = <<>>
        /\ tmp' = <<Head(rbuf)>>
        /\ ok
        /\ UNCHANGED <<cacheVars, status, key, host, ip, jobs>>
     \/ /\ tmp # <<>> /\ Asker(tmp[1]) = {}
        /\ tmp' = <<>>
        /\ ok
        /\ UNCHANGED <<cacheVars, status, key, host, ip, jobs>>
     \/ \E c \in Asker(IF tmp = <<>> THEN 0 ELSE tmp[1]) :
          /\ tmp # <<>>
          /\ tmp' = <<>>
          /\ WakeUp(c, Head(rbuf), ok)
          /\ DelNode(c)
  /\ UNCHANGED <<idle, nextKey, want, link, wbuf, netVars, phase, fate>>

-----------------------------------------------------------------------------
(* The job phase                                                            *)

StartJobs ==
  /\ Idle /\ phase = "events" /\ jobs # <<>>
  /\ phase' = "jobs"
  /\ UNCHANGED <<cacheVars, connVars, linkVars, netVars, jobs, fate>>

\* The loop has passed the last job of a connection that is not listed.
LastOtherJob ==
  /\ Idle /\ phase = "jobs"
  /\ phase' = "last"
  /\ UNCHANGED <<cacheVars, connVars, linkVars, netVars, jobs, fate>>

CurrentJob == Idle /\ phase \in {"jobs", "last"} /\ jobs # <<>>

\* A marked job is stepped over.
PassJob ==
  /\ CurrentJob /\ Head(jobs).deld
  /\ jobs' = Tail(jobs)
  /\ UNCHANGED <<cacheVars, connVars, linkVars, netVars, phase, fate>>

\* conn_handle_thisclose: job_delconn, connection_del.
CloseJob(c) ==
  /\ CurrentJob /\ ~Head(jobs).deld /\ Head(jobs).conn = c
  /\ FreeConn(c)
  /\ jobs' = Tail(DelConn(jobs, c))
  /\ UNCHANGED <<cacheVars, nextKey, linkVars, netVars, phase, fate>>

\* The current job is one of dns_conn.
DnsJob == CurrentJob /\ ~Head(jobs).deld /\ Head(jobs).conn = Dns

\* The loop calls dns_conn's handler after dns_conn was freed: nothing has
\* deleted the jobs it still had.
DnsJobDangling ==
  /\ DnsJob /\ link = "null"
  /\ fate' = "use_after_free"
  /\ UNCHANGED <<cacheVars, connVars, linkVars, netVars, jobs, phase>>

\* dns_conn_close frees dns_conn with its buffers and closes the socket; the
\* static dns_ctx stays, and so do the connections in dns_conn_tree.  Half an
\* answer in dns_ctx would be completed by the next program's first word, and
\* so on for ever: the model ends here.
DnsClose ==
  /\ DnsJob /\ link # "null" /\ "CLOSE" \in Head(jobs).events
  /\ link' = "null"
  /\ sock' = "none"
  /\ wbuf' = <<>> /\ net' = <<>> /\ asked' = {}
  /\ fate' = IF tmp = <<>> THEN fate ELSE "misreads"
  /\ jobs' = Tail(jobs)
  /\ UNCHANGED <<cacheVars, connVars, rbuf, tmp, phase>>

\* FDEVENT_OUT: conn_handle_out; a status other than WORKING is an error, and
\* the close that it signals may land in this very job.
DnsWrite(n) ==
  /\ DnsJob /\ link # "null" /\ "CLOSE" \notin Head(jobs).events
  /\ \/ link = "WORKING" /\ Written(n)
        /\ jobs' = Tail(jobs)
        /\ UNCHANGED link
     \/ link = "CLOSED" /\ n = 0
        /\ \/ jobs' = Tail(AddConn(jobs, {"CLOSE"}, Dns))
           \/ jobs' = Append(Tail(jobs), NewJob({"CLOSE"}, Dns))
        /\ UNCHANGED <<link, asked, wbuf>>
  /\ UNCHANGED <<cacheVars, connVars, rbuf, tmp, sock, net, phase, fate>>

ClearJobs ==
  /\ Idle /\ phase = "last" /\ jobs = <<>>
  /\ phase' = "events"
  /\ UNCHANGED <<cacheVars, connVars, linkVars, netVars, jobs, fate>>

-----------------------------------------------------------------------------
(* The timer                                                                *)

\* SIGALRM was seen at the top of an iteration: curtime moves on.
Tick ==
  /\ Idle /\ phase = "events" /\ jobs = <<>>
  /\ phase' = "timer"
  /\ GrowOld
  /\ idle' = [c \in Conn |-> IF status[c] = "INIT" /\ idle[c] < ConnTimeout
                             THEN idle[c] + 1 ELSE idle[c]]
  /\ UNCHANGED <<status, key, host, ip, nextKey, want, linkVars, netVars, jobs, fate>>

\* Mutant: a connection whose query is under way is spared.
TimedOutSpares(c) == status[c] = "INIT" /\ key[c] = 0 /\ idle[c] >= ConnTimeout

\* A waiting connection has no events, so it is idle since it was made.  The
\* others had their events: Served.
TimedOut(c) == status[c] = "INIT" /\ idle[c] >= ConnTimeout

\* The walk of time_handle over connhead.
TimerClose(c) ==
  /\ Idle /\ phase = "timer" /\ TimedOut(c)
  /\ status' = [status EXCEPT ![c] = "CLOSED"]
  /\ AddJob({"CLOSE"}, c)
  /\ UNCHANGED <<cacheVars, key, host, ip, idle, nextKey, want,
                 linkVars, netVars, phase, fate>>

\* The end of time_handle in the backend: dns_conn is made again if it is
\* NULL and the program answers connect() (ok), the cache is expired.  The
\* connect() of a UNIX socket succeeds or fails at once.
TimerEnd(ok) ==
  /\ Idle /\ phase = "timer" /\ \A c \in Conn : ~TimedOut(c)
  /\ \/ /\ link = "null" /\ ok
        /\ link' = "WORKING" /\ sock' = "open"
     \/ /\ link # "null" \/ ~ok
        /\ UNCHANGED <<link, sock>>
  /\ Expire
  /\ phase' = "events"
  /\ UNCHANGED <<connVars, wbuf, rbuf, tmp, asked, net, jobs, fate>>

-----------------------------------------------------------------------------
Clients ==
  \/ \E c \in Conn, n \in Name : LookupHit(c, n) \/ LookupMiss(c, n)
  \/ \E c \in Conn : Served(c) \/ Hangup(c)

Program ==
  \/ \E q \in asked : \E a \in Answers[q.name] \cup {Unknown} : Answer(q, a)
  \/ ProgramGone

DnsEvents ==
  \/ \E n \in 1..Len(net) : DnsIn(n)
  \/ DnsLost
  \/ \E n \in 0..Len(wbuf) : DnsOut(n)

\* What the loop does by itself: finish the handler, run the jobs, finish
\* the timer.
Loop ==
  \/ \E ok \in BOOLEAN : ParseWord(ok)
  \/ StartJobs \/ LastOtherJob \/ PassJob
  \/ \E c \in Conn : CloseJob(c)
  \/ DnsJobDangling \/ DnsClose
  \/ \E n \in 0..Len(wbuf) : DnsWrite(n)
  \/ ClearJobs
  \/ \E c \in Conn : TimerClose(c)
  \/ \E ok \in BOOLEAN : TimerEnd(ok)

Next == Clients \/ Program \/ DnsEvents \/ Loop \/ Tick

\* The loop goes on while the process lives; a job phase has finitely many
\* jobs of clients, which come from the events before it; every iteration
\* tests for the alarm that comes each second.
Spec ==
  /\ NamesInit /\ [][Next]_vars
  /\ WF_vars(Loop) /\ WF_vars(LastOtherJob) /\ SF_vars(Tick)

-----------------------------------------------------------------------------
\* dns_conn_tree is exactly the set of live connections that wait: a node
\* always belongs to a connection that exists and has its host name, no two
\* connections wait under one key, and a connection that waits for an address
\* can still be woken.
WaitersIndexed ==
  /\ \A c \in Conn : key[c] # 0 <=> host[c] # NoName
  /\ \A c \in Conn : status[c] = "FREE" => key[c] = 0
  /\ \A c \in Conn : status[c] = "INIT" => key[c] # 0
  /\ \A c, d \in Conn : key[c] = key[d] /\ key[c] # 0 => c = d

\* A connection is made to, and the cache remembers, only what the DNS
\* program answered for that very name, whatever was closed, asked again or
\* answered late; as long as dns_conn is not lost in the middle of an answer.
RightAddress ==
  /\ \A c \in Conn : ip[c] # Unknown => ip[c] \in Answers[want[c]]
  /\ \A i \in DOMAIN queue : queue[i].ip \in Answers[queue[i].name]

\* A connection that waits for an address does not wait for ever: it is woken
\* or closed, even if the DNS program is gone for good.
LookupEnds ==
  \A c \in Conn : status[c] = "INIT" ~> (status[c] # "INIT" \/ fate # "running")
=============================================================================
