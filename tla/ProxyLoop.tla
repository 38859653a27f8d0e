----------------------------- MODULE ProxyLoop ------------------------------
(***************************************************************************)
(* The event loop of urlserver (src/src/proxy/bs/src) with its client and   *)
(* backend connections: server.c's main loop, the handlers of conn_client.c *)
(* and conn_backend.c, the close protocol of conn_peer.c, the flow control  *)
(* of conn_io.c and waitconn.c, the request forwarding of forward.c and the *)
(* wake-up of backends by DNS answers.                                      *)
(*                                                                          *)
(* The program has one thread.  A handler is a sequence of steps: self is   *)
(* the connection it runs for and ev the event bits it has still to treat,  *)
(* in the order of the code (PEERCLOSE, CLOSE, ERR, IN, OUT); no step of    *)
(* anything else is possible until ev is empty and the handler returns.     *)
(* The network moves between any two handlers.                              *)
(***************************************************************************)
EXTENDS Jobs, Integers

CONSTANTS Clients,     \* addresses that client connections can have
          Backends,    \* addresses that backend connections can have
          Dns,         \* dns_conn, the connection to the DNS program
          None,        \* NULL
          Frontend,    \* mode_frontend
          Limit,       \* CHUNKSIZE_LIMIT, in units of data
          SysCap,      \* bound: units in a socket's receive buffer
          MaxMoves     \* bound: moves of the remote sides; -1 for no bound

ASSUME ProxyAssumption ==
  /\ Clients \cap Backends = {}
  /\ Dns \notin Clients \cup Backends
  /\ None \notin Clients \cup Backends \cup {Dns}
  /\ Frontend \in BOOLEAN
  /\ Limit \in Nat \ {0}
  /\ SysCap \in Nat \ {0}
  /\ MaxMoves \in Nat \cup {-1}

Conn == Clients \cup Backends

Status == {"FREE", "INIT", "CONNECTING", "WORKING",
           "CLOSING_WRITE", "PEERCLOSED", "CLOSED"}

\* Remote side of a socket: "idle" before connect(), "eof" after a FIN,
\* "reset" after an RST or a refused connection.
Sock == {"idle", "connecting", "open", "eof", "reset"}

JobEvent == {"IN", "OUT", "PEERCLOSE", "CLOSE"}
FdEvent == {"IN", "OUT", "ERR"}

\* What a running handler has left: its event bits, and the rest of a branch
\* it is in (PARSE: parse_handle; CONNECT: a request needs its peer; WAKE:
\* waitconn_wake).
Step == JobEvent \cup FdEvent \cup {"PARSE", "CONNECT", "WAKE"}

VARIABLES
  status, peer, lsn,     \* connection_t: status, peer, lsnevents
  rbuf, wbuf,            \* units in readbuf and writebuf
  waitOn,                \* wqnode.headconn
  reqstat,               \* r->stat of a client's http_req_t
  dns,                   \* a backend's DNS query: none, queued, sent
  jobs,                  \* job_head, from the job the loop is at
  phase,                 \* part of the loop
  batch,                 \* evs_buf: events to dispatch; or the timed-out
  self, ev,              \* the running handler
  sock, sysin, canwrite, \* the socket: remote side, receive and send buffer
  armed,                 \* on epoll's ready list
  left,                  \* moves left to the remote sides
  owner,                 \* ghost: client a backend was created for
  handed                 \* ghost: events the running job was given

connVars == <<status, peer, lsn, rbuf, wbuf, waitOn, reqstat, dns>>
loopVars == <<jobs, phase, batch, self, ev>>
netVars == <<sock, sysin, canwrite, armed, left>>
ghosts == <<owner, handed>>
vars == <<connVars, loopVars, netVars, ghosts>>

TypeOK ==
  /\ status \in [Conn -> Status]
  /\ peer \in [Conn -> Conn \cup {None}]
  /\ lsn \in [Conn -> SUBSET {"IN", "OUT"}]
  /\ rbuf \in [Conn -> Nat]
  /\ wbuf \in [Conn -> Nat]
  /\ waitOn \in [Conn -> Conn \cup {None}]
  /\ reqstat \in [Clients -> {"COMMONDREQ", "BODYREQ"}]
  /\ dns \in [Backends -> {"none", "queued", "sent"}]
  /\ jobs \in Seq(Job(Conn \cup {Dns}, JobEvent))
  /\ phase \in {"wait", "timer", "events", "jobs"}
  /\ batch \in [Conn \cup {Dns} -> SUBSET (FdEvent \cup {"TIMEOUT"})]
  /\ self \in Conn \cup {Dns, None}
  /\ ev \in SUBSET Step
  /\ sock \in [Conn -> Sock]
  /\ sysin \in [Conn -> 0..SysCap]
  /\ canwrite \in [Conn -> BOOLEAN]
  /\ armed \in [Conn -> BOOLEAN]
  /\ left \in Nat \cup {-1}
  /\ owner \in [Backends -> Clients \cup {None}]
  /\ handed \in SUBSET JobEvent

NoEvents == [c \in Conn \cup {Dns} |-> {}]

Init ==
  /\ status = [c \in Conn |-> "FREE"]
  /\ peer = [c \in Conn |-> None]
  /\ lsn = [c \in Conn |-> {}]
  /\ rbuf = [c \in Conn |-> 0]
  /\ wbuf = [c \in Conn |-> 0]
  /\ waitOn = [c \in Conn |-> None]
  /\ reqstat = [c \in Clients |-> "COMMONDREQ"]
  /\ dns = [b \in Backends |-> "none"]
  /\ jobs = <<>>
  /\ phase = "wait"
  /\ batch = NoEvents
  /\ self = None
  /\ ev = {}
  /\ sock = [c \in Conn |-> "idle"]
  /\ sysin = [c \in Conn |-> 0]
  /\ canwrite = [c \in Conn |-> FALSE]
  /\ armed = [c \in Conn |-> FALSE]
  /\ left = MaxMoves
  /\ owner = [b \in Backends |-> None]
  /\ handed = {}

Live(c) == status[c] # "FREE"

-----------------------------------------------------------------------------
(* epoll, edge triggered: a socket is put on the ready list when a watched  *)
(* condition appears or when ev_modfd finds one that holds.                 *)

Readiness(watched, n, s, w) ==
  {e \in watched : \/ e = "IN" /\ (n > 0 \/ s \in {"eof", "reset"})
                   \/ e = "OUT" /\ w}
  \cup {e \in {"ERR"} : s = "reset"}

\* ev_modfd(c, evs) when n units are in c's receive buffer and w says
\* whether its send buffer has room.
ModFd(c, evs, n, w) ==
  /\ lsn' = [lsn EXCEPT ![c] = evs]
  /\ armed' = [armed EXCEPT ![c] = @ \/ Readiness(evs, n, sock[c], w) # {}]

-----------------------------------------------------------------------------
(* The network, between any two handlers.                                   *)

\* The loop is about to wait for events.
Quiet == phase = "wait" /\ self = None

\* The remote sides make a move, if the bound allows one.
Move == self = None /\ left # 0 /\ left' = (IF left > 0 THEN left - 1 ELSE left)

\* A client connects and client_lsn_handle accepts it: client_conn_create.
Accept(c) ==
  /\ Quiet /\ ~Live(c)
  /\ status' = [status EXCEPT ![c] = "WORKING"]
  /\ lsn' = [lsn EXCEPT ![c] = {"IN"}]
  /\ sock' = [sock EXCEPT ![c] = "open"]
  /\ canwrite' = [canwrite EXCEPT ![c] = TRUE]
  /\ UNCHANGED <<peer, rbuf, wbuf, waitOn, reqstat, dns, loopVars, sysin, armed, left, ghosts>>

\* A unit of data reaches the socket of c.
Arrive(c) ==
  /\ Move /\ sock[c] = "open" /\ sysin[c] < SysCap
  /\ sysin' = [sysin EXCEPT ![c] = @ + 1]
  /\ armed' = [armed EXCEPT ![c] = @ \/ "IN" \in lsn[c]]
  /\ UNCHANGED <<connVars, loopVars, sock, canwrite, ghosts>>

\* The remote side shuts down its direction of the connection.
RemoteEof(c) ==
  /\ Move /\ sock[c] = "open"
  /\ sock' = [sock EXCEPT ![c] = "eof"]
  /\ armed' = [armed EXCEPT ![c] = @ \/ "IN" \in lsn[c]]
  /\ UNCHANGED <<connVars, loopVars, sysin, canwrite, ghosts>>

\* The connection is reset, or refused while connecting.
RemoteReset(c) ==
  /\ Move /\ sock[c] \in {"connecting", "open", "eof"}
  /\ sock' = [sock EXCEPT ![c] = "reset"]
  /\ armed' = [armed EXCEPT ![c] = TRUE]
  /\ UNCHANGED <<connVars, loopVars, sysin, canwrite, ghosts>>

\* The three-way handshake of a backend completes.
Connected(b) ==
  /\ Move /\ sock[b] = "connecting"
  /\ sock' = [sock EXCEPT ![b] = "open"]
  /\ canwrite' = [canwrite EXCEPT ![b] = TRUE]
  /\ armed' = [armed EXCEPT ![b] = @ \/ "OUT" \in lsn[b]]
  /\ UNCHANGED <<connVars, loopVars, sysin, ghosts>>

\* The remote side reads: the send buffer of c has room again.
Drain(c) ==
  /\ Move /\ sock[c] \in {"open", "eof"} /\ ~canwrite[c]
  /\ canwrite' = [canwrite EXCEPT ![c] = TRUE]
  /\ armed' = [armed EXCEPT ![c] = @ \/ "OUT" \in lsn[c]]
  /\ UNCHANGED <<connVars, loopVars, sock, sysin, ghosts>>

-----------------------------------------------------------------------------
(* conn_peer.c: closing a connection and telling its peer.                  *)

\* Mutant: only a working connection gets its PEERCLOSE event.
AfterPeerCloseIfWorking(q, p) ==
  IF p = None \/ status[p] # "WORKING" THEN q ELSE AddConn(q, {"PEERCLOSE"}, p)

\* conn_signal_peerclose(p), given the job list q.
AfterPeerClose(q, p) == IF p = None THEN q ELSE AddConn(q, {"PEERCLOSE"}, p)

\* Mutant: conn_signal_peerclose forgets conn->peer = NULL.
SignalThisCloseKeepsLink(c) ==
  LET p == peer[c] IN
  /\ status' = [x \in Conn |-> IF x = p THEN "PEERCLOSED"
                               ELSE IF x = c THEN "CLOSED" ELSE status[x]]
  /\ jobs' = AddConn(AfterPeerClose(jobs, p), {"CLOSE"}, c)
  /\ UNCHANGED peer

\* conn_signal_thisclose(c)
SignalThisClose(c) ==
  LET p == peer[c] IN
  /\ status' = [x \in Conn |-> IF x = p THEN "PEERCLOSED"
                               ELSE IF x = c THEN "CLOSED" ELSE status[x]]
  /\ peer' = [x \in Conn |-> IF x = p THEN None ELSE peer[x]]
  /\ jobs' = AddConn(AfterPeerClose(jobs, p), {"CLOSE"}, c)

\* The error exit of both handlers: signal the close and return.
Fail(c) ==
  /\ SignalThisClose(c)
  /\ ev' = {}
  /\ UNCHANGED <<dns, phase, batch, self, owner, handed>>

-----------------------------------------------------------------------------
(* server.c, the main loop.                                                 *)

\* time_handle: the set S of connections has been idle for too long.
TimerFires(S) ==
  /\ Quiet
  /\ S # {} /\ \A c \in S : Live(c)
  /\ phase' = "timer"
  /\ batch' = [c \in Conn \cup {Dns} |-> IF c \in S THEN {"TIMEOUT"} ELSE {}]
  /\ UNCHANGED <<connVars, jobs, self, ev, netVars, ghosts>>

\* Mutant: the timeout closes the connection but leaves no CLOSE job.
TimeoutForgetsJob(c) ==
  LET p == peer[c] IN
  /\ phase = "timer" /\ batch[c] # {}
  /\ status' = [x \in Conn |-> IF x = p THEN "PEERCLOSED"
                               ELSE IF x = c THEN "CLOSED" ELSE status[x]]
  /\ peer' = [x \in Conn |-> IF x = p THEN None ELSE peer[x]]
  /\ jobs' = AfterPeerClose(jobs, p)
  /\ batch' = [batch EXCEPT ![c] = {}]
  /\ UNCHANGED <<lsn, rbuf, wbuf, waitOn, reqstat, dns, phase, self, ev, netVars, ghosts>>

\* The walk of connhead reaches a timed-out connection.
TimeoutOne(c) ==
  /\ phase = "timer" /\ batch[c] # {}
  /\ SignalThisClose(c)
  /\ batch' = [batch EXCEPT ![c] = {}]
  /\ UNCHANGED <<lsn, rbuf, wbuf, waitOn, reqstat, dns, phase, self, ev, netVars, ghosts>>

Reported == [c \in Conn |-> IF armed[c] THEN Readiness(lsn[c], sysin[c], sock[c], canwrite[c]) ELSE {}]

\* ev_wait: epoll reports the ready connections, and perhaps DNS answers.
EvWait(dnsReady) ==
  /\ phase \in {"wait", "timer"} /\ self = None /\ batch = NoEvents
  /\ dnsReady => \E b \in Backends : dns[b] = "sent"
  /\ \/ dnsReady \/ jobs # <<>> \/ \E c \in Conn : Reported[c] # {}
  /\ batch' = [c \in Conn \cup {Dns} |->
                 IF c = Dns THEN {e \in {"IN"} : dnsReady} ELSE Reported[c]]
  /\ armed' = [c \in Conn |-> FALSE]
  /\ phase' = "events"
  /\ UNCHANGED <<connVars, jobs, self, ev, sock, sysin, canwrite, left, ghosts>>

\* conn->event_handle( events, conn ) for one reported event.
Dispatch(c) ==
  /\ phase = "events" /\ self = None /\ batch[c] # {}
  /\ self' = c
  /\ ev' = batch[c]
  /\ batch' = [batch EXCEPT ![c] = {}]
  /\ UNCHANGED <<connVars, jobs, phase, netVars, ghosts>>

StartJobs ==
  /\ phase = "events" /\ self = None /\ batch = NoEvents
  /\ phase' = "jobs"
  /\ UNCHANGED <<connVars, jobs, batch, self, ev, netVars, ghosts>>

\* job->conn->event_handle( job->events, job->conn )
RunJob ==
  /\ phase = "jobs" /\ self = None /\ jobs # <<>> /\ ~Head(jobs).deld
  /\ self' = Head(jobs).conn
  /\ ev' = Head(jobs).events
  /\ handed' = Head(jobs).events
  /\ UNCHANGED <<connVars, jobs, phase, batch, netVars, owner>>

\* A marked job is stepped over; job_clear will free it.
SkipJob ==
  /\ phase = "jobs" /\ self = None /\ jobs # <<>> /\ Head(jobs).deld
  /\ jobs' = Tail(jobs)
  /\ UNCHANGED <<connVars, phase, batch, self, ev, netVars, ghosts>>

\* The handler returns; the loop marks its job and goes on to the next.
Return ==
  /\ self # None /\ ev = {}
  /\ self' = None
  /\ jobs' = IF phase = "jobs" THEN Tail(jobs) ELSE jobs
  /\ handed' = {}
  /\ UNCHANGED <<connVars, phase, batch, ev, netVars, owner>>

EndJobs ==
  /\ phase = "jobs" /\ self = None /\ jobs = <<>>
  /\ phase' = "wait"
  /\ UNCHANGED <<connVars, jobs, batch, self, ev, netVars, ghosts>>

-----------------------------------------------------------------------------
(* Branches that client_handle and backend_handle share.                    *)

\* Mutant: what is left in writebuf is given up.
HandlePeerCloseAborts ==
  /\ self \in Conn /\ "PEERCLOSE" \in ev
  /\ IF wbuf[self] > 0
     THEN Fail(self)
     ELSE /\ ev' = (ev \ {"PEERCLOSE"}) \cup {"CLOSE"}
          /\ UNCHANGED <<status, peer, jobs, dns, phase, batch, self, owner, handed>>
  /\ UNCHANGED <<lsn, rbuf, wbuf, waitOn, reqstat, netVars>>

\* conn_handle_peerclose: flush what is left, or close at once.
HandlePeerClose ==
  /\ self \in Conn /\ "PEERCLOSE" \in ev
  /\ IF wbuf[self] > 0
     THEN /\ status' = [status EXCEPT ![self] = "CLOSING_WRITE"]
          /\ ev' = (ev \ {"PEERCLOSE"}) \cup {"OUT"}
     ELSE /\ ev' = (ev \ {"PEERCLOSE"}) \cup {"CLOSE"}
          /\ UNCHANGED status
  /\ UNCHANGED <<peer, lsn, rbuf, wbuf, waitOn, reqstat, dns, jobs, phase, batch, self, netVars, ghosts>>

\* conn_handle_thisclose: job_delconn, then connection_del takes the
\* connection out of the wait queues and the DNS tree and frees it.
HandleThisClose ==
  /\ self \in Conn /\ "CLOSE" \in ev /\ "PEERCLOSE" \notin ev
  /\ jobs' = DelConn(jobs, self)
  /\ status' = [status EXCEPT ![self] = "FREE"]
  /\ peer' = [peer EXCEPT ![self] = None]
  /\ lsn' = [lsn EXCEPT ![self] = {}]
  /\ rbuf' = [rbuf EXCEPT ![self] = 0]
  /\ wbuf' = [wbuf EXCEPT ![self] = 0]
  /\ waitOn' = [c \in Conn |-> IF c = self \/ waitOn[c] = self THEN None ELSE waitOn[c]]
  /\ reqstat' = [c \in Clients |-> IF c = self THEN "COMMONDREQ" ELSE reqstat[c]]
  /\ dns' = [b \in Backends |-> IF b = self THEN "none" ELSE dns[b]]
  /\ sock' = [sock EXCEPT ![self] = "idle"]
  /\ sysin' = [sysin EXCEPT ![self] = 0]
  /\ canwrite' = [canwrite EXCEPT ![self] = FALSE]
  /\ armed' = [armed EXCEPT ![self] = FALSE]
  /\ owner' = [b \in Backends |-> IF self \in {b, owner[b]} THEN None ELSE owner[b]]
  /\ ev' = {}
  /\ UNCHANGED <<phase, batch, self, left, handed>>

Closing == ev \cap {"PEERCLOSE", "CLOSE"} # {}

\* FDEVENT_ERR or FDEVENT_HUP
HandleErr ==
  /\ self \in Conn /\ ~Closing /\ "ERR" \in ev
  /\ Fail(self)
  /\ UNCHANGED <<lsn, rbuf, wbuf, waitOn, reqstat, netVars>>

-----------------------------------------------------------------------------
(* FDEVENT_IN: conn_handle_in reads, then parse_handle treats what was read. *)

DoesIn == self \in Conn /\ ~Closing /\ "ERR" \notin ev /\ "IN" \in ev

\* Mutant: looks at its own writebuf.
SpaceOfSelf(c) ==
  (Limit - rbuf[c]) + (IF peer[c] = None THEN 0 ELSE Limit - wbuf[c])

\* Room left in this readbuf and in the peer's writebuf, together.
Space(c) ==
  (Limit - rbuf[c]) + (IF peer[c] = None THEN 0 ELSE Limit - wbuf[peer[c]])

\* Mutant: reads for the room there is, not for the data.
LeastSwapped(a, b) == IF a < b THEN b ELSE a

Least(a, b) == IF a < b THEN a ELSE b

\* Mutant: no ev_modfd after a read.
ReadSomeOnce ==
  LET n == Least(sysin[self], Space(self)) IN
  /\ DoesIn /\ status[self] = "WORKING" /\ n > 0
  /\ sysin' = [sysin EXCEPT ![self] = @ - n]
  /\ rbuf' = [rbuf EXCEPT ![self] = @ + n]
  /\ ev' = (ev \ {"IN"}) \cup {"PARSE"}
  /\ UNCHANGED <<status, peer, lsn, wbuf, waitOn, reqstat, dns, jobs, phase, batch, self, sock, canwrite, armed, left, ghosts>>

\* chunk_io_read moves what fits; ev_modfd arms the socket again.
ReadSome ==
  LET n == Least(sysin[self], Space(self)) IN
  /\ DoesIn /\ status[self] = "WORKING" /\ n > 0
  /\ sysin' = [sysin EXCEPT ![self] = @ - n]
  /\ rbuf' = [rbuf EXCEPT ![self] = @ + n]
  /\ ModFd(self, lsn[self] \cup {"IN"}, sysin[self] - n, canwrite[self])
  /\ ev' = (ev \ {"IN"}) \cup {"PARSE"}
  /\ UNCHANGED <<status, peer, wbuf, waitOn, reqstat, dns, jobs, phase, batch, self, sock, canwrite, left, ghosts>>

\* Mutant: goes on watching for input while it waits.
ReadFullWatches ==
  /\ DoesIn /\ status[self] = "WORKING" /\ sysin[self] > 0 /\ Space(self) <= 0
  /\ waitOn' = IF peer[self] = None THEN waitOn
               ELSE [waitOn EXCEPT ![self] = IF @ = None THEN peer[self] ELSE @]
  /\ ev' = (ev \ {"IN"}) \cup {e \in {"PARSE"} : self \in Backends}
  /\ UNCHANGED <<status, peer, lsn, rbuf, wbuf, reqstat, dns, jobs, phase, batch, self, netVars, ghosts>>

\* IOERR_FULL: wait until the peer has written, and stop watching for input.
\* waitconn_add refuses a second head, which conn_handle_in ignores.  A
\* client has parsed what is in readbuf before and finds nothing new there.
ReadFull ==
  /\ DoesIn /\ status[self] = "WORKING" /\ sysin[self] > 0 /\ Space(self) <= 0
  /\ IF peer[self] = None THEN UNCHANGED <<waitOn, lsn, armed>>
     ELSE /\ waitOn' = [waitOn EXCEPT ![self] = IF @ = None THEN peer[self] ELSE @]
          /\ ModFd(self, lsn[self] \ {"IN"}, sysin[self], canwrite[self])
  /\ ev' = (ev \ {"IN"}) \cup {e \in {"PARSE"} : self \in Backends}
  /\ UNCHANGED <<status, peer, rbuf, wbuf, reqstat, dns, jobs, phase, batch, self, sock, sysin, canwrite, left, ghosts>>

\* FIONREAD says 0 (IOERR_CLOSE), or the connection is not working.  A
\* client that is sending its last data goes on with that instead.
ReadFails ==
  /\ DoesIn /\ (status[self] # "WORKING" \/ sysin[self] = 0)
  /\ IF self \in Clients /\ status[self] = "CLOSING_WRITE"
     THEN /\ ev' = (ev \ {"IN"}) \cup {"OUT"}
          /\ UNCHANGED <<status, peer, jobs, dns, phase, batch, self, owner, handed>>
     ELSE Fail(self)
  /\ UNCHANGED <<lsn, rbuf, wbuf, waitOn, reqstat, netVars>>

-----------------------------------------------------------------------------
(* http_handle_parseandforwarddata, the parse_handle of clients: the units  *)
(* in readbuf are requests, or bodies of the request being forwarded.       *)

Parses == self \in Clients /\ "PARSE" \in ev

ParseFails ==
  /\ Parses /\ rbuf[self] > 0
  /\ reqstat[self] = "COMMONDREQ" \/ peer[self] = None
  /\ Fail(self)
  /\ UNCHANGED <<lsn, rbuf, wbuf, waitOn, reqstat, netVars>>

\* The frontend judges the URL and answers a denied one with an error page
\* (echo_err_page): conn_handle_in fails, client_handle goes on to OUT.
ParseDenied ==
  /\ Frontend /\ Parses /\ rbuf[self] > 0 /\ reqstat[self] = "COMMONDREQ"
  /\ wbuf' = [wbuf EXCEPT ![self] = @ + 1]
  /\ status' = [status EXCEPT ![self] = "CLOSING_WRITE"]
  /\ ev' = (ev \ {"PARSE"}) \cup {"OUT"}
  /\ UNCHANGED <<peer, lsn, rbuf, waitOn, reqstat, dns, jobs, phase, batch, self, netVars, ghosts>>

\* A request head.  The backend side drops the peer when the host changed.
ParseHead(changed) ==
  LET p == peer[self] IN
  /\ Parses /\ rbuf[self] > 0 /\ reqstat[self] = "COMMONDREQ"
  /\ changed => ~Frontend /\ p # None
  /\ status' = [x \in Conn |-> IF changed /\ x = p THEN "PEERCLOSED" ELSE status[x]]
  /\ peer' = [x \in Conn |-> IF changed /\ x \in {p, self} THEN None ELSE peer[x]]
  /\ jobs' = IF changed THEN AfterPeerClose(jobs, p) ELSE jobs
  /\ ev' = (ev \ {"PARSE"}) \cup {"CONNECT"}
  /\ UNCHANGED <<lsn, rbuf, wbuf, waitOn, reqstat, dns, phase, batch, self, netVars, ghosts>>

Connects == self \in Clients /\ "CONNECT" \in ev

\* The request goes to the peer the client has.
UsePeer ==
  /\ Connects /\ peer[self] # None
  /\ status[peer[self]] \in {"WORKING", "CONNECTING"}
  /\ reqstat' = [reqstat EXCEPT ![self] = "BODYREQ"]
  /\ ev' = (ev \ {"CONNECT"}) \cup {"PARSE"}
  /\ UNCHANGED <<status, peer, lsn, rbuf, wbuf, waitOn, dns, jobs, phase, batch, self, netVars, ghosts>>

\* The peer cannot take a request, or none could be created.
ConnectFails ==
  /\ Connects
  /\ peer[self] # None => status[peer[self]] \notin {"WORKING", "CONNECTING"}
  /\ Fail(self)
  /\ UNCHANGED <<lsn, rbuf, wbuf, waitOn, reqstat, netVars>>

\* Outcomes of conn_connect on a fresh socket.
ConnectStatus(how) == IF how = "open" THEN "WORKING" ELSE "CONNECTING"

\* Mutant: a connection that is open at once is watched for OUT, too.
ConnectLsnOut(how) == {e \in {"OUT"} : how # "idle"}

ConnectLsn(how) == IF how = "open" THEN {"IN"} ELSE {"OUT"}

\* peer_create: the address is known and conn_connect starts or completes.
CreatePeer(b, how) ==
  /\ Connects /\ peer[self] = None /\ ~Live(b)
  /\ status' = [status EXCEPT ![b] = ConnectStatus(how)]
  /\ peer' = [peer EXCEPT ![b] = self, ![self] = b]
  /\ owner' = [owner EXCEPT ![b] = self]
  /\ lsn' = [lsn EXCEPT ![b] = ConnectLsn(how)]
  /\ sock' = [sock EXCEPT ![b] = how]
  /\ canwrite' = [canwrite EXCEPT ![b] = (how = "open")]
  /\ reqstat' = [reqstat EXCEPT ![self] = "BODYREQ"]
  /\ ev' = (ev \ {"CONNECT"}) \cup {"PARSE"}
  /\ UNCHANGED <<rbuf, wbuf, waitOn, dns, jobs, phase, batch, self, sysin, armed, left, handed>>

\* peer_create: the name has to be resolved first (dns_query).
CreatePeerByName(b) ==
  /\ ~Frontend /\ Connects /\ peer[self] = None /\ ~Live(b)
  /\ status' = [status EXCEPT ![b] = "INIT"]
  /\ peer' = [peer EXCEPT ![b] = self, ![self] = b]
  /\ owner' = [owner EXCEPT ![b] = self]
  /\ dns' = [dns EXCEPT ![b] = "queued"]
  /\ jobs' = AddConn(jobs, {"OUT"}, Dns)
  /\ reqstat' = [reqstat EXCEPT ![self] = "BODYREQ"]
  /\ ev' = (ev \ {"CONNECT"}) \cup {"PARSE"}
  /\ UNCHANGED <<lsn, rbuf, wbuf, waitOn, phase, batch, self, netVars, handed>>

\* dns_query refuses (no name in the request, or no memory): the request
\* fails with the new backend already linked to the client.
QueryFails(b) ==
  /\ ~Frontend /\ Connects /\ peer[self] = None /\ ~Live(b)
  /\ status' = [status EXCEPT ![b] = "PEERCLOSED", ![self] = "CLOSED"]
  /\ peer' = [peer EXCEPT ![self] = b]
  /\ owner' = [owner EXCEPT ![b] = self]
  /\ jobs' = AddConn(AddConn(jobs, {"PEERCLOSE"}, b), {"CLOSE"}, self)
  /\ ev' = {}
  /\ UNCHANGED <<lsn, rbuf, wbuf, waitOn, reqstat, dns, phase, batch, self, netVars, handed>>

\* http_handle_forwarddata: one unit goes to the peer's writebuf; it was the
\* last of its request or more of the body follows.
ParseBody(last) ==
  LET p == peer[self] IN
  /\ Parses /\ rbuf[self] > 0 /\ reqstat[self] = "BODYREQ" /\ p # None
  /\ rbuf' = [rbuf EXCEPT ![self] = @ - 1]
  /\ wbuf' = [wbuf EXCEPT ![p] = @ + 1]
  /\ jobs' = IF status[p] = "WORKING" THEN AddConn(jobs, {"OUT"}, p) ELSE jobs
  /\ reqstat' = [reqstat EXCEPT ![self] = IF last THEN "COMMONDREQ" ELSE "BODYREQ"]
  /\ UNCHANGED <<status, peer, lsn, waitOn, dns, phase, batch, self, ev, netVars, ghosts>>

\* Nothing is left, or the head of the request is not complete yet.
ParseDone ==
  /\ Parses /\ (rbuf[self] = 0 \/ reqstat[self] = "COMMONDREQ")
  /\ ev' = ev \ {"PARSE"}
  /\ UNCHANGED <<connVars, jobs, phase, batch, self, netVars, ghosts>>

-----------------------------------------------------------------------------
(* backend_handle_read, the parse_handle of backends.                       *)

BackendForwards ==
  LET p == peer[self] IN
  /\ self \in Backends /\ "PARSE" \in ev
  /\ p # None /\ status[p] = "WORKING"
  /\ rbuf' = [rbuf EXCEPT ![self] = 0]
  /\ wbuf' = [wbuf EXCEPT ![p] = @ + rbuf[self]]
  /\ jobs' = IF rbuf[self] > 0 THEN AddConn(jobs, {"OUT"}, p) ELSE jobs
  /\ ev' = ev \ {"PARSE"}
  /\ UNCHANGED <<status, peer, lsn, waitOn, reqstat, dns, phase, batch, self, netVars, ghosts>>

\* No client any more, or one that takes no data.
BackendForwardFails ==
  /\ self \in Backends /\ "PARSE" \in ev
  /\ peer[self] # None => status[peer[self]] # "WORKING"
  /\ Fail(self)
  /\ UNCHANGED <<lsn, rbuf, wbuf, waitOn, reqstat, netVars>>

-----------------------------------------------------------------------------
(* FDEVENT_OUT: conn_handle_out.                                            *)

DoesOut == self \in Conn /\ ev = {"OUT"}

\* The statuses from which each handler writes; a backend becomes WORKING
\* first when it was CONNECTING.
Writable(c) ==
  status[c] \in IF c \in Clients THEN {"WORKING", "PEERCLOSED", "CLOSING_WRITE"}
                                 ELSE {"WORKING", "CONNECTING"}

StatusAfterOut(c) == IF c \in Backends /\ status[c] = "CONNECTING" THEN "WORKING" ELSE status[c]
LsnBeforeWrite(c) == IF c \in Backends /\ status[c] = "CONNECTING" THEN {"IN"} ELSE lsn[c]

\* client_handle ignores the failure, backend_handle closes.
OutRefused ==
  /\ DoesOut /\ ~Writable(self)
  /\ IF self \in Clients
     THEN /\ ev' = {}
          /\ UNCHANGED <<status, peer, jobs, dns, phase, batch, self, owner, handed>>
     ELSE Fail(self)
  /\ UNCHANGED <<lsn, rbuf, wbuf, waitOn, reqstat, netVars>>

\* writev fails: the handler returns and leaves the close to epoll.
WriteFails ==
  /\ DoesOut /\ Writable(self) /\ wbuf[self] > 0 /\ sock[self] = "reset"
  /\ status' = [status EXCEPT ![self] = StatusAfterOut(self)]
  /\ lsn' = [lsn EXCEPT ![self] = LsnBeforeWrite(self)]
  /\ ev' = {}
  /\ UNCHANGED <<peer, rbuf, wbuf, waitOn, reqstat, dns, jobs, phase, batch, self, netVars, ghosts>>

\* IOERR_AGN (k = 0) or IOERR_MOR: k units go out and the send buffer is full.
WriteSome(k) ==
  /\ DoesOut /\ Writable(self) /\ sock[self] # "reset"
  /\ k < wbuf[self] /\ (k > 0 => canwrite[self]) /\ (k = 0 => ~canwrite[self])
  /\ status' = [status EXCEPT ![self] = StatusAfterOut(self)]
  /\ wbuf' = [wbuf EXCEPT ![self] = @ - k]
  /\ canwrite' = [canwrite EXCEPT ![self] = FALSE]
  /\ ModFd(self, LsnBeforeWrite(self) \cup {"OUT"}, sysin[self], FALSE)
  /\ ev' = {}
  /\ UNCHANGED <<peer, rbuf, waitOn, reqstat, dns, jobs, phase, batch, self, sock, sysin, left, ghosts>>

\* IOOK or IOERR_EMPTY: nothing is left to write.  room: whether the send
\* buffer can still take data afterwards.
AllWritten(room) ==
  /\ DoesOut /\ Writable(self)
  /\ IF wbuf[self] > 0 THEN canwrite[self] /\ sock[self] # "reset" ELSE room = canwrite[self]
  /\ wbuf' = [wbuf EXCEPT ![self] = 0]
  /\ canwrite' = [canwrite EXCEPT ![self] = room]
  /\ IF {"OUT"} \subseteq LsnBeforeWrite(self) \/ status[self] = "CONNECTING"
     THEN ModFd(self, LsnBeforeWrite(self) \ {"OUT"}, sysin[self], room)
     ELSE UNCHANGED <<lsn, armed>>
  /\ UNCHANGED <<rbuf, waitOn, reqstat, dns, phase, batch, self, sock, sysin, left, ghosts>>

\* A client that has sent its last data closes.
WriteLast(room) ==
  /\ AllWritten(room)
  /\ status[self] \in {"PEERCLOSED", "CLOSING_WRITE"}
  /\ SignalThisClose(self)
  /\ ev' = {}

\* Mutant: nobody is woken.
WriteAllSilently(room) ==
  /\ AllWritten(room)
  /\ status[self] \notin {"PEERCLOSED", "CLOSING_WRITE"}
  /\ status' = [status EXCEPT ![self] = StatusAfterOut(self)]
  /\ ev' = {}
  /\ UNCHANGED <<peer, jobs>>

\* Otherwise the connections that wait for room are woken.
WriteAll(room) ==
  /\ AllWritten(room)
  /\ status[self] \notin {"PEERCLOSED", "CLOSING_WRITE"}
  /\ status' = [status EXCEPT ![self] = StatusAfterOut(self)]
  /\ ev' = IF \E w \in Conn : waitOn[w] = self THEN {"WAKE"} ELSE {}
  /\ UNCHANGED <<peer, jobs>>

\* waitconn_wake, for one connection of the wait queue: a job to read, and
\* ev_modfd with the events of the wait node only.
Wake(w) ==
  /\ "WAKE" \in ev /\ waitOn[w] = self
  /\ jobs' = AddConn(jobs, {"IN"}, w)
  /\ ModFd(w, {"IN"}, sysin[w], canwrite[w])
  /\ waitOn' = [waitOn EXCEPT ![w] = None]
  /\ ev' = IF \E x \in Conn \ {w} : waitOn[x] = self THEN ev ELSE {}
  /\ UNCHANGED <<status, peer, rbuf, wbuf, reqstat, dns, phase, batch, self, sock, sysin, canwrite, left, ghosts>>

-----------------------------------------------------------------------------
(* The DNS connection: dns_handler.                                         *)

\* FDEVENT_OUT: the queued queries are written.
DnsSend ==
  /\ self = Dns /\ "OUT" \in ev
  /\ dns' = [b \in Backends |-> IF dns[b] = "queued" THEN "sent" ELSE dns[b]]
  /\ ev' = ev \ {"OUT"}
  /\ UNCHANGED <<status, peer, lsn, rbuf, wbuf, waitOn, reqstat, jobs, phase, batch, self, netVars, ghosts>>

\* dns_wakeup_conn with an address: whatever the backend's status has become
\* meanwhile, it is connected.
DnsFound(b, how) ==
  /\ self = Dns /\ "IN" \in ev /\ dns[b] = "sent"
  /\ dns' = [dns EXCEPT ![b] = "none"]
  /\ status' = [status EXCEPT ![b] = ConnectStatus(how)]
  /\ lsn' = [lsn EXCEPT ![b] = ConnectLsn(how)]
  /\ sock' = [sock EXCEPT ![b] = how]
  /\ canwrite' = [canwrite EXCEPT ![b] = (how = "open")]
  /\ UNCHANGED <<peer, rbuf, wbuf, waitOn, reqstat, jobs, phase, batch, self, ev, sysin, armed, left, ghosts>>

\* dns_wakeup_conn with address 0, or the connect fails at once.
DnsNotFound(b) ==
  /\ self = Dns /\ "IN" \in ev /\ dns[b] = "sent"
  /\ dns' = [dns EXCEPT ![b] = "none"]
  /\ SignalThisClose(b)
  /\ UNCHANGED <<lsn, rbuf, wbuf, waitOn, reqstat, phase, batch, self, ev, netVars, ghosts>>

DnsReadDone ==
  /\ self = Dns /\ "IN" \in ev
  /\ ev' = ev \ {"IN"}
  /\ UNCHANGED <<connVars, jobs, phase, batch, self, netVars, ghosts>>

-----------------------------------------------------------------------------
Network ==
  \/ \E c \in Clients : Accept(c)
  \/ \E c \in Conn : Arrive(c) \/ RemoteEof(c) \/ RemoteReset(c) \/ Drain(c)
  \/ \E b \in Backends : Connected(b)

MainLoop ==
  \/ \E c \in Conn : TimeoutOne(c)
  \/ \E r \in BOOLEAN : EvWait(r)
  \/ \E c \in Conn \cup {Dns} : Dispatch(c)
  \/ StartJobs \/ RunJob \/ SkipJob \/ Return \/ EndJobs

HandlesIn == ReadSome \/ ReadFull \/ ReadFails

HandlesRequest ==
  \/ ParseFails \/ ParseDenied \/ ParseDone \/ UsePeer \/ ConnectFails
  \/ \E x \in BOOLEAN : ParseHead(x) \/ ParseBody(x)
  \/ \E b \in Backends : CreatePeerByName(b) \/ QueryFails(b) \/ \E how \in {"open", "connecting"} : CreatePeer(b, how)

HandlesOut ==
  \/ OutRefused \/ WriteFails
  \/ \E k \in 0..(2 * Limit) : WriteSome(k)
  \/ \E room \in BOOLEAN : WriteLast(room) \/ WriteAll(room)
  \/ \E w \in Conn : Wake(w)

HandlesDns ==
  \/ DnsSend \/ DnsReadDone
  \/ \E b \in Backends : DnsNotFound(b) \/ \E how \in {"open", "connecting"} : DnsFound(b, how)

Handler ==
  \/ HandlePeerClose \/ HandleThisClose \/ HandleErr
  \/ HandlesIn \/ HandlesRequest \/ BackendForwards \/ BackendForwardFails
  \/ HandlesOut \/ HandlesDns

Timer == \E S \in SUBSET Conn : TimerFires(S)

Next == Network \/ Timer \/ MainLoop \/ Handler

Spec == Init /\ [][Next]_vars

\* The thread goes on: handlers return, and epoll_wait returns at once when
\* something is ready or after its timeout.
LoopSpec == Spec /\ WF_vars(MainLoop \/ Handler)

\* A connection that is closing, or a backend without a client, can exchange
\* only what is in its buffers and then is idle: time_handle catches it.
IdleTimeout(c) ==
  /\ \/ status[c] \in {"PEERCLOSED", "CLOSING_WRITE", "CLOSED"}
     \/ c \in Backends /\ peer[c] = None
  /\ TimerFires({c})

FairSpec == LoopSpec /\ \A c \in Conn : SF_vars(IdleTimeout(c))

-----------------------------------------------------------------------------
(* Properties.                                                              *)

\* A job that the loop has still to run, not the one it is running.
StillToRun(i) == ~jobs[i].deld /\ ~(i = 1 /\ phase = "jobs" /\ self # None)

\* The running handler, or a job that is still to run, has event e for c.
Due(c, e) ==
  \/ self = c /\ e \in ev
  \/ \E i \in DOMAIN jobs : StillToRun(i) /\ jobs[i].conn = c /\ e \in jobs[i].events

\* No pointer the loop or a handler will follow leads to freed memory: jobs,
\* events of the batch (fdevents.c:178 reads conn->fd), the running handler,
\* wait queues; a peer pointer may dangle only while the CLOSE event of its
\* holder is due, which does not read it.
NoDanglingUse ==
  /\ \A i \in DOMAIN jobs : StillToRun(i) /\ jobs[i].conn \in Conn => Live(jobs[i].conn)
  /\ \A c \in Conn : batch[c] # {} => Live(c)
  /\ self \in Conn => Live(self) \/ ev = {}
  /\ \A c \in Conn : waitOn[c] # None => Live(c) /\ Live(waitOn[c])
  /\ \A c \in Conn : peer[c] # None => Live(peer[c]) \/ Due(c, "CLOSE")

\* Data never crosses from one user to another: a backend and a client that
\* are linked were linked when the backend was created, also when addresses
\* are reused and DNS answers come late.
NoCrossTalk ==
  /\ \A b \in Backends : peer[b] # None => owner[b] = peer[b] \/ Due(b, "CLOSE")
  /\ \A c \in Clients : peer[c] # None => owner[peer[c]] = c \/ Due(c, "CLOSE")

\* Links are mutual, except from a connection that is about to be freed.
PeersAgree ==
  \A c \in Conn : peer[c] # None => peer[peer[c]] = c \/ Due(c, "CLOSE")

\* chunk_io_read takes FIONREAD = 0 for the end of the stream: a working
\* connection must never be handed an IN event without data or an end.
InMeansData ==
  self \in Conn /\ DoesIn /\ status[self] = "WORKING" /\ sysin[self] = 0
    => sock[self] \in {"eof", "reset"}

\* A working connection waits for its peer only, and only while the peer has
\* data to write or is about to wake it; or it is full with the head of one
\* request (forward.c: "todo: verify max req").
NoMissedWake ==
  \A w \in Conn : status[w] = "WORKING" /\ waitOn[w] # None =>
    /\ peer[w] = waitOn[w]
    /\ \/ wbuf[waitOn[w]] > 0
       \/ self = waitOn[w] /\ "WAKE" \in ev
       \/ rbuf[w] >= 2 * Limit

\* No edge is missed: when the loop waits, a working connection with input
\* is on epoll's ready list, or waits for its peer, or is full with the head
\* of one request before it has a peer.
NoStuckInput ==
  \A c \in Conn : Quiet /\ jobs = <<>> /\ status[c] = "WORKING" /\ sysin[c] > 0 =>
    \/ "IN" \in lsn[c] /\ armed[c]
    \/ waitOn[c] # None
    \/ peer[c] = None /\ rbuf[c] >= Limit

\* The same for output: data that is left in a writebuf has its OUT event.
NoStuckData ==
  \A c \in Conn :
    /\ Quiet /\ jobs = <<>> /\ sock[c] # "reset"
    /\ status[c] \in {"WORKING", "CLOSING_WRITE"} /\ wbuf[c] > 0
    => "OUT" \in lsn[c] /\ (canwrite[c] => armed[c])

\* Flow control bounds the memory of a connection, whatever the two sides
\* send: two limits, and the error page on top (conn_io.c:47-49).
BoundedBuffers ==
  \A c \in Conn : rbuf[c] <= 2 * Limit /\ wbuf[c] <= 2 * Limit + 1

\* A connection that was signalled to close gets its CLOSE event.
CloseIsDue ==
  \A c \in Conn : status[c] = "CLOSED" => Due(c, "CLOSE")

\* A connection whose peer has gone gets its event, too.
PeerCloseIsDue ==
  \A c \in Conn : status[c] = "PEERCLOSED" => Due(c, "PEERCLOSE") \/ Due(c, "CLOSE")

\* A client whose peer has gone is closed with data unsent only by the
\* timeout, by a reset, or by input that it handles before its PEERCLOSE job.
FlushBeforeClose ==
  [][\A c \in Clients :
       status[c] \in {"PEERCLOSED", "CLOSING_WRITE"} /\ status'[c] = "CLOSED" /\ wbuf'[c] > 0
         => \/ phase = "timer" \/ sock[c] = "reset"
            \/ status[c] = "PEERCLOSED" /\ "IN" \in ev]_vars

\* Every connection that began to close is freed in the end.
ClosingEnds ==
  \A c \in Conn : status[c] \in {"PEERCLOSED", "CLOSING_WRITE", "CLOSED"} ~> ~Live(c)
=============================================================================
