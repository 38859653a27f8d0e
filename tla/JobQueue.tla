------------------------------ MODULE JobQueue ------------------------------
(***************************************************************************)
(* The job phase of the main loop in server.c over the list of job.c, with  *)
(* arbitrary handlers: a handler may promise events to any connection that  *)
(* exists (job_addconn), may create connections, and may free the           *)
(* connection it runs for.  `owed' is what callers of job_addconn have been *)
(* promised (JOB_OK) and not yet seen: only the properties read it.         *)
(***************************************************************************)
EXTENDS Jobs

CONSTANTS Conn,     \* addresses of connection_t structures
          Service,  \* those of dns_conn, plcy_conn and audit_conn
          Event,    \* event bits of fdevents.h
          NoConn,   \* no handler is running
          MaxJobs   \* bound on the length of the list, to keep TLC finite

ASSUME JobAssumption ==
  /\ NoConn \notin Conn
  /\ Service \subseteq Conn
  /\ MaxJobs \in Nat

VARIABLES live,     \* connections that are allocated
          jobs,     \* job_head
          phase,    \* "events": epoll events; "jobs": the job loop
          cur,      \* index of the job the loop is at, 0 outside the loop
          self,     \* connection whose event_handle is running in the job loop
          owed,     \* promised and not yet delivered, per connection
          tail      \* those promised by the handler of the tail job to itself

vars == <<live, jobs, phase, cur, self, owed, tail>>

TypeOK ==
  /\ live \in SUBSET Conn
  /\ jobs \in Seq(Job(Conn, Event))
  /\ phase \in {"events", "jobs"}
  /\ cur \in Nat
  /\ self \in Conn \cup {NoConn}
  /\ owed \in [Conn -> SUBSET Event]
  /\ tail \in [Conn -> SUBSET Event]

Init ==
  /\ live = {}
  /\ jobs = <<>>
  /\ phase = "events"
  /\ cur = 0
  /\ self = NoConn
  /\ owed = [c \in Conn |-> {}]
  /\ tail = [c \in Conn |-> {}]

-----------------------------------------------------------------------------
\* Some handler runs: one of an epoll event, or that of the current job.
HandlerRuns == phase = "events" \/ self # NoConn

\* A handler allocates a connection; malloc may reuse a freed address.
NewConn(c) ==
  /\ HandlerRuns
  /\ c \notin live
  /\ live' = live \cup {c}
  /\ UNCHANGED <<jobs, phase, cur, self, owed, tail>>

\* A handler calls job_addconn(e, c); the call answers JOB_OK.
AddJob(e, c) ==
  /\ HandlerRuns
  /\ c \in live
  /\ Len(AddConn(jobs, {e}, c)) <= MaxJobs
  /\ jobs' = AddConn(jobs, {e}, c)
  /\ owed' = [owed EXCEPT ![c] = @ \cup {e}]
  /\ tail' = IF c = self /\ cur = Len(jobs)
             THEN [tail EXCEPT ![c] = @ \cup {e}] ELSE tail
  /\ UNCHANGED <<live, phase, cur, self>>

\* The loop enters the job list with job_getfirst.
StartJobs ==
  /\ phase = "events"
  /\ phase' = "jobs"
  /\ cur' = 1
  /\ UNCHANGED <<live, jobs, self, owed, tail>>

\* job->conn->event_handle( job->events, job->conn )
RunJob ==
  /\ phase = "jobs" /\ self = NoConn
  /\ cur <= Len(jobs) /\ ~jobs[cur].deld
  /\ self' = jobs[cur].conn
  /\ owed' = [owed EXCEPT ![self'] = @ \ jobs[cur].events]
  /\ tail' = [tail EXCEPT ![self'] = @ \ jobs[cur].events]
  /\ UNCHANGED <<live, jobs, phase, cur>>

\* A handler closes its own connection: conn_handle_thisclose,
\* rpc_handle_close and gateway_handle_close call job_delconn, then
\* connection_del frees the structure.  The handler ends.
CloseSelf ==
  /\ self \in live \ Service
  /\ jobs' = DelConn(jobs, self)
  /\ live' = live \ {self}
  /\ owed' = [owed EXCEPT ![self] = {}]
  /\ tail' = [tail EXCEPT ![self] = {}]
  /\ cur' = cur + 1
  /\ self' = NoConn
  /\ UNCHANGED phase

\* dns_conn_close, policy_conn_close and audit_conn_close free the structure
\* without job_delconn; only the current job is marked when the handler ends.
CloseService ==
  /\ self \in live \cap Service
  /\ jobs' = DelJob(jobs, cur)
  /\ live' = live \ {self}
  /\ owed' = [owed EXCEPT ![self] = {}]
  /\ tail' = [tail EXCEPT ![self] = {}]
  /\ cur' = cur + 1
  /\ self' = NoConn
  /\ UNCHANGED phase

\* Mutant: the job that was run is not marked.
ReturnJobUnmarked ==
  /\ self # NoConn
  /\ cur' = cur + 1
  /\ self' = NoConn
  /\ UNCHANGED <<live, jobs, phase, owed, tail>>

\* The handler returns: job_del( job ), job = job_getnext( job ).
ReturnJob ==
  /\ self # NoConn
  /\ jobs' = DelJob(jobs, cur)
  /\ cur' = cur + 1
  /\ self' = NoConn
  /\ UNCHANGED <<live, phase, owed, tail>>

\* job_isdel( job ): the loop steps over a marked job.
SkipJob ==
  /\ phase = "jobs" /\ self = NoConn
  /\ cur <= Len(jobs) /\ jobs[cur].deld
  /\ cur' = cur + 1
  /\ UNCHANGED <<live, jobs, phase, self, owed, tail>>

\* job_getnext found no further job: job_clear, next iteration.
ClearJobs ==
  /\ phase = "jobs" /\ self = NoConn
  /\ cur > Len(jobs)
  /\ jobs' = Clear(jobs)
  /\ phase' = "events"
  /\ cur' = 0
  /\ UNCHANGED <<live, self, owed, tail>>

Loop ==
  \/ StartJobs \/ RunJob \/ SkipJob \/ ClearJobs
  \/ CloseSelf \/ CloseService \/ ReturnJob

Next ==
  \/ \E c \in Conn : NewConn(c) \/ \E e \in Event : AddJob(e, c)
  \/ Loop

\* Every handler returns and the single thread of the program never stops
\* in the middle of an iteration.
Spec == Init /\ [][Next]_vars /\ WF_vars(Loop)

-----------------------------------------------------------------------------
\* Job i is still going to be run by the loop in its present form.
Pending(i) == ~jobs[i].deld /\ (i > cur \/ (i = cur /\ self = NoConn))

\* A job that the loop will run, or is running, belongs to a connection that
\* still exists, for every connection closed with job_delconn (the loop
\* dereferences job->conn unchecked, server.c:364-366).
JobsOfLiveConns ==
  /\ \A i \in DOMAIN jobs :
       ~jobs[i].deld /\ jobs[i].conn \notin Service => jobs[i].conn \in live
  /\ self \in Conn \ Service => self \in live

\* Everything before the loop's position is marked, so that job_clear leaves
\* the list empty and no iteration starts with left-over jobs.
PassedAreMarked ==
  /\ \A i \in DOMAIN jobs : i < cur => jobs[i].deld
  /\ phase = "jobs" => cur \in 1..(Len(jobs) + 1)
  /\ phase = "events" => self = NoConn /\ cur = 0
  /\ self # NoConn => cur \in DOMAIN jobs /\ jobs[cur].conn = self

\* An event promised by job_addconn is in a job that is still to run, unless
\* the handler of the tail job promised it to its own connection.
PromiseKept ==
  \A c \in Conn : \A e \in owed[c] \ tail[c] :
     \E i \in DOMAIN jobs : Pending(i) /\ jobs[i].conn = c /\ e \in jobs[i].events

\* Every promise other than the one of the tail job's handler to itself is
\* delivered or dropped with its connection, whatever the handlers add.
PromiseDelivered ==
  \A c \in Conn, e \in Event :
     (e \in owed[c] \ tail[c]) ~> (e \notin owed[c] \/ e \in tail[c])
=============================================================================
