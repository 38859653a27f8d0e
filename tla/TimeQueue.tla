------------------------------ MODULE TimeQueue ------------------------------
(***************************************************************************)
(* How silent connections are found.  The frontend keeps three lists of     *)
(* connections: clients and backends (connhead), RPC (rpc_connhead) and     *)
(* gateways (gw_connhead).  A handler that receives or sends moves its      *)
(* connection to the tail, so that the timer may stop at the first that is  *)
(* not silent (connection.c, timehandle.c).  The lists share nothing: the   *)
(* model follows one of them, chosen at the start.                          *)
(*                                                                          *)
(* Times are kept as ages, which the code only compares with a timeout: an  *)
(* age stands still at the timeout of the list.                             *)
(***************************************************************************)
EXTENDS Queues

CONSTANTS Conn,      \* connection structures in the list at any time
          Timeout    \* seconds of silence each list allows

Lists == {"client", "rpc", "gateway"}

ASSUME TimeAssumption == Timeout \in [Lists -> Nat \ {0}]

VARIABLES list,      \* the list the model follows
          queue,     \* its queue
          status,    \* "FREE": no such connection; "CLOSED": its close is due
          rec, snd   \* age of time_lastrec and of time_lastsend

timeVars == <<list, queue, status, rec, snd>>

Age == 0..Timeout[list]

TimeTypeOK ==
  /\ list \in Lists
  /\ queue \in Seq(Conn)
  /\ \A i, j \in DOMAIN queue : queue[i] = queue[j] => i = j
  /\ status \in [Conn -> {"FREE", "WORKING", "CLOSED"}]
  /\ rec \in [Conn -> Age]
  /\ snd \in [Conn -> Age]
  /\ \A c \in Conn : status[c] # "FREE" <=> \E i \in DOMAIN queue : queue[i] = c

TimeInit ==
  /\ list \in Lists
  /\ queue = <<>>
  /\ status = [c \in Conn |-> "FREE"]
  /\ rec = [c \in Conn |-> 0]
  /\ snd = [c \in Conn |-> 0]

-----------------------------------------------------------------------------
Place(c) == CHOOSE i \in DOMAIN queue : queue[i] = c

\* Mutant: the queue stays as it is.
MoveNot(c) == queue' = queue

\* Mutant: queue_insert_head.
MoveToHead(c) == queue' = <<c>> \o Without(queue, Place(c))

\* conn_timeupdate.
MoveToTail(c) == queue' = ToTail(queue, Place(c), c)

\* connection_new and conn_add_queue, from the *_create and *_init functions.
Accept(c) ==
  /\ status[c] = "FREE"
  /\ status' = [status EXCEPT ![c] = "WORKING"]
  /\ rec' = [rec EXCEPT ![c] = 0]
  /\ snd' = [snd EXCEPT ![c] = 0]
  /\ queue' = Append(queue, c)
  /\ UNCHANGED list

\* A handler may still run between the signal of a close and the close: the
\* timer, or the peer of a client, signals it before the event is handled.
Handled(c) == status[c] # "FREE"

\* At its end the handler may signal the close: at the end of the input, when
\* read() or write() fails, when the parser refuses what came.
EndHandler(c) == status' \in {status, [status EXCEPT ![c] = "CLOSED"]}

\* FDEVENT_IN of a handler.
Received(c) ==
  /\ Handled(c)
  /\ rec' = [rec EXCEPT ![c] = 0]
  /\ MoveToTail(c)
  /\ EndHandler(c)
  /\ UNCHANGED <<list, snd>>

\* FDEVENT_OUT of a handler; nothing is written to a gateway.
Sent(c) ==
  /\ list # "gateway"
  /\ Handled(c)
  /\ snd' = [snd EXCEPT ![c] = 0]
  /\ MoveToTail(c)
  /\ EndHandler(c)
  /\ UNCHANGED <<list, rec>>

\* conn_signal_thisclose, rpc_signal_close, gateway_signal_close: on ERR, HUP,
\* or by the peer of a client.
SignalClose(c) ==
  /\ status[c] = "WORKING"
  /\ status' = [status EXCEPT ![c] = "CLOSED"]
  /\ UNCHANGED <<list, queue, rec, snd>>

\* Mutant: a freed connection stays in the list.
FreeInList(c) ==
  /\ status[c] = "CLOSED"
  /\ status' = [status EXCEPT ![c] = "FREE"]
  /\ UNCHANGED <<list, queue, rec, snd>>

\* The close handlers: conn_del_queue and connection_del.
Free(c) ==
  /\ status[c] = "CLOSED"
  /\ status' = [status EXCEPT ![c] = "FREE"]
  /\ queue' = Without(queue, Place(c))
  /\ UNCHANGED <<list, rec, snd>>

Older(a, d) == IF a + d <= Timeout[list] THEN a + d ELSE Timeout[list]

LastAge(r, s) == IF r < s THEN r ELSE s

\* What the timer compares with the timeout: the later of the two times for
\* clients and backends, the time of the last input for the others.
WalkAge(c) == IF list = "client" THEN LastAge(rec[c], snd[c]) ELSE rec[c]

\* The walk of time_handle closes what it passes, and stops at the first
\* connection that is not silent.
Passed(i) == \A j \in 1..i : WalkAge(queue[j]) >= Timeout[list]

\* The alarm: curtime moves on d seconds, then the list is walked.  No close
\* of a gateway is due then, the jobs of the previous turn of the loop have
\* all run; one of the others may have been lost in a job (job.c:141).
Tick(d) ==
  /\ list = "gateway" => \A c \in Conn : status[c] # "CLOSED"
  /\ rec' = [c \in Conn |-> Older(rec[c], d)]
  /\ snd' = [c \in Conn |-> Older(snd[c], d)]
  /\ UNCHANGED <<list, queue>>
  /\ status' = [c \in Conn |->
                  IF \E i \in DOMAIN queue : queue[i] = c /\ Passed(i)'
                  THEN "CLOSED" ELSE status[c]]

TimeNext ==
  \/ \E c \in Conn : Accept(c) \/ Received(c) \/ Sent(c) \/ SignalClose(c) \/ Free(c)
  \/ \E d \in 1..Timeout[list] : Tick(d)

TimeSpec == TimeInit /\ [][TimeNext]_timeVars

-----------------------------------------------------------------------------
Silence(c) == LastAge(rec[c], snd[c])

\* The list is in the order of the last event, the longest silent first: what
\* conn_timeupdate's comment says (connection.c:181) and what stopping the
\* walk at the first connection that is not silent (timehandle.c:118) needs.
Sorted ==
  \A i, j \in DOMAIN queue : i <= j => Silence(queue[i]) >= Silence(queue[j])

\* No connection outlives its timeout: when it has neither received nor sent
\* for so long, the walk has reached it and signalled its close.  The walk over
\* the RPC list tests the input alone, in an order that output disturbs.
IdleIsClosed ==
  \A i \in DOMAIN queue :
    Silence(queue[i]) >= Timeout[list] => status[queue[i]] = "CLOSED"
=============================================================================
