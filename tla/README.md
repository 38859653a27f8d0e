# TLA+ models of urlserver

`src/src/proxy/bs/src` is a filtering HTTP proxy in C, in two roles chosen by the
configuration: the **frontend** (`mode_frontend`) sits next to the users, judges
each URL against the user's policy, adds an id head to the request and hands it
to one fixed backend program; the **backend** resolves the host of each request
through a separate DNS program and connects to it. The rest of the repository
(`src/src/old`, `src/src/proxy/proxy*`) holds earlier prototypes which the
program does not use. All paths below are relative to `src/src/proxy/bs/src`.

The program is one thread around an epoll loop. Nothing in it is preempted, and
still almost everything that is hard about it is concurrency: what a handler
does takes effect in another connection's handler, later in the same iteration
or many iterations later, with the network, the timer and other users in between.

## 1. Inventory

| Component | State | Operations | Interacts by |
|---|---|---|---|
| Job list (`job.c`) | list of (connection, events, deleted mark) | `job_addconn`, `job_delconn`, `job_del`, `job_clear` | raw `connection_t` pointers |
| Main loop (`server.c`, `fdevents.c`) | `evs_buf`, position in the job list | timer, `ev_wait`, dispatch, job phase | `conn->event_handle(events, conn)` |
| Client and backend connections (`conn_client.c`, `conn_backend.c`, `conn_peer.c`, `connection.c`) | status, peer, watched events, buffers, wait node | create, handle IN/OUT/ERR/PEERCLOSE/CLOSE, free | `peer` pointers, jobs |
| Flow control and I/O (`conn_io.c`, `waitconn.c`) | `used_size` against `limit`, wait queues | `chunk_io_read`, `chunk_io_write`, wait, wake | the peer's writebuf, edge-triggered epoll |
| Buffers (`buffer.c`, `chunk.c`) | lists of buffers with data/used/size | put, get, delete, split, merge, erase | moved from readbuf to the peer's writebuf |
| Forwarding (`forward.c`, `http_parse.c`) | `stat`, `parse_buf`, `parse_pos`, lengths | parse line and head, judge, create peer, move | readbuf, peer, DNS, policy |
| DNS queries (`conn_dns.c`, `dns_parse.c`) | `dns_conn`, `dns_conn_tree` of waiting backends by query key, half an answer in `dns_ctx` | query, answer, give up, lose and reconnect | wakes backends by their key, fills the cache |
| DNS cache (`dnscache.c`) | a queue by age and a tree of lists by hash, over the same entries | find, insert, expire | asked by `peer_create`, expired by the timer |
| Timer (`timehandle.c`) | `connhead`, `rpc_connhead`, `gw_connhead`, in the order of activity | close the silent, reconnect services, expire the cache | `conn_signal_thisclose`, jobs |
| Services (`conn_policy.c`, `conn_audit.c`, `conn_ipfilter.c`) | one connection each | connect, lose, reconnect | messages |
| Policy (`policy_cache.c`, `url_policy.c`, `user_entry.c`, `msg_policy.c`) | users by address in a tree, each user's own list of addresses, his policy | log in and out, ask for and receive a policy, forbid, judge | gateway, RPC and policy messages; closes clients |
| Gateways and RPC (`conn_gateway.c`, `gateway_interface.c`, `fd_rpc.c`) | own connection lists; the gateway parser's static state | cut the stream into messages | log users in and out |
| SSL, FTP | handshake, error pages | | the same close protocol |

What makes them correct, and what is hard about it:

* **Job list**: it is walked while handlers append to it and mark parts of it,
  and it holds pointers. No handler may run for a freed connection, and an
  event that was promised must be delivered.
* **Close protocol**: two linked connections, the timer, a host change and a
  late DNS answer may all start closing the pair, in any order. Links must be
  cut on both sides, each side must get its event, unsent data must be flushed
  first, and nothing may be freed while it is still named anywhere.
* **Flow control**: sockets are edge triggered and a read takes only what the
  limits allow. No input and no output may get stuck, and memory stays bounded.
* **Forwarding**: request boundaries fall anywhere in a list of buffers cut by
  arbitrary reads. Bytes must stay in order, and no request may pass before its
  head was judged, also behind a pipelined one.
* **Timer**: the walk stops at the first connection that is not silent, so the
  lists must stay in the order of the last event, and none may outlive its
  timeout.
* **DNS**: an answer meets a client that went away, a connection that was freed and
  whose address is in use again, or a DNS program that was restarted. A connection may
  be made only to what was answered for its own name, and none may wait for ever.
* **DNS cache**: an entry is in two lists at once; it must leave both.
* **Gateways**: messages are cut anywhere by reads, and the parser's state is
  shared by all gateways. No message may be lost, split or mixed with another.
* **Policy**: the same fact, who is where, is kept in the tree of addresses and
  in the users' lists, and changed by gateways, policy server and clients in any order.
  A client must be judged as the right user, and forbidding a user must
  close what he has open.

`PROJECT.json` lists each hazard at its line with the properties about it.

## 2. Modules

```
Jobs ──► JobQueue ──► MCJobQueue            RequestPipe ◄─(implements)─ Forward ──► MCForward
  │          └──────► JobQueue_proofs                                      └──► Forward_proofs
  ├────► ProxyLoop ─► MCProxyLoop
  │          └──────► ProxyLoop_proofs
  └────────────────────────┐
Queues ──► DnsCache ──► Names ──► MCNames   NameBook ◄─(implements)─ DnsCache
  │                        └──► Names_proofs (with those about DnsCache)
  ├──────► TimeQueue ─► Gateways ─► MCGateways
  │            └──────► TimeQueue_proofs ─► Gateways_proofs
  ├──────► Users ─────► MCUsers
  │            └──────► Users_proofs
  └──────► Queues_proofs (used by the proofs of the three)
```

**Jobs** holds the operations of `job.c` as operators on a sequence of records:
`AddConn` looks at the last job only, `DelConn` marks every job of a
connection, `Clear` really removes the marked ones.

**JobQueue** is the job phase of the loop (`server.c:361-371`) with *arbitrary*
handlers. While a handler runs it may create connections (`NewConn`; a freed
address may be reused), promise events (`AddJob`) and close its own connection,
with `job_delconn` (`CloseSelf`) or, as the service connections do, without it
(`CloseService`). `cur` is the loop's position; `self` the running handler.
`owed` and `tail` are ghosts: what was promised, and the part of it that the
handler of the list's last job promised to itself.

**ProxyLoop** puts the real handlers on top of Jobs.
* *Control.* A handler is a sequence of steps: `self` and `ev` are the
  connection and the event bits still to be treated, in the order of the code;
  `PARSE`, `CONNECT` and `WAKE` are the rest of a branch. Nothing else moves
  until the handler returns, as in the single thread.
* *Loop.* `phase` goes wait, timer, events, jobs. `batch` is `evs_buf`.
  The list in `jobs` begins at the loop's position, which
  `PassedAreMarked` of JobQueue justifies: what lies before is marked and dead.
* *epoll.* `armed` is the ready list: set when a watched condition appears and
  by `ev_modfd` on one that holds, cleared when it is reported.
* *Data.* `rbuf`, `wbuf`, `sysin` count units. One unit in a client's readbuf is a request, or a
  piece of its body. What the parser decides (bad request, denied URL, changed
  host, last piece of a body) is a choice.
* *Network.* Data, FIN, RST, completed connects and drained send buffers occur
  between any two handlers, also in the middle of a batch of events and in the
  job phase. A handler itself looks at a socket once to read and once to write.
* *DNS.* `dns` tells whether a backend has a query queued or sent. Answers come
  in any order; `connection_del` withdraws the query.

**Forward** is the frontend's request direction byte by byte: `chunk_io_read`
(`Read`, sizes rounded up to whole grains), the parse loop (`ParseAgain`,
`ParseLine`, `ParseHead`), `insert_id_head` (`InsertId`), the computation of the
end of a request over the buffers (`Scan`, `EndOfData`), the move with its split
(`Move`), and `chunk_io_write` (`Write`, stopping in the middle of a buffer).
`rUsed` and `wUsed` follow each addition to and subtraction from `used_size` as
written, `buffer_mused` here and `used` there. Client bytes are numbered, bytes
of inserted heads are 0, so that order and place can be stated.
Where the line and the head end is given by the stream, not parsed.

**RequestPipe** is the abstract specification of forwarding: bytes are received, requests are
judged once their head was received, and what is sent never exceeds the end of
the last judged request. Forward implements it (`ImplementsPipe`, a refinement
mapping over `got`, `stat`, `req` and `wire`).

**Queues** has the two operations of `queue.h` that matter: take out, move to the tail.

**DnsCache** is `dnscache.c`: `queue` in the order of arrival, `nodes` and `bucket` the
tree of hashes with the list of names in each node. The walk of
`dnscache_timeout` goes from the newest entry and stops at the first that has not
expired. Ages instead of times, since the code only compares differences with
the timeout.

**NameBook** is what the cache promises: a map from names to the address learnt
last, forgotten all at once or not at all. DnsCache implements it (`IsABook`). That
expiry is all or nothing is what the direction of the walk amounts to: as long as new
names are learnt, an old address is used however old it is.

**Names** puts DnsCache and Jobs together with `dns_conn`: `LookupHit` and
`LookupMiss` are `peer_create`, `key`/`host` the node of a waiting connection in
`dns_conn_tree`, `wbuf`, `asked`, `net`, `rbuf` the way of a query and of its answer, two
words that arrive in any pieces (`tmp` is `dns_ctx`). The DNS program may go away at any time
(`ProgramGone`), what it had read is forgotten, the timer connects again (`TimerEnd`).
`fate` ends the model where the code leaves defined behaviour: `dns_send_query` on the NULL
`dns_conn`, a job of a freed `dns_conn` (`DnsJobDangling`), half an answer kept over
a reconnect, which shifts every answer from then on.

**TimeQueue** is one of the three lists of connections, chosen at the start, with the walk of
`time_handle` (`Tick`); the lists share nothing. Handlers move their connection to the tail
when it receives or sends, and may signal its close at their end.

**Gateways** is TimeQueue with the reading of gateways: `GwIn` reads into one or two buffers,
then `AnalyseHeader`, `ReadData`, `Deal` and `NotEnough` are the turns of
`try_read_rbuffer` with its static `BufferState` and observer. A byte is a
connection and a place, so that a message can be compared with what was sent.

**Users** is who is behind a client: `tree` (`IpBiTree`), `conns` (each node's own list of
addresses), `policy`, `forbidden`, and the connection to the policy server (`link`,
`pending`). `Login` and `Logout` are what a gateway's messages do, `Answer` and `Push` what
the policy server sends. The key of an address depends on which gateways are connected
(`KeyOf`). The other variables are for the properties: `dropped` and `misled` name the two cases in which tree
and lists may differ; `owner`, `evicted`, `served` and `astray` are the history of sessions (`SessionBegins`, `SessionEnds`,
`OpensUnder`). A session ends with the logout of the user whose it is, whatever the code does to the tree: a logout that
names another leaves `owner` as it was and marks the key (`evicted`) and the clients there (`astray`).

**MC...** modules give the constants their values. An operator
whose comment begins with "Mutant:" is a wrong version of the one that
follows it, kept to show that a property notices; no specification uses it.

## 3. Runs

| Run | Shows | Bounds |
|---|---|---|
| `jobqueue` | promises are kept and delivered, the list is empty between iterations, no job of a freed connection is run | 2 connections and 1 service, 2 events, `MaxJobs` 3 |
| `frontend` | no dangling use, no spurious close on an empty socket, no lost wake-up, no stuck input, bounded buffers, CLOSE delivered, flush before close | 1 client, 1 backend, `Limit` 1, `SysCap` 2, `MaxMoves` 7 |
| `backend` | the same pointers with host changes and DNS; links are mutual, no data crosses, PEERCLOSE is delivered | 1 client, 2 backends (symmetric), `Limit` 1, `SysCap` 1, `MaxMoves` 5 |
| `closing_ends` | every connection that began to close is freed | 1 client, 2 backends, `MaxMoves` 3 |
| `lost_close` | **violated**: a CLOSE is lost (below) | as `backend`, `MaxMoves` 3 |
| `stuck_data` | **violated**: unsent data without an OUT event | 1 client, 1 backend, `SysCap` 1 |
| `forward` | order and place of every byte, alignment, accounting of writebuf, memory bound, the refinement | up to 3 pipelined requests, `Limit` 4, `Grain` 2, `Iov` 2, `IdLen` 1 |
| `names` | a waiting connection is indexed until it is woken or freed, connects only to what was answered for its name; the cache's two indexes agree, it is a NameBook; no lookup hangs | 2 connections, 2 names in one bucket, `KeyMax` 2, `CacheTimeout` 1, `ConnTimeout` 1, `MaxFlight` 2, `MaxJobs` 2 (1.2 million states) |
| `gateways` | lists stay sorted, silent connections are closed; messages are whole and in order, nothing is left waiting | 3 connections, header of 2 bytes (5 in the code), messages ending at 3, 7, 10 and at 4, timeout 2 (4.3 million states) |
| `users` | a client is judged as the user whose session it is and is not handed to the next one, tree and lists agree, forbidding closes, a lost request for a policy is made again | 2 users, the number of one a beginning of the other's, one address, one gateway with a port, 2 clients, `MaxList` 2 (1.0 million states) |
| `forward_leak` | **violated**: `used_size` of an empty readbuf | as `forward` |
| `forward_split_line` | **violated**: a request line in two reads | a line of 2 bytes |

Why these bounds suffice. *jobqueue*: three jobs are enough for the last, a
running and a passed job to be of one connection or of two, before, at and
behind the loop's position; the safety properties are proved for any bound.
*ProxyLoop*: `Limit = 1` makes every buffer full after one unit, so that every
read meets the limit and both directions block, and a free address is reused
as soon as a client comes back. `MaxMoves` bounds the moves of the remote sides
(not the program's steps, new clients or timeouts): 7 let a request go out, a response
come back, both buffers fill and a side close or reset; two backends are what a
host change with an old and a new backend needs. Symmetry is used in safety
runs only, over backend addresses, which the code treats alike. *Forward*: with
buffers of two bytes every request boundary falls into and onto the edge of buffers, heads
and bodies span reads and writes stop inside buffers. Streams end, so the system
stops there: `CHECK_DEADLOCK FALSE`. In
`MCForward`, `ShortLines` have request lines that one read always delivers
whole; `LongLine` has the other case, which is the finding.
*names*: two names of one hash share a node; two connections with two keys make the keys come round,
so that an answer can meet a freed and reused connection and a second query of the same name.
`LookupMiss` has the guard `NextKeyIsFree`: the code's keys wrap after 2^32 queries, the model's after
two, and no query waits that long. *gateways*: the messages are cut at every place, several reads end
between two handlers, and two gateways meet in the static state; what is proved holds for any
messages. *users*: one address and one port give both kinds of key; a number that begins another
number gives the comparison of `user_entry.c` its second case; two places in a list
hold a key at the head, which is removed safely, one behind it, which is not, and one twice, which the test in
`policy_node_add_conn` lets happen; the proofs hold for lists of any length. *names* and *users* also stop, with `CHECK_DEADLOCK FALSE`, where the
program reads freed memory or a NULL pointer, or misreads its input from then on (`fate`). The other
runs check deadlock.

## 4. Fairness and liveness

`JobQueue!Spec` has weak fairness of the loop: a handler returns and the thread
goes on. `PromiseDelivered` rests on it, and on nothing about the handlers.

`FairSpec` adds, per connection, strong fairness of the timer for a connection that is
closing or a backend without a client. `time_handle` closes what had no traffic
for `CONNECTION_TIMEOUT` seconds (`timehandle.c:110-122`); a closing connection
has only its finite buffers to exchange, and a backend without a client fails
at the next input, so both become idle. It is not assumed for working
connections. `ClosingEnds` then says that all of them are freed, the
lost CLOSE of section 5 included.

`Names!Spec` has weak fairness of the loop and of the jobs that are not modelled
(`LastOtherJob`: other connections' jobs come to an end), and strong fairness of
the timer, whose alarm comes each second. Nothing is assumed of the DNS program.
`LookupEnds` says that no connection waits for ever: it is answered, refused or timed out.

`Users!Spec` has weak fairness of the jobs (`LinkClose`), of the alarm that reconnects
(`policy_check_alive`), and of the policy server answering what it was asked on a connection that
stays. `LoginBringsPolicy` assumes further, in its statement, that the server stays at last and that the
user comes again: the code asks "at next login time" (`user_entry.c:32`).

## 5. Disagreements found

1. **A lost CLOSE** (`lost_close`). `job_addconn` merges into the last job even
   when the loop is running it, and the loop then marks that job. After a host
   change a backend with unsent data gets PEERCLOSE, becomes CLOSING_WRITE,
   refuses OUT (`conn_backend.c:82-92`) and signals its own close: that CLOSE is
   merged away. `closing_ends` shows that the timeout repairs it.
2. **Stuck output** (`stuck_data`). `waitconn_wake` restores the wait node's events
   (IN) and so drops the OUT interest of the woken connection.
3. **`used_size` drifts** (`forward_leak`). The split of a pipelined buffer
   advances `data`; `chunk_delbuffer` subtracts `used` (the line with
   `buffer_mused` is commented out).
4. **Reordered request line** (`forward_split_line`). `insert_id_head` puts the copy at the
   head of readbuf although the original was not the first buffer.

Other things the models do because the code does, about which no text of the repository says otherwise:

* `dnscache_timeout` walks from the newest entry, so the cache expires as a whole or not at all
  (`dnscache.c:206`); `NameBook` states it.
* `dns_conn` is freed without `job_delconn`: a query asked for between its close and the jobs leaves a
  job of freed memory (`DnsJobDangling`). While it is NULL, `dns_send_query` uses it (`dns_parse.c:211`).
  Half an answer stays in `dns_ctx` over a reconnect (`dns_parse.c:25`). A CLOSE of an RPC connection can be
  lost in a job like that of a backend.
* `policy_node_remove_conn` reads the element it has freed, and the loop goes on from there
  (`url_policy.c:268`); `plcy_parse_plcy` does so with `usrpcy->type` (`msg_policy.c:286`).
  `policy_node_add_conn` does not compare with the last element, so a key may be listed twice.
* A login is taken for one of the user already there when its number is a beginning of his
  (`user_entry.c:26`). A logout takes the key from whoever has it, while the named user's list loses it
  (`:91-95`): the user who was there has not logged out and is judged as nobody, and as his open
  connections stay open, the next login there takes them over. Both are exceptions in `RightUser`, which says
  that nothing else takes a user's place from him or hands his connections on.
* `close_all_conns_same_ipport` compares the two zero bytes of a port's key, so nothing of a user behind
  a gateway is closed; a second forbid finds nothing to close, for the first emptied the list
  while the tree keeps the user (`ForbidCloses` has both exceptions).
* `msg_policy.c:191` has an assignment where a comparison of the version is meant.

## 6. What is proved

Every safety invariant and every action property that a run checks, and the three refinements, are also
theorems, for every value of the constants that the named assumption of the module allows (`CloseIsDue` for the
frontend, those of Forward under a hypothesis explained there). `PROJECT.json` lists them. What follows says along which invariants.

`JobQueue_proofs` proves with TLAPS, for any sets of connections, services and events and
any bound on the list, under `JobAssumption` alone (`NoConn` is not a connection,
services are connections, `MaxJobs` is a natural number):

* `JobListWellFormed`: `Spec => [](TypeOK /\ PassedAreMarked)`. The conjunction
  (`WellFormed`) is the inductive invariant. Neither half is inductive alone:
  marking `jobs[cur]` keeps the type only if `cur` is in the list, and that
  `cur` is in the list whenever a handler runs needs `self` to be the
  connection of `jobs[cur]`, which is kept only because the list never shrinks
  while it is walked. The lemmas `AddConnShape`, `DelConnShape`, `DelJobShape`
  and `ClearEmpties` say what the operations of `job.c` do to a list.
* `NoHandlerOfFreedConn`: `Spec => []JobsOfLiveConns`, relative to `WellFormed`.
  A connection is freed only while its own handler runs, and `job_delconn` has then
  marked all its jobs; a job is added only for a connection that exists; at the
  end of an iteration no unmarked job is left to outlive its connection.
* `PromisesAreKept`: `Spec => []PromiseKept`, relative to `WellFormed`. The one
  exception is in the statement: what the handler of the last job promises to
  itself. Finding 1 is that exception in the real handlers.
* `JobTypesKept` is the first half of the first theorem by itself.

`Queues_proofs` has what `Without` and `ToTail` do to a list without repetitions; the proofs of the three modules
that keep lists cite it.

`Names_proofs` begins with the cache, for any names, hashes and timeout (`CacheAssumption`: names have hashes, ages are
numbers): `CacheInv` is `CacheTypeOK /\ CacheConsistent`. `IndexesAgree`: `CacheSpec => []CacheConsistent`. `CacheIsABook`:
`CacheSpec => IsABook`, the refinement; it needs `CacheConsistent`, since a lookup goes through the tree and
an expiry through the queue.

It goes on for any connections, names, addresses and number of keys (`NamesAssumption`: keys are not
addresses, `Dns` is not a waiting connection). `NamesInv` has four parts: `ConnOK` (who waits has a key of his own,
no freed connection has one), `CacheOK`, `QueryOK` (a query anywhere on its way bears the name its owner still waits for, or
nobody waits under its key) and `WordsOK` (the words in `rbuf` are paired). `RightAddress` is not inductive without the
last two: an answer is right because its query was, and because no word is taken for the other kind.
`AlwaysRightAddress`, `WaitersAlwaysIndexed`, `NamesTypeCorrect` and `CacheStaysConsistent` follow; `NamesUseCache` is the
composition (`Spec => CacheSpec`), from which `NamesKeepABook`.

`TimeQueue_proofs`, for any connections and timeouts above zero (`TimeAssumption`): `TimeInv` is `TimeTypeOK /\ Sorted /\
IdleIsClosed`; the walk reaches every silent connection because they stand first. `ListsStaySorted` and `SilentAreClosed`.

`Gateways_proofs`, for any gateways and messages longer than their header (`GatewaysAssumption`): `GatewaysKeepTime` is the
composition (`Spec => TimeSpec`), from which `GatewaysStaySorted` and `SilentGatewaysAreClosed`. `GwInv` says of the parser that at every
turn the bytes it has put aside (in `three_header_char` or `buf`) are those from the beginning of the current message to a place
p, and that the chunk, from `offset` on, holds those from p to the last one read, cut at increasing places (`Holds`, `Rest`).
A turn moves p; the lemmas `BytesFirst`, `BytesRest`, `BytesJoin` say how runs of bytes are cut and joined, `LengthInHeader` that a whole
header gives the length of its own message. When the handler returns, p is the last byte read (`AtRest`). From this
`MessagesAlwaysIntact`, `NothingEverWaits` and `GatewaysTypeCorrect`.

`Users_proofs`, for any users, addresses, gateways and lists (`UsersAssumption`): `UsersInv` adds to `UsersTypeOK` and `ListsAgree`
that each key of the tree is its owner's or a namesake's and that an owner who is not there was evicted by another's logout (`Owned`), that
an open client is at its IP judged as it was first (`StillHis`; neither depends on the gateways connected, as `RightUser` does), and that a key is
in a list twice only where a logout misled: without it, taking a key out of a list would not take it out.
`RightUserAlways`, `ListsAlwaysAgree`, `ForbidAlwaysCloses` (an action property) and `UsersTypeCorrect`.

`ProxyLoop_proofs`, for any clients and backends, any limit and any traffic (`ProxyAssumption`: the kinds of
connections are disjoint, the limits are above zero): `IInv` is the conjunction of five parts.

* `TypeOK`, and `LoopOK`: which phase goes with which events; that PEERCLOSE and CLOSE come from jobs and never
  from epoll; that a handler is at one stage at a time, and parses only for a working client.
* `References`: batch, wait queues and DNS queries name living connections, and freed memory is not watched and is empty.
* `Linked`, of three parts that need each other. `Alive`: jobs still to run are of living connections.
  `Told`: who lost its peer has its event. `Links`: a connection with a mutual link, or a working client,
  has no end under way; and a connection whose link is `Cut`, that is, points to one that does not point
  back, is `Doomed`: CLOSE is running; or it is the next job of the connection, in the job phase; or it comes before
  anything else once the other end has ended. This order is the argument for the dangling
  `peer` pointer: `conn_signal_thisclose` puts PEERCLOSE before CLOSE into the list, so that the other end, which may be freed
  by its PEERCLOSE, runs first, and the holder's next job reads nothing but CLOSE. It also needs that a
  job is only ever added at the end, merged only into the last one, and that a connection that closes
  takes its own jobs with it only (`AddConnAdds`, `DelConnDeletes`, `TailLeaves` and the lemmas after
  them, one for each promise a list makes).
* `Buffers`: a readbuf and the writebuf it is forwarded to hold two limits together, while they are linked. `BoundedBuffers`
  alone is not inductive: forwarding moves all of a readbuf into a writebuf.

The steps are sorted into a few kinds (`HandlerKinds`, `LoopKinds`): harmless ones, signals of a close, the free, a dropped or
a new peer, a refused query, and taking and leaving a job; `Linked` has a lemma for each. From `IInvAlways` follow
`TypeAlways`, `NothingDangles`, `LinksAgree`, `DataStaysApart`, `PeerIsTold` and `BuffersAreBounded`.

A second invariant, inductive relative to the first, is about the sockets: `Flow` is `Sockets /\ Turns /\ Waiting`.

* `Sockets`: what epoll reported fits the socket; a reset is on the ready list, reported or being treated; a socket that is not
  connected has no data; only a working connection wakes others.
* `Turns`: four things can lead a working connection to its next read, a place in a wait queue, an event in `evs_buf`, the
  IN bit of its running handler, and a job; it has at most one of them (`OneTurn`, at most one job included). When it has one
  there is something to read; when it has none (`Silent`) and there is something to read, it is armed, or full with one head. It watches IN exactly
  when it does not wait. `InMeansData` is not inductive alone: two turns would let the first one read what the second was given
  for, and the second would take FIONREAD = 0 for the end of the stream.
* `Waiting`: a working connection that waits does so for its peer, the link is mutual, and the peer has data to write or is
  about to wake it, or the own readbuf is full. Only a signal, a change of peer or a free can cut that link, and each of them takes one
  of the two out of the working state or finds nobody waiting. `Turns` needs it, as the free of a connection empties its wait queue.

From `FlowAlways` follow `InputMeansData`, `NoWakeIsMissed`, `NoInputIsStuck` and the action property `FlushesBeforeClose`
(`CutOffStep` goes through every step that can make a client CLOSED).

`FrontendCloseIsDue` is `Frontend => (Spec => []CloseIsDue)`. The hypothesis is needed: in the backend program the
property is finding 1. The invariant `Shuts` says why the frontend is spared. A CLOSE would be lost when it is merged into the job
whose handler is running; then this job is the last one and no PEERCLOSE was put behind it, so that the connection has no
peer. But in the frontend the last job of a connection without a peer is always its CLOSE (`LastClosesIn`): a peer is only ever
lost by a signal, which leaves the CLOSE of the other one at the end of the list, and jobs to read or write are of
connections that have a peer (`Pending`: who waits for a working connection is its peer).

`Forward_proofs`, for any streams of requests, limits, sizes of reads and writes and length of the id head (`ForwardAssumption`: lengths of
lines and heads, limits and grain are above zero). `IInv` is

* `Types`, and `Filled`: no buffer of readbuf is empty;
* `Places`: the parser stands in the last buffer, or at the end of the one before it;
* `Content`: readbuf holds the client's bytes from `Passed`, the place up to which they were moved to the peer, to the last one
  read; with the id head behind the request line while a head is treated (`HeadHere`);
* `Stored`: `wUsed` is the memory of writebuf, `rUsed` is not below the bytes in readbuf (it errs upwards only, finding 3), and both
  buffers together are within the two limits, the rounding of one read and the id heads. The bound needs the direction of that error;
* `Delivered`: what was sent, what is in writebuf and what is in readbuf are together the stream with its id heads.

The lemmas say how `Bytes`, the bytes of a list of buffers, goes through the operations: `SameHalves` (`buffer_split`), `MoveFacts`, `WriteFacts`,
`Reaches`, `HeadAndBody` and `RestOfBody` (where `Scan` finds the end of a request). Facts about sums over lists of any length come
from a least counterexample (`SetInduction`, from `WFMin`), since induction over data with an operator parameter is out of reach.
From the invariant follow `ForwardedIntact`, `SplitsAtRequests`, `WritebufAccounted`, `MemoryBounded`, `ForwardTypeCorrect`, and the refinement
`ForwardImplementsPipe`: what was moved belongs to requests that were judged (`PassedJudged`), and a write sends a piece of it (`SentGrows`).

These theorems have one hypothesis, `[]WholeLines`: no id head is inserted, or no read ended within a request line. It is not for
convenience: without it finding 4 violates `RequestsIntact`, and as `insert_id_head` then changes where the parser stands, `curlen` overruns
the length of the body and a later cut is by a negative number of bytes. `NoLineToCut` proves that the
hypothesis holds in every state when no id head is inserted, and for clients whose lines have one byte.

Left to TLC: liveness (`PromiseDelivered`, `ClosingEnds`, `LookupEnds`, `LoginBringsPolicy`), which the prover does not treat.
No module uses a RECURSIVE operator: positions are
recursive functions and sums are folds, which can be proved about.

## 7. Abstractions and what is not modelled

* Out-of-memory answers (`JOB_ERR`, NULL buffers, failed accept). Many callers
  ignore them; with them a CLOSE can be lost and only the timeout helps.
* `ERR` stands for EPOLLERR and EPOLLHUP. A failing `writev` returns and leaves
  the close to that event, as in the code. EINTR and the wait's timeout give
  an iteration without events: a stuttering step.
* A write that stops at `CONN_WRITE_CNTMAX` buffers is `WriteSome` with a send
  buffer that has room again at once (`Drain`).
* The head of a request that exceeds the limit stalls until the timeout
  (`forward.c:673`, `forward.c:704`, "todo: verify max req"): the exception in
  `NoStuckInput` and `NoMissedWake`.
* A client in PEERCLOSED that gets input before its PEERCLOSE job loses the
  rest of the response: the exception in `FlushBeforeClose`.
* `http_handle_forwarddata` does not reduce `bodyleft` by the body bytes behind
  the head before it scans further buffers; `NextRequestAligned` shows that no
  further buffer exists then.
* A policy is only known or not: `policy_judge`, the lists of URLs and their times, and what
  `policy_node_find_then_destory` does without memory are left out. Messages of gateways and the policy server
  are well formed; a policy server that sends others is `LinkLost`.
* A lookup fails, is answered or is not; what `dnscache_empty` does at the end of the program is left out.
* The build is the one `CMakeLists.txt` describes: `_USE_SWHASH` is set, `REQUEST_ALL_POLICY`,
  `ENABLE_IPFILTE_MANAGER` and `DEBUG_ALLOW_ALL_URL` are not.
* Not modelled: HTTPCONNECT and HANDSHAKE statuses and SSL (OpenSSL decides the
  steps), FTP, transparent mode, the backend's URL rewriting, RPC messages (`fdrw.c`), audit and IP filter
  messages, message formats, logs, configuration, license, card, iptables, the earlier prototypes. In the source,
  `url.conf` names `connections_timeout` where `readconf.c:118` reads
  `connection_timeout`; configuration is outside the models.

## 8. Plan

Done, in this order: Jobs and JobQueue (everything rests on the list), ProxyLoop (the
close protocol and flow control), RequestPipe and Forward, the proofs about JobQueue; Queues, NameBook,
DnsCache and Names (the DNS service), TimeQueue and Gateways (the timed lists and the parser), Users (policy);
the proofs about each of these, last those about the sockets of ProxyLoop and about Forward.

Left:
1. **Proofs**: of ProxyLoop, that unsent data has its OUT event when a connection was never woken from a wait (`NoStuckData` without
   finding 2); of Forward, what holds of a stream with lines that are cut.
2. **Forward in backend mode**: URL rewriting with `chunk_split_buffer` and its
   effect on `used_size`.
3. **RPC messages** (`fdrw.c`), read with a state per connection and not with a static one.
4. **SSL statuses**: HTTPCONNECT and HANDSHAKE as two more steps before WORKING.
5. **`policy_judge`**: which of a user's lists decides, by time.
