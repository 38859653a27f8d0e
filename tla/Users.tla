-------------------------------- MODULE Users --------------------------------
(***************************************************************************)
(* Who is behind a client connection of the frontend, and what he may do.   *)
(* Gateways tell who logs in and out at which address (user_entry.c); the   *)
(* user's node is found from the address in a tree (iprbtree.c) and keeps a *)
(* list of his addresses of its own (url_policy.c); the policy server sends *)
(* each user's policy, asked or unasked, and may forbid him                 *)
(* (msg_policy.c, conn_policy.c).  A request is judged by the policy of the *)
(* node in the tree.                                                        *)
(*                                                                          *)
(* The key of an address is its IP; behind a gateway, whose connections all *)
(* come from one IP, it is the port.  A policy is only known or not.        *)
(***************************************************************************)
EXTENDS Naturals, Queues, FiniteSets

CONSTANTS Sn,          \* serial numbers of users' certificates
          NoUser,
          StartOf,     \* pairs: the first number is a beginning of the second
          Ip, Port,    \* keys of the two kinds
          Client,      \* client connections at any time
          AddrOf,      \* where each comes from: [ip, port]
          Gateway,     \* IPs gateways connect from
          Reported,    \* keys the gateways report
          MaxList      \* bound: length of a node's list of addresses

Key == Ip \cup Port

ASSUME UsersAssumption ==
  /\ NoUser \notin Sn
  /\ StartOf \subseteq Sn \X Sn
  /\ Ip \cap Port = {}
  /\ AddrOf \in [Client -> [ip : Ip, port : Port]]
  /\ Gateway \subseteq Ip
  /\ Reported \subseteq Key
  /\ MaxList \in Nat

VARIABLES
  tree,       \* IpBiTree: the user of a key
  conns,      \* policy_node.conns: the keys of a user
  forbidden,  \* users with isforbidden
  policy,     \* users with a whitelist or a blacklist
  gws,        \* IPs in gw_connhead
  open,       \* clients in connhead whose close is not due
  link,       \* plcy_conn: "null", "up" or "closing"
  pending,    \* users asked for on it and not answered yet
  fate,       \* a wrong access to memory ends the model
  dropped,    \* ghost: keys whose user was forbidden since he logged in
  misled,     \* ghost: <<user, key>> where a logout at his key named another;
              \* and the key is in his list since
  owner,      \* history: who logged in last at a key and has not himself
              \* logged out there
  evicted,    \* history: keys where a logout has named another than the owner
              \* since he logged in
  served,     \* history: who an open client was first judged as at its IP, until
              \* he logs out there
  astray      \* history: clients of served where a logout named another

usersVars == <<tree, conns, policy, forbidden>>
historyVars == <<owner, evicted, served, astray>>
ghostVars == <<dropped, misled, historyVars>>
vars == <<usersVars, gws, open, link, pending, fate, ghostVars>>

UsersTypeOK ==
  /\ tree \in [Key -> Sn \cup {NoUser}]
  /\ conns \in [Sn -> Seq(Key)]
  /\ forbidden \subseteq policy /\ policy \subseteq Sn
  /\ gws \subseteq Gateway
  /\ open \subseteq Client
  /\ link \in {"null", "up", "closing"}
  /\ pending \subseteq Sn /\ (link = "null" => pending = {})
  /\ fate \in {"running", "use_after_free"}
  /\ dropped \subseteq Key
  /\ misled \subseteq Sn \X Key
  /\ owner \in [Key -> Sn \cup {NoUser}]
  /\ evicted \subseteq Key
  /\ served \in [Client -> Sn \cup {NoUser}]
  /\ astray \subseteq Client

Init ==
  /\ tree = [k \in Key |-> NoUser]
  /\ conns = [s \in Sn |-> <<>>]
  /\ forbidden = {} /\ policy = {}
  /\ gws = {} /\ open = {}
  /\ link \in {"null", "up"}
  /\ pending = {}
  /\ fate = "running"
  /\ dropped = {} /\ misled = {}
  /\ owner = [k \in Key |-> NoUser] /\ evicted = {}
  /\ served = [c \in Client |-> NoUser] /\ astray = {}

-----------------------------------------------------------------------------
\* policy_node_find_from_rbtree_byconn with gateway_ipcmp: the key of a
\* client's address depends on which gateways are connected now.
KeyOf(c) == IF AddrOf[c].ip \in gws THEN AddrOf[c].port ELSE AddrOf[c].ip

Places(s, k) == {i \in DOMAIN conns[s] : conns[s][i] = k}

\* policy_node_add_conn: the test for a key that is there already does not
\* reach the last element.
AddConn(q, k) ==
  IF \E i \in 1..(Len(q) - 1) : q[i] = k THEN q ELSE Append(q, k)

\* policy_node_remove_conn of a list q: when the key is not at the head, the
\* element is freed and its next read.
RemovedConn(q, k) ==
  LET i == CHOOSE j \in DOMAIN q : q[j] = k /\ \A h \in 1..(j - 1) : q[h] # k
  IN IF \E j \in DOMAIN q : q[j] = k THEN Without(q, i) ELSE q

ReadsFreed(q, k) == q # <<>> /\ q[1] # k /\ \E i \in DOMAIN q : q[i] = k

\* The freed element's next may read as NULL, which ends the loop, or not.
RemoveOutcome(q, k) ==
  IF ReadsFreed(q, k) THEN {"running", "use_after_free"} ELSE {"running"}

\* Pairs of m whose key is in the user's list after the step.
Listed(m) == {p \in m : Places(p[1], p[2])' # {}}

\* close_all_conns_same_ipport: of a port, the two bytes compared with the
\* port of a connection are the two that are zero: none is closed.
SamePort(keys) == {c \in Client : AddrOf[c].ip \in keys}

-----------------------------------------------------------------------------
\* The history of sessions: one at a key begins with a login there and ends
\* with the same user's logout, or with another's login, whatever the tree
\* says.  A client's begins with the first user there is at its IP.
SessionBegins(s, k) ==
  /\ owner' = [owner EXCEPT ![k] = s]
  /\ evicted' = evicted \ {k}
  /\ served' = [c \in Client |->
                  IF c \notin open' THEN NoUser
                  ELSE IF AddrOf[c].ip = k /\ served[c] = NoUser THEN tree'[k] ELSE served[c]]
  /\ astray' = astray \cap open'

SessionEnds(s, k) ==
  /\ owner' = [owner EXCEPT ![k] = IF @ = s THEN NoUser ELSE @]
  /\ evicted' = IF owner[k] \in {NoUser, s} THEN evicted \ {k} ELSE evicted \cup {k}
  /\ served' = [c \in Client |->
                  IF AddrOf[c].ip = k /\ s \in {owner[k], served[c]} THEN NoUser ELSE served[c]]
  /\ astray' = {c \in open : (AddrOf[c].ip = k \/ c \in astray) /\ served'[c] # NoUser}

OpensUnder(c, k) ==
  /\ served' = [served EXCEPT ![c] = tree[k]]
  /\ UNCHANGED <<owner, evicted, astray>>

\* What is left of it when clients are closed.
StillServed ==
  /\ served' = [c \in Client |-> IF c \in open' THEN served[c] ELSE NoUser]
  /\ astray' = astray \cap open'
  /\ UNCHANGED <<owner, evicted>>

-----------------------------------------------------------------------------
\* plcy_request_one: without plcy_conn it fails, which the caller logs; on a
\* connection that is closing the request is lost with it.
Request(s) == pending' = IF link = "null" THEN pending ELSE pending \cup {s}

\* policy_cache_userlogin, "already login": the number that came is compared
\* over its own length.
SameUser(k, s) == tree[k] # NoUser /\ (tree[k] = s \/ <<s, tree[k]>> \in StartOf)

\* Mutant: a user with an address has been asked for.
AskUnlessListed(u, s) ==
  IF u \in policy \/ conns[u] # <<>> THEN UNCHANGED pending ELSE Request(s)

\* The policy of s is asked for when the node u found for him has none.
Ask(u, s) == IF u \in policy THEN UNCHANGED pending ELSE Request(s)

LoginAgain(s, k) ==
  /\ SameUser(k, s)
  /\ Ask(tree[k], s)
  /\ UNCHANGED <<tree, conns, open, fate, dropped>>

\* Mutant: the key stays in the former user's list.
MovedConnsBoth(s, k) == [conns EXCEPT ![s] = AddConn(@, k)]

\* The lists after a login: the key leaves the former user's list.
MovedConns(s, k) ==
  IF tree[k] = NoUser THEN [conns EXCEPT ![s] = AddConn(@, k)]
  ELSE [conns EXCEPT ![tree[k]] = RemovedConn(@, k), ![s] = AddConn(@, k)]

\* Mutant: his connections are looked for in his list, as a forbid does.
OustedListed(k) ==
  IF tree[k] = NoUser THEN {}
  ELSE SamePort({k} \cap {conns[tree[k]][i] : i \in DOMAIN conns[tree[k]]})

\* The connections closed when another logs in where a user still is.
Ousted(k) == IF tree[k] = NoUser THEN {} ELSE SamePort({k})

\* A new user at the key.
LoginNew(s, k) ==
  /\ ~SameUser(k, s)
  /\ Len(conns[s]) < MaxList
  /\ tree' = [tree EXCEPT ![k] = s]
  /\ conns' = MovedConns(s, k)
  /\ open' = open \ Ousted(k)
  /\ fate' \in (IF tree[k] = NoUser THEN {"running"}
                ELSE RemoveOutcome(conns[tree[k]], k))
  /\ Ask(s, s)
  /\ dropped' = dropped \ {k}

Login(s, k) ==
  /\ gws # {}
  /\ LoginAgain(s, k) \/ LoginNew(s, k)
  /\ misled' = Listed(misled)
  /\ SessionBegins(s, k)
  /\ UNCHANGED <<forbidden, policy, gws, link>>

\* policy_cache_userlogout: the key leaves the tree whoever has it, and the
\* list of the user named; open connections stay.
Logout(s, k) ==
  /\ gws # {}
  /\ tree' = [tree EXCEPT ![k] = NoUser]
  /\ conns' = [conns EXCEPT ![s] = RemovedConn(@, k)]
  /\ fate' \in RemoveOutcome(conns[s], k)
  /\ dropped' = dropped \ {k}
  /\ misled' = Listed(IF tree[k] \in {NoUser, s} THEN misled
                      ELSE misled \cup {<<tree[k], k>>})
  /\ SessionEnds(s, k)
  /\ UNCHANGED <<forbidden, policy, gws, open, link, pending>>

-----------------------------------------------------------------------------
\* Mutant: policy_node_remove_all_conns comes first.
ForbidFirst(s) ==
  /\ conns' = [conns EXCEPT ![s] = <<>>]
  /\ UNCHANGED open

\* close_all_conns_forbidden and policy_node_remove_all_conns: the keys stay
\* in the tree.
Forbid(s) ==
  /\ open' = open \ SamePort({conns[s][i] : i \in DOMAIN conns[s]})
  /\ conns' = [conns EXCEPT ![s] = <<>>]

\* plcy_parse_plcy: the policy of s, forbidding him or not.
ParsePolicy(s, action) ==
  /\ link = "up"
  /\ policy' = policy \cup {s}
  /\ IF action = "forbid"
     THEN /\ forbidden' = forbidden \cup {s}
          /\ Forbid(s)
          /\ dropped' = dropped \cup {k \in Key : tree[k] = s}
     ELSE /\ forbidden' = forbidden \ {s}
          /\ UNCHANGED <<conns, open, dropped>>
  /\ misled' = Listed(misled)
  /\ StillServed
  /\ UNCHANGED <<tree, gws, link, fate>>

Action == {"forbid", "allow"}

\* The server's answer to a request; what it sends of its own accord.
Answer(s, action) ==
  s \in pending /\ ParsePolicy(s, action) /\ pending' = pending \ {s}
Push(s, action) == ParsePolicy(s, action) /\ UNCHANGED pending

rest == <<usersVars, gws, open, fate, ghostVars>>

\* The server goes away, or sends what cannot be parsed: conn_signal_close.
LinkLost == link = "up" /\ link' = "closing" /\ UNCHANGED <<pending, rest>>

\* Mutant: the requests are kept without a connection.
LinkCloseKeeps == link = "closing" /\ link' = "null" /\ UNCHANGED <<pending, rest>>

\* policy_conn_close.
LinkClose == link = "closing" /\ link' = "null" /\ pending' = {} /\ UNCHANGED rest

\* policy_check_alive, each second.
Alarm == link = "null" /\ link' = "up" /\ UNCHANGED <<pending, rest>>

-----------------------------------------------------------------------------
\* A gateway connects from ip, or its last connection from there is closed.
GatewayUp(ip) ==
  /\ ip \notin gws
  /\ gws' = gws \cup {ip}
  /\ UNCHANGED <<usersVars, open, link, pending, fate, ghostVars>>

GatewayDown(ip) ==
  /\ ip \in gws
  /\ gws' = gws \ {ip}
  /\ UNCHANGED <<usersVars, open, link, pending, fate, ghostVars>>

\* A client connects, or is closed for a reason of its own.
ClientOpen(c) ==
  /\ c \notin open
  /\ open' = open \cup {c}
  /\ OpensUnder(c, AddrOf[c].ip)
  /\ UNCHANGED <<usersVars, gws, link, pending, fate, dropped, misled>>

ClientClose(c) ==
  /\ c \in open
  /\ open' = open \ {c}
  /\ StillServed
  /\ UNCHANGED <<usersVars, gws, link, pending, fate, dropped, misled>>

Next ==
  /\ fate = "running"
  /\ \/ \E s \in Sn, k \in Reported : Login(s, k) \/ Logout(s, k)
     \/ \E s \in Sn, a \in Action : Answer(s, a) \/ Push(s, a)
     \/ LinkLost \/ LinkClose \/ Alarm
     \/ \E ip \in Gateway : GatewayUp(ip) \/ GatewayDown(ip)
     \/ \E c \in Client : ClientOpen(c) \/ ClientClose(c)

\* The loop runs its jobs and its timer, the server answers.
Fairness ==
  /\ WF_vars(LinkClose /\ fate = "running")
  /\ WF_vars(Alarm /\ fate = "running")
  /\ \A s \in Sn : WF_vars(fate = "running" /\ \E a \in Action : Answer(s, a))

Spec == Init /\ [][Next]_vars /\ Fairness

-----------------------------------------------------------------------------
\* User u is s, or s is taken for him: the number of s begins the one of u.
As(u, s) == u = s \/ <<s, u>> \in StartOf

\* A request is judged by the policy of whoever logged in last where the client
\* is and has not logged out, by nobody's if there is no such user; and no
\* connection is handed from one user to the next: who it was first judged as
\* it is judged as until he logs out, for the login of another closes it
\* (user_entry.c:37-38), also when a forbid has emptied his list.  The
\* exceptions are what the code does: a user whose number is a beginning of the
\* other's is taken for him (:26); a logout that names another takes the user
\* out of the tree, and leaves his connections to whoever logs in next (:91);
\* and behind a gateway no connection is closed (SamePort).
RightUser ==
  \A c \in open :
    LET k == KeyOf(c) IN
    /\ tree[k] # NoUser => As(tree[k], owner[k])
    /\ (tree[k] = NoUser /\ owner[k] # NoUser) => k \in evicted
    /\ (k \in Ip /\ served[c] # NoUser /\ c \notin astray) => tree[k] = served[c]

\* The tree and the nodes' own lists say the same, but for two cases: the
\* lists forget the keys of a user who is forbidden while he stays in the
\* tree, and a logout that names another leaves the key in the list of the
\* one who was there.
ListsAgree ==
  /\ \A k \in Key : (tree[k] # NoUser /\ k \notin dropped) => Places(tree[k], k) # {}
  /\ \A s \in Sn, k \in Key :
       (Places(s, k) # {} /\ tree[k] # s) => <<s, k>> \in misled

\* When the server forbids a user, none of his connections from an address of
\* his own stays open, unless he was forbidden there before: no later forbid
\* finds them.
ForbidCloses ==
  [][\A s \in Sn :
       (s \notin forbidden /\ s \in forbidden') =>
       (\A c \in open' :
         (KeyOf(c) \in Ip /\ tree[KeyOf(c)] = s) => KeyOf(c) \in dropped)]_vars

Enters(s) == \E k \in Reported : Login(s, k)

\* "will request at next login time" (user_entry.c:32,75): a request that was
\* lost with plcy_conn is made again when the user logs in again; once the
\* server stays, a user who keeps coming has his policy.
LoginBringsPolicy ==
  \A s \in {u \in Sn : \A t \in Sn : <<u, t>> \notin StartOf} :
    (<>[](link = "up") /\ []<><<Enters(s)>>_vars) => <>(s \in policy)
=============================================================================
