----------------------------- MODULE Users_proofs -----------------------------
(***************************************************************************)
(* Proof that a client is judged by the right user's policy and is not      *)
(* handed from one user to the next, that the tree of addresses and the     *)
(* users' own lists agree, each but for the named cases, and that forbidding *)
(* a user closes his connections; for any users, addresses, gateways and any *)
(* bound on the lists.                                                      *)
(***************************************************************************)
EXTENDS Users, Queues_proofs, WellFoundedInduction

USE UsersAssumption

In(q, x) == \E i \in DOMAIN q : q[i] = x
Twice(q, x) == \E i, j \in DOMAIN q : i # j /\ q[i] = x /\ q[j] = x

\* Who is at a key in the tree is who logged in last there, or stands for him;
\* where nobody is, that one has logged out, or another's logout took him out.
Owned(k) ==
  /\ tree[k] # NoUser => As(tree[k], owner[k])
  /\ (tree[k] = NoUser /\ owner[k] # NoUser) => k \in evicted

\* A client is at its IP still judged as the user it was first judged as.
StillHis(c) ==
  (c \in open /\ served[c] # NoUser /\ c \notin astray) => tree[AddrOf[c].ip] = served[c]

\* The inductive invariant.  ListsAgree is not inductive by itself: a key that
\* is in a list twice, which the test of policy_node_add_conn lets happen, is
\* still there when it is removed; it gets there only by a misleading logout.
UsersInv ==
  /\ UsersTypeOK
  /\ \A k \in Key : Owned(k)
  /\ \A c \in Client : StillHis(c)
  /\ ListsAgree
  /\ \A s \in Sn, k \in Key : Twice(conns[s], k) => <<s, k>> \in misled

-----------------------------------------------------------------------------
\* policy_node_add_conn: the key is in the list; it is there twice only if it
\* was there before.
LEMMA AddConnShape ==
  ASSUME NEW S, NEW q \in Seq(S), NEW k \in S
  PROVE  /\ AddConn(q, k) \in Seq(S)
         /\ \A x : In(AddConn(q, k), x) <=> In(q, x) \/ x = k
         /\ \A x : Twice(AddConn(q, k), x) => Twice(q, x) \/ (x = k /\ In(q, k))
<1>1. Len(q) \in Nat /\ DOMAIN q = 1..Len(q)
  OBVIOUS
<1>2. CASE \E i \in 1..(Len(q) - 1) : q[i] = k
  <2>1. AddConn(q, k) = q
    BY <1>2 DEF AddConn
  <2>2. In(q, k)
    BY <1>1, <1>2 DEF In
  <2> QED
    BY <2>1, <2>2
<1>3. CASE ~\E i \in 1..(Len(q) - 1) : q[i] = k
  <2> DEFINE r == Append(q, k)
  <2>1. AddConn(q, k) = r
    BY <1>3 DEF AddConn
  <2>2. /\ r \in Seq(S) /\ DOMAIN r = 1..(Len(q) + 1) /\ r[Len(q) + 1] = k
        /\ \A i \in DOMAIN q : i \in DOMAIN r /\ r[i] = q[i]
        /\ \A i \in DOMAIN r : i = Len(q) + 1 \/ i \in DOMAIN q
    BY <1>1
  <2> HIDE DEF r
  <2>3. \A x : In(r, x) <=> In(q, x) \/ x = k
    BY <1>1, <2>2 DEF In
  <2>4. ASSUME NEW x, Twice(r, x)
        PROVE  Twice(q, x) \/ (x = k /\ In(q, k))
    <3>1. PICK i \in DOMAIN r, j \in DOMAIN r : i # j /\ r[i] = x /\ r[j] = x
      BY <2>4 DEF Twice
    <3>2. CASE i \in DOMAIN q /\ j \in DOMAIN q
      BY <3>1, <3>2, <2>2 DEF Twice
    <3>3. CASE i = Len(q) + 1
      <4>1. x = k /\ j \in DOMAIN q /\ q[j] = k
        BY <3>1, <3>3, <2>2
      <4> QED
        BY <4>1 DEF In
    <3>4. CASE j = Len(q) + 1
      <4>1. x = k /\ i \in DOMAIN q /\ q[i] = k
        BY <3>1, <3>4, <2>2
      <4> QED
        BY <4>1 DEF In
    <3> QED
      BY <3>2, <3>3, <3>4, <2>2
  <2> QED
    BY <2>1, <2>2, <2>3, <2>4
<1> QED
  BY <1>2, <1>3

\* policy_node_remove_conn: the key is left only if it was there twice, the
\* others stay.
LEMMA RemovedConnShape ==
  ASSUME NEW S, NEW q \in Seq(S), NEW k
  PROVE  /\ RemovedConn(q, k) \in Seq(S)
         /\ \A x : x # k => (In(RemovedConn(q, k), x) <=> In(q, x))
         /\ In(RemovedConn(q, k), k) => Twice(q, k)
         /\ \A x : Twice(RemovedConn(q, k), x) => Twice(q, x)
<1> DEFINE First(j) == q[j] = k /\ \A h \in 1..(j - 1) : q[h] # k
           i == CHOOSE j \in DOMAIN q : First(j)
           r == Without(q, i)
           Old(l) == IF l < i THEN l ELSE l + 1
<1>0. Len(q) \in Nat /\ DOMAIN q = 1..Len(q)
  OBVIOUS
<1>1. CASE ~In(q, k)
  <2>1. RemovedConn(q, k) = q
    BY <1>1 DEF RemovedConn, In
  <2> QED
    BY <2>1, <1>1
<1>2. CASE In(q, k)
  <2>1. RemovedConn(q, k) = r
    BY <1>2 DEF RemovedConn, In
  <2>2. \E j \in DOMAIN q : First(j)
    <3> DEFINE P == {j \in DOMAIN q : q[j] = k}
    <3>1. P # {} /\ P \in SUBSET Nat
      BY <1>0, <1>2 DEF In
    <3> DEFINE Less == {ss \in Nat \X Nat : ss[1] < ss[2]}
    <3>2. IsWellFoundedOn(Less, Nat)
      BY NatLessThanWellFounded DEF OpToRel
    <3>3. \E j \in P : \A h \in P : <<h, j>> \notin Less
      <4> HIDE DEF P, Less
      <4> QED
        BY <3>1, <3>2, WFMin
    <3>4. PICK j \in P : \A h \in P : <<h, j>> \notin Less
      BY <3>3
    <3>5. \A h \in 1..(j - 1) : h \in DOMAIN q /\ <<h, j>> \in Less
      BY <1>0, <3>1
    <3> QED
      BY <3>4, <3>5
  <2>3. i \in DOMAIN q /\ q[i] = k
    BY <2>2
  <2> HIDE DEF i
  <2>4. /\ r \in Seq(S)
        /\ \A l \in DOMAIN r : Old(l) \in DOMAIN q /\ Old(l) # i /\ r[l] = q[Old(l)]
        /\ \A l, m \in DOMAIN r : l <= m <=> Old(l) <= Old(m)
        /\ \A j \in DOMAIN q : j # i => \E l \in DOMAIN r : Old(l) = j /\ r[l] = q[j]
    BY <2>3, WithoutShape, WithoutPlaces
  <2> HIDE DEF r
  <2>5. \A l \in DOMAIN r : l \in Nat
    BY <2>4
  <2>6. \A x : x # k => (In(r, x) <=> In(q, x))
    BY <2>3, <2>4 DEF In
  <2>7. In(r, k) => Twice(q, k)
    BY <2>3, <2>4 DEF In, Twice
  <2>8. ASSUME NEW x, Twice(r, x) PROVE Twice(q, x)
    <3>1. PICK l \in DOMAIN r, m \in DOMAIN r : l # m /\ r[l] = x /\ r[m] = x
      BY <2>8 DEF Twice
    <3>2. Old(l) # Old(m)
      BY <3>1, <2>4, <2>5, <2>3, <1>0
    <3>3. /\ Old(l) \in DOMAIN q /\ q[Old(l)] = x
          /\ Old(m) \in DOMAIN q /\ q[Old(m)] = x
      BY <3>1, <2>4
    <3> HIDE DEF Old
    <3> QED
      BY <3>2, <3>3 DEF Twice
  <2> QED
    BY <2>1, <2>4, <2>6, <2>7, <2>8
<1> QED
  BY <1>1, <1>2

-----------------------------------------------------------------------------
LEMMA PlacesAreIn ==
  /\ \A s, k : Places(s, k) # {} <=> In(conns[s], k)
  /\ \A s, k : Places(s, k)' # {} <=> In(conns'[s], k)
BY DEF Places, In

LEMMA TwiceIsIn == ASSUME NEW q, NEW x, Twice(q, x) PROVE In(q, x)
BY DEF Twice, In

\* ListsAgree in the words of the proof.
LEMMA ListsAgreeIn ==
  /\ ListsAgree <=>
       /\ \A k \in Key : (tree[k] # NoUser /\ k \notin dropped) => In(conns[tree[k]], k)
       /\ \A s \in Sn, k \in Key : (In(conns[s], k) /\ tree[k] # s) => <<s, k>> \in misled
  /\ ListsAgree' <=>
       /\ \A k \in Key : (tree'[k] # NoUser /\ k \notin dropped') => In(conns'[tree'[k]], k)
       /\ \A s \in Sn, k \in Key : (In(conns'[s], k) /\ tree'[k] # s) => <<s, k>> \in misled'
BY PlacesAreIn DEF ListsAgree

\* What a step keeps of misled.
LEMMA ListedKeeps ==
  ASSUME NEW m, NEW s \in Sn, NEW k \in Key, <<s, k>> \in m, In(conns'[s], k)
  PROVE  <<s, k>> \in Listed(m)
BY PlacesAreIn DEF Listed

LEMMA ListedIsLess ==
  ASSUME NEW m, m \subseteq Sn \X Key
  PROVE  Listed(m) \subseteq Sn \X Key
BY DEF Listed

\* The lists lose at most the key k of user t, and gain at most k for s.
ConnsStep(s, t, k) ==
  /\ conns' \in [Sn -> Seq(Key)]
  /\ \A u \in Sn, j \in Key :
       /\ In(conns'[u], j) => In(conns[u], j) \/ (u = s /\ j = k)
       /\ (In(conns[u], j) /\ ~(u = t /\ j = k)) => In(conns'[u], j)
       /\ Twice(conns'[u], j) => Twice(conns[u], j) \/ (u = s /\ j = k /\ In(conns[u], j))
       /\ (In(conns'[u], j) /\ u = t /\ j = k) => Twice(conns[u], j)

LEMMA MovedConnsStep ==
  ASSUME UsersTypeOK, NEW s \in Sn, NEW k \in Key, tree[k] # s,
         conns' = MovedConns(s, k)
  PROVE  ConnsStep(s, tree[k], k) /\ In(conns'[s], k)
<1> DEFINE t == tree[k]
<1>1. conns \in [Sn -> Seq(Key)] /\ t \in Sn \cup {NoUser}
  BY DEF UsersTypeOK
<1>2. /\ AddConn(conns[s], k) \in Seq(Key)
      /\ \A x : In(AddConn(conns[s], k), x) <=> In(conns[s], x) \/ x = k
      /\ \A x : Twice(AddConn(conns[s], k), x) => Twice(conns[s], x) \/ (x = k /\ In(conns[s], k))
  <2>1. conns[s] \in Seq(Key)
    BY <1>1
  <2> QED
    BY <2>1, AddConnShape
<1>3. CASE t = NoUser
  <2>1. conns' = [conns EXCEPT ![s] = AddConn(@, k)] /\ t \notin Sn
    BY <1>3 DEF MovedConns
  <2>2. /\ conns' \in [Sn -> Seq(Key)]
        /\ conns'[s] = AddConn(conns[s], k)
        /\ \A u \in Sn : u # s => conns'[u] = conns[u]
    BY <2>1, <1>1, <1>2
  <2> QED
    BY <2>1, <2>2, <1>2 DEF ConnsStep
<1>4. CASE t # NoUser
  <2>1. t \in Sn /\ t # s
    BY <1>1, <1>4
  <2>2. /\ conns' \in [Sn -> Seq(Key)]
        /\ conns'[s] = AddConn(conns[s], k)
        /\ conns'[t] = RemovedConn(conns[t], k)
        /\ \A u \in Sn : (u # s /\ u # t) => conns'[u] = conns[u]
    <3>1. conns' = [conns EXCEPT ![t] = RemovedConn(@, k), ![s] = AddConn(@, k)]
      BY <1>4 DEF MovedConns
    <3>2. conns[t] \in Seq(Key)
      BY <1>1, <2>1
    <3>3. RemovedConn(conns[t], k) \in Seq(Key)
      BY <3>2, RemovedConnShape
    <3> DEFINE cs == [conns EXCEPT ![t] = RemovedConn(conns[t], k)]
    <3>4. /\ cs \in [Sn -> Seq(Key)] /\ cs[t] = RemovedConn(conns[t], k)
          /\ \A u \in Sn : u # t => cs[u] = conns[u]
      BY <3>3, <2>1, <1>1
    <3>5. conns' = [cs EXCEPT ![s] = AddConn(cs[s], k)]
      BY <3>1
    <3> HIDE DEF cs
    <3>6. cs[s] = conns[s] /\ s \in Sn
      BY <3>4, <2>1, <1>1
    <3>7. AddConn(cs[s], k) \in Seq(Key)
      BY <3>6, <1>2
    <3>8. /\ conns' \in [Sn -> Seq(Key)] /\ conns'[s] = AddConn(cs[s], k)
          /\ \A u \in Sn : u # s => conns'[u] = cs[u]
      BY <3>4, <3>5, <3>6, <3>7
    <3> QED
      BY <3>4, <3>6, <3>8, <2>1
  <2>3. /\ \A x : x # k => (In(conns'[t], x) <=> In(conns[t], x))
        /\ In(conns'[t], k) => Twice(conns[t], k)
        /\ \A x : Twice(conns'[t], x) => Twice(conns[t], x)
    <3>1. conns[t] \in Seq(Key)
      BY <1>1, <2>1
    <3> QED
      BY <3>1, <2>2, RemovedConnShape
  <2>4. In(conns'[t], k) => In(conns[t], k)
    BY <2>3, TwiceIsIn
  <2> QED
    BY <2>1, <2>2, <2>3, <2>4, <1>2 DEF ConnsStep
<1> QED
  BY <1>3, <1>4

LEMMA RemovedConnsStep ==
  ASSUME UsersTypeOK, NEW s \in Sn, NEW k \in Key,
         conns' = [conns EXCEPT ![s] = RemovedConn(@, k)]
  PROVE  ConnsStep(NoUser, s, k)
<1>1. conns[s] \in Seq(Key) /\ conns \in [Sn -> Seq(Key)]
  BY DEF UsersTypeOK
<1>2. /\ RemovedConn(conns[s], k) \in Seq(Key)
      /\ \A x : x # k => (In(RemovedConn(conns[s], k), x) <=> In(conns[s], x))
      /\ In(RemovedConn(conns[s], k), k) => Twice(conns[s], k)
      /\ \A x : Twice(RemovedConn(conns[s], k), x) => Twice(conns[s], x)
  BY <1>1, RemovedConnShape
<1>3. /\ conns' \in [Sn -> Seq(Key)]
      /\ conns'[s] = RemovedConn(conns[s], k)
      /\ \A u \in Sn : u # s => conns'[u] = conns[u]
  BY <1>1, <1>2
<1>4. In(conns'[s], k) => In(conns[s], k)
  BY <1>2, <1>3, TwiceIsIn
<1> QED
  BY <1>2, <1>3, <1>4 DEF ConnsStep

-----------------------------------------------------------------------------
\* What the history keeps when clients are closed and the tree stays.
LEMMA StillServedStep ==
  ASSUME UsersTypeOK, \A c \in Client : StillHis(c), StillServed, tree' = tree
  PROVE  /\ served' \in [Client -> Sn \cup {NoUser}] /\ astray' \subseteq Client
         /\ UNCHANGED <<owner, evicted>>
         /\ open' \subseteq open => \A c \in Client : StillHis(c)'
<1>1. /\ served' \in [Client -> Sn \cup {NoUser}] /\ astray' = astray \cap open'
      /\ \A c \in Client : served'[c] = IF c \in open' THEN served[c] ELSE NoUser
      /\ UNCHANGED <<owner, evicted>>
  BY DEF StillServed, UsersTypeOK
<1> QED
  BY <1>1 DEF StillHis, UsersTypeOK

\* What a login keeps of it: s comes to k, and who was there is ousted.
LEMMA SessionBeginsStep ==
  ASSUME UsersTypeOK, \A c \in Client : StillHis(c),
         NEW s \in Sn, NEW k \in Key, SessionBegins(s, k),
         tree'[k] \in Sn, \A j \in Key : j # k => tree'[j] = tree[j],
         open' \subseteq open,
         \A c \in open' : (AddrOf[c].ip = k /\ tree[k] # NoUser) => tree'[k] = tree[k]
  PROVE  /\ owner' \in [Key -> Sn \cup {NoUser}] /\ evicted' \subseteq Key
         /\ served' \in [Client -> Sn \cup {NoUser}] /\ astray' \subseteq Client
         /\ owner'[k] = s /\ \A j \in Key : j # k => owner'[j] = owner[j]
         /\ evicted' = evicted \ {k}
         /\ \A c \in Client : StillHis(c)'
<1>1. /\ owner' \in [Key -> Sn \cup {NoUser}] /\ evicted' = evicted \ {k}
      /\ owner'[k] = s /\ \A j \in Key : j # k => owner'[j] = owner[j]
  BY DEF SessionBegins, UsersTypeOK
<1>2. /\ served' \in [Client -> Sn \cup {NoUser}] /\ astray' = astray \cap open'
      /\ \A c \in Client :
           served'[c] = IF c \notin open' THEN NoUser
                        ELSE IF AddrOf[c].ip = k /\ served[c] = NoUser THEN tree'[k] ELSE served[c]
  BY DEF SessionBegins, UsersTypeOK
<1>3. ASSUME NEW c \in Client, c \in open', served'[c] # NoUser, c \notin astray'
      PROVE  tree'[AddrOf[c].ip] = served'[c]
  <2>1. AddrOf[c].ip \in Key /\ c \in open /\ c \notin astray
    BY <1>2, <1>3 DEF Key
  <2>2. CASE served[c] = NoUser
    BY <2>2, <1>2, <1>3
  <2>3. CASE served[c] # NoUser
    <3>1. tree[AddrOf[c].ip] = served[c] /\ served'[c] = served[c]
      BY <2>1, <2>3, <1>2, <1>3 DEF StillHis
    <3> QED
      BY <3>1, <2>1, <2>3, <1>3
  <2> QED
    BY <2>2, <2>3
<1>4. astray' \subseteq Client /\ evicted' \subseteq Key
  BY <1>1, <1>2 DEF UsersTypeOK
<1> QED
  BY <1>1, <1>2, <1>3, <1>4 DEF StillHis

\* What a logout keeps of it, whoever it names.
LEMMA SessionEndsStep ==
  ASSUME UsersTypeOK, \A c \in Client : StillHis(c),
         NEW s \in Sn, NEW k \in Key, SessionEnds(s, k),
         \A j \in Key : j # k => tree'[j] = tree[j], open' = open
  PROVE  /\ owner' \in [Key -> Sn \cup {NoUser}] /\ evicted' \subseteq Key
         /\ served' \in [Client -> Sn \cup {NoUser}] /\ astray' \subseteq Client
         /\ owner'[k] # NoUser => k \in evicted'
         /\ \A j \in Key : j # k => owner'[j] = owner[j] /\ (j \in evicted' <=> j \in evicted)
         /\ \A c \in Client : StillHis(c)'
<1>1. /\ owner' \in [Key -> Sn \cup {NoUser}]
      /\ owner'[k] = IF owner[k] = s THEN NoUser ELSE owner[k]
      /\ \A j \in Key : j # k => owner'[j] = owner[j]
      /\ evicted' = IF owner[k] \in {NoUser, s} THEN evicted \ {k} ELSE evicted \cup {k}
  BY DEF SessionEnds, UsersTypeOK
<1>2. /\ served' \in [Client -> Sn \cup {NoUser}]
      /\ \A c \in Client : served'[c] \in {NoUser, served[c]}
      /\ astray' = {c \in open : (AddrOf[c].ip = k \/ c \in astray) /\ served'[c] # NoUser}
  BY DEF SessionEnds, UsersTypeOK
<1>3. ASSUME NEW c \in Client, c \in open', served'[c] # NoUser, c \notin astray'
      PROVE  tree'[AddrOf[c].ip] = served'[c]
  <2>1. c \in open /\ AddrOf[c].ip # k /\ c \notin astray /\ served'[c] = served[c]
    BY <1>2, <1>3
  <2>2. AddrOf[c].ip \in Key
    BY DEF Key
  <2> QED
    BY <2>1, <2>2, <1>3 DEF StillHis
<1>4. /\ astray' \subseteq Client /\ evicted' \subseteq Key
      /\ \A j \in Key : j # k => (j \in evicted' <=> j \in evicted)
  BY <1>1, <1>2 DEF UsersTypeOK
<1>5. owner'[k] # NoUser => k \in evicted'
  BY <1>1
<1> QED
  BY <1>1, <1>2, <1>3, <1>4, <1>5 DEF StillHis

\* A step that leaves the tree and the lists alone.
LEMMA SameLists ==
  ASSUME UsersInv, UsersTypeOK', UNCHANGED <<tree, conns, owner, evicted>>,
         \A c \in Client : StillHis(c)',
         dropped \subseteq dropped', misled' = misled \/ misled' = Listed(misled)
  PROVE  UsersInv'
<1>1. \A k \in Key : Owned(k)'
  BY DEF UsersInv, Owned
<1>2. \A s \in Sn, k \in Key : (<<s, k>> \in misled /\ In(conns'[s], k)) => <<s, k>> \in misled'
  BY ListedKeeps
<1>3. ListsAgree'
  BY <1>2, ListsAgreeIn DEF UsersInv
<1>4. \A s \in Sn, k \in Key : Twice(conns'[s], k) => <<s, k>> \in misled'
  BY <1>2, TwiceIsIn DEF UsersInv
<1> QED
  BY <1>1, <1>3, <1>4 DEF UsersInv

LEMMA LoginAgainStep ==
  ASSUME UsersInv, NEW s \in Sn, NEW k \in Reported, gws # {},
         LoginAgain(s, k), SessionBegins(s, k),
         misled' = Listed(misled), UNCHANGED <<forbidden, policy, gws, link>>
  PROVE  UsersInv'
<1>0. /\ k \in Key /\ UNCHANGED <<tree, open>>
      /\ tree[k] \in Sn /\ As(tree[k], s)
  BY DEF LoginAgain, SameUser, As, UsersInv, UsersTypeOK
<1>h. /\ owner' \in [Key -> Sn \cup {NoUser}] /\ evicted' \subseteq Key
      /\ served' \in [Client -> Sn \cup {NoUser}] /\ astray' \subseteq Client
      /\ owner'[k] = s /\ \A j \in Key : j # k => owner'[j] = owner[j]
      /\ evicted' = evicted \ {k}
      /\ \A c \in Client : StillHis(c)'
  BY <1>0, SessionBeginsStep DEF UsersInv
<1>1. UsersTypeOK'
  <2>1. pending' \subseteq Sn /\ (link = "null" => pending' = {})
    BY DEF LoginAgain, SameUser, Ask, Request, UsersInv, UsersTypeOK
  <2>2. misled' \subseteq Sn \X Key
    BY ListedIsLess DEF UsersInv, UsersTypeOK
  <2> QED
    BY <1>h, <2>1, <2>2 DEF LoginAgain, UsersInv, UsersTypeOK
<1>2. \A j \in Key : Owned(j)'
  BY <1>0, <1>h, UsersAssumption DEF UsersInv, Owned
<1>3. \A u \in Sn, j \in Key : (<<u, j>> \in misled /\ In(conns'[u], j)) => <<u, j>> \in misled'
  BY ListedKeeps
<1>4. ListsAgree'
  BY <1>3, ListsAgreeIn DEF UsersInv, LoginAgain
<1>5. \A u \in Sn, j \in Key : Twice(conns'[u], j) => <<u, j>> \in misled'
  BY <1>3, TwiceIsIn DEF UsersInv, LoginAgain
<1> QED
  BY <1>1, <1>2, <1>4, <1>5, <1>h DEF UsersInv

LEMMA LoginNewStep ==
  ASSUME UsersInv, NEW s \in Sn, NEW k \in Reported, gws # {},
         LoginNew(s, k), SessionBegins(s, k),
         misled' = Listed(misled), UNCHANGED <<forbidden, policy, gws, link>>
  PROVE  UsersInv'
<1> DEFINE t == tree[k]
<1>0. k \in Key /\ s # NoUser /\ t # s /\ t \in Sn \cup {NoUser}
  BY DEF LoginNew, SameUser, UsersInv, UsersTypeOK
<1>1. ConnsStep(s, t, k) /\ In(conns'[s], k)
  BY <1>0, MovedConnsStep DEF UsersInv, LoginNew
<1>h. /\ owner' \in [Key -> Sn \cup {NoUser}] /\ evicted' \subseteq Key
      /\ served' \in [Client -> Sn \cup {NoUser}] /\ astray' \subseteq Client
      /\ owner'[k] = s /\ \A j \in Key : j # k => owner'[j] = owner[j]
      /\ evicted' = evicted \ {k}
      /\ \A c \in Client : StillHis(c)'
  <2>1. tree'[k] = s /\ \A j \in Key : j # k => tree'[j] = tree[j]
    BY <1>0 DEF LoginNew, UsersInv, UsersTypeOK
  <2>2. open' \subseteq open
    BY DEF LoginNew
  <2>3. ASSUME NEW c \in open', AddrOf[c].ip = k, tree[k] # NoUser PROVE FALSE
    <3>1. c \in Client /\ c \notin SamePort({k})
      BY <2>3 DEF LoginNew, Ousted, UsersInv, UsersTypeOK
    <3> QED
      BY <3>1, <2>3 DEF SamePort
  <2>4. /\ UsersTypeOK /\ \A c \in Client : StillHis(c)
        /\ tree'[k] \in Sn
        /\ \A c \in open' : (AddrOf[c].ip = k /\ tree[k] # NoUser) => tree'[k] = tree[k]
    BY <2>1, <2>3 DEF UsersInv
  <2> QED
    BY <1>0, <2>1, <2>2, <2>4, SessionBeginsStep
<1>2. UsersTypeOK'
  <2>1. pending' \subseteq Sn /\ (link = "null" => pending' = {})
    BY DEF LoginNew, Ask, Request, UsersInv, UsersTypeOK
  <2>2. misled' \subseteq Sn \X Key
    BY ListedIsLess DEF UsersInv, UsersTypeOK
  <2>3. fate' \in {"running", "use_after_free"}
    BY DEF LoginNew, RemoveOutcome
  <2>4. open' \subseteq Client /\ dropped' \subseteq Key
    BY DEF LoginNew, UsersInv, UsersTypeOK
  <2>5. tree' \in [Key -> Sn \cup {NoUser}]
    BY <1>0 DEF LoginNew, UsersInv, UsersTypeOK
  <2> QED
    BY <1>1, <1>h, <2>1, <2>2, <2>3, <2>4, <2>5 DEF ConnsStep, UsersInv, UsersTypeOK
<1>3. tree'[k] = s /\ \A j \in Key : j # k => tree'[j] = tree[j]
  BY <1>0 DEF LoginNew, UsersInv, UsersTypeOK
<1>4. \A j \in Key : Owned(j)'
  BY <1>0, <1>3, <1>h DEF UsersInv, Owned, As
<1>5. \A u \in Sn, j \in Key : (<<u, j>> \in misled /\ In(conns'[u], j)) => <<u, j>> \in misled'
  BY ListedKeeps
<1>6. ASSUME NEW j \in Key, tree'[j] # NoUser, j \notin dropped'
      PROVE  In(conns'[tree'[j]], j)
  <2>1. CASE j = k
    BY <1>1, <1>3, <2>1
  <2>2. CASE j # k
    <3>1. tree[j] # NoUser /\ j \notin dropped /\ tree[j] \in Sn /\ tree'[j] = tree[j]
      BY <1>3, <1>6, <2>2 DEF LoginNew, UsersInv, UsersTypeOK
    <3>2. In(conns[tree[j]], j)
      BY <3>1, ListsAgreeIn DEF UsersInv
    <3> QED
      BY <3>1, <3>2, <1>1, <2>2 DEF ConnsStep
  <2> QED
    BY <2>1, <2>2
<1>7. ASSUME NEW u \in Sn, NEW j \in Key, In(conns'[u], j), tree'[j] # u
      PROVE  <<u, j>> \in misled'
  <2>1. In(conns[u], j)
    BY <1>1, <1>3, <1>7 DEF ConnsStep
  <2>2. CASE tree[j] # u
    BY <2>1, <2>2, <1>5, <1>7, ListsAgreeIn DEF UsersInv
  <2>3. CASE tree[j] = u
    <3>1. j = k /\ u = t
      BY <2>3, <1>3, <1>7
    <3>2. Twice(conns[u], j)
      BY <3>1, <1>1, <1>7 DEF ConnsStep
    <3> QED
      BY <3>2, <1>5, <1>7 DEF UsersInv
  <2> QED
    BY <2>2, <2>3
<1>8. ASSUME NEW u \in Sn, NEW j \in Key, Twice(conns'[u], j)
      PROVE  <<u, j>> \in misled'
  <2>1. In(conns'[u], j)
    BY <1>8, TwiceIsIn
  <2>2. CASE Twice(conns[u], j)
    BY <2>1, <2>2, <1>5 DEF UsersInv
  <2>3. CASE u = s /\ j = k /\ In(conns[u], j)
    BY <2>1, <2>3, <1>0, <1>5, ListsAgreeIn DEF UsersInv
  <2> QED
    BY <1>1, <1>8, <2>2, <2>3 DEF ConnsStep
<1>9. ListsAgree'
  BY <1>6, <1>7, ListsAgreeIn
<1> QED
  BY <1>2, <1>4, <1>8, <1>9, <1>h DEF UsersInv

LEMMA LoginStep ==
  ASSUME UsersInv, NEW s \in Sn, NEW k \in Reported, Login(s, k)
  PROVE  UsersInv'
BY LoginAgainStep, LoginNewStep DEF Login

LEMMA LogoutStep ==
  ASSUME UsersInv, NEW s \in Sn, NEW k \in Reported, Logout(s, k)
  PROVE  UsersInv'
<1> DEFINE m == IF tree[k] \in {NoUser, s} THEN misled ELSE misled \cup {<<tree[k], k>>}
<1>0. k \in Key /\ tree[k] \in Sn \cup {NoUser} /\ misled' = Listed(m) /\ misled \subseteq m
  BY DEF Logout, UsersInv, UsersTypeOK
<1>1. ConnsStep(NoUser, s, k)
  BY <1>0, RemovedConnsStep DEF UsersInv, Logout
<1>h. /\ owner' \in [Key -> Sn \cup {NoUser}] /\ evicted' \subseteq Key
      /\ served' \in [Client -> Sn \cup {NoUser}] /\ astray' \subseteq Client
      /\ owner'[k] # NoUser => k \in evicted'
      /\ \A j \in Key : j # k => owner'[j] = owner[j] /\ (j \in evicted' <=> j \in evicted)
      /\ \A c \in Client : StillHis(c)'
  <2>1. /\ SessionEnds(s, k) /\ open' = open
        /\ \A j \in Key : j # k => tree'[j] = tree[j]
    BY <1>0 DEF Logout, UsersInv, UsersTypeOK
  <2> QED
    BY <1>0, <2>1, SessionEndsStep DEF UsersInv
<1>2. UsersTypeOK'
  <2>1. m \subseteq Sn \X Key
    BY <1>0 DEF UsersInv, UsersTypeOK
  <2>2. misled' \subseteq Sn \X Key
    BY <1>0, <2>1, ListedIsLess
  <2>3. fate' \in {"running", "use_after_free"}
    BY DEF Logout, RemoveOutcome
  <2>4. tree' \in [Key -> Sn \cup {NoUser}] /\ dropped' \subseteq Key
    BY <1>0 DEF Logout, UsersInv, UsersTypeOK
  <2> QED
    BY <1>1, <1>h, <2>2, <2>3, <2>4 DEF ConnsStep, Logout, UsersInv, UsersTypeOK
<1>3. tree'[k] = NoUser /\ \A j \in Key : j # k => tree'[j] = tree[j]
  BY <1>0 DEF Logout, UsersInv, UsersTypeOK
<1>4. \A j \in Key : Owned(j)'
  BY <1>3, <1>h DEF UsersInv, Owned
<1>5. \A u \in Sn, j \in Key : (<<u, j>> \in m /\ In(conns'[u], j)) => <<u, j>> \in misled'
  BY <1>0, ListedKeeps
<1>6. ASSUME NEW j \in Key, tree'[j] # NoUser, j \notin dropped'
      PROVE  In(conns'[tree'[j]], j)
  <2>1. j # k /\ tree[j] # NoUser /\ j \notin dropped /\ tree[j] \in Sn /\ tree'[j] = tree[j]
    BY <1>3, <1>6 DEF Logout, UsersInv, UsersTypeOK
  <2>2. In(conns[tree[j]], j)
    BY <2>1, ListsAgreeIn DEF UsersInv
  <2> QED
    BY <2>1, <2>2, <1>1 DEF ConnsStep
<1>7. ASSUME NEW u \in Sn, NEW j \in Key, In(conns'[u], j), tree'[j] # u
      PROVE  <<u, j>> \in misled'
  <2>1. In(conns[u], j)
    BY <1>1, <1>7 DEF ConnsStep
  <2>2. CASE tree[j] # u
    BY <2>1, <2>2, <1>0, <1>5, <1>7, ListsAgreeIn DEF UsersInv
  <2>3. CASE tree[j] = u /\ u = s
    <3>1. j = k
      BY <2>3, <1>3, <1>7
    <3>2. Twice(conns[u], j)
      BY <3>1, <2>3, <1>1, <1>7 DEF ConnsStep
    <3> QED
      BY <3>2, <1>0, <1>5, <1>7 DEF UsersInv
  <2>4. CASE tree[j] = u /\ u # s
    <3>1. j = k
      BY <2>4, <1>3, <1>7
    <3>2. <<u, j>> \in m
      BY <3>1, <2>4
    <3> QED
      BY <3>2, <1>5, <1>7
  <2> QED
    BY <2>2, <2>3, <2>4
<1>8. ASSUME NEW u \in Sn, NEW j \in Key, Twice(conns'[u], j)
      PROVE  <<u, j>> \in misled'
  <2>1. In(conns'[u], j)
    BY <1>8, TwiceIsIn
  <2>2. Twice(conns[u], j)
    BY <1>1, <1>8 DEF ConnsStep
  <2> QED
    BY <2>1, <2>2, <1>0, <1>5 DEF UsersInv
<1>9. ListsAgree'
  BY <1>6, <1>7, ListsAgreeIn
<1> QED
  BY <1>2, <1>4, <1>8, <1>9, <1>h DEF UsersInv

LEMMA ParsePolicyStep ==
  ASSUME UsersInv, NEW s \in Sn, NEW action \in Action, ParsePolicy(s, action),
         pending' \subseteq pending
  PROVE  UsersInv'
<1>h. /\ served' \in [Client -> Sn \cup {NoUser}] /\ astray' \subseteq Client
      /\ UNCHANGED <<owner, evicted>>
      /\ \A c \in Client : StillHis(c)'
  <2>1. open' \subseteq open
    BY DEF ParsePolicy, Forbid
  <2> QED
    BY <2>1, StillServedStep DEF ParsePolicy, UsersInv
<1>1. UsersTypeOK'
  <2>1. misled' \subseteq Sn \X Key
    BY ListedIsLess DEF ParsePolicy, UsersInv, UsersTypeOK
  <2>2. conns' \in [Sn -> Seq(Key)] /\ open' \subseteq Client
    <3>1. <<>> \in Seq(Key)
      OBVIOUS
    <3>2. CASE Forbid(s)
      BY <3>1, <3>2 DEF Forbid, UsersInv, UsersTypeOK
    <3>3. CASE UNCHANGED <<conns, open>>
      BY <3>3 DEF UsersInv, UsersTypeOK
    <3> QED
      BY <3>2, <3>3 DEF ParsePolicy
  <2>3. forbidden' \subseteq policy' /\ policy' \subseteq Sn /\ dropped' \subseteq Key
    BY DEF ParsePolicy, UsersInv, UsersTypeOK
  <2> QED
    BY <1>h, <2>1, <2>2, <2>3 DEF ParsePolicy, UsersInv, UsersTypeOK
<1>2. CASE action # "forbid"
  <2>1. /\ UNCHANGED <<tree, conns, dropped>>
        /\ misled' = Listed(misled)
    BY <1>2 DEF ParsePolicy
  <2> QED
    BY <1>1, <1>h, <2>1, SameLists
<1>3. CASE action = "forbid"
  <2>1. /\ tree' = tree
        /\ conns' = [conns EXCEPT ![s] = <<>>]
        /\ dropped' = dropped \cup {k \in Key : tree[k] = s}
        /\ misled' = Listed(misled)
    BY <1>3 DEF ParsePolicy, Forbid
  <2>2. /\ \A k : ~In(conns'[s], k)
        /\ \A u \in Sn : u # s => conns'[u] = conns[u]
    BY <2>1 DEF UsersInv, UsersTypeOK, In
  <2>3. \A k \in Key : Owned(k)'
    BY <1>h, <2>1 DEF UsersInv, Owned
  <2>4. \A u \in Sn, k \in Key : (<<u, k>> \in misled /\ In(conns'[u], k)) => <<u, k>> \in misled'
    BY <2>1, ListedKeeps
  <2>5. ASSUME NEW k \in Key, tree'[k] # NoUser, k \notin dropped'
        PROVE  In(conns'[tree'[k]], k)
    <3>1. tree[k] # s /\ tree[k] \in Sn /\ tree'[k] = tree[k] /\ k \notin dropped
      BY <2>1, <2>5 DEF UsersInv, UsersTypeOK
    <3>2. In(conns[tree[k]], k)
      BY <3>1, ListsAgreeIn DEF UsersInv
    <3> QED
      BY <3>1, <3>2, <2>2
  <2>6. ASSUME NEW u \in Sn, NEW k \in Key, In(conns'[u], k), tree'[k] # u
        PROVE  <<u, k>> \in misled'
    BY <2>1, <2>2, <2>4, <2>6, ListsAgreeIn DEF UsersInv
  <2>7. ASSUME NEW u \in Sn, NEW k \in Key, Twice(conns'[u], k)
        PROVE  <<u, k>> \in misled'
    <3>1. In(conns'[u], k)
      BY <2>7, TwiceIsIn
    <3> QED
      BY <2>2, <2>4, <2>7, <3>1 DEF UsersInv
  <2>8. ListsAgree'
    BY <2>5, <2>6, ListsAgreeIn
  <2> QED
    BY <1>1, <1>h, <2>3, <2>7, <2>8 DEF UsersInv
<1> QED
  BY <1>2, <1>3

LEMMA UsersInitInv == Init => UsersInv
<1> SUFFICES ASSUME Init PROVE UsersInv
  OBVIOUS
<1>1. UsersTypeOK
  BY DEF Init, UsersTypeOK
<1>2. \A k \in Key : Owned(k)
  BY DEF Init, Owned
<1>2a. \A c \in Client : StillHis(c)
  BY DEF Init, StillHis
<1>3. \A s \in Sn, k \in Key : ~In(conns[s], k) /\ ~Twice(conns[s], k)
  BY DEF Init, In, Twice
<1>4. ListsAgree
  BY <1>3, ListsAgreeIn DEF Init
<1> QED
  BY <1>1, <1>2, <1>2a, <1>3, <1>4 DEF UsersInv

LEMMA UsersStep == UsersInv /\ [Next]_vars => UsersInv'
<1> SUFFICES ASSUME UsersInv, [Next]_vars PROVE UsersInv'
  OBVIOUS
<1>0. ASSUME UsersTypeOK', \A c \in Client : StillHis(c)',
             UNCHANGED <<tree, conns, dropped, misled, owner, evicted>>
      PROVE  UsersInv'
  BY <1>0, SameLists
<1>1. ASSUME UsersTypeOK', UNCHANGED <<tree, conns, open, ghostVars>>
      PROVE  UsersInv'
  <2>1. UNCHANGED <<dropped, misled, owner, evicted, served, astray>>
    BY <1>1 DEF ghostVars, historyVars
  <2>2. \A c \in Client : StillHis(c)'
    BY <1>1, <2>1 DEF UsersInv, StillHis
  <2> QED
    BY <1>0, <1>1, <2>1, <2>2
<1>2. CASE UNCHANGED vars
  BY <1>1, <1>2 DEF vars, usersVars, ghostVars, historyVars, UsersInv, UsersTypeOK
<1>3. ASSUME NEW s \in Sn, NEW k \in Reported, Login(s, k) PROVE UsersInv'
  BY <1>3, LoginStep
<1>4. ASSUME NEW s \in Sn, NEW k \in Reported, Logout(s, k) PROVE UsersInv'
  BY <1>4, LogoutStep
<1>5. ASSUME NEW s \in Sn, NEW a \in Action, Answer(s, a) PROVE UsersInv'
  BY <1>5, ParsePolicyStep DEF Answer
<1>6. ASSUME NEW s \in Sn, NEW a \in Action, Push(s, a) PROVE UsersInv'
  BY <1>6, ParsePolicyStep DEF Push
<1>7. CASE LinkLost
  BY <1>1, <1>7 DEF LinkLost, rest, usersVars, ghostVars, historyVars, UsersInv, UsersTypeOK
<1>8. CASE LinkClose
  BY <1>1, <1>8 DEF LinkClose, rest, usersVars, ghostVars, historyVars, UsersInv, UsersTypeOK
<1>9. CASE Alarm
  BY <1>1, <1>9 DEF Alarm, rest, usersVars, ghostVars, historyVars, UsersInv, UsersTypeOK
<1>10. ASSUME NEW ip \in Gateway, GatewayUp(ip) PROVE UsersInv'
  BY <1>1, <1>10 DEF GatewayUp, usersVars, ghostVars, historyVars, UsersInv, UsersTypeOK
<1>11. ASSUME NEW ip \in Gateway, GatewayDown(ip) PROVE UsersInv'
  BY <1>1, <1>11 DEF GatewayDown, usersVars, ghostVars, historyVars, UsersInv, UsersTypeOK
<1>12. ASSUME NEW c \in Client, ClientOpen(c) PROVE UsersInv'
  <2>1. /\ UNCHANGED <<tree, conns, dropped, misled, owner, evicted, astray>>
        /\ open' = open \cup {c} /\ served' = [served EXCEPT ![c] = tree[AddrOf[c].ip]]
    BY <1>12 DEF ClientOpen, OpensUnder, usersVars
  <2>2. AddrOf[c].ip \in Key
    BY DEF Key
  <2>3. UsersTypeOK'
    BY <1>12, <2>1, <2>2 DEF ClientOpen, usersVars, UsersInv, UsersTypeOK
  <2>4. \A d \in Client : StillHis(d)'
    BY <2>1 DEF UsersInv, UsersTypeOK, StillHis
  <2> QED
    BY <1>0, <2>1, <2>3, <2>4
<1>13. ASSUME NEW c \in Client, ClientClose(c) PROVE UsersInv'
  <2>1. /\ UNCHANGED <<tree, conns, dropped, misled>> /\ StillServed
        /\ open' \subseteq open
    BY <1>13 DEF ClientClose, usersVars
  <2>2. /\ served' \in [Client -> Sn \cup {NoUser}] /\ astray' \subseteq Client
        /\ UNCHANGED <<owner, evicted>>
        /\ \A d \in Client : StillHis(d)'
    BY <2>1, StillServedStep DEF UsersInv
  <2>3. UsersTypeOK'
    BY <1>13, <2>1, <2>2 DEF ClientClose, usersVars, UsersInv, UsersTypeOK
  <2> QED
    BY <1>0, <2>1, <2>2, <2>3
<1> QED
  BY <1>2, <1>3, <1>4, <1>5, <1>6, <1>7, <1>8, <1>9, <1>10, <1>11, <1>12, <1>13
  DEF Next

LEMMA UsersAlways == Spec => []UsersInv
BY UsersInitInv, UsersStep, PTL DEF Spec

-----------------------------------------------------------------------------
\* Everything the frontend keeps of users stays of its type; in particular a
\* list never holds but keys, and a forbidden user has a policy.
THEOREM UsersTypeCorrect == Spec => []UsersTypeOK
<1>1. UsersInv => UsersTypeOK
  BY DEF UsersInv
<1> QED
  BY <1>1, UsersAlways, PTL

\* A client is judged by the policy of whoever logged in last where it comes
\* from and has not logged out, or of one whose number begins with that one's
\* (user_entry.c:26), and is never handed from one user to the next (:37-38),
\* unless a logout there named another (:91).
THEOREM RightUserAlways == Spec => []RightUser
<1>1. UsersInv => RightUser
  <2> SUFFICES ASSUME UsersInv, NEW c \in open
               PROVE  /\ Owned(KeyOf(c))
                      /\ (KeyOf(c) \in Ip /\ served[c] # NoUser /\ c \notin astray)
                           => tree[KeyOf(c)] = served[c]
    BY DEF RightUser, Owned
  <2>1. c \in Client /\ KeyOf(c) \in Key
    BY DEF UsersInv, UsersTypeOK, KeyOf, Key
  <2>2. KeyOf(c) \in Ip => KeyOf(c) = AddrOf[c].ip
    BY <2>1 DEF KeyOf
  <2> QED
    BY <2>1, <2>2 DEF UsersInv, StillHis
<1> QED
  BY <1>1, UsersAlways, PTL

\* The tree of addresses and the users' lists agree, but for a user forbidden
\* and for a logout at another's address (url_policy.c, user_entry.c).
THEOREM ListsAlwaysAgree == Spec => []ListsAgree
<1>1. UsersInv => ListsAgree
  BY DEF UsersInv
<1> QED
  BY <1>1, UsersAlways, PTL

\* Forbidding a user closes every connection from an address of his own that
\* his list still has (msg_policy.c:300-303).
THEOREM ForbidAlwaysCloses == Spec => ForbidCloses
<1> DEFINE Closes ==
      \A s \in Sn :
        (s \notin forbidden /\ s \in forbidden') =>
        (\A c \in open' : (KeyOf(c) \in Ip /\ tree[KeyOf(c)] = s) => KeyOf(c) \in dropped)
<1>1. UsersInv /\ [Next]_vars => [Closes]_vars
  <2> SUFFICES ASSUME UsersInv, Next,
                      NEW s \in Sn, s \notin forbidden, s \in forbidden',
                      NEW c \in open', KeyOf(c) \in Ip, tree[KeyOf(c)] = s,
                      KeyOf(c) \notin dropped
               PROVE  FALSE
    OBVIOUS
  <2> DEFINE k == KeyOf(c)
             keys == {conns[s][i] : i \in DOMAIN conns[s]}
  <2>1. ParsePolicy(s, "forbid")
    BY DEF Next, Login, Logout, Answer, Push, ParsePolicy, LinkLost, LinkClose, Alarm,
           GatewayUp, GatewayDown, ClientOpen, ClientClose, rest, usersVars
  <2>2. open' = open \ SamePort(keys)
    BY <2>1 DEF ParsePolicy, Forbid
  <2>3. c \in Client /\ k = AddrOf[c].ip
    BY <2>2 DEF UsersInv, UsersTypeOK, KeyOf
  <2>4. k \in keys
    <3>1. k \in Key /\ tree[k] # NoUser
      BY DEF Key
    <3>2. In(conns[s], k)
      BY <3>1, ListsAgreeIn DEF UsersInv
    <3> QED
      BY <3>2 DEF In
  <2> QED
    BY <2>2, <2>3, <2>4 DEF SamePort
<1> QED
  BY <1>1, UsersAlways, PTL DEF Spec, ForbidCloses
=============================================================================
