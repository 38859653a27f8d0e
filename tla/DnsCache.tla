------------------------------ MODULE DnsCache ------------------------------
(***************************************************************************)
(* dnscache.c: the addresses the backend program has learnt.  An entry is   *)
(* in two lists at once: the queue of all entries in the order they came,   *)
(* and the list of the tree node its name hashes to.  Time is the age of an *)
(* entry, which the code only ever compares with the timeout: it stands     *)
(* still one second after it.                                               *)
(***************************************************************************)
EXTENDS Naturals, Queues

CONSTANTS Name,          \* host names
          Crc, Hash,     \* crc32_short: a name's hash, names may collide
          Addr,          \* addresses
          Unknown,       \* no address
          CacheTimeout   \* dns_cache_timeout, seconds

ASSUME CacheAssumption ==
  /\ Hash \in [Name -> Crc]
  /\ Unknown \notin Addr
  /\ CacheTimeout \in Nat

VARIABLES queue,         \* dnstree_head.queue, the oldest entry first
          nodes,         \* hashes that have a node in dnstree_head.tree
          bucket         \* names in the dnsname_queue of a node

cacheVars == <<queue, nodes, bucket>>

Entry == [name : Name, ip : Addr, age : 0..(CacheTimeout + 1)]

CacheTypeOK ==
  /\ queue \in Seq(Entry)
  /\ nodes \in SUBSET Crc
  /\ bucket \in [Crc -> SUBSET Name]

CacheInit ==
  /\ queue = <<>>
  /\ nodes = {}
  /\ bucket = [h \in Crc |-> {}]

-----------------------------------------------------------------------------
\* dnscache_find: the node of the hash, then the name in its list.
Found(n) == Hash[n] \in nodes /\ n \in bucket[Hash[n]]

Place(n) == CHOOSE i \in DOMAIN queue : queue[i].name = n

\* What peer_create takes from the entry it found: the address, of any age.
Cached(n) == IF Found(n) THEN queue[Place(n)].ip ELSE Unknown

\* Mutant: an entry of the name that is there already stays.
InsertKeepOld(n, ip) ==
  /\ queue' = Append(queue, [name |-> n, ip |-> ip, age |-> 0])
  /\ nodes' = nodes \cup {Hash[n]}
  /\ bucket' = [bucket EXCEPT ![Hash[n]] = @ \cup {n}]

\* dnscache_insert: the node is made when missing; an entry of this name is
\* freed, which takes it out of both lists; the new one goes to both tails.
Insert(n, ip) ==
  /\ queue' = Append(IF Found(n) THEN Without(queue, Place(n)) ELSE queue,
                     [name |-> n, ip |-> ip, age |-> 0])
  /\ nodes' = nodes \cup {Hash[n]}
  /\ bucket' = [bucket EXCEPT ![Hash[n]] = @ \cup {n}]

Stale(e) == e.age > CacheTimeout

\* Where the walk of dnscache_timeout ends: it goes from the NEWEST entry
\* towards the oldest and stops at the first that is not stale.
Kept == CHOOSE k \in 0..Len(queue) :
          /\ k = 0 \/ ~Stale(queue[k])
          /\ \A i \in (k + 1)..Len(queue) : Stale(queue[i])

\* Mutant: the walk starts at the oldest entry.
ExpireOldest ==
  LET k == CHOOSE j \in 0..Len(queue) :
             /\ j = Len(queue) \/ ~Stale(queue[j + 1])
             /\ \A i \in 1..j : Stale(queue[i])
      gone == {queue[i].name : i \in 1..k}
  IN /\ queue' = SubSeq(queue, k + 1, Len(queue))
     /\ bucket' = [h \in Crc |-> bucket[h] \ gone]
     /\ nodes' = {h \in nodes : bucket'[h] # {}}

\* dnscache_timeout with dnscache_del: an entry leaves both lists, a node
\* whose list became empty leaves the tree.
Expire ==
  LET gone == {queue[i].name : i \in (Kept + 1)..Len(queue)} IN
  /\ queue' = SubSeq(queue, 1, Kept)
  /\ bucket' = [h \in Crc |-> bucket[h] \ gone]
  /\ nodes' = {h \in nodes : bucket'[h] # {}}

\* curtime moves on by a second.
GrowOld ==
  /\ queue' = [i \in DOMAIN queue |->
                 [queue[i] EXCEPT !.age = IF @ <= CacheTimeout THEN @ + 1 ELSE @]]
  /\ UNCHANGED <<nodes, bucket>>

CacheNext ==
  \/ \E n \in Name, ip \in Addr : Insert(n, ip)
  \/ Expire
  \/ GrowOld

CacheSpec == CacheInit /\ [][CacheNext]_cacheVars

-----------------------------------------------------------------------------
\* The two indexes agree: a name has one entry; a node exists for exactly the
\* hashes that names in the queue have, and lists exactly those names.  The
\* queue is in the order of age.  An entry that is in one list only would be
\* found after it was freed, or never be freed.
CacheConsistent ==
  /\ \A i, j \in DOMAIN queue : queue[i].name = queue[j].name => i = j
  /\ \A h \in Crc : bucket[h] = {queue[i].name : i \in {k \in DOMAIN queue :
                                                   Hash[queue[k].name] = h}}
  /\ nodes = {h \in Crc : bucket[h] # {}}
  /\ \A i, j \in DOMAIN queue : i <= j => queue[i].age >= queue[j].age

\* What the cache tells peer_create of each name.
Book == INSTANCE NameBook WITH book <- [n \in Name |-> Cached(n)]

\* Whatever comes, the cache is a map from names to what was learnt last; and
\* because the walk starts at the newest entry, expiry empties it or does
\* nothing: an old address is used for as long as new names keep coming.
IsABook == Book!BookSpec
=============================================================================
