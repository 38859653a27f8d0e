-------------------------------- MODULE Jobs --------------------------------
(***************************************************************************)
(* The job list of job.c: "extra" events that one handler leaves for        *)
(* another connection, run by the main loop after the epoll events of the   *)
(* iteration.  The list is a sequence of records; deleting a job only marks *)
(* it (deld), and job_clear removes the marked ones at the end of the loop. *)
(***************************************************************************)
EXTENDS Naturals, Sequences, FiniteSets

Job(C, E) == [conn : C, events : SUBSET E, deld : BOOLEAN]

\* Mutant: deld keeps what malloc found in memory, here an old pointer.
NewJobUnset(evs, c) == [conn |-> c, events |-> evs, deld |-> c]

\* job_new: a fresh job is not marked.
NewJob(evs, c) == [conn |-> c, events |-> evs, deld |-> FALSE]

\* Mutant: the whole list is searched for a job of the connection.
AddConnAnywhere(q, evs, c) ==
  LET S == {i \in 1..Len(q) : q[i].conn = c} IN
  IF S # {}
  THEN LET i == CHOOSE k \in S : TRUE IN
       [q EXCEPT ![i] = NewJob(IF q[i].deld THEN evs ELSE q[i].events \cup evs, c)]
  ELSE Append(q, NewJob(evs, c))

\* Mutant: a marked last job takes the events but stays marked.
AddConnNoRevive(q, evs, c) ==
  LET n == Len(q) IN
  IF n > 0 /\ q[n].conn = c
  THEN [q EXCEPT ![n].events = @ \cup evs]
  ELSE Append(q, NewJob(evs, c))

\* job_addconn looks at the LAST job only: a job of the same connection
\* absorbs the events (a marked one is revived with the new events alone),
\* anything else gets a job of its own at the tail.
AddConn(q, evs, c) ==
  LET n == Len(q) IN
  IF n > 0 /\ q[n].conn = c
  THEN [q EXCEPT ![n] = NewJob(IF q[n].deld THEN evs ELSE q[n].events \cup evs, c)]
  ELSE Append(q, NewJob(evs, c))

\* job_del marks one job.
DelJob(q, i) == [q EXCEPT ![i].deld = TRUE]

\* Mutant: only the first job of the connection is marked.
DelConnFirst(q, c) ==
  [i \in 1..Len(q) |->
     IF q[i].conn = c /\ \A k \in 1..(i - 1) : q[k].conn # c
     THEN [q[i] EXCEPT !.deld = TRUE] ELSE q[i]]

\* job_delconn marks every job of a connection.
DelConn(q, c) ==
  [i \in 1..Len(q) |-> IF q[i].conn = c THEN [q[i] EXCEPT !.deld = TRUE] ELSE q[i]]

\* job_clear really removes the marked jobs; the others keep their order.
Clear(q) ==
  LET kept == {i \in 1..Len(q) : ~q[i].deld}
      place(i) == Cardinality({k \in kept : k < i}) + 1
  IN [n \in 1..Cardinality(kept) |-> q[CHOOSE i \in kept : place(i) = n]]
=============================================================================
