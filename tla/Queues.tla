------------------------------- MODULE Queues --------------------------------
(***************************************************************************)
(* queue.h: the lists of the program, as sequences.                         *)
(***************************************************************************)
EXTENDS Naturals, Sequences

\* queue_remove of the element at i.
Without(q, i) ==
  [k \in 1..(Len(q) - 1) |-> IF k < i THEN q[k] ELSE q[k + 1]]

\* queue_remove of the element at i, then queue_insert_tail of e.
ToTail(q, i, e) == Append(Without(q, i), e)
=============================================================================
